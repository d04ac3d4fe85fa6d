-------------------------------- MODULE Mpm --------------------------------
(***************************************************************************)
(* The Symbian multi-processing module of Apache (server/mpm/symbian): the *)
(* main thread that reads the configuration and runs generation after      *)
(* generation of ap_mpm_run, its worker threads, the accept token they     *)
(* pass around, and the two calls by which another thread stops them,      *)
(* ap_symbian_shutdown and ap_symbian_restart.                             *)
(*                                                                         *)
(* A critical section of state.mutex or of workers.mutex is one action: no *)
(* thread blocks inside one.  The process-wide mpm lock is held by a stop  *)
(* call over several steps, so its holder is a variable (stopper).  Reads  *)
(* and writes the code makes outside every lock (mpm_state, should_exit    *)
(* after accept, the scoreboard) are steps of their own.  Slots are        *)
(* numbered from 1.                                                        *)
(***************************************************************************)
EXTENDS Integers, FiniteSets

CONSTANTS
    ThreadLimit,    \* mpm_thread_limit after check_settings
    StartThreads,   \* threads_to_start
    MinSpare,       \* mpm_min_spare_threads
    MaxSpare,       \* mpm_max_spare_threads
    MaxRequests,    \* mpm_max_requests_per_thread, 0 for no limit
    MaxBacklog,     \* bound: connections waiting to be accepted
    Faults          \* the failures the environment may inject

FaultKinds ==
    {"accept", "listen", "leave", "setup", "create", "resources",
     "config", "wakeup"}

ASSUME SettingsAssumption ==
    /\ ThreadLimit \in Nat \ {0}
    /\ StartThreads \in 1 .. ThreadLimit
    /\ MaxSpare \in 0 .. ThreadLimit - 1
    /\ MinSpare \in 0 .. MaxSpare
    /\ ThreadLimit > 1 => MinSpare > 0
    /\ MaxRequests \in Nat
    /\ MaxBacklog \in Nat \ {0}
    /\ Faults \subseteq FaultKinds

Slots == 1 .. ThreadLimit
SingleThread == ThreadLimit = 1

VARIABLES
    mpmState,         \* mpm_state, what AP_MPMQ_MPM_STATE answers
    theMpm,           \* the_mpm # 0
    stopper,          \* the stop call that holds the mpm lock
    shutdownPending,  \* state.shutdown_pending
    restartPending,   \* state.restart_pending
    nWorkers,         \* state.n_workers
    nActive,          \* state.n_active_workers
    acceptAvailable,  \* workers.accept_available
    shouldExit,       \* workers.should_exit
    mainPc,           \* where the main thread is
    mainSlot,         \* the loop index i of start_threads and server_main_loop
    threads,          \* the slots whose threads[i] is not NULL
    dead,             \* the slots whose scoreboard status is SERVER_DEAD
    wpc,              \* where the worker of each slot is
    served,           \* requests_per_thread of the worker of each slot
    backlog,          \* connections waiting on the listening socket
    ctl               \* the thread of CHttpdServer

stateVars == <<shutdownPending, restartPending, nWorkers, nActive>>
workersVars == <<acceptAvailable, shouldExit>>
mainVars == <<mainPc, mainSlot, threads>>
workerVars == <<wpc, served>>
vars == <<mpmState, theMpm, stopper, stateVars, workersVars, mainVars, dead,
          workerVars, backlog, ctl>>

MainPcs ==
    {"config", "create", "pre_mpm", "spawn", "spawned", "loop", "cond_wait",
     "scan", "join_slot", "start_worker", "join_all", "single", "closing",
     "decide", "destroy_restart", "destroy_exit", "exited"}

WorkerPcs ==
    {"none", "init", "ready", "token", "token_wait", "accept", "accept_failed",
     "accepted", "claim", "handover", "busy", "finish", "dec", "abort",
     "unwound", "exited"}

Ctl == 0   \* the identity of the CHttpdServer thread among the stop callers
NoStopper == [by |-> -1, kind |-> "none", step |-> "none"]
Stoppers ==
    {NoStopper} \cup
    [by : {Ctl} \cup Slots, kind : {"shutdown", "restart"},
     step : {"workers", "wakeup"}]

TypeOK ==
    /\ mpmState \in {"STARTING", "RUNNING", "STOPPING"}
    /\ theMpm \in BOOLEAN
    /\ stopper \in Stoppers
    /\ shutdownPending \in BOOLEAN
    /\ restartPending \in BOOLEAN
    /\ nWorkers \in Int
    /\ nActive \in Int
    /\ acceptAvailable \in BOOLEAN
    /\ shouldExit \in BOOLEAN
    /\ mainPc \in MainPcs
    /\ mainSlot \in 1 .. ThreadLimit + 1
    /\ threads \subseteq Slots
    /\ dead \subseteq Slots
    /\ wpc \in [Slots -> WorkerPcs]
    /\ served \in [Slots -> 0 .. MaxRequests]
    /\ backlog \in 0 .. MaxBacklog
    /\ ctl \in {"polling", "running", "stopping"}

Init ==
    /\ mpmState = "STARTING"
    /\ theMpm = FALSE
    /\ stopper = NoStopper
    /\ shutdownPending = FALSE
    /\ restartPending = FALSE
    /\ nWorkers = 0
    /\ nActive = 0
    /\ acceptAvailable = TRUE
    /\ shouldExit = FALSE
    /\ mainPc = "config"
    /\ mainSlot = 1
    /\ threads = {}
    /\ dead = Slots
    /\ wpc = [i \in Slots |-> "none"]
    /\ served = [i \in Slots |-> 0]
    /\ backlog = 0
    /\ ctl = "polling"

-----------------------------------------------------------------------------
(* Condition variables.  state.cond has one waiter, the main thread;       *)
(* workers.cond has the workers that wait for the accept token.            *)

\* apr_thread_cond_signal(state.cond): where the main thread is afterwards.
SignalMain(pc) == IF pc = "cond_wait" THEN "loop" ELSE pc

TokenWaiters(w) == {i \in Slots : w[i] = "token_wait"}

\* Wrong: a woken waiter takes the token without looking at it again.
SignalWorkersNoRecheck(w) ==
    IF TokenWaiters(w) = {} THEN {w}
    ELSE {[w EXCEPT ![i] = "accept"] : i \in TokenWaiters(w)}

\* apr_thread_cond_signal(workers.cond), w being the workers' places: the
\* possible places afterwards, one waiter woken if there is one.
SignalWorkers(w) ==
    IF TokenWaiters(w) = {} THEN {w}
    ELSE {[w EXCEPT ![i] = "token"] : i \in TokenWaiters(w)}

\* Wrong: should_exit is set but the waiting workers are not woken.
BroadcastNobody(w) == w

\* apr_thread_cond_broadcast(workers.cond)
BroadcastWorkers(w) ==
    [i \in Slots |-> IF w[i] = "token_wait" THEN "token" ELSE w[i]]

Spare(n, a) == n - a

\* worker_should_be_started
WorkerShouldBeStarted ==
    Spare(nWorkers, nActive) < MinSpare /\ nWorkers < ThreadLimit

\* adjust_workers: whether the worker is to exit, and whether the main
\* thread is woken to consider another worker.
TooManySpare(n, a) == Spare(n, a) > MaxSpare
\* Wrong: the last thread below the limit is never asked for.
TooFewSpareOffByOne(n, a) == Spare(n, a) < MinSpare /\ n < ThreadLimit - 1
TooFewSpare(n, a) == Spare(n, a) < MinSpare /\ n < ThreadLimit
AdjustWorkers(n, a, pc) ==
    IF ~TooManySpare(n, a) /\ TooFewSpare(n, a) THEN SignalMain(pc) ELSE pc

\* The accept token is put back and a waiter, if any, woken; worker i moves on.
GiveTokenUnsignalled(i, pc) ==   \* Wrong: nobody is woken.
    /\ acceptAvailable' = TRUE
    /\ wpc' = [wpc EXCEPT ![i] = pc]
GiveToken(i, pc) ==
    /\ acceptAvailable' = TRUE
    /\ wpc' \in SignalWorkers([wpc EXCEPT ![i] = pc])

\* What apr_thread_join waits for: the thread has come to its end.
JoinableAtOnce(i) == TRUE   \* Wrong: the join does not wait.
Joinable(i) == wpc[i] \in {"exited", "unwound"}

MpmLockFree == stopper = NoStopper

-----------------------------------------------------------------------------
(* The main thread: apache_main's loop, ap_mpm_run, mpm_main.              *)

\* The configuration is read anew for every generation; an error exits.
ReadConfig ==
    /\ mainPc = "config"
    /\ \/ /\ mainPc' = "create"
          /\ mpmState' = "STARTING"
       \/ /\ "config" \in Faults
          /\ mainPc' = "exited"
          /\ mpmState' \in {mpmState, "STARTING"}
    /\ UNCHANGED <<theMpm, stopper, stateVars, workersVars, mainSlot, threads,
                   dead, workerVars, backlog, ctl>>

\* ap_mpm_run creates the mpm and publishes it under the mpm lock.
CreateMpm ==
    /\ mainPc = "create"
    /\ MpmLockFree
    /\ \/ /\ theMpm' = TRUE
          /\ shutdownPending' = FALSE
          /\ restartPending' = FALSE
          /\ nWorkers' = 0
          /\ nActive' = 0
          /\ acceptAvailable' = TRUE
          /\ shouldExit' = FALSE
          /\ mainPc' = "pre_mpm"
       \/ /\ "resources" \in Faults
          /\ mainPc' = "exited"
          /\ UNCHANGED <<theMpm, stateVars, workersVars>>
    /\ UNCHANGED <<mpmState, stopper, mainSlot, threads, dead, workerVars,
                   backlog, ctl>>

\* ap_run_pre_mpm gives the generation a cleared scoreboard, except after a
\* graceful restart; mpm_main then chooses between one thread and several.
\* Pools and arrays may be refused.
EnterMain ==
    /\ mainPc = "pre_mpm"
    /\ dead' \in {Slots, dead}
    /\ mainSlot' = 1
    /\ \/ /\ mainPc' = "spawn"
          /\ UNCHANGED shutdownPending
       \/ /\ "resources" \in Faults
          /\ mainPc' = "closing"
          /\ shutdownPending' = TRUE
       \/ /\ "resources" \in Faults
          /\ mainPc' = "destroy_exit"
          /\ UNCHANGED shutdownPending
    /\ UNCHANGED <<mpmState, theMpm, stopper, restartPending, nWorkers, nActive,
                   workersVars, threads, workerVars, backlog, ctl>>

\* A thread now runs the worker of slot i.
BeginWorker(i) ==
    /\ wpc' = [wpc EXCEPT ![i] = "init"]
    /\ served' = [served EXCEPT ![i] = 0]

\* mpm_st_main: the main thread itself is the one worker, counted nowhere.
RunSingle ==
    /\ SingleThread
    /\ mainPc = "spawn"
    /\ mpmState' = "RUNNING"
    /\ mainPc' = "single"
    /\ BeginWorker(1)
    /\ dead' = dead \ {1}
    /\ UNCHANGED <<theMpm, stopper, stateVars, workersVars, mainSlot, threads,
                   backlog, ctl>>

SingleReturns ==
    /\ mainPc = "single"
    /\ wpc[1] = "exited"
    /\ wpc' = [wpc EXCEPT ![1] = "none"]
    /\ mainPc' = "closing"
    /\ UNCHANGED <<mpmState, theMpm, stopper, stateVars, workersVars, mainSlot,
                   threads, dead, served, backlog, ctl>>

\* worker_start under state.mutex: the count goes up before the thread exists.
WorkerStart(i) ==
    /\ threads' = threads \cup {i}
    /\ dead' = dead \ {i}
    /\ nWorkers' = nWorkers + 1
    /\ BeginWorker(i)

\* Wrong: the count is not taken back.
WorkerStartFailsCounted(i) ==
    /\ "create" \in Faults
    /\ threads' = threads \ {i}
    /\ dead' \in {dead, dead \cup {i}}
    /\ nWorkers' = nWorkers + 1
    /\ UNCHANGED workerVars

\* worker_start failed, with or without having touched the scoreboard.
WorkerStartFails(i) ==
    /\ "create" \in Faults
    /\ threads' = threads \ {i}
    /\ dead' \in {dead, dead \cup {i}}
    /\ UNCHANGED <<nWorkers, workerVars>>

\* Whether the loop of start_threads ends with slot i.
LastToStart(i) == i = StartThreads \/ i = ThreadLimit

\* One turn of start_threads; the first failure ends it.
StartThread ==
    /\ ~SingleThread
    /\ mainPc = "spawn"
    /\ \/ /\ WorkerStart(mainSlot)
          /\ mainSlot' = mainSlot + 1
          /\ mainPc' = IF LastToStart(mainSlot) THEN "spawned" ELSE "spawn"
          /\ UNCHANGED shutdownPending
       \/ /\ WorkerStartFails(mainSlot)
          /\ UNCHANGED mainSlot
          /\ mainPc' = IF mainSlot = 1 THEN "closing" ELSE "spawned"
          /\ shutdownPending' = (shutdownPending \/ mainSlot = 1)
    /\ UNCHANGED <<mpmState, theMpm, stopper, restartPending, nActive,
                   workersVars, backlog, ctl>>

\* mpm_mt_main declares itself running, outside every lock.
DeclareRunning ==
    /\ mainPc = "spawned"
    /\ mpmState' = "RUNNING"
    /\ mainPc' = "loop"
    /\ UNCHANGED <<theMpm, stopper, stateVars, workersVars, mainSlot, threads,
                   dead, workerVars, backlog, ctl>>

\* The locked part of server_main_loop.
MainLoop ==
    /\ mainPc = "loop"
    /\ mainPc' = IF restartPending \/ shutdownPending THEN "join_all"
                 ELSE IF WorkerShouldBeStarted THEN "scan" ELSE "cond_wait"
    /\ mainSlot' = 1
    /\ UNCHANGED <<mpmState, theMpm, stopper, stateVars, workersVars, threads,
                   dead, workerVars, backlog, ctl>>

\* One turn of the search for a slot: it is free, or its thread is dead and
\* must be joined, or the next one is tried.
ScanSlot ==
    /\ mainPc = "scan"
    /\ \/ /\ mainSlot \notin threads
          /\ mainPc' = "start_worker"
          /\ UNCHANGED mainSlot
       \/ /\ mainSlot \in threads \cap dead
          /\ mainPc' = "join_slot"
          /\ UNCHANGED mainSlot
       \/ /\ mainSlot \in threads \ dead
          /\ mainPc' = IF mainSlot = ThreadLimit THEN "loop" ELSE "scan"
          /\ mainSlot' = mainSlot + 1
    /\ UNCHANGED <<mpmState, theMpm, stopper, stateVars, workersVars, threads,
                   dead, workerVars, backlog, ctl>>

\* Wrong: the old thread of the slot is not joined.
JoinSlotSkipped ==
    /\ mainPc = "join_slot"
    /\ mainPc' = "start_worker"
    /\ UNCHANGED <<mpmState, theMpm, stopper, stateVars, workersVars, mainSlot,
                   threads, dead, workerVars, backlog, ctl>>

\* apr_thread_join of a thread that is dead or about to be.
JoinSlot ==
    /\ mainPc = "join_slot"
    /\ Joinable(mainSlot)
    /\ wpc' = [wpc EXCEPT ![mainSlot] = "none"]
    /\ threads' = threads \ {mainSlot}
    /\ mainPc' = "start_worker"
    /\ UNCHANGED <<mpmState, theMpm, stopper, stateVars, workersVars, mainSlot,
                   dead, served, backlog, ctl>>

\* The worker of the slot found is started; if that fails the loop tries again.
StartSpare ==
    /\ mainPc = "start_worker"
    /\ WorkerStart(mainSlot) \/ WorkerStartFails(mainSlot)
    /\ mainPc' = "loop"
    /\ UNCHANGED <<mpmState, theMpm, stopper, shutdownPending, restartPending,
                   nActive, workersVars, mainSlot, backlog, ctl>>

\* join_threads returns once every thread ever created has exited.
JoinThreads ==
    /\ mainPc = "join_all"
    /\ \A i \in threads : Joinable(i)
    /\ wpc' = [i \in Slots |-> "none"]
    /\ threads' = {}
    /\ mainPc' = "closing"
    /\ UNCHANGED <<mpmState, theMpm, stopper, stateVars, workersVars, mainSlot,
                   dead, served, backlog, ctl>>

\* Wrong: the stops are taken back before ap_mpm_run has looked at them.
LeaveMainForgetful ==
    /\ mainPc = "closing"
    /\ mpmState' = "STOPPING"
    /\ mainPc' = "decide"
    /\ shutdownPending' = FALSE
    /\ restartPending' = FALSE
    /\ UNCHANGED <<theMpm, stopper, nWorkers, nActive, workersVars, mainSlot,
                   threads, dead, workerVars, backlog, ctl>>

\* The end of mpm_main, outside every lock.
LeaveMain ==
    /\ mainPc = "closing"
    /\ mpmState' = "STOPPING"
    /\ mainPc' = "decide"
    /\ UNCHANGED <<theMpm, stopper, stateVars, workersVars, mainSlot, threads,
                   dead, workerVars, backlog, ctl>>

\* Wrong: a restart that is pending too wins.
DecideForRestart ==
    /\ mainPc = "decide"
    /\ mainPc' = IF restartPending THEN "destroy_restart" ELSE "destroy_exit"
    /\ UNCHANGED <<mpmState, theMpm, stopper, stateVars, workersVars, mainSlot,
                   threads, dead, workerVars, backlog, ctl>>

\* ap_mpm_run reads shutdown_pending, outside every lock, for its result.
Decide ==
    /\ mainPc = "decide"
    /\ mainPc' = IF shutdownPending THEN "destroy_exit" ELSE "destroy_restart"
    /\ UNCHANGED <<mpmState, theMpm, stopper, stateVars, workersVars, mainSlot,
                   threads, dead, workerVars, backlog, ctl>>

\* Wrong: the mpm lock is not taken.
DestroyUnlocked ==
    /\ mainPc \in {"destroy_restart", "destroy_exit"}
    /\ theMpm' = FALSE
    /\ mainPc' = IF mainPc = "destroy_restart" THEN "config" ELSE "exited"
    /\ UNCHANGED <<mpmState, stopper, stateVars, workersVars, mainSlot, threads,
                   dead, workerVars, backlog, ctl>>

\* The mpm is withdrawn and destroyed under the mpm lock.
DestroyMpm ==
    /\ mainPc \in {"destroy_restart", "destroy_exit"}
    /\ MpmLockFree
    /\ theMpm' = FALSE
    /\ mainPc' = IF mainPc = "destroy_restart" THEN "config" ELSE "exited"
    /\ UNCHANGED <<mpmState, stopper, stateVars, workersVars, mainSlot, threads,
                   dead, workerVars, backlog, ctl>>

MainStep ==
    \/ ReadConfig \/ CreateMpm \/ EnterMain \/ RunSingle \/ SingleReturns
    \/ StartThread \/ DeclareRunning \/ MainLoop \/ ScanSlot \/ JoinSlot
    \/ StartSpare \/ JoinThreads \/ LeaveMain \/ Decide \/ DestroyMpm

-----------------------------------------------------------------------------
(* A worker: worker_thread, worker_main, worker_loop.                      *)

\* What every step of a worker other than its end leaves alone.
WorkerFrame ==
    UNCHANGED <<mpmState, theMpm, stopper, shutdownPending, restartPending,
                mainSlot, threads, ctl>>

MoveTo(i, pc) == wpc' = [wpc EXCEPT ![i] = pc]

\* worker_main sets itself up; a refused pool or pollset skips the loop.
SetUp(i) ==
    /\ wpc[i] = "init"
    /\ MoveTo(i, "ready") \/ ("setup" \in Faults /\ MoveTo(i, "finish"))
    /\ WorkerFrame
    /\ UNCHANGED <<nWorkers, nActive, workersVars, mainPc, dead, served, backlog>>

\* A leave unwinds the worker's thread: its trap shuts Apache down.  The single
\* thread has no trap below apache_main, so there the leave ends ap_mpm_run
\* with the_mpm still pointing at its frame.
Leave(i) ==
    /\ "leave" \in Faults
    /\ wpc[i] \in {"init", "busy"}
    /\ MoveTo(i, IF SingleThread THEN "unwound" ELSE "abort")
    /\ mainPc' = IF SingleThread THEN "exited" ELSE mainPc
    /\ WorkerFrame
    /\ UNCHANGED <<nWorkers, nActive, workersVars, dead, served, backlog>>

\* The top of worker_loop: has this thread had its share of rounds?
LoopTop(i) ==
    /\ wpc[i] = "ready"
    /\ IF MaxRequests > 0 /\ served[i] = MaxRequests
       THEN MoveTo(i, "finish") /\ UNCHANGED served
       ELSE /\ MoveTo(i, "token")
            /\ served' = [served EXCEPT ![i] = IF MaxRequests > 0 THEN @ + 1 ELSE 0]
    /\ WorkerFrame
    /\ UNCHANGED <<nWorkers, nActive, workersVars, mainPc, dead, backlog>>

\* The worker asks for the accept token; told to exit, it passes that on.
AskForToken(i) ==
    /\ wpc[i] = "token"
    /\ \/ /\ shouldExit
          /\ wpc' \in SignalWorkers([wpc EXCEPT ![i] = "finish"])
          /\ UNCHANGED acceptAvailable
       \/ /\ ~shouldExit
          /\ acceptAvailable
          /\ acceptAvailable' = FALSE
          /\ MoveTo(i, "accept")
       \/ /\ ~shouldExit
          /\ ~acceptAvailable
          /\ MoveTo(i, "token_wait")
          /\ UNCHANGED acceptAvailable
    /\ WorkerFrame
    /\ UNCHANGED <<shouldExit, nWorkers, nActive, mainPc, dead, served, backlog>>

\* get_listener fails: the token goes back and the worker ends.
ListenFails(i) ==
    /\ "listen" \in Faults
    /\ wpc[i] = "accept"
    /\ GiveToken(i, "finish")
    /\ WorkerFrame
    /\ UNCHANGED <<shouldExit, nWorkers, nActive, mainPc, dead, served, backlog>>

\* The blocking accept returns a connection.
Accept(i) ==
    /\ wpc[i] = "accept"
    /\ backlog > 0
    /\ backlog' = backlog - 1
    /\ MoveTo(i, "accepted")
    /\ WorkerFrame
    /\ UNCHANGED <<nWorkers, nActive, workersVars, mainPc, dead, served>>

\* The blocking accept fails, which is fatal.
AcceptFails(i) ==
    /\ "accept" \in Faults
    /\ wpc[i] = "accept"
    /\ MoveTo(i, "accept_failed")
    /\ WorkerFrame
    /\ UNCHANGED <<nWorkers, nActive, workersVars, mainPc, dead, served, backlog>>

\* The unlocked look at should_exit: a worker that exits keeps the token.
CheckExit(i) ==
    /\ wpc[i] = "accepted"
    /\ MoveTo(i, IF shouldExit THEN "finish" ELSE "claim")
    /\ WorkerFrame
    /\ UNCHANGED <<nWorkers, nActive, workersVars, mainPc, dead, served, backlog>>

\* The worker counts itself active; do_exit is not looked at here.
Claim(i) ==
    /\ wpc[i] = "claim"
    /\ nActive' = nActive + 1
    /\ mainPc' = AdjustWorkers(nWorkers, nActive', mainPc)
    /\ MoveTo(i, "handover")
    /\ WorkerFrame
    /\ UNCHANGED <<nWorkers, workersVars, dead, served, backlog>>

\* The token is given back before the connection is processed.
HandOver(i) ==
    /\ wpc[i] = "handover"
    /\ GiveToken(i, "busy")
    /\ WorkerFrame
    /\ UNCHANGED <<shouldExit, nWorkers, nActive, mainPc, dead, served, backlog>>

\* The connection is done.  The spare threads are judged before the worker
\* takes itself off the active ones.
FinishRequest(i) ==
    /\ wpc[i] = "busy"
    /\ mainPc' = AdjustWorkers(nWorkers, nActive, mainPc)
    /\ nActive' = nActive - 1
    /\ MoveTo(i, IF TooManySpare(nWorkers, nActive) THEN "finish" ELSE "ready")
    /\ WorkerFrame
    /\ UNCHANGED <<nWorkers, workersVars, dead, served, backlog>>

\* worker_main's end: the slot is declared dead on the scoreboard...
DeclareDead(i) ==
    /\ wpc[i] = "finish"
    /\ dead' = dead \cup {i}
    /\ MoveTo(i, "dec")
    /\ WorkerFrame
    /\ UNCHANGED <<nWorkers, nActive, workersVars, mainPc, served, backlog>>

\* ...and then, under state.mutex, no longer counted.
Uncount(i) ==
    /\ wpc[i] = "dec"
    /\ nWorkers' = nWorkers - 1
    /\ mainPc' = SignalMain(mainPc)
    /\ MoveTo(i, "exited")
    /\ WorkerFrame
    /\ UNCHANGED <<nActive, workersVars, dead, served, backlog>>

WorkerStep(i) ==
    \/ SetUp(i) \/ LoopTop(i) \/ AskForToken(i) \/ Accept(i) \/ CheckExit(i)
    \/ Claim(i) \/ HandOver(i) \/ FinishRequest(i) \/ DeclareDead(i)
    \/ Uncount(i)

-----------------------------------------------------------------------------
(* ap_symbian_shutdown and ap_symbian_restart.                             *)

StopFrame ==
    UNCHANGED <<theMpm, nWorkers, nActive, acceptAvailable, mainSlot, threads,
                dead, served>>

\* Where the caller is once its call has returned.
Returns(who, kind) ==
    /\ ctl' = IF who # Ctl THEN ctl
              ELSE IF kind = "shutdown" THEN "stopping" ELSE "polling"
    /\ wpc' = IF who = Ctl THEN wpc
              ELSE [wpc EXCEPT ![who] =
                        IF wpc[who] = "accept_failed" THEN "finish" ELSE "unwound"]

Pending(kind) == IF kind = "shutdown" THEN shutdownPending ELSE restartPending

\* Wrong: what AP_MPMQ_MPM_STATE answers is left to the main thread.
RequestStopUnmarked(kind) ==
    /\ UNCHANGED mpmState
    /\ shutdownPending' = (shutdownPending \/ kind = "shutdown")
    /\ restartPending' = (restartPending \/ kind = "restart")

\* The state says stopping at once, whether or not the stop was pending.
RequestStop(kind) ==
    /\ mpmState' = "STOPPING"
    /\ shutdownPending' = (shutdownPending \/ kind = "shutdown")
    /\ restartPending' = (restartPending \/ kind = "restart")

\* The call as far as the state's critical section.  Without an mpm it is
\* ignored, and it goes no further when such a stop is pending already.
CallStop(who, kind) ==
    /\ MpmLockFree
    /\ \/ /\ ~theMpm
          /\ Returns(who, kind)
          /\ UNCHANGED <<mpmState, stopper, shutdownPending, restartPending, mainPc>>
       \/ /\ theMpm
          /\ Pending(kind)
          /\ RequestStop(kind)
          /\ Returns(who, kind)
          /\ UNCHANGED <<stopper, mainPc>>
       \/ /\ theMpm
          /\ ~Pending(kind)
          /\ RequestStop(kind)
          /\ mainPc' = SignalMain(mainPc)
          /\ stopper' = [by |-> who, kind |-> kind, step |-> "workers"]
          /\ UNCHANGED <<wpc, ctl>>
    /\ StopFrame
    /\ UNCHANGED <<shouldExit, backlog>>

\* The workers that wait for the token are told to exit.
StopWorkers ==
    /\ stopper.step = "workers"
    /\ shouldExit' = TRUE
    /\ wpc' = BroadcastWorkers(wpc)
    /\ stopper' = [stopper EXCEPT !.step = "wakeup"]
    /\ StopFrame
    /\ UNCHANGED <<mpmState, shutdownPending, restartPending, mainPc, backlog, ctl>>

\* Wrong: nothing connects, so the accepting worker sleeps on.
NoWakeup ==
    /\ stopper.step = "wakeup"
    /\ stopper' = NoStopper
    /\ Returns(stopper.by, stopper.kind)
    /\ StopFrame
    /\ UNCHANGED <<mpmState, shutdownPending, restartPending, shouldExit, mainPc,
                   backlog>>

\* worker_wakeup connects to the server's own port for the accepting worker;
\* when it cannot, that is only logged.  Then the mpm lock is released.
StopWakeup ==
    /\ stopper.step = "wakeup"
    /\ \/ backlog' = IF backlog < MaxBacklog THEN backlog + 1 ELSE backlog
       \/ "wakeup" \in Faults /\ UNCHANGED backlog
    /\ stopper' = NoStopper
    /\ Returns(stopper.by, stopper.kind)
    /\ StopFrame
    /\ UNCHANGED <<mpmState, shutdownPending, restartPending, shouldExit, mainPc>>

\* A worker whose accept failed, or that was unwound by a leave, shuts down.
WorkerShutdown(i) ==
    /\ wpc[i] \in {"accept_failed", "abort"}
    /\ stopper.by # i
    /\ CallStop(i, "shutdown")

-----------------------------------------------------------------------------
(* The thread of CHttpdServer, as far as it touches the mpm: the poller     *)
(* that looks for AP_MPMQ_RUNNING, and StopHttpd and RestartHttpd, which    *)
(* call into the mpm only in the running state; and the web clients.        *)

Calling == stopper.by = Ctl

Poll ==
    /\ ctl = "polling"
    /\ ~Calling
    /\ mpmState = "RUNNING"
    /\ ctl' = "running"
    /\ UNCHANGED <<mpmState, theMpm, stopper, stateVars, workersVars, mainVars,
                   dead, workerVars, backlog>>

StopHttpd ==
    /\ ctl = "running"
    /\ ~Calling
    /\ CallStop(Ctl, "shutdown")

RestartHttpd ==
    /\ ctl = "running"
    /\ ~Calling
    /\ CallStop(Ctl, "restart")

Connect ==
    /\ mainPc # "exited"
    /\ backlog < MaxBacklog
    /\ backlog' = backlog + 1
    /\ UNCHANGED <<mpmState, theMpm, stopper, stateVars, workersVars, mainVars,
                   dead, workerVars, ctl>>

\* Apache has returned to HttpdMain: nothing is left to do.
Exited ==
    /\ mainPc = "exited"
    /\ UNCHANGED vars

WorkerFault(i) == Leave(i) \/ ListenFails(i) \/ AcceptFails(i)

Next ==
    \/ MainStep
    \/ \E i \in Slots : WorkerStep(i) \/ WorkerFault(i) \/ WorkerShutdown(i)
    \/ StopWorkers \/ StopWakeup
    \/ Poll \/ StopHttpd \/ RestartHttpd \/ Connect \/ Exited

Spec == Init /\ [][Next]_vars

\* Every thread runs: the main thread, the workers (a request is processed in
\* finite time), a stop call once it holds the lock, the poller's timer.  Web
\* clients and the clients of the server may do nothing for ever.
Fairness ==
    /\ WF_vars(MainStep)
    /\ \A i \in Slots : WF_vars(WorkerStep(i)) /\ WF_vars(WorkerShutdown(i))
    /\ WF_vars(StopWorkers \/ StopWakeup)
    /\ WF_vars(Poll)

FairSpec == Spec /\ Fairness

-----------------------------------------------------------------------------
(* Properties.                                                             *)

TokenHolders ==
    {i \in Slots : wpc[i] \in {"accept", "accept_failed", "accepted", "claim",
                              "handover"}}

\* Workers whose thread has not come to its end.
Alive == {i \in Slots : wpc[i] \notin {"none", "exited", "unwound"}}

\* At most one worker is between taking the accept token and giving it back,
\* and none is while workers.accept_available says it can be taken.
TokenExclusive ==
    /\ \A i, j \in TokenHolders : i = j
    /\ acceptAvailable => TokenHolders = {}

\* The main thread never sleeps on state.cond while a stop is pending or a
\* worker should be started: no signal the workers or a stop call owe is lost.
NoLostWakeup ==
    mainPc = "cond_wait" =>
        ~shutdownPending /\ ~restartPending /\ ~WorkerShouldBeStarted

\* A worker waits for the accept token only while another has it or is about to
\* ask for it, and never once the workers have been told to exit.
NoLostToken ==
    \A i \in TokenWaiters(wpc) :
        /\ ~shouldExit
        /\ IF acceptAvailable THEN \E j \in Slots : wpc[j] = "token"
                              ELSE TokenHolders # {}

\* A search for a slot succeeds: while worker_should_be_started has said there
\* is room, a slot from the current one on is free or its thread dead.
SlotFound ==
    mainPc = "scan" =>
        \E i \in mainSlot .. ThreadLimit : i \notin threads \/ i \in dead

\* No thread uses the mpm outside its life: while a worker runs or a stop call
\* is under way, the_mpm points to the mpm of an ap_mpm_run still in progress.
MpmAlive ==
    (Alive # {} \/ stopper # NoStopper) =>
        theMpm /\ mainPc \notin {"config", "create", "exited"}

\* A slot is never given a new worker while its old thread still runs.
NoSlotReuse ==
    mainPc \in {"spawn", "start_worker"} => wpc[mainSlot] = "none"

\* What the search that runs outside state.mutex relies on and must not break.
SlotsSound == SlotFound /\ NoSlotReuse

\* While several threads serve, state.n_workers is the number of threads that
\* worker_start created and that have not uncounted themselves, and
\* state.n_active_workers counts every worker that processes a connection,
\* more only by workers a leave has unwound.
CountsExact ==
    (~SingleThread /\ mainPc \in {"spawn", "spawned", "loop", "cond_wait", "scan",
                                  "join_slot", "start_worker", "join_all"}) =>
        LET Active == {i \in Slots : wpc[i] \in {"handover", "busy"}}
            Unwinding == {i \in Slots : wpc[i] \in {"abort", "unwound"}}
        IN  /\ nWorkers = Cardinality({i \in Slots : wpc[i] \notin {"none", "exited"}})
            /\ nActive \in Cardinality(Active) .. Cardinality(Active \cup Unwinding)

\* RestartHttpd is not mistaken for done: the poller reports the server running
\* only when no restart of the present generation is pending.
RunningIsCurrent ==
    ctl = "running" /\ ~Calling => ~(theMpm /\ restartPending)

\* What CHttpdServer has asked for is not forgotten.  A shutdown stays pending
\* until Apache has exited, and the generation in which it was passed on is the
\* last; while a start or restart is awaited, the generation that will run is on
\* its way up, or running, or the present one is about to end.
ShutdownKept ==
    ctl = "stopping" =>
        \/ mainPc = "exited"
        \/ shutdownPending /\ mainPc \notin {"config", "create", "destroy_restart"}

StartKept ==
    ctl = "polling" =>
        \/ mainPc \in {"config", "create", "pre_mpm", "spawn", "spawned",
                       "destroy_exit", "exited"}
        \/ mpmState = "RUNNING"
        \/ restartPending \/ shutdownPending

CallsKept == ShutdownKept /\ StartKept

\* A stop reaches the workers.  Once it is pending they have been told to exit or
\* the stop call is about to tell them; and one that sleeps in accept when they
\* have been told has a connection to wake for, or the call is about to make one,
\* unless that connection may fail.
WorkersTold ==
    (shutdownPending \/ restartPending) /\ Alive # {} =>
        shouldExit \/ stopper.step = "workers"

AccepterWoken ==
    "wakeup" \notin Faults /\ shouldExit /\ (\E i \in Slots : wpc[i] = "accept") =>
        backlog > 0 \/ stopper.step = "wakeup"

StopReaches == WorkersTold /\ AccepterWoken

\* The threads that have something to do and are not waiting for another.
WorkerCanMove(i) ==
    \/ wpc[i] \in {"init", "ready", "token", "accepted", "claim", "handover", "busy",
                  "finish", "dec"}
    \/ wpc[i] = "accept" /\ backlog > 0
    \/ wpc[i] \in {"accept_failed", "abort"} /\ MpmLockFree

MainCanMove ==
    /\ mainPc \notin {"cond_wait", "exited"}
    /\ mainPc \in {"create", "destroy_restart", "destroy_exit"} => MpmLockFree
    /\ mainPc = "single" => wpc[1] = "exited"
    /\ mainPc = "join_slot" => Joinable(mainSlot)
    /\ mainPc = "join_all" => \A i \in threads : Joinable(i)

CanMove == stopper # NoStopper \/ MainCanMove \/ \E i \in Slots : WorkerCanMove(i)

\* Apache comes to rest only when it is over, or with a worker that waits for a
\* connection while there is none and no stop is pending: no other wait, for the
\* token, for a signal, for a lock or for a thread to join, is ever a wait of
\* everyone for everyone.
NeverStuck ==
    \/ CanMove
    \/ mainPc = "exited"
    \/ /\ \E i \in Slots : wpc[i] = "accept" /\ backlog = 0
       /\ (shutdownPending \/ restartPending) => "wakeup" \in Faults

\* A StopServer that CHttpdServer has passed on ends Apache.
StopHonoured == ctl = "stopping" ~> mainPc = "exited"

\* A RestartServer leads to a running server again, or to Apache's exit.
RestartHonoured == ctl = "polling" ~> (ctl = "running" \/ mainPc = "exited")

\* A waiting connection is accepted unless the server is told to stop: the
\* accept token and the idle workers never get lost.
ConnectionsAccepted ==
    backlog > 0 ~> \/ \E i \in Slots : wpc[i] = "accepted"
                   \/ restartPending \/ shutdownPending
                   \/ mainPc = "exited"
=============================================================================
