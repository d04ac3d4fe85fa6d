---------------------------- MODULE HttpdServer ----------------------------
(***************************************************************************)
(* The Symbian server (symbian/httpds) in whose process Apache runs: the   *)
(* state it keeps of Apache, its sessions with their asynchronous state    *)
(* requests, the poller that waits for Apache to run, the waiter that sees *)
(* its thread end, and the ends of the process.  Apache itself is the      *)
(* abstract thread of module Apache, which Mpm implements.                 *)
(*                                                                         *)
(* One active scheduler runs every handler of the server, so a handler is  *)
(* one action.  Clients are those of RHttpd: they may make any call at any *)
(* time, but have one state request outstanding at most.  A client that    *)
(* connects while there is no server starts one.                           *)
(***************************************************************************)
EXTENDS Apache

CONSTANTS
    Clients,   \* the processes that use RHttpd
    Faults     \* the failures the environment may inject

FaultKinds == {"settings", "create", "logon", "accept", "panic", "config"}

ASSUME FaultsAssumption == Faults \subseteq FaultKinds

VARIABLES
    alive,        \* the server process exists and its scheduler runs
    state,        \* iState; once the process is gone, its last value
    shouldExit,   \* iShouldExit
    poller,       \* ipPoller->IsActive()
    watched,      \* a CThreadWaiter waits on the main thread of Apache
    thread,       \* iThread: the main thread of Apache
    handle,       \* of each client: its RHttpd handle
    req,          \* of each client: its asynchronous GetState request
    data          \* of each session: iStateRequest.iData

processVars == <<alive, state, shouldExit, poller, watched, thread>>
sessionVars == <<handle, req, data>>
vars == <<apacheVars, processVars, sessionVars>>

States ==
    {"NotStarted", "Starting", "Running", "Restarting", "Stopping", "Stopped",
     "Terminated"}

\* Of the type, and nothing but a thread is waited for.
TypeOK ==
    /\ ApacheTypeOK
    /\ alive \in BOOLEAN
    /\ state \in States
    /\ shouldExit \in BOOLEAN
    /\ poller \in BOOLEAN
    /\ watched \in BOOLEAN
    /\ thread \in {"none", "runs", "paniced"}
    /\ watched => thread # "none"
    /\ handle \in [Clients -> {"none", "live", "dead"}]
    /\ req \in [Clients -> {"idle", "pending", "answered", "terminated"}]
    /\ data \in [Clients -> States]

Init ==
    /\ ApacheInit
    /\ alive = FALSE
    /\ state = "NotStarted"
    /\ shouldExit = FALSE
    /\ poller = FALSE
    /\ watched = FALSE
    /\ thread = "none"
    /\ handle = [c \in Clients |-> "none"]
    /\ req = [c \in Clients |-> "idle"]
    /\ data = [c \in Clients |-> "NotStarted"]

Sessions == {c \in Clients : handle[c] = "live"}   \* ipSessions

-----------------------------------------------------------------------------
(* What the handlers do in common.                                         *)

\* CHttpd::UpdateStateL of every session: a request that waits is completed.
Deliver(s) ==
    /\ data' = [c \in Clients |-> IF req[c] = "pending" THEN s ELSE data[c]]
    /\ req' = [c \in Clients |-> IF req[c] = "pending" THEN "answered" ELSE req[c]]

\* Wrong: only the end of Apache is told.
UpdateQuietly(s) ==
    /\ state' = s
    /\ UNCHANGED <<req, data>>

\* UpdateHttpdState for the states in which the server goes on: told to every
\* session, except that Apache is stopping.
UpdateHttpdState(s) ==
    /\ state' = s
    /\ IF s = "Stopping" THEN UNCHANGED <<req, data>> ELSE Deliver(s)

\* The process goes away and Apache's threads with it: their static data will
\* be that of a new process.
ProcessEnds ==
    /\ alive' = FALSE
    /\ poller' = FALSE
    /\ watched' = FALSE
    /\ thread' = "none"
    /\ mpmState' = "STARTING"
    /\ up' = FALSE
    /\ pending' = {}
    /\ phase' = "config"
    /\ UNCHANGED shouldExit

SessionsDie ==
    handle' = [c \in Clients |-> IF handle[c] = "live" THEN "dead" ELSE handle[c]]

\* UpdateHttpdState for the final states: all who wait are told, then the
\* scheduler is stopped.
Finish(s) ==
    /\ state' = s
    /\ Deliver(s)
    /\ ProcessEnds
    /\ SessionsDie

\* The process ends without a word from the server: the kernel tells those who
\* wait.
Vanish ==
    /\ ProcessEnds
    /\ SessionsDie
    /\ req' = [c \in Clients |-> IF req[c] = "pending" THEN "terminated" ELSE req[c]]
    /\ UNCHANGED <<state, data>>

-----------------------------------------------------------------------------
(* Sessions: RHttpd on the client's side, CHttpd on the server's.          *)

\* RHttpd::Connect starts the server if there is none; the new session's state
\* request is zeroed, which is EHttpdNotStarted.
Connect(c) ==
    /\ handle[c] = "none"
    /\ handle' = [handle EXCEPT ![c] = "live"]
    /\ data' = [data EXCEPT ![c] = "NotStarted"]
    /\ alive' = TRUE
    /\ IF alive THEN UNCHANGED <<state, shouldExit>>
                ELSE state' = "NotStarted" /\ shouldExit' = FALSE
    /\ UNCHANGED <<apacheVars, poller, watched, thread, req>>

\* Wrong: only a server that has had its Apache is thought to be done.
DetachUnstarted(c) ==
    /\ Sessions = {c}
    /\ shouldExit \/ state \in {"Stopping", "Stopped", "Terminated"}

\* Whether the scheduler stops with the departure of session c.
EndsWith(c) ==
    /\ Sessions = {c}
    /\ shouldExit \/ state \in {"NotStarted", "Stopping", "Stopped", "Terminated"}

\* RHttpd::Close, or the death of the client.
Disconnect(c) ==
    /\ handle[c] # "none"
    /\ handle' = [handle EXCEPT ![c] = "none"]
    /\ req' = [req EXCEPT ![c] = "idle"]
    /\ IF EndsWith(c)
       THEN /\ state' = IF shouldExit THEN "Stopping" ELSE state
            /\ ProcessEnds
       ELSE UNCHANGED <<apacheVars, processVars>>
    /\ UNCHANGED data

\* Wrong: the request waits for the next change whatever the client knows.
GetStateAsyncBlind(c) ==
    /\ handle[c] = "live"
    /\ req[c] = "idle"
    /\ req' = [req EXCEPT ![c] = "pending"]
    /\ UNCHANGED <<apacheVars, processVars, handle, data>>

\* GetStateAsyncL: a state the session has not been told yet is told at once,
\* Stopping included.
GetStateAsync(c) ==
    /\ handle[c] = "live"
    /\ req[c] = "idle"
    /\ IF state # data[c]
       THEN /\ data' = [data EXCEPT ![c] = state]
            /\ req' = [req EXCEPT ![c] = "answered"]
       ELSE /\ req' = [req EXCEPT ![c] = "pending"]
            /\ UNCHANGED data
    /\ UNCHANGED <<apacheVars, processVars, handle>>

\* The kernel's answer when the session's server is gone.
GetStateOfDead(c) ==
    /\ handle[c] = "dead"
    /\ req[c] = "idle"
    /\ req' = [req EXCEPT ![c] = "terminated"]
    /\ UNCHANGED <<apacheVars, processVars, handle, data>>

\* The client takes the answer, or GetStateAsyncCancelL makes it KErrCancel.
TakeOrCancel(c) ==
    /\ req[c] # "idle"
    /\ req' = [req EXCEPT ![c] = "idle"]
    /\ UNCHANGED <<apacheVars, processVars, handle, data>>

-----------------------------------------------------------------------------
(* Starting, stopping and restarting Apache.                               *)

\* StartHttpdL when Apache has not been started; otherwise it is KErrInUse.
\* The state is Starting before anything can fail.  A refused thread puts it
\* back, too late for those who were just told; a leave of GetSettingsL leaves
\* it so.  A failure to watch the thread is ignored.
StartHttpd(c) ==
    /\ handle[c] = "live"
    /\ state = "NotStarted"
    /\ Deliver("Starting")
    /\ \/ /\ state' = "Starting"
          /\ thread' = "runs"
          /\ poller' = TRUE
          /\ watched' \in {TRUE} \cup (IF "logon" \in Faults THEN {FALSE} ELSE {})
       \/ /\ "create" \in Faults
          /\ UNCHANGED <<state, thread, poller, watched>>
       \/ /\ "settings" \in Faults
          /\ state' = "Starting"
          /\ UNCHANGED <<thread, poller, watched>>
    /\ UNCHANGED <<apacheVars, alive, shouldExit, handle>>

\* Wrong: the other call of the mpm.
StopHttpdRestarts(c) ==
    /\ handle[c] = "live"
    /\ shouldExit' = TRUE
    /\ IF state = "Running"
       THEN Stop("restart") /\ UpdateHttpdState("Stopping")
       ELSE UNCHANGED <<apacheVars, state, req, data>>
    /\ UNCHANGED <<alive, poller, watched, thread, handle>>

\* StopHttpd: passed on to a running Apache only, but always KErrNone.
StopHttpd(c) ==
    /\ handle[c] = "live"
    /\ shouldExit' = TRUE
    /\ IF state = "Running"
       THEN Stop("shutdown") /\ UpdateHttpdState("Stopping")
       ELSE UNCHANGED <<apacheVars, state, req, data>>
    /\ UNCHANGED <<alive, poller, watched, thread, handle>>

\* Wrong: Apache is told last, after the poller has looked at it.
RestartHttpdPollFirst(c) ==
    /\ handle[c] = "live"
    /\ state = "Running"
    /\ UpdateHttpdState(IF mpmState = "RUNNING" THEN "Running" ELSE "Restarting")
    /\ poller' = (mpmState # "RUNNING")
    /\ Stop("restart")
    /\ UNCHANGED <<alive, shouldExit, watched, thread, handle>>

\* Wrong: a server that is stopping can be restarted.
RestartHttpdStopping(c) ==
    /\ handle[c] = "live"
    /\ state \in {"Running", "Stopping"}
    /\ Stop("restart")
    /\ UpdateHttpdState("Restarting")
    /\ poller' = TRUE
    /\ UNCHANGED <<alive, shouldExit, watched, thread, handle>>

\* Wrong: nobody waits for the new generation.
RestartHttpdNoPoll(c) ==
    /\ handle[c] = "live"
    /\ state = "Running"
    /\ Stop("restart")
    /\ UpdateHttpdState("Restarting")
    /\ UNCHANGED <<alive, poller, shouldExit, watched, thread, handle>>

\* RestartHttpd: only when running, but always KErrNone.
RestartHttpd(c) ==
    /\ handle[c] = "live"
    /\ state = "Running"
    /\ Stop("restart")
    /\ UpdateHttpdState("Restarting")
    /\ poller' = TRUE
    /\ UNCHANGED <<alive, shouldExit, watched, thread, handle>>

-----------------------------------------------------------------------------
(* The server's own active objects.                                        *)

\* The poller's timer goes off and Apache runs; otherwise it is set again.
Poll ==
    /\ poller
    /\ mpmState = "RUNNING"
    /\ UpdateHttpdState("Running")
    /\ poller' = FALSE
    /\ UNCHANGED <<apacheVars, alive, shouldExit, watched, thread, handle>>

ThreadEnded == thread = "paniced" \/ (thread = "runs" /\ phase = "exited")

\* CThreadWaiter has seen the main thread of Apache end.
ThreadDeath ==
    /\ watched
    /\ ThreadEnded
    /\ Finish(IF thread = "paniced" THEN "Terminated" ELSE "Stopped")

\* CThreadWaiter has seen a worker of Apache panic.  (Also with Unasked, where
\* there may be one thread or several.)
WorkerPanics ==
    /\ "panic" \in Faults
    /\ thread = "runs"
    /\ phase \notin {"config", "create", "exited"}
    /\ Finish("Terminated")

\* WorkerCreated could not watch the new worker: PanicServer.
ServerPanics ==
    /\ "panic" \in Faults
    /\ thread = "runs"
    /\ phase \in {"starting", "serving"}
    /\ Vanish

-----------------------------------------------------------------------------
(* Apache's threads.                                                       *)

ServerFrame == UNCHANGED <<processVars, sessionVars>>

ApacheRuns == thread = "runs" /\ ApacheStep /\ ServerFrame

\* A worker whose accept fails shuts Apache down.
AcceptFails ==
    /\ "accept" \in Faults
    /\ thread = "runs"
    /\ phase = "serving"
    /\ Stop("shutdown")
    /\ ServerFrame

\* A configuration error calls exit(): where that is the end of the process
\* and not of the thread alone, the server goes with it.
ConfigExits ==
    /\ "config" \in Faults
    /\ thread = "runs"
    /\ phase = "config"
    /\ Vanish

MainPanics ==
    /\ "panic" \in Faults
    /\ thread = "runs"
    /\ phase # "exited"
    /\ thread' = "paniced"
    /\ UNCHANGED <<apacheVars, alive, state, shouldExit, poller, watched, sessionVars>>

Call(c) ==
    \/ Connect(c) \/ Disconnect(c) \/ StartHttpd(c) \/ StopHttpd(c) \/ RestartHttpd(c)
    \/ GetStateAsync(c) \/ GetStateOfDead(c) \/ TakeOrCancel(c)

ServerStep == Poll \/ ThreadDeath \/ WorkerPanics \/ ServerPanics

Next ==
    \/ \E c \in Clients : Call(c)
    \/ ServerStep
    \/ ApacheRuns \/ AcceptFails \/ ConfigExits \/ MainPanics

Spec == Init /\ [][Next]_vars

\* The scheduler serves the poller's timer and the waiter, and Apache does what
\* it must.  Clients may do nothing for ever.
Fairness ==
    /\ WF_vars(Poll)
    /\ WF_vars(ThreadDeath)
    /\ WF_vars(thread = "runs" /\ ApacheMust /\ ServerFrame)

FairSpec == Spec /\ Fairness

-----------------------------------------------------------------------------
(* Properties.                                                             *)

\* A state request waits at the server only while its client knows the state
\* the server is in, Stopping apart, which is not told; and none waits once the
\* server is gone.
PendingIsCurrent ==
    \A c \in Clients : req[c] = "pending" =>
        alive /\ (data[c] = state \/ state = "Stopping")

\* The poller is at work exactly while a generation of Apache that the server
\* has started is still to come up.
PollerAwaits ==
    poller <=> alive /\ thread # "none" /\ state \in {"Starting", "Restarting"}

\* A running state means the generation that was asked for: no restart is
\* pending in the one there is.
RunningIsCurrent == state = "Running" /\ alive => ~(up /\ "restart" \in pending)

\* Stopping means that Apache is on its way to its end: the shutdown is pending
\* in the generation there is, or that has come to nothing but its exit.
StopPassedOn ==
    alive /\ state = "Stopping" =>
        \/ thread = "paniced"
        \/ phase \in {"over", "exited"}
        \/ "shutdown" \in pending /\ phase \in {"serving", "closing", "decide"}

\* What StopHttpd and RestartHttpd pass on is never lost in Apache while the
\* server believes in it.
CallsPassedOn == RunningIsCurrent /\ StopPassedOn

\* The two errors after which the server can stay for ever over nothing, each
\* ignored by the code: GetSettingsL has left StartHttpdL, with the state at
\* Starting and no thread (or poller) to change it;
StartGivenUp == "settings" \in Faults /\ state = "Starting" /\ thread = "none"

\* or Apache's thread has ended, and its waiter could not log on to it.
GoneUnnoticed == "logon" \in Faults /\ ThreadEnded /\ ~watched

\* The server stays without clients only over a thread of Apache, with the
\* poller at work if that is still to come up and the waiter if it has ended:
\* something will yet end the process.  The exceptions are those two errors.
\* (Whether it must stay is another matter: a stop that was only remembered
\* takes it away under a running Apache, see OutlivesApache.)
NoIdleServer ==
    alive /\ Sessions = {} =>
        \/ /\ thread # "none"
           /\ state \in {"Starting", "Restarting"} => poller
           /\ ThreadEnded => watched
        \/ StartGivenUp
        \/ GoneUnnoticed

\* Within one life of the server a stopping Apache never comes back.
NoResurrection ==
    [][alive /\ alive' /\ state = "Stopping" => state' = "Stopping"]_vars

\* The server's life as its clients see it.
ServerLife == INSTANCE ServerLife WITH
                  Servers <- {"httpds"},
                  serving <- IF alive THEN {"httpds"} ELSE {},
                  sessions <- Sessions

\* For all the reasons the process has to end, sessions are with the one server
\* and end with it, and the next one begins with none.
KeepsServerLife == ServerLife!LifeSpec

\* A start and a restart lead to a running Apache, or the process ends: nobody
\* waits for ever for a generation that does not come, except after the two
\* errors that the code ignores.
ComesUp ==
    alive /\ state \in {"Starting", "Restarting"} ~>
        state = "Running" \/ ~alive \/ StartGivenUp \/ GoneUnnoticed

\* A stop that was passed on to Apache ends the process, unless nobody watches
\* Apache end.
GoesDown == alive /\ state = "Stopping" ~> ~alive \/ GoneUnnoticed

\* "A state change to EHttpdStopping is not delivered to a client."
StoppingNotDelivered == \A c \in Clients : req[c] = "answered" => data[c] # "Stopping"

\* "The Symbian server will exit only if ... Apache httpd is not running": the
\* process does not end under an Apache that still has work to do.
OutlivesApache ==
    [][alive /\ ~alive' => state' = "Terminated" \/ thread = "none" \/ phase = "exited"]_vars

\* A StopServer that was received does end Apache, and the server, at last.
StopTakesEffect == alive /\ shouldExit ~> ~alive
=============================================================================
