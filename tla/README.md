# PAMP: specifications of the server that runs Apache on a Symbian phone

PAMP (Personal Apache, MySQL and PHP) is a port of the Apache web server and
its companions to Symbian S60. Most of the repository is upstream code (httpd
2.2.4, APR, PHP 5.2.2, curl, mod_python, MySQL-python). What is PAMP's own is
the machinery around Apache: a multi-processing module for an operating system
without `fork` and signals, a Symbian server in whose process Apache runs, a
client library, and the application that starts and stops it all. That
machinery is what these specifications describe.

Paths below are relative to the repository. Abbreviations:

| short | file |
|---|---|
| SP  | `httpd-2.2.4/server/mpm/symbian/mpm_symbian_spmt.c` |
| WK  | `httpd-2.2.4/server/mpm/symbian/mpm_symbian_worker.cpp` |
| SRV | `httpd-2.2.4/symbian/httpds/src/httpds_chttpdserver.cpp` |
| SES | `httpd-2.2.4/symbian/httpds/src/httpds_chttpd.cpp` |
| CL  | `httpd-2.2.4/symbian/httpdc/src/mws_chttpd.cpp` |
| RH  | `httpd-2.2.4/symbian/httpdc/src/mws_rhttpd.cpp` |
| HS  | `httpd-2.2.4/symbian/httpds/src/httpds.cpp` |
| WLAN | `pamp/pamp/pampui/src/cwlan.cpp` |
| ZT  | `php-5.2.2/Zend/zend_timeout_symbian.cpp` |
| EX  | `php-5.2.2/Zend/zend_execute_API.c` |

## 1. Inventory

### 1.1 How the parts work together

```
  pampui, httpdui        one process per application
    CWLAN   (WLAN)       two monitors, the main view         module Wlan
    CHttpd  (CL)         observers, state subject            module HttpdClient
    RHttpd  (RH)         session, start of the server        module ServerStartup
        |  Symbian IPC: Start, Stop, Restart, GetState, GetStateAsync, Cancel
  httpds process
    CHttpdServer (SRV)   one active scheduler                module HttpdServer
      CHttpd (SES)       one session per client
      CPoller            1 s timer, reads AP_MPMQ_MPM_STATE
      CWorkerOverseer    learns of each new worker           module WorkerOverseer
      CThreadWaiter      sees Apache's threads end
        |  shared memory: the_mpm, mpm_state; ap_symbian_shutdown, _restart
    Apache's main thread: apache_main, ap_mpm_run (SP)       modules Apache, Mpm
      worker threads (WK), accept token, scoreboard
        PHP, with a timeout thread beside it (ZT)            module ZendTimeout
```

The process of the server and that of Apache are the same one: `exit()` in
Apache ends the server, and the end of the server ends Apache. Between the
server's thread and Apache's there are only a global pointer, a global state
and two functions, under a process-wide lock.

### 1.2 Components

**Multi-processing module (SP, WK).** *State*: `mpm_state`, `the_mpm`, the
pending stop flags and the counts of workers under `state.mutex`, the accept
token and `should_exit` under `workers.mutex`, the array of threads, the
scoreboard. *Operations*: one run of `ap_mpm_run` per generation (create, start
threads, main loop, join, decide, destroy), the worker's loop (ask for the
token, accept, count active, hand on, serve, retire), `ap_symbian_shutdown` and
`ap_symbian_restart` from any thread. *Hard*: three kinds of thread, two
condition variables, and reads outside every lock (`mpm_state`, `should_exit`
after accept, the scoreboard). *Correct when*: one worker accepts at a time, no
wakeup is lost, a slot is not reused under a running thread, the counts are
right, nobody uses an mpm that is gone, a stop ends the generation, and waiting
connections are accepted.

**Directives (SP 582-976).** *State*: five settings. *Operations*: five
directives, reset before each generation, `check_settings`. *Correct when*: what
`ap_mpm_run` uses is in range and consistent in whatever order the directives
came.

**Choice of a listener (WK 36-90).** *State*: the index saved between rounds.
*Correct when*: every socket is serviced in the end.

**Apache's main loop (`server/main.c`).** Reads the configuration, runs the
mpm, does it again after a restart, or exits.

**Symbian server (SRV, SES).** *State*: `iState`, `iShouldExit`, the poller, the
waiters, the sessions with their state requests. *Operations*: StartHttpdL,
StopHttpd, RestartHttpd, State, GetStateAsyncL and its cancellation, attach and
detach of sessions, the poller's timer, the death of threads. *Hard*: the state
follows a thread that is only polled; clients wait for changes that may come
before they ask; a failure may end a thread or the process. *Correct when*: who
waits knows the present state, Running means the generation asked for, a start
leads to Running or the end, a stop to the end, and the server neither lingers
nor leaves too early.

**Client library (CL over RH).** *State*: the session, the observers, the state
subject with its one outstanding request. *Operations*: ConnectL, Close,
AttachL, Detach, StartL, Stop, Restart, RunL. *Hard*: attaching, connecting and
RunL all start the subject; requests, answers and synchronous reads cross.
*Correct when*: the subject is never started twice and observers learn the
states.

**Worker overseer (SRV 250-355).** *State*: one active object with a request
status, a place for one thread id, a semaphore. *Operations*: a new worker waits
on the semaphore, leaves its id and completes the request; the server's thread
sets a waiter on the id and makes the object ready again. *Hard*: two threads
share the id and the status without a lock but for the semaphore, and either may
die or be taken down. *Correct when*: workers hand over one at a time, no worker
escapes its waiter, the scheduler is never signalled for nothing.

**RHttpd and the server's start (RH, HS).** *State*: the name of the server, a
global semaphore, the processes. *Operations*: Connect looks for the name,
creates the semaphore, starts the process, waits, and opens a session; the
process registers the name and signals. *Hard*: several clients, starts without
the library, and deaths at every step. *Correct when*: one process serves, and
whoever waits for a process that came up is released.

**Settings store (SRV 741-855, 938-987, 1154-1211).** *State*: the file, the
settings in memory. *Operations*: read at the start, replace and write, merge
with given, configured and default values. *Correct when*: memory and disk
agree, and what Apache's thread is started with fits.

**WLAN (WLAN, pampui).** *State*: interface and connection monitors, two active
objects; the connection the user has activated; what the main view shows.
*Operations*: notifications of the socket server, view activation, the
commands that attach to or start a connection. *Hard*: either monitor may run
first, notifications are late or fail, the network changes between a question
and its use. *Correct when*: the view shows what is monitored, what is up gets
monitored, what has gone does not stay shown.

**Time limit of a PHP script (ZT, EX).** *State*: a message handler and a timer
in a thread of their own; the limits in the engine. *Operations*: set, cancel,
expiry; each request calls them at its start, before its script, from the
script, and at its end. *Hard*: two threads, one slot for messages, no lock but
a semaphore; a flag that both write. *Correct when*: a script under a limit is
stopped, no timer outlives what asked for it, and no call hangs.

**Modules of Apache (`modules/arch/symbian`).** Request handlers that render
phone data; mod_camera waits for callbacks of the camera.

**APR, the rest of PHP, and mod_python for Symbian.** Ports of single functions.

`PROJECT.json` lists each component with its status, and every hazard at the
line where it bites with the properties that watch it.

## 2. The modules

| module | models | composed with |
|---|---|---|
| `Apache` | abstract: the Apache thread as its host sees it | base of `HttpdServer`, implemented by `Mpm` |
| `Mpm` | SP, WK: generations, workers, stop calls | |
| `MpmApache` | the refinement mapping from `Mpm` to `Apache` | `Mpm`, `Apache` |
| `MpmSettings` | SP: directives and check_settings | its result is the assumption of `Mpm` |
| `Listeners` | WK: get_listener with several sockets | |
| `HttpdServer` | SRV, SES: the server and its sessions | `Apache` |
| `HttpdClient` | CL: the library over RHttpd | `HttpdServer` |
| `WorkerOverseer` | SRV: the handshake with new workers, the waiters, the destructor | stands between `Mpm` and `HttpdServer` |
| `ServerLife` | abstract: the server as its clients see it come and go | implemented by `ServerStartup` and by `HttpdServer` |
| `ServerStartup` | RH, HS, SRV: the start of the process, the stored settings | details `Connect` of `HttpdServer`; both implement `ServerLife` |
| `Wlan` | WLAN and pampui's main view | |
| `ZendTimeout` | ZT, EX: the time limit of a script | |
| `MC...` | what TLC needs: symmetry, sample arguments | |
| `MpmProofs`, `MpmSettingsProofs`, `HttpdServerProofs`, `HttpdClientProofs`, `WorkerOverseerProofs`, `ServerStartupProofs`, `WlanProofs`, `ZendTimeoutProofs` | theorems and proofs | |

The decomposition is assume-guarantee: `Mpm` is shown to implement `Apache`, and
the server and its clients are checked over `Apache`, which has four variables
instead of seventeen. `HostsApache` closes the argument: within one life of its
process the server does nothing to Apache but what that specification allows, and
each life finds it in its initial state. In the same way `ServerLife` (one server
at a time, sessions with no other, none that outlives it) is what the race for
the start comes to, and what the server with a `Connect` of one step does.

### 2.1 `Apache`

`mpmState` is what `AP_MPMQ_MPM_STATE` answers, `up` is `the_mpm # 0`, `pending`
the stop calls this mpm has taken, `phase` where apache_main is. `Stop(kind)` is
a call from another thread: ignored when there is no mpm. With `Unasked = TRUE`
serving may end though nobody asked; that covers a single-threaded Apache, whose
one worker may retire or be unwound by a leave.

### 2.2 `Mpm`

The variables are the code's, named after them; `mainPc`, `wpc` say where the
main thread and the worker of each slot are. A critical section of a mutex is
one action because nobody blocks inside; reads and writes outside every lock
are steps of their own. The mpm lock is held by a stop call over three steps
(flags, should_exit and broadcast, the connection that wakes the accepting
worker), so its holder is the variable `stopper`.

| actions | code |
|---|---|
| ReadConfig | `apache_main`'s loop |
| CreateMpm, EnterMain, Decide, DestroyMpm | `ap_mpm_run` |
| RunSingle, SingleReturns | `mpm_st_main` |
| StartThread, DeclareRunning, JoinThreads, LeaveMain | `mpm_mt_main`, `start_threads`, `join_threads`, `mpm_main` |
| MainLoop, ScanSlot, JoinSlot, StartSpare | `server_main_loop` |
| SetUp, DeclareDead, Uncount, Leave | `worker_main`, `worker_thread` |
| LoopTop, AskForToken, Accept, AcceptFails, ListenFails, CheckExit, Claim, HandOver, FinishRequest | `worker_loop` |
| CallStop, StopWorkers, StopWakeup | `ap_symbian_shutdown`, `ap_symbian_restart`, `worker_wakeup` |
| Poll, StopHttpd, RestartHttpd | the part of CHttpdServer that touches the mpm |
| Connect | the web clients (external) |

`Faults` names what the environment may do: refused memory or threads, failed
accept or poll, a leave in a handler, a configuration error, a wakeup
connection that cannot be made. Signalling a condition variable wakes any one
waiter; a woken waiter goes back to look at its condition. `is_graceful` is left
out: it decides only whether the scoreboard is cleared, and `EnterMain` leaves
that open.

### 2.3 `MpmSettings`, `Listeners`

The first has one action per directive, `PreConfig` for the reset before each
generation and `CheckSettings`. `CheckedSettings` is, in other words, the
assumption `SettingsAssumption` that `Mpm` makes of its constants. `Listeners`
has the poll, the choice and the accept of the worker that holds the token.

### 2.4 `HttpdServer`

One active scheduler runs every handler, so a handler is one action, with every
call it makes: StartHttpdL tells Starting before anything can fail and may then
be refused a thread (the state goes back) or leave (it does not);
UpdateHttpdState completes the requests that wait and, for a final state, stops
the scheduler, which is the end of the process. `req` and `data` are a
session's state request: asked for, answered, or ended by the kernel when the
server dies. `thread` and `watched` are Apache's main thread and the waiter for
it. `StartGivenUp` and `GoneUnnoticed` name the two errors that the code ignores
and after which a server can stay over nothing: the state Starting without a
thread, and a thread that has ended unwatched. The process may end by a final
state (`Finish`), by its last session (`EndsWith`), or without a word (`Vanish`: `exit()` in Apache, PanicServer); it
may then be started anew by the next client that connects.

### 2.5 `HttpdClient`

`observed`, `doing` and `seen` are, of each client process, whether there are
observers, which message to the server is under way, and what the observers
were told last. AttachL starts the subject and then reads the state with StateL
(two messages: the state may change between them); RunL tells the observers and
asks again or, in a final state, closes.

### 2.6 `WorkerOverseer`

| actions | code |
|---|---|
| Wait, WriteId, Complete | the callback `notify_about_worker`, CWorkerOverseer::WorkerCreated, in the worker's thread |
| WaitPanics | the same, once the semaphore has been closed |
| Watch, WatchFails | CWorkerOverseer::RunL, CHttpdServer::WorkerCreated |
| StartHttpd, StartHttpdFails, StartHttpdLeaves, StopHttpd, Detach | what the server's other handlers do to the overseer |
| HttpdDeath, WorkerDeath, WorkerPanicked | CThreadWaiter::RunL and ThreadDeath |
| DeleteWaiters, DeleteOverseer, MainReturns | the destructor, and Main |
| Spawn, WorkerExits, WorkerPanics, Join, HttpdReturns, HttpdPanics, HttpdExits | Apache, as far as the server sees it |

The callback is three steps because the server's thread runs in between: the
semaphore is taken, the id is written, the request is completed. `phase` says
how far the server's process is; "stray" and "double" are the two panics of the
active scheduler. Apache is reduced to what `Mpm` does to threads: a worker is
joined only after it has ended, and `apache_main` returns only after all have
been joined. `WorkerPanics` is a worker at its own work; inside the callback it
touches nothing but the kernel, and can panic only on the closed semaphore, which
is `WaitPanics`.

### 2.7 `ServerStartup`

Each call to the kernel in Connect and in the process' `MainL` is a step: Find,
CreateSemaphore, CreateServer, Wait, CloseSemaphore, CreateSession; ReadSettings,
TakeName, Signal, End, and where the process dies before, ConstructFails and
SignalFails. Between ReadSettings and TakeName the process that serves may store
other settings and end; the history variable `overtaken` remembers the processes
to which this happened. The kernel is external: one holder
of the name, a global semaphore that lives as long as its creator holds it.
SetSettingsL is two steps, since Replace empties the file before Commit has
written it; `torn` is the state in between, and it stays when the process dies
or the write fails. `GivenOrStored`, `WithXml` and `FitHeap` are the three parts
of the merge; the parser of httpds.xml is abstracted by what it may yield
(`Xmls`).

### 2.8 `Wlan`

`up` and `news` are the socket server's: interfaces that are up, notifications
not yet handled. `iActive`, `iMonitoring`, `iInfo`, `ended` are the connection
monitor, `label` what the view shows, `iActivated` and `iConnection` what CWLAN
holds for the user. InterfaceRunL is the whole RunL with the UpdateL it calls:
the monitor is stopped, started on the new connection and the view told; or
StartL leaves in between, because the connection has gone again or cannot be
attached to, and the observers hear nothing; or the look-up of the bearer fails,
and nothing is done (WLAN 792). ConnectionEnds tells the view and stops the
monitor. Construct is ConstructL with the look-up of what is up already, whose
failure is ignored (WLAN 865). The history variable `missed` remembers the
interfaces that are up and whose coming was lost to one of these errors.
ActivateL is four actions: Attach when something is up, AttachGone when it goes
just then, Start when nothing is, ActivateLeaves for the other errors.

### 2.9 `ZendTimeout`

`phase` follows a request through `php_handler`: the directory's configuration
(which may change the limit), the start (input limit), the script, its end, the
ini entries restored, the limit reset. What each step calls is left in `todo`
and carried out in order: cancel, clear the flag, set, and for an altered limit
enter it in the ini entry, which zend_alter_ini_entry does only after on_modify
has succeeded (`Enter`). A call waits on the
semaphore and then posts (WaitReady, PostSet, PostCancel); the timeout thread
listens, handles, and lets its timer run out (WaitForMessage, HandleSet,
HandleCancel, Expire, TimerRunL). `armed` and `wanted` say which limit the timer
runs for and which was asked for last. `Interval` is the product in a signed
word: a negative one panics the timeout thread. Time itself is not modelled: a
timer that runs may run out at any moment.

### 2.10 Decisions that a reader should know

- StopHttpd and RestartHttpd are one action of `HttpdServer`: the server's
  thread is inside the call meanwhile and handles nothing else. In `Mpm` the same
  calls take their three steps; `CallStop` is the step that maps to `Stop`.
- In `HttpdClient` a client that has sent a request makes no other step until
  the server has taken it (`Ask`): the server takes a session's messages in order.
- `ReadState` stands for StateL and, in AttachL without a session, for the two
  StateL calls in a row that ConnectL and AttachL make; the second answers the
  same or is followed by a delivery.
- In `HttpdServer` connecting starts a missing server in one step; the steps and
  the race of two clients are in `ServerStartup`, which shows that there is one
  server whoever wins.
- The server's thread runs one handler at a time, hence `Watch`, `HttpdDeath` and
  the others are single actions; the code calls iSemaphore.Signal last in them.
- An interface that goes down just when it is attached to (`AttachGone`) is the
  change of the network and the failing call in one step.
- In `ZendTimeout` the timer's active object comes before the message handler's
  (both have the same priority and it was added first), so a timer that has run
  out is handled before the next message.
- Observers do not call back into the library from UpdateStateL. PAMP's do not.
- A process that ends takes Apache with it: a new one begins with fresh static
  data, hence the reset in `ProcessEnds`.
- Definitions marked "Wrong:" are variants of an action with one plausible
  defect. They are part of no specification; each shows that a property notices
  when the code deviates in that way.

## 3. What is checked

| run | configuration | properties | distinct states |
|---|---|---|---|
| `mpm_multi` | `MpmMulti.cfg`: 3 slots, 3 threads to start, MinSpare = MaxSpare = 1, backlog 2, every fault | TokenExclusive, NoLostWakeup, NoLostToken, SlotsSound, MpmAlive, CountsExact, RunningIsCurrent, CallsKept | 730197 |
| `mpm_single` | `MpmSingle.cfg`: one thread, backlog 3 | RestartHonoured, ImplementsApache | 641 |
| `mpm_live` | `MpmLive.cfg`: 2 slots, one request per thread, fair | NeverStuck, StopHonoured, ImplementsApacheFairly, ConnectionsAccepted | 12874 |
| `server_safety` | `ServerSafety.cfg`: 2 clients, every fault, Unasked | PendingIsCurrent, NoIdleServer, NoResurrection | 254130 |
| `client_safety` | `ClientSafety.cfg`: 2 client libraries | NoDoubleStart, WatcherInformed, CallsPassedOn | 2477716 |
| `client_live` | `ClientLive.cfg`: 1 client library, fair, every fault | ObserverLearns, ComesUp, GoesDown | 28698 |
| `settings` | `Settings.cfg` | CheckedSettings | 4928 |
| `overseer` | `Overseer.cfg`: 3 workers, every fault, fair | Handshake, EveryWorkerWatched, ThreadsServed | 64598 |
| `wlan` | `Wlan.cfg`: 3 access points, one up at a time, 3 notifications, every fault but one, fair | MonitorSound, LabelAgrees, OnlyFailedStartOrphans, NetworkFollowed | 8859 |
| `startup` | `Startup.cfg`: 2 clients, 3 processes, every fault, fair | StartSound, SettingsSound, ImplementsServerLife, ReleasedOrDead | 574641 |
| `zend` | `Zend.cfg`: limits on both sides of the word, 2 calls of set_time_limit, fair | TimerInStep, LimitWatched, ScriptIsStopped, CallsReturn | 8076 |

Some properties are conjunctions of parts that are named in the modules:
SlotsSound (SlotFound, NoSlotReuse), CallsKept (ShutdownKept, StartKept),
CallsPassedOn (RunningIsCurrent, StopPassedOn), Handshake (HandshakeExclusive,
NoStraySignal, RightWorker, NoneTurnedAway), ThreadsServed (DeathNoticed,
CallbackReturns), MonitorSound (MonitorConsistent, NothingMissed),
NetworkFollowed (UpIsMonitored, LabelCorrected), StartSound (OneServes,
NoLostSignal, ReleasedFindsServer), SettingsSound (SettingsKept, StoredReachesApache),
TimerInStep (NoStraySignal, NoMutualWait, TimerIsTheLastAsked,
QuietBetweenRequests), ObserverLearns (WatcherLearns, EndLearned). The type
invariants, PollerAwaits, StopReaches and KeepsServerLife are proved (section 5)
and take no run; the type invariant of `Wlan` is part of MonitorConsistent.

One more run, `listeners_fair`, shows where the code and its comment part
(section 6).

**What they show.** `mpm_multi`: whatever order the threads take, the accept
token is held once and never lost, the main thread never sleeps over a signal,
the search for a slot does not come out empty, nobody touches an mpm outside its
life, and no stop or restart is forgotten or taken for done, with failures at
every point. `mpm_single` and `mpm_live`: Apache stops when told, restarts when
told, never waits for itself, accepts what waits although workers retire after
each request, and behaves as `Apache` says, liveness included. `server_safety`:
no request is left waiting with an old state, in spite of failures and of the
server's death, and a server without clients is over an Apache whose end will
be noticed, but for the two errors of 2.4. `client_safety` and `client_live`: the library on that server
keeps its own protocol, what it passes on to Apache is not lost, and an observer
learns each state the server stays in and that it is gone; a start leads to
Running and a stop to the end, but for the same two errors. `overseer`: workers
are announced one at a time, each ends up with a waiter, and one that panics
takes the server down. `startup`: of all processes one serves, a client waits for
ever only for a process that panicked, a server that was not overtaken while it
started has in memory what was stored last and gives it to Apache, and the whole
is the life of one server. `wlan`: both orders of the two monitors are harmless;
no interface is passed over, except after the errors that the code ignores, and
only a monitor that cannot start leaves a label behind. `zend`: messages are neither lost nor
overwritten, call and handler never wait for each other, the timer is always the
one asked for last, and an endless script is stopped.

**Bounds and why they are enough.** Three slots have one worker accepting, one
waiting and one serving or dying at a time, and with MaxSpare = 1 the pool both
grows and shrinks; a search that must skip two live slots to find the third
happens. The backlog counts connections of no identity: two let the wakeup
connection of a stop meet a client's; a full backlog swallows the wakeup, which
is harmless since the worker then wakes for the other connection. In the
single-thread runs it is 3. Two clients are enough for one to change the state
under the other; they are interchangeable, so `ClientSymmetry` is sound for the
safety runs, and it is not used for liveness. Requests per thread are 0 (no
limit) or 1, which retires a worker at every turn. `MaxThreadLimit` is 6 instead
of 16, with arguments on both sides of 0, 1, the default and the limit. The
variables of the server and the library are finite without bounds.

Three workers have one inside the callback, one waiting for it and one that is
watched or dies. Three processes let one be started by each client and one
directly, or one follow a dead one; each is run once. Two values for settings,
one unset and one that is wrong in itself (its heap begins larger than it may
grow), meet an httpds.xml that overrides or not, with and without values. Of
three access points one is monitored, one gone and one new; `MaxUp = 1`, since a
phone has one wireless interface, and `MaxNews = 3` notifications can be
outstanding. With a word of 16 values and two to the second, limits of 1 and 2
seconds are what they are, 4 is negative and 8 wraps to 0; two calls of
set_time_limit let a limit be set and taken away again, and nothing remembers
more than one request back. The failure of an address ("address") is left out of
`wlan`: it allows an empty label at any time.

**Deadlock** is checked in every run but two: when Apache has exited `Mpm`
stutters explicitly (`Exited`), so does `WorkerOverseer` (`Gone`), and a server
can always be asked something. In `startup` the bounded number of processes runs
out while clients wait for a dead one; in `zend` the process may exit and a call
may wait for a dead timeout thread.

## 4. Fairness

- `Mpm`: weak fairness of the main thread, of each worker, of a stop call that
  has begun, and of the poller. Each is a thread that the system schedules; a
  request is assumed to be processed in finite time. Nothing is fair about
  faults, web clients or callers of stop and restart. A worker that waits for a
  connection waits for ever if none comes; that is why the wakeup matters.
- `Apache`: weak fairness of the steps it must take. It need not end its serving
  unless a stop is pending.
- `HttpdServer`: weak fairness of the poller's timer and of the thread's waiter,
  which one scheduler serves in turn, and of Apache.
- `HttpdClient`: in addition, each client's scheduler runs its subject and
  messages on their way arrive. The user's calls are not fair.
- `Listeners`: some worker comes round for the next connection.
- `WorkerOverseer`: the scheduler serves the overseer and the waiters, and a
  worker inside the callback goes on. Neither Apache nor the user is fair.
- `ServerStartup`: a process that was started goes on, and a client whose
  semaphore is signalled wakes. Clients, ends and failures are not fair.
- `Wlan`: the scheduler serves both monitors. Networks and users are not fair.
- `ZendTimeout`: both threads run, a timer that runs does run out, and a script
  goes from opcode to opcode. A script need not end: that is the point.

No strong fairness is used.

## 5. What is proved

The theorems hold for every value of the constants that satisfies the named
assumptions: any number of slots, any settings in range, any set of clients,
any subset of the faults.

| theorem | says | run that checks it |
|---|---|---|
| MpmProofs!TypeCorrect | `Spec => []TypeOK` | |
| MpmProofs!OneAccepts | `Spec => []TokenExclusive` | mpm_multi |
| MpmProofs!TokenHandedOn | `Spec => []NoLostToken` | mpm_multi |
| MpmProofs!MainWoken | `Spec => []NoLostWakeup` | mpm_multi |
| MpmProofs!SlotsRight | `Spec => []SlotsSound` | mpm_multi |
| MpmProofs!WorkersCounted | `Spec => []CountsExact` | mpm_multi |
| MpmProofs!MpmOutlivesItsUsers | unless a leave can unwind the single thread, `Spec => []MpmAlive` | mpm_multi |
| MpmProofs!OnlyLeaveStrandsMpm | without that condition: `MpmAlive`, or the single thread has been unwound | |
| MpmProofs!NoCallForgotten, RestartIsCurrent | under `Steady`, `Spec =>` [] of CallsKept, RunningIsCurrent | mpm_multi |
| MpmProofs!StopReachesWorkers | `Spec => []StopReaches` | |
| MpmProofs!NobodyStuck | `Spec => []NeverStuck` | mpm_live |
| MpmProofs!MpmImplementsApache | `Spec => ImplementsApache` | mpm_single |
| MpmSettingsProofs!SettingsSound | `Spec => []CheckedSettings` | settings |
| HttpdServerProofs!ServerTypeCorrect, NoStaleRequest, PollerRight, NeverIdle | the invariants of the server | server_safety |
| HttpdServerProofs!StoppingIsFinal | `Spec => NoResurrection` | server_safety |
| HttpdServerProofs!CallsReachApache | without Unasked, `Spec => []CallsPassedOn` | client_safety |
| HttpdServerProofs!HostsApache | what the server does to its Apache is what `Apache` allows | |
| HttpdServerProofs!ServerIsServerLife | `Spec => KeepsServerLife` | |
| HttpdClientProofs!LibraryIsClient, ServerUnderLibrary | `ClientSpec => Spec`, and so the server's promises under the library | |
| HttpdClientProofs!LibraryCallsReachApache | without Unasked, `ClientSpec => []CallsPassedOn` | client_safety |
| HttpdClientProofs!StartedOnce, WaitsInformed, ClientTypeCorrect | the invariants of the library | client_safety |
| WorkerOverseerProofs!HandshakeSafe, NoneEscapes | Handshake, EveryWorkerWatched | overseer |
| ServerStartupProofs!SignalsAreKept, NextStartsFit | StartSound, SettingsSound; `OnlyOneServes` is OneServes by itself | startup |
| ServerStartupProofs!StartIsServerLife | `Spec => ImplementsServerLife` | startup |
| WlanProofs!MonitorRight, ViewAgrees | MonitorSound, LabelAgrees | wlan |
| WlanProofs!OrphansExplained | `Spec => OnlyFailedStartOrphans` | wlan |
| ZendTimeoutProofs!TimerFollowsTheCalls, LimitNeverLost | TimerInStep, LimitWatched | zend |
| OverseerTypeCorrect, StartupTypeCorrect, TimeoutTypeCorrect, in the same modules | TypeOK | |

**Assumptions.** `SettingsAssumption` (the settings fit one another, and several
threads have at least one spare; `SettingsSound` proves both of
`check_settings`), `LimitAssumption`, `UnaskedAssumption`, `FaultsAssumption`,
and of the newer modules `NoneAssumption`, `ValuesAssumption`, `LimitsAssumption`
and `BoundsAssumption`. TLC evaluates them in the runs. Some theorems assume more
and say so:

- `NoCallForgotten` and `RestartIsCurrent` assume `Steady`: if a single thread
  serves, it does not come to its end by itself (no MaxRequestsPerChild, no
  failure of its set-up or of its sockets). With several threads it says nothing:
  another worker is started for one that ends.
- `MpmOutlivesItsUsers` assumes several threads or no "leave"; `OnlyLeaveStrandsMpm`
  says that this is the one exception.
- `CallsReachApache` and `LibraryCallsReachApache` assume that Apache does not end
  a generation unasked, which `Mpm` keeps to with several threads.
- NothingMissed, in `MonitorRight`, has `MaxUp = 1` as its premise: interfaces come
  up one at a time.

**Inductive invariants.**

- *Types of `Mpm`.* `TypeOK` is not inductive: starting a worker writes
  `wpc[mainSlot]`, and `mainSlot` may be `ThreadLimit + 1` after a fruitless
  search. `SlotInRange` adds that it is a slot wherever it is used.
- *Safety of `Mpm`.* `House` ties the threads to the main thread: in
  multi-threaded mode whoever runs is in `threads` (`Owned`), which is empty
  outside the serving part (`Quiet`) and without the slot about to be filled
  (`SlotFree`); a worker inside a stop call stays where it made it
  (`CallerWaits`), or its return could bring a joined slot back to life. From it
  follow `NoSlotReuse`, that a new mpm starts with nobody holding or awaiting
  the token (the base of the induction for `TokenExclusive` and `NoLostToken`,
  which are proved together), and with `Life` that `the_mpm` covers all of its
  users; `Unwound` is the one state in which it does not. `NoLostWakeup` is inductive over the types; its core is that
  adjust_workers cannot find too many and too few spare workers at once, which
  needs `MinSpare <= MaxSpare`.
- *Counts of `Mpm`.* `Book` holds three facts together. `Counts` writes
  `CountsExact` as cardinalities of the workers at a set of places, and extends
  it to the time before the first worker; `AtMoves` says how such a cardinality
  changes when one worker moves, and `WorkerBook` that every worker's step moves
  the counts likewise. `DeadKnown`: of a thread that exists, the scoreboard says
  dead exactly when its worker has declared itself so. `SlotFound` needs both:
  if no slot were free or dead, all would be counted and there would be no room.
  `DeadKnown` needs `SlotFree`, and joining a slot keeps the count because a
  thread found dead has been, or is about to be, uncounted before it ends.
- *Stops of `Mpm`.* `Reach` follows a stop to the workers: whoever has been told
  has been told on behalf of a stop, the token that is not on offer is with a
  worker until then, and one that sleeps in accept afterwards has a connection in
  the backlog or the call about to make it. `TokenHeld` without it would not
  do: the last holder may end, and only the stop says that nobody needs it then.
- *Nobody waits for everyone.* `NobodyStuck` is the sum of the others. Suppose that
  nobody can move: no stop call is under way then, and each worker has come to
  its end, waits for the token, or sleeps in accept with nobody connecting
  (`AtRest`); if one waits for the token, another is in accept (`NoLostToken`). A
  main thread that joins waits for a worker that has not come to its end, hence
  one of these. A main thread that sleeps has no stop pending and wants no worker
  (`NoLostWakeup`), so that there is one, or the counts (`Book`) and
  `MinSpare > 0` would have it start some. So somebody is in accept, and with a
  stop pending he has been told, which `StopReaches` allows only where the
  wake-up connection can fail.
- *Calls of `Mpm`.* `Faithful` holds the two properties with what they need.
  `Current` says for each part of a generation what can be
  pending: before the state is set to running no restart can have been asked for,
  because CHttpdServer asks only while it believes the server runs, and whoever
  decides to restart does so because one is pending. Hence the unlocked write in
  `DeclareRunning` never hides a restart. `Told` says that workers are told, and
  stop calls made, on behalf of a pending stop only; `Alone`, that the single
  thread is counted nowhere, so that it never takes itself for a spare one.
- *Refinement.* Each action of `Mpm` is mapped to a step of `Apache` or to none.
  It needs `House` twice (in single-thread mode a leave hits the main thread
  itself) and `Manned`: the workers are joined only because a stop is
  pending, and a pending stop is never taken back.
- *Server.* `IInv` adds to PendingIsCurrent and PollerAwaits `Life` (which states
  have a thread, and which threads a waiter; no process means no session),
  `PendingInSession` and `Inhabited` (a server without sessions has been started).
  NoIdleServer follows from them; by itself it is not inductive, since it says
  nothing while there is a session. The proof goes handler by handler; those that end the process share `FinishGood`
  and `VanishGood`. `CallsReachApache` needs `Faithful`, which says where Apache is
  while the server is in each state: the poller sees RUNNING only of a generation
  that has not been told to restart, and a stop is passed on only to one that
  serves. `HostsApache` adds `Fresh`: without a thread Apache is in its initial
  state.
- *Library.* `Orderly` says for each client that a request is outstanding only
  for someone who observes, and that the next request tells the server exactly
  what the observers were told (`doing = "ask" => seen = data`); from it
  `WatcherInformed` follows because the server answers a request at once when
  what the session was told is not the present state. `Untouched` is what a step
  of anybody else can do to a client.
- *Overseer.* `Handover` says who has the semaphore: it is free exactly while the
  overseer waits and nobody is inside, and whoever completes has left its id.
  `Household` says that there are no workers before a start, and that the overseer
  is active from the first start on, without which `NoneTurnedAway` is not
  inductive.
- *Start.* `Named` ties the name to the one process that is registered or serves,
  `Owned` the semaphore to the one client between creating and closing it,
  `Launched` each waiting client to a process of its own that has not signalled
  yet or left the count, `Signalled` each signal to a process that serves or has
  served, `Stored` the settings in memory to the file, of processes that have read
  it and were not overtaken. The step to
  `ServerLife` needs `Named`: the name is free exactly when nobody serves.
- *Wireless network.* `WlanInv` adds to MonitorConsistent and LabelAgrees that
  view and dialog live within the application (`ViewWithin`, `DialogWithin`).
  NothingMissed needs besides that no more than `MaxUp` interfaces are up: then a
  monitor is never stopped for one that is still there, unless the one that stops
  it enters `missed`. `Orphaning` describes the only step that leaves a label
  behind.
- *Timeout.* `Baton`: of semaphore, posting and a message not yet handled there is
  at most one, and one of the first two whenever the handler listens. `Slot`: the word holds
  what the message says. `Watch`: in a script under a limit the message, the
  timer or the flag stands for that limit. `Quiet`: after the reset of a request
  a message to cancel is under way or has been handled.

**Only model-checked**: what needs fairness (StopHonoured, RestartHonoured,
ConnectionsAccepted, ImplementsApacheFairly, ComesUp, GoesDown, ObserverLearns,
ThreadsServed, NetworkFollowed, ReleasedOrDead, ScriptIsStopped, CallsReturn),
since the prover reasons neither about fairness nor about ENABLED, and
`Listeners`, where the property is refuted. Every invariant and every action
property that a run checks is also proved. For most of the liveness properties
the part that is a matter of safety is proved: that nobody waits for everyone
(NeverStuck, NoneTurnedAway, NoMutualWait), that a stop reaches whom it is for
(StopReaches, CallsKept, CallsPassedOn), that a signal or notification is never
passed over (NoLostWakeup, NoLostSignal, NothingMissed) and that who waits has
been told (WatcherInformed).

## 6. Where the code and what is said of it part

`listeners_fair` is a run of the project: `*last_poll_idx++` (WK 78) advances the
pointer, not the index, so with two busy sockets the second is never serviced,
against the comment at WK 64-65.

Four more configurations are kept beside the runs; each checks one property that
restates a text, and TLC shows the behaviour that contradicts it (for example
`tlc -config ServerStop.cfg MCHttpdServer`).

1. `ServerStopping.cfg`, StoppingNotDelivered. A comment says Stopping is not
   delivered to clients (SRV 1259-1263); UpdateHttpdState keeps to it, but
   GetStateAsyncL answers at once with any state that differs from the last one
   told (SES 131), Stopping included.
2. `ServerStop.cfg`, StopTakesEffect. A stop that arrives while Apache starts or
   restarts is answered KErrNone and sets `iShouldExit`, and that is all (SRV
   1118): Apache comes up and stays until the client goes.
3. `MpmRetired.cfg` (with MCMpm), StopHonoured. In single-thread mode a worker
   that has had its share of requests makes ap_mpm_run begin the next generation;
   a stop that comes between the two finds no mpm and is dropped, though the
   server has gone to Stopping and now waits for an end that does not come.
4. `ServerExit.cfg`, OutlivesApache. The interface says the server exits only if
   Apache is not running; Detach ends the process under an Apache that is still at
   work when a stop had been asked for (SRV 1044).

Observations that contradict no text:

- adjust_workers is called before the worker takes itself off the active ones
  (WK 294), so one idle worker more than MaxSpareThreads may stay.
- In single-thread mode a leave in a handler ends ap_mpm_run with `the_mpm`
  pointing into its frame (SP 459); `OnlyLeaveStrandsMpm` shows that nothing else
  does.
- `NobodyStuck` needs MinSpareThreads to be at least 1 when there are several
  threads: with 0, a pool whose last worker has retired would leave the main
  thread asleep and nobody to wake it. check_settings sees to it
  (`SettingsSound`).
- A leave of GetSettingsL in StartHttpdL (SRV 1083-1085) leaves the state at
  Starting, with neither a thread nor the poller (`StartGivenUp`); nothing changes
  it again, and the server stays when its last client has gone. When the logon to
  Apache's thread fails (SRV 701), its end goes unnoticed (`GoneUnnoticed`), with
  the same consequence. NoIdleServer, ComesUp and GoesDown hold but for these two.
- A WLAN that is up may stay unmonitored for good: at construction (WLAN 865),
  when the look-up of its bearer fails (WLAN 792-794), or when StartL cannot attach
  to it (WLAN 294-300), for an interface is announced once. `missed` names these.
- With `Unasked = TRUE` RunningIsCurrent and StopPassedOn fail: a restart can fall
  between two generations, where it is ignored, or be marked while mpm_st_main is
  about to declare itself running, and the poller then takes the wrong generation
  for the new one. That is why the theorems on them assume `Steady`, or that
  Apache does not end unasked.
- Stopping may be told, and taken back, by the library: an observer that attaches
  while the state changes learns Stopping from StateL, then Running from the
  answer to a request that was completed before, and then Stopping again (CL 327).
  It ends with the right state, which is all that ObserverLearns asks.
- When worker_wakeup cannot connect (WK 598) the accepting worker sleeps until
  the next connection, and the stop waits for it; `NobodyStuck` names this as the
  only such case. The code logs as much; "wakeup"
  is therefore in the safety run and not in the liveness ones.
- A worker that has been joined before the server's thread comes to set its waiter
  makes the server panic (SRV 1310): a generation that ends while the server is
  busy in StopHttpd may thus end as a panic. After Terminated, or a last Detach
  with a stop pending, workers may call into the overseer while it is deleted.
- A server that panics while it starts never signals: the client that started it
  waits for ever, and since that client holds the global semaphore, every other
  Connect fails with KErrAlreadyExists (RH 72-84). A search that is out of date
  starts a second process, whose ConstructL finds the name taken: the same end.
- A process that has read the settings before another stored new ones, and takes
  the name after that one has ended (SRV 918, 934), serves the old ones until the
  next store (`overtaken`).
- A server whose OpenGlobal fails with an error other than not found (HS 83-84) has
  had its name for a moment: a client may have found it, and loses its session.
- SetSettingsL replaces the file before it writes (SRV 1175): interrupted there, it
  leaves a file that makes every later server panic at its start.
- CurrentSettings (SRV 1205) answers the stored settings while Apache restarts or
  stops, though it still runs with others; an httpds.xml that overrides without
  giving values starts Apache with sizes of 0.
- If the interface monitor handles an interface that has gone again before the
  connection monitor handles the end it has pending, StartL leaves after Stop, and
  the label of the old connection stays until the next one (WLAN 782). After an
  error the interface monitor never asks again (WLAN 818). `iActivated` stays when
  its connection has gone.
- A limit above 2147 seconds overflows (ZT 257); when the product is negative
  RTimer::After panics the timeout thread, and every later call that sets or
  cancels a limit waits for ever.
- A set_time_limit whose timeout thread cannot be created has changed
  EG(timeout_seconds) but not the ini entry (zend_ini.c 249-264), so that nothing is
  restored at the end of the request: a later one without a max_input_time starts
  under that limit.
- zend_set_timeout(0) does nothing (EX 1393), so with max_execution_time 0 and a
  max_input_time the input's timer goes on over the script. A request that PHP
  declines after its directory changed the limit leaves the timer of
  max_execution_time armed. The old timer may also run out between the clearing of
  the flag (EX 1405) and the handling of the new message: the script is then
  stopped under a limit that is no longer its own.

## 7. What is not modelled, and the plan

Not modelled because it is no state of PAMP's: upstream code, APR wrappers, the
renderers of phone data, drawing and dialogs, file formats. Memory safety (for
example ThreadDeath deleting the waiter whose RunL calls it) is not visible at
this level.

Left out of modelled parts: the parser of httpds.xml and the log, a failing
RThread::Open in the callback of a worker, which the code does not check (SRV 340), MySQL's
process (started by the application, not in the repository), the checking of IPC
messages, KillTimeoutThread, which nobody calls, and a leave inside the timeout
thread before it listens. In `Wlan` `MaxUp = 1`: with two interfaces the end of
the second clears the label though the first is up, a case the code itself
marks with a question (WLAN 798). The rest of the repository is upstream code,
several million lines that PAMP ships unchanged; the map covers PAMP's own.

The order so far: `Mpm` with its safety and liveness; `Apache` and the
refinement; `HttpdServer`; `HttpdClient`; the settings; the listeners;
`WorkerOverseer`; `Wlan`; `ServerStartup`; `ZendTimeout`; proofs of every
invariant, action property and refinement that a run checks; `ServerLife`, which
the start and the server both implement. What the plan has left, in order:

1. What `WorkerOverseer` takes for granted of Apache's threads (a worker is joined
   only after it has ended, `apache_main` returns only after all are joined) as an
   abstract specification that `Mpm` implements, proved as `MpmImplementsApache`
   is.
2. Observers that call back into the library, and several of them (CL 117).
3. mod_camera's wait for its callbacks; the argument container as operators
   checked against reference definitions; the accept that blocks after a poll in
   `Listeners` (WK 234).

Liveness stays with TLC: it is out of the prover's reach.
