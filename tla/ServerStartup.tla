--------------------------- MODULE ServerStartup ---------------------------
(***************************************************************************)
(* How the server process comes to be, and the settings it keeps on disk.  *)
(*                                                                         *)
(* RHttpd::Connect looks for the server; if there is none it creates a     *)
(* global semaphore, starts a process and waits on the semaphore.  The     *)
(* process reads the stored settings, registers the name of the server,    *)
(* signals the semaphore if there is one, and serves.  Several clients may *)
(* do so at once, and the process may also be started without the library. *)
(* Each call to the kernel is a step.                                      *)
(*                                                                         *)
(* The kernel is external: at most one server has the name, a global       *)
(* semaphore lives as long as its creator holds it, and what a process     *)
(* held is gone with it.                                                   *)
(***************************************************************************)
EXTENDS Naturals

CONSTANTS
    Clients,   \* threads that call Connect
    Servers,   \* server processes; a bound: each is started once
    None,      \* no process, no client, no settings
    Values,    \* the settings clients give or store
    Xmls,      \* what httpds.xml may say
    Default,   \* KDefaultStackSize and its like
    Faults     \* the failures the environment may inject

FaultKinds == {"process", "memory", "disk", "crash", "direct"}

Settings == [stack : Nat, minHeap : Nat, maxHeap : Nat]

\* THttpdSettings(): nothing is set.
Unset == [stack |-> 0, minHeap |-> 0, maxHeap |-> 0]

ASSUME ValuesAssumption ==
    /\ Unset \in Values /\ Values \subseteq Settings
    /\ Xmls \subseteq [override : BOOLEAN, settings : Settings]
    /\ Default \in Settings

ASSUME NoneAssumption == None \notin Clients /\ None \notin Servers /\ None \notin Values

ASSUME FaultsAssumption == Faults \subseteq FaultKinds

VARIABLES
    client,     \* where each client is in Connect
    launched,   \* the process it has created
    semOwner,   \* who holds the global semaphore, if it exists
    semCount,   \* its count
    proc,       \* where each server process is
    name,       \* the process that has the name of the server
    file,       \* the stored settings; Unset if there is no file
    torn,       \* the file has been replaced and not been written
    iSettings,  \* of each process
    writing,    \* of each process: the settings it is storing
    overtaken   \* history: the processes that read the file before what it says
                \* now was stored

connectVars == <<client, launched, semOwner, semCount>>
storeVars == <<file, torn, iSettings, writing, overtaken>>
vars == <<connectVars, proc, name, storeVars>>

TypeOK ==
    /\ client \in [Clients -> {"idle", "missing", "created", "waiting", "released",
                               "found", "connected", "failed"}]
    /\ launched \in [Clients -> Servers \cup {None}]
    /\ semOwner \in Clients \cup {None}
    /\ semCount \in Nat
    /\ semCount > 0 => semOwner # None
    /\ proc \in [Servers -> {"none", "starting", "read", "registered", "serving",
                             "ended", "panicked"}]
    /\ name \in Servers \cup {None}
    /\ file \in Values
    /\ torn \in BOOLEAN
    /\ iSettings \in [Servers -> Values]
    /\ writing \in [Servers -> Values \cup {None}]
    /\ overtaken \subseteq Servers

Init ==
    /\ client = [c \in Clients |-> "idle"]
    /\ launched = [c \in Clients |-> None]
    /\ semOwner = None
    /\ semCount = 0
    /\ proc = [s \in Servers |-> "none"]
    /\ name = None
    /\ file = Unset
    /\ torn = FALSE
    /\ iSettings = [s \in Servers |-> Unset]
    /\ writing = [s \in Servers |-> None]
    /\ overtaken = {}

At(c, pc) == client' = [client EXCEPT ![c] = pc]

-----------------------------------------------------------------------------
(* GetSettingsL: with what Apache's main thread would be started.          *)

MaxOf(m, n) == IF m > n THEN m ELSE n

\* What the client gives goes before what is stored; 0 is nothing.
GivenOrStored(given, stored) ==
    [f \in DOMAIN Unset |-> IF given[f] # 0 THEN given[f] ELSE stored[f]]

\* Unless httpds.xml overrides, it only raises; what is still open is set to
\* the default.
WithXml(wanted, xml) ==
    IF xml.override THEN xml.settings
    ELSE [f \in DOMAIN Unset |->
             MaxOf(xml.settings[f], IF wanted[f] = 0 THEN Default[f] ELSE wanted[f])]

FitHeap(set) ==
    [set EXCEPT !.minHeap = IF set.minHeap > set.maxHeap THEN set.maxHeap ELSE set.minHeap]

GetSettings(given, stored, xml) ==
    FitHeap(WithXml(GivenOrStored(given, stored), xml))

-----------------------------------------------------------------------------
(* RHttpd::Connect.                                                        *)

\* TFindServer.
Find(c) ==
    /\ client[c] = "idle"
    /\ At(c, IF name = None THEN "missing" ELSE "found")
    /\ UNCHANGED <<launched, semOwner, semCount, proc, name, storeVars>>

\* CreateGlobal fails if somebody else is starting the server; Connect does
\* too.
CreateSemaphore(c) ==
    /\ client[c] = "missing"
    /\ IF semOwner = None
       THEN At(c, "created") /\ semOwner' = c /\ semCount' = 0
       ELSE At(c, "failed") /\ UNCHANGED <<semOwner, semCount>>
    /\ UNCHANGED <<launched, proc, name, storeVars>>

CreateServer(c) ==
    /\ client[c] = "created"
    /\ \E s \in Servers :
          /\ proc[s] = "none"
          /\ proc' = [proc EXCEPT ![s] = "starting"]
          /\ launched' = [launched EXCEPT ![c] = s]
    /\ At(c, "waiting")
    /\ UNCHANGED <<semOwner, semCount, name, storeVars>>

CreateServerFails(c) ==
    /\ "process" \in Faults
    /\ client[c] = "created"
    /\ At(c, "failed")
    /\ semOwner' = None /\ semCount' = 0
    /\ UNCHANGED <<launched, proc, name, storeVars>>

Wait(c) ==
    /\ client[c] = "waiting" /\ semOwner = c /\ semCount > 0
    /\ At(c, "released")
    /\ semCount' = semCount - 1
    /\ UNCHANGED <<launched, semOwner, proc, name, storeVars>>

CloseSemaphore(c) ==
    /\ client[c] = "released"
    /\ At(c, "found")
    /\ semOwner' = None /\ semCount' = 0
    /\ UNCHANGED <<launched, proc, name, storeVars>>

\* CreateSession fails if the server has gone meanwhile.
CreateSession(c) ==
    /\ client[c] = "found"
    /\ At(c, IF name = None THEN "failed" ELSE "connected")
    /\ UNCHANGED <<launched, semOwner, semCount, proc, name, storeVars>>

\* The session is closed, or Connect tried again later.
Close(c) ==
    /\ client[c] \in {"connected", "failed"}
    /\ At(c, "idle")
    /\ launched' = [launched EXCEPT ![c] = None]
    /\ UNCHANGED <<semOwner, semCount, proc, name, storeVars>>

-----------------------------------------------------------------------------
(* The server process.                                                     *)

\* Somebody starts the executable without the library.
StartDirectly(s) ==
    /\ "direct" \in Faults
    /\ proc[s] = "none"
    /\ proc' = [proc EXCEPT ![s] = "starting"]
    /\ UNCHANGED <<connectVars, name, storeVars>>

\* CHttpdServer::ReadSettingsL.
ReadSettings(s) ==
    /\ proc[s] = "starting"
    /\ ~torn
    /\ proc' = [proc EXCEPT ![s] = "read"]
    /\ iSettings' = [iSettings EXCEPT ![s] = file]
    /\ UNCHANGED <<connectVars, name, file, torn, writing, overtaken>>

\* Wrong: who cannot get the name serves without.
TakeNameAnyway(s) ==
    /\ proc[s] = "read"
    /\ name' = s
    /\ proc' = [proc EXCEPT ![s] = "registered"]
    /\ UNCHANGED <<connectVars, storeVars>>

\* The last thing CHttpdServer::ConstructL does is to take the name.
TakeName(s) ==
    /\ proc[s] = "read"
    /\ name = None
    /\ name' = s
    /\ proc' = [proc EXCEPT ![s] = "registered"]
    /\ UNCHANGED <<connectVars, storeVars>>

\* With a process goes its memory.
Forget(s) ==
    /\ iSettings' = [iSettings EXCEPT ![s] = Unset]
    /\ overtaken' = overtaken \ {s}

ConstructionFails(s) ==
    \/ proc[s] = "starting" /\ (torn \/ "memory" \in Faults)
    \/ proc[s] = "read" /\ (name # None \/ "memory" \in Faults)

\* Wrong: the error is swallowed and the process ends in good order.
ConstructFailsQuietly(s) ==
    /\ ConstructionFails(s)
    /\ proc' = [proc EXCEPT ![s] = "ended"]
    /\ Forget(s)
    /\ UNCHANGED <<connectVars, name, file, torn, writing>>

\* It leaves: the file cannot be read, the name is taken, or memory is short.
\* Main panics, and whoever waits is not told.
ConstructFails(s) ==
    /\ ConstructionFails(s)
    /\ proc' = [proc EXCEPT ![s] = "panicked"]
    /\ Forget(s)
    /\ UNCHANGED <<connectVars, name, file, torn, writing>>

\* Wrong: opened and closed, and not signalled.
SignalForgotten(s) ==
    /\ proc[s] = "registered"
    /\ proc' = [proc EXCEPT ![s] = "serving"]
    /\ UNCHANGED <<connectVars, name, storeVars>>

\* MainL signals the semaphore if there is one, and starts the scheduler.
Signal(s) ==
    /\ proc[s] = "registered"
    /\ proc' = [proc EXCEPT ![s] = "serving"]
    /\ semCount' = IF semOwner = None THEN semCount ELSE semCount + 1
    /\ UNCHANGED <<client, launched, semOwner, name, storeVars>>

\* With a process that had the name go its name and its sessions, too.
Die(s, end) ==
    /\ proc' = [proc EXCEPT ![s] = end]
    /\ name' = None
    /\ client' = [c \in Clients |-> IF client[c] = "connected" THEN "failed" ELSE client[c]]
    /\ Forget(s)
    /\ UNCHANGED <<launched, semOwner, semCount, file, torn>>

\* MainL leaves because the semaphore cannot be opened though it may be there, or
\* the process is gone before it has signalled; the name was there to be found.
SignalFails(s) ==
    /\ {"memory", "crash"} \cap Faults # {}
    /\ proc[s] = "registered"
    /\ Die(s, "panicked")
    /\ UNCHANGED writing

\* The scheduler stops, which HttpdServer has the reasons for, or the process
\* ends under it.
End(s) ==
    /\ \/ proc[s] = "serving" /\ writing[s] = None
          /\ \A c \in Clients : client[c] # "connected"
       \/ proc[s] = "serving" /\ "crash" \in Faults
    /\ Die(s, "ended")
    /\ writing' = [writing EXCEPT ![s] = None]

-----------------------------------------------------------------------------
(* The stored settings.                                                    *)

\* Wrong: the settings in memory are changed before they are written.
ReplaceEarly(s, v) ==
    /\ proc[s] = "serving" /\ writing[s] = None
    /\ \E c \in Clients : client[c] = "connected"
    /\ torn' = TRUE
    /\ iSettings' = [iSettings EXCEPT ![s] = v]
    /\ writing' = [writing EXCEPT ![s] = v]
    /\ UNCHANGED <<connectVars, proc, name, file, overtaken>>

\* SetSettingsL: the file is replaced, hence empty; then written; then the
\* settings in memory are changed.
Replace(s, v) ==
    /\ proc[s] = "serving" /\ writing[s] = None
    /\ \E c \in Clients : client[c] = "connected"
    /\ torn' = TRUE
    /\ writing' = [writing EXCEPT ![s] = v]
    /\ UNCHANGED <<connectVars, proc, name, file, iSettings, overtaken>>

Commit(s) ==
    /\ writing[s] # None
    /\ file' = writing[s] /\ torn' = FALSE
    /\ iSettings' = [iSettings EXCEPT ![s] = writing[s]]
    /\ writing' = [writing EXCEPT ![s] = None]
    /\ overtaken' = (overtaken \cup {t \in Servers : proc[t] = "read"}) \ {s}
    /\ UNCHANGED <<connectVars, proc, name>>

\* The write leaves half-way.
CommitFails(s) ==
    /\ "disk" \in Faults
    /\ writing[s] # None
    /\ writing' = [writing EXCEPT ![s] = None]
    /\ UNCHANGED <<connectVars, proc, name, file, torn, iSettings, overtaken>>

Next ==
    \/ \E c \in Clients :
          \/ Find(c) \/ CreateSemaphore(c) \/ CreateServer(c) \/ CreateServerFails(c)
          \/ Wait(c) \/ CloseSemaphore(c) \/ CreateSession(c) \/ Close(c)
    \/ \E s \in Servers :
          \/ StartDirectly(s) \/ ReadSettings(s) \/ TakeName(s) \/ ConstructFails(s)
          \/ Signal(s) \/ SignalFails(s) \/ End(s) \/ Commit(s) \/ CommitFails(s)
          \/ \E v \in Values : Replace(s, v)

\* A process that has been started goes on, and so does a client released.
Fairness ==
    /\ \A c \in Clients : WF_vars(Wait(c))
    /\ \A s \in Servers :
          /\ WF_vars(ReadSettings(s) \/ TakeName(s) \/ ConstructFails(s))
          /\ WF_vars(Signal(s) \/ SignalFails(s))

Spec == Init /\ [][Next]_vars /\ Fairness

-----------------------------------------------------------------------------
(* Properties.                                                             *)

Serving == {s \in Servers : proc[s] \in {"registered", "serving"}}

Life == INSTANCE ServerLife WITH
            serving <- Serving,
            sessions <- {c \in Clients : client[c] = "connected"}

\* With all its races and failures the start is what clients take it for: one
\* server at a time, sessions with no other, and none that outlives it.
ImplementsServerLife == Life!LifeSpec

\* However many processes are started, one serves.
OneServes == \A s, t \in Serving : s = t

\* Nobody waits for a signal that was given, or for one that nobody will give:
\* who waits holds the semaphore and has started a process, and once that
\* process serves or has served, the semaphore can be taken.
NoLostSignal ==
    \A c \in Clients :
        client[c] = "waiting" =>
            /\ semOwner = c
            /\ launched[c] \in Servers /\ proc[launched[c]] # "none"
            /\ proc[launched[c]] \in {"serving", "ended"} => semCount > 0

\* Who is released finds the server, unless it has ended since.
ReleasedFindsServer ==
    (semCount > 0 \/ \E c \in Clients : client[c] = "released") =>
        name # None \/ \E s \in Servers : proc[s] = "ended"

\* The start leads to one server, and the semaphore to whoever waits for it.
StartSound == OneServes /\ NoLostSignal /\ ReleasedFindsServer

\* The server's settings are the ones last stored in full, whatever became of
\* writes since, unless they were stored by another process after this one had
\* read the file.
SettingsKept ==
    \A s \in Servers :
        proc[s] = "serving" /\ s \notin overtaken =>
            iSettings[s] = file

\* What the user wants: given now, or stored, or else the default.
Wanted(given, f) ==
    IF given[f] # 0 THEN given[f] ELSE IF file[f] # 0 THEN file[f] ELSE Default[f]

\* What is wanted reaches Apache: unless httpds.xml overrides, the next start has
\* at least that, but that the heap always fits.
StoredReachesApache ==
    \A s \in Servers, given \in Values, xml \in Xmls :
        proc[s] = "serving" /\ s \notin overtaken =>
            LET set == GetSettings(given, iSettings[s], xml)
            IN  /\ set.minHeap <= set.maxHeap
                /\ xml.override \/
                      /\ set.stack >= Wanted(given, "stack")
                      /\ set.maxHeap >= Wanted(given, "maxHeap")
                      /\ set.minHeap >= Wanted(given, "minHeap")
                            \/ set.minHeap = set.maxHeap

\* What is stored, what is in memory and what is made of it for Apache agree.
SettingsSound == SettingsKept /\ StoredReachesApache

\* Who waits is released, unless the process died before it could signal.
ReleasedOrDead ==
    \A c \in Clients :
        client[c] = "waiting" ~>
            client[c] # "waiting" \/ proc[launched[c]] = "panicked"
=============================================================================
