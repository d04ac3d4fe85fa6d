------------------------- MODULE HttpdServerProofs -------------------------
(***************************************************************************)
(* What the Symbian server keeps to for any number of clients, any         *)
(* failures and any abstract Apache: its type, what a waiting request      *)
(* means, when the poller works, when the process may linger, and that a   *)
(* stopping server does not come back.                                     *)
(***************************************************************************)
EXTENDS HttpdServer, TLAPS

\* While the process lives it is in a state from which something can follow,
\* and Apache has a thread in all of them but the first, or but Starting when
\* the start was given up; only a failed logon leaves that thread unwatched.
\* Without the process nothing is left of it.
Life ==
    /\ alive => state \notin {"Stopped", "Terminated"}
    /\ alive /\ state = "NotStarted" => thread = "none"
    /\ alive /\ thread = "none" =>
           state = "NotStarted" \/ (state = "Starting" /\ "settings" \in Faults)
    /\ thread # "none" => watched \/ "logon" \in Faults
    /\ ~alive => thread = "none" /\ ~poller
    /\ ~alive => \A c \in Clients : handle[c] # "live"

\* A request waits in a session only.
PendingInSession == \A c \in Clients : req[c] = "pending" => handle[c] = "live"

\* A server that nobody uses has been started at least.
Inhabited == alive /\ Sessions = {} => state # "NotStarted"

\* The inductive invariant.
IInv ==
    /\ TypeOK
    /\ Life
    /\ PendingInSession
    /\ PendingIsCurrent
    /\ PollerAwaits
    /\ Inhabited

-----------------------------------------------------------------------------
(* Facts about what the handlers have in common.                           *)

\* Apache's own steps keep its type.
LEMMA ApacheType == ApacheTypeOK /\ ApacheStep => ApacheTypeOK'
<1> SUFFICES ASSUME ApacheTypeOK, ApacheStep PROVE ApacheTypeOK'
  OBVIOUS
<1> USE DEF ApacheTypeOK, Phases, Kinds
<1>1. CASE Configure
  BY <1>1 DEF Configure
<1>2. CASE Create
  BY <1>2 DEF Create
<1>3. CASE Serve
  BY <1>3 DEF Serve
<1>4. CASE Close
  BY <1>4 DEF Close
<1>5. CASE Unwind
  BY <1>5 DEF Unwind
<1>6. CASE MarkStopping
  BY <1>6 DEF MarkStopping
<1>7. CASE Conclude
  BY <1>7 DEF Conclude
<1>8. CASE Destroy
  BY <1>8 DEF Destroy
<1>9. QED  BY <1>1, <1>2, <1>3, <1>4, <1>5, <1>6, <1>7, <1>8 DEF ApacheStep

\* So does a stop call.
LEMMA StopType ==
  ASSUME NEW kind \in Kinds, ApacheTypeOK, Stop(kind) PROVE ApacheTypeOK'
  BY DEF ApacheTypeOK, Phases, Kinds, Stop, apacheVars

\* After a delivery no request waits.
LEMMA DeliverFacts ==
  ASSUME NEW s \in States, TypeOK, Deliver(s)
  PROVE  /\ req' \in [Clients -> {"idle", "pending", "answered", "terminated"}]
         /\ data' \in [Clients -> States]
         /\ \A c \in Clients : req'[c] # "pending"
  BY DEF TypeOK, Deliver

\* Nothing is left of a process that has ended but what its clients keep.
Gone ==
    /\ ~alive
    /\ \A c \in Clients : handle[c] # "live" /\ req[c] # "pending"

LEMMA GoneGood == ASSUME TypeOK', ProcessEnds, Gone' PROVE IInv'
  BY DEF IInv, Life, PendingInSession, PendingIsCurrent, PollerAwaits,
         Inhabited, ProcessEnds, Gone

LEMMA FinishGood ==
  ASSUME IInv, NEW s \in States, Finish(s) PROVE IInv'
<1>1. TypeOK /\ Deliver(s) /\ ProcessEnds /\ SessionsDie /\ state' = s
  BY DEF IInv, Finish
<1>2. handle' \in [Clients -> {"none", "live", "dead"}]
      /\ \A c \in Clients : handle'[c] # "live"
  BY <1>1 DEF SessionsDie, TypeOK
<1>3. TypeOK'
  BY <1>1, <1>2, DeliverFacts DEF TypeOK, ProcessEnds, ApacheTypeOK, Phases
<1>4. Gone'
  BY <1>1, <1>2, DeliverFacts DEF Gone, ProcessEnds
<1>5. QED  BY <1>1, <1>3, <1>4, GoneGood

LEMMA VanishGood == ASSUME IInv, Vanish PROVE IInv'
<1>1. TypeOK /\ ProcessEnds /\ SessionsDie
  BY DEF IInv, Vanish
<1>2. handle' \in [Clients -> {"none", "live", "dead"}]
      /\ \A c \in Clients : handle'[c] # "live"
  BY <1>1 DEF SessionsDie, TypeOK
<1>3. req' \in [Clients -> {"idle", "pending", "answered", "terminated"}]
      /\ \A c \in Clients : req'[c] # "pending"
  BY <1>1 DEF Vanish, TypeOK
<1>4. TypeOK'
  BY <1>1, <1>2, <1>3 DEF TypeOK, Vanish, ProcessEnds, ApacheTypeOK, Phases
<1>5. Gone'
  BY <1>1, <1>2, <1>3 DEF Gone, ProcessEnds
<1>6. QED  BY <1>1, <1>4, <1>5, GoneGood

\* A step that touches Apache's variables only.
LEMMA FrameGood == ASSUME IInv, ApacheTypeOK', ServerFrame PROVE IInv'
  BY DEF IInv, TypeOK, Life, PendingInSession, PendingIsCurrent, PollerAwaits,
         Inhabited, Sessions, ServerFrame, processVars, sessionVars

\* Who has a session has a server.
LEMMA LiveIsAlive ==
  ASSUME IInv, NEW c \in Clients, handle[c] = "live" PROVE alive /\ Sessions # {}
  BY DEF IInv, Life, Sessions

\* A leg up for the steps below: the parts that a step shows one by one.
LEMMA Parts ==
  ASSUME TypeOK', Life', PendingInSession', PendingIsCurrent', PollerAwaits',
         Inhabited'
  PROVE  IInv'
  BY DEF IInv

-----------------------------------------------------------------------------
(* The clients' calls.                                                     *)

LEMMA ConnectGood == ASSUME IInv, NEW c \in Clients, Connect(c) PROVE IInv'
<1> USE DEF IInv, Connect
<1>1. TypeOK'
  BY DEF TypeOK, ApacheTypeOK, apacheVars, States
<1>2. Life'
  BY DEF Life, TypeOK, States
<1>3. PendingInSession' /\ PendingIsCurrent'
  BY DEF PendingInSession, PendingIsCurrent, TypeOK
<1>4. PollerAwaits'
  BY DEF PollerAwaits, Life
<1>5. Inhabited'
  BY DEF Inhabited, Sessions, TypeOK
<1>6. QED  BY <1>1, <1>2, <1>3, <1>4, <1>5, Parts

LEMMA DisconnectGood == ASSUME IInv, NEW c \in Clients, Disconnect(c) PROVE IInv'
<1>1. /\ handle' = [handle EXCEPT ![c] = "none"]
      /\ req' = [req EXCEPT ![c] = "idle"]
      /\ data' = data
  BY DEF Disconnect
<1>2. CASE EndsWith(c)
  <2>1. ProcessEnds /\ state' \in States
    BY <1>2 DEF Disconnect, IInv, TypeOK, States
  <2>2. TypeOK'
    BY <1>1, <2>1 DEF IInv, TypeOK, ProcessEnds, ApacheTypeOK, Phases
  <2>3. Gone'
    BY <1>1, <1>2, <2>1
       DEF IInv, TypeOK, Gone, ProcessEnds, EndsWith, Sessions, PendingInSession
  <2>4. QED  BY <2>1, <2>2, <2>3, GoneGood
<1>3. CASE ~EndsWith(c)
  <2>1. UNCHANGED <<apacheVars, processVars>>
    BY <1>3 DEF Disconnect
  <2>2. TypeOK'
    BY <1>1, <2>1 DEF IInv, TypeOK, ApacheTypeOK, apacheVars, processVars
  <2>3. Life'
    BY <1>1, <2>1 DEF IInv, TypeOK, Life, processVars
  <2>4. PendingInSession' /\ PendingIsCurrent'
    BY <1>1, <2>1
       DEF IInv, TypeOK, PendingInSession, PendingIsCurrent, processVars
  <2>5. PollerAwaits'
    BY <2>1 DEF IInv, PollerAwaits, processVars
  <2>6. Inhabited'
    <3>1. CASE Sessions' # {} \/ ~alive
      BY <3>1, <2>1 DEF Inhabited, processVars
    <3>2. CASE Sessions' = {} /\ Sessions = {}
      BY <3>2, <2>1 DEF IInv, Inhabited, processVars
    <3>3. CASE Sessions' = {} /\ Sessions # {} /\ alive
      <4>1. Sessions = {c}
        BY <1>1, <3>3 DEF Sessions, IInv, TypeOK
      <4>2. state # "NotStarted"
        BY <1>3, <4>1 DEF EndsWith
      <4>3. QED  BY <4>2, <2>1 DEF Inhabited, processVars
    <3>4. QED  BY <3>1, <3>2, <3>3
  <2>7. QED  BY <2>2, <2>3, <2>4, <2>5, <2>6, Parts
<1>4. QED  BY <1>2, <1>3

\* The calls that move a request touch no more than it and what it was told.
LEMMA RequestGood ==
  ASSUME IInv, NEW c \in Clients,
         GetStateAsync(c) \/ GetStateOfDead(c) \/ TakeOrCancel(c)
  PROVE  IInv'
<1>1. UNCHANGED <<apacheVars, processVars, handle>>
  BY DEF GetStateAsync, GetStateOfDead, TakeOrCancel
<1>2. /\ req' \in [Clients -> {"idle", "pending", "answered", "terminated"}]
      /\ data' \in [Clients -> States]
  BY DEF GetStateAsync, GetStateOfDead, TakeOrCancel, IInv, TypeOK
<1>3. TypeOK'
  BY <1>1, <1>2 DEF IInv, TypeOK, ApacheTypeOK, apacheVars, processVars
<1>4. Life' /\ PollerAwaits' /\ Inhabited'
  BY <1>1 DEF IInv, Life, PollerAwaits, Inhabited, Sessions, processVars
<1>5. PendingInSession'
  BY <1>1, <1>2
     DEF IInv, TypeOK, PendingInSession, GetStateAsync, GetStateOfDead, TakeOrCancel
<1>6. PendingIsCurrent'
  <2>1. CASE GetStateAsync(c)
    BY <1>1, <2>1, LiveIsAlive DEF IInv, TypeOK, PendingIsCurrent, GetStateAsync, processVars
  <2>2. CASE GetStateOfDead(c) \/ TakeOrCancel(c)
    BY <1>1, <2>2
       DEF IInv, TypeOK, PendingIsCurrent, GetStateOfDead, TakeOrCancel, processVars
  <2>3. QED  BY <2>1, <2>2
<1>7. QED  BY <1>3, <1>4, <1>5, <1>6, Parts

LEMMA StartGood == ASSUME IInv, NEW c \in Clients, StartHttpd(c) PROVE IInv'
<1>1. alive /\ Sessions # {} /\ state = "NotStarted" /\ thread = "none" /\ ~poller
  BY LiveIsAlive DEF StartHttpd, IInv, Life, PollerAwaits
<1>2. Deliver("Starting") /\ UNCHANGED <<apacheVars, alive, shouldExit, handle>>
  BY DEF StartHttpd
<1>3. /\ state' \in {"NotStarted", "Starting"}
      /\ thread' \in {"none", "runs"}
      /\ poller' \in BOOLEAN /\ watched' \in BOOLEAN
      /\ watched' => thread' # "none"
      /\ state' = "NotStarted" => thread' = "none"
      /\ poller' <=> thread' # "none"
      /\ thread' # "none" => state' = "Starting"
      /\ thread' # "none" => watched' \/ "logon" \in Faults
      /\ state' = "Starting" /\ thread' = "none" => "settings" \in Faults
  <2>1. watched = FALSE /\ poller = FALSE
    BY <1>1 DEF IInv, TypeOK
  <2>2. CASE /\ state' = "Starting"
             /\ thread' = "runs"
             /\ poller' = TRUE
             /\ watched' \in {TRUE} \cup (IF "logon" \in Faults THEN {FALSE} ELSE {})
    <3>1. watched' \in BOOLEAN /\ (watched' \/ "logon" \in Faults)
      BY <2>2
    <3>2. QED  BY <2>2, <3>1
  <2>3. CASE /\ "settings" \in Faults
             /\ state' = "Starting"
             /\ UNCHANGED <<thread, poller, watched>>
    BY <1>1, <2>1, <2>3
  <2>4. CASE UNCHANGED <<state, thread, poller, watched>>
    BY <1>1, <2>1, <2>4
  <2>5. QED  BY <2>2, <2>3, <2>4 DEF StartHttpd
<1>4. /\ req' \in [Clients -> {"idle", "pending", "answered", "terminated"}]
      /\ data' \in [Clients -> States]
      /\ \A d \in Clients : req'[d] # "pending"
  BY <1>2, DeliverFacts DEF IInv, States
<1>5. TypeOK'
  BY <1>2, <1>3, <1>4 DEF IInv, TypeOK, ApacheTypeOK, apacheVars, States
<1>6. Life' /\ PollerAwaits' /\ Inhabited'
  BY <1>1, <1>2, <1>3 DEF Life, PollerAwaits, Inhabited, Sessions
<1>7. PendingInSession' /\ PendingIsCurrent'
  BY <1>4 DEF PendingInSession, PendingIsCurrent
<1>8. QED  BY <1>5, <1>6, <1>7, Parts

\* UpdateHttpdState leaves no request waiting, except when it says Stopping.
LEMMA UpdateFacts ==
  ASSUME IInv, NEW s \in States, UpdateHttpdState(s)
  PROVE  /\ state' = s
         /\ req' \in [Clients -> {"idle", "pending", "answered", "terminated"}]
         /\ data' \in [Clients -> States]
         /\ s = "Stopping" => UNCHANGED <<req, data>>
         /\ s # "Stopping" => \A d \in Clients : req'[d] # "pending"
<1>1. CASE s = "Stopping"
  BY <1>1 DEF UpdateHttpdState, IInv, TypeOK
<1>2. CASE s # "Stopping"
  BY <1>2, DeliverFacts DEF UpdateHttpdState, IInv
<1>3. QED  BY <1>1, <1>2

LEMMA StopGood == ASSUME IInv, NEW c \in Clients, StopHttpd(c) PROVE IInv'
<1>1. alive /\ Sessions # {}
  BY LiveIsAlive DEF StopHttpd
<1>2. shouldExit' = TRUE /\ UNCHANGED <<alive, poller, watched, thread, handle>>
  BY DEF StopHttpd
<1>3. Sessions' # {}
  BY <1>1, <1>2 DEF Sessions
<1>4. CASE state = "Running"
  <2>1. Stop("shutdown") /\ UpdateHttpdState("Stopping")
    BY <1>4 DEF StopHttpd
  <2>2. state' = "Stopping" /\ UNCHANGED <<req, data>>
    BY <2>1 DEF UpdateHttpdState
  <2>3. ApacheTypeOK'
    BY <2>1, StopType DEF IInv, TypeOK, Kinds
  <2>4. TypeOK'
    BY <1>2, <2>2, <2>3 DEF IInv, TypeOK, States
  <2>5. Life' /\ PollerAwaits' /\ Inhabited'
    BY <1>1, <1>2, <1>3, <1>4, <2>2 DEF IInv, Life, PollerAwaits, Inhabited
  <2>6. PendingInSession' /\ PendingIsCurrent'
    BY <1>1, <1>2, <2>2 DEF IInv, PendingInSession, PendingIsCurrent
  <2>7. QED  BY <2>4, <2>5, <2>6, Parts
<1>5. CASE state # "Running"
  <2>1. UNCHANGED <<apacheVars, state, req, data>>
    BY <1>5 DEF StopHttpd
  <2>2. TypeOK'
    BY <1>2, <2>1 DEF IInv, TypeOK, ApacheTypeOK, apacheVars
  <2>3. Life' /\ PollerAwaits' /\ Inhabited'
    BY <1>1, <1>2, <1>3, <2>1 DEF IInv, Life, PollerAwaits, Inhabited
  <2>4. PendingInSession' /\ PendingIsCurrent'
    BY <1>2, <2>1 DEF IInv, PendingInSession, PendingIsCurrent
  <2>5. QED  BY <2>2, <2>3, <2>4, Parts
<1>6. QED  BY <1>4, <1>5

LEMMA RestartGood == ASSUME IInv, NEW c \in Clients, RestartHttpd(c) PROVE IInv'
<1>1. alive /\ Sessions # {}
  BY LiveIsAlive DEF RestartHttpd
<1>2. thread # "none"
  BY <1>1 DEF IInv, Life, RestartHttpd
<1>3. /\ poller' = TRUE
      /\ UNCHANGED <<alive, shouldExit, watched, thread, handle>>
  BY DEF RestartHttpd
<1>4. /\ state' = "Restarting"
      /\ req' \in [Clients -> {"idle", "pending", "answered", "terminated"}]
      /\ data' \in [Clients -> States]
      /\ \A d \in Clients : req'[d] # "pending"
  BY UpdateFacts DEF RestartHttpd, States
<1>5. ApacheTypeOK'
  BY StopType DEF RestartHttpd, IInv, TypeOK, Kinds
<1>6. TypeOK'
  BY <1>3, <1>4, <1>5 DEF IInv, TypeOK, States
<1>7. Life' /\ PollerAwaits' /\ Inhabited'
  BY <1>1, <1>2, <1>3, <1>4 DEF IInv, Life, PollerAwaits, Inhabited, Sessions
<1>8. PendingInSession' /\ PendingIsCurrent'
  BY <1>4 DEF PendingInSession, PendingIsCurrent
<1>9. QED  BY <1>6, <1>7, <1>8, Parts

LEMMA CallGood == ASSUME IInv, NEW c \in Clients, Call(c) PROVE IInv'
  BY ConnectGood, DisconnectGood, RequestGood, StartGood, StopGood, RestartGood
     DEF Call

-----------------------------------------------------------------------------
(* The server's active objects and Apache.                                 *)

LEMMA PollGood == ASSUME IInv, Poll PROVE IInv'
<1>1. alive /\ thread # "none"
  BY DEF Poll, IInv, PollerAwaits
<1>2. /\ poller' = FALSE
      /\ UNCHANGED <<apacheVars, alive, shouldExit, watched, thread, handle>>
  BY DEF Poll
<1>3. /\ state' = "Running"
      /\ req' \in [Clients -> {"idle", "pending", "answered", "terminated"}]
      /\ data' \in [Clients -> States]
      /\ \A d \in Clients : req'[d] # "pending"
  BY UpdateFacts DEF Poll, States
<1>4. TypeOK'
  BY <1>2, <1>3 DEF IInv, TypeOK, ApacheTypeOK, apacheVars, States
<1>5. Life' /\ PollerAwaits'
  BY <1>1, <1>2, <1>3 DEF IInv, Life, PollerAwaits
<1>6. Inhabited'
  BY <1>1, <1>2, <1>3 DEF IInv, Inhabited, Sessions
<1>7. PendingInSession' /\ PendingIsCurrent'
  BY <1>3 DEF PendingInSession, PendingIsCurrent
<1>8. QED  BY <1>4, <1>5, <1>6, <1>7, Parts

LEMMA ServerGood == ASSUME IInv, ServerStep PROVE IInv'
<1>1. CASE Poll
  BY <1>1, PollGood
<1>2. CASE ThreadDeath
  BY <1>2, FinishGood DEF ThreadDeath, States
<1>3. CASE WorkerPanics
  BY <1>3, FinishGood DEF WorkerPanics, States
<1>4. CASE ServerPanics
  BY <1>4, VanishGood DEF ServerPanics
<1>5. QED  BY <1>1, <1>2, <1>3, <1>4 DEF ServerStep

LEMMA MainPanicsGood == ASSUME IInv, MainPanics PROVE IInv'
<1>1. /\ thread = "runs" /\ thread' = "paniced"
      /\ UNCHANGED <<apacheVars, alive, state, shouldExit, poller, watched, sessionVars>>
  BY DEF MainPanics
<1>2. TypeOK'
  BY <1>1 DEF IInv, TypeOK, ApacheTypeOK, apacheVars, sessionVars
<1>3. Life' /\ PendingInSession' /\ PendingIsCurrent' /\ PollerAwaits' /\ Inhabited'
  BY <1>1 DEF IInv, Life, PendingInSession, PendingIsCurrent, PollerAwaits,
              Inhabited, Sessions, sessionVars
<1>4. QED  BY <1>2, <1>3, Parts

LEMMA ApacheGood ==
  ASSUME IInv, ApacheRuns \/ AcceptFails \/ ConfigExits \/ MainPanics PROVE IInv'
<1>1. CASE ApacheRuns
  BY <1>1, ApacheType, FrameGood DEF ApacheRuns, IInv, TypeOK
<1>2. CASE AcceptFails
  BY <1>2, StopType, FrameGood DEF AcceptFails, IInv, TypeOK, Kinds
<1>3. CASE ConfigExits
  BY <1>3, VanishGood DEF ConfigExits
<1>4. CASE MainPanics
  BY <1>4, MainPanicsGood
<1>5. QED  BY <1>1, <1>2, <1>3, <1>4

LEMMA InitGood == Init => IInv
  BY DEF Init, IInv, TypeOK, ApacheInit, ApacheTypeOK, Phases, States, Life,
         PendingInSession, PendingIsCurrent, PollerAwaits, Inhabited

LEMMA StutterGood == IInv /\ UNCHANGED vars => IInv'
  BY DEF IInv, TypeOK, ApacheTypeOK, Life, PendingInSession, PendingIsCurrent,
         PollerAwaits, Inhabited, Sessions, vars, apacheVars, processVars,
         sessionVars

LEMMA StepGood == IInv /\ [Next]_vars => IInv'
<1> SUFFICES ASSUME IInv, [Next]_vars PROVE IInv'
  OBVIOUS
<1>1. CASE \E c \in Clients : Call(c)
  BY <1>1, CallGood
<1>2. CASE ServerStep
  BY <1>2, ServerGood
<1>3. CASE ApacheRuns \/ AcceptFails \/ ConfigExits \/ MainPanics
  BY <1>3, ApacheGood
<1>4. CASE UNCHANGED vars
  BY <1>4, StutterGood
<1>5. QED  BY <1>1, <1>2, <1>3, <1>4 DEF Next

LEMMA Invariance == Spec => []IInv
<1>1. QED  BY InitGood, StepGood, PTL DEF Spec

-----------------------------------------------------------------------------
(* The theorems.                                                           *)

\* The variables of the server and of the Apache it hosts stay in their types,
\* and the waiter waits for a thread that exists.
THEOREM ServerTypeCorrect == Spec => []TypeOK
<1>1. IInv => TypeOK
  BY DEF IInv
<1>2. QED  BY <1>1, Invariance, PTL

\* UpdateHttpdState and GetStateAsyncL between them never leave a client
\* waiting with a state other than the present one, or at a dead server.
THEOREM NoStaleRequest == Spec => []PendingIsCurrent
<1>1. IInv => PendingIsCurrent
  BY DEF IInv
<1>2. QED  BY <1>1, Invariance, PTL

\* StartHttpdL, RestartHttpd and CPoller keep the poller at work exactly while a
\* generation of Apache is awaited.
THEOREM PollerRight == Spec => []PollerAwaits
<1>1. IInv => PollerAwaits
  BY DEF IInv
<1>2. QED  BY <1>1, Invariance, PTL

\* A server that has lost its last client stays for a thread of Apache only,
\* awaited by the poller or watched by the waiter; with neither of the two
\* errors that StartHttpdL and DoStartHttpdL ignore there is no exception.
THEOREM NeverIdle == Spec => []NoIdleServer
<1>1. IInv => NoIdleServer
  <2> SUFFICES ASSUME IInv, alive, Sessions = {} PROVE NoIdleServer
    BY DEF NoIdleServer
  <2>1. CASE thread = "none"
    BY <2>1 DEF IInv, Life, Inhabited, NoIdleServer, StartGivenUp
  <2>2. CASE thread # "none"
    <3>1. state \in {"Starting", "Restarting"} => poller
      BY <2>2 DEF IInv, PollerAwaits
    <3>2. (ThreadEnded => watched) \/ GoneUnnoticed
      BY <2>2 DEF IInv, Life, GoneUnnoticed
    <3>3. QED  BY <2>2, <3>1, <3>2 DEF NoIdleServer
  <2>3. QED  BY <2>1, <2>2
<1>2. QED  BY <1>1, Invariance, PTL

\* No handler brings a stopping Apache back within the life of the process.
THEOREM StoppingIsFinal == Spec => NoResurrection
<1>1. ASSUME IInv, [Next]_vars
      PROVE  [alive /\ alive' /\ state = "Stopping" => state' = "Stopping"]_vars
  <2> SUFFICES ASSUME alive, alive', state = "Stopping", Next
               PROVE  state' = "Stopping"
    BY <1>1
  <2>1. ~poller
    BY <1>1 DEF IInv, PollerAwaits
  <2>2. ASSUME NEW c \in Clients, Call(c) PROVE state' = "Stopping"
    BY <2>2 DEF Call, Connect, Disconnect, GetStateAsync, GetStateOfDead, TakeOrCancel,
            StartHttpd, StopHttpd, RestartHttpd, ProcessEnds, processVars
  <2>3. CASE ServerStep
    BY <2>1, <2>3 DEF ServerStep, Poll, ThreadDeath, WorkerPanics, ServerPanics,
                      Finish, Vanish, ProcessEnds
  <2>4. CASE ApacheRuns \/ AcceptFails \/ ConfigExits \/ MainPanics
    BY <2>4 DEF ApacheRuns, AcceptFails, ConfigExits, MainPanics, ServerFrame,
                Vanish, processVars
  <2>5. QED  BY <2>2, <2>3, <2>4 DEF Next
<1>2. QED  BY <1>1, Invariance, PTL DEF Spec, NoResurrection

-----------------------------------------------------------------------------
(* A restart is not taken for done while it is pending, and a stop that    *)
(* the server believes in is not lost.  This needs what Apache's phases    *)
(* mean, and an Apache that does not end unasked.                          *)

Upright == {"starting", "serving", "closing", "decide", "again", "over"}

\* Apache says it runs only while it serves and nobody has told it to stop; it
\* is not told before it serves; and it does not close but on a stop call.
PhaseInv ==
    /\ mpmState = "RUNNING" => phase = "serving" /\ pending = {}
    /\ up <=> phase \in Upright
    /\ phase = "starting" => pending = {}
    /\ phase \in {"closing", "decide"} => "shutdown" \in pending \/ "restart" \in pending
    /\ phase = "again" => "restart" \in pending

\* The server is in the running state only over the generation it has seen run,
\* and that has not been told to restart.
RunningInv ==
    alive /\ state = "Running" =>
        /\ phase \in {"serving", "closing", "decide", "over", "exited"}
        /\ phase # "exited" => "restart" \notin pending

\* The strengthening.
Faithful == PhaseInv /\ RunningInv /\ StopPassedOn

\* A stop call to a thread that is past its start.
LEMMA StopPhase ==
  ASSUME TypeOK, PhaseInv, NEW kind \in Kinds, Stop(kind),
         phase \notin {"config", "create", "starting"}
  PROVE  PhaseInv' /\ phase' = phase /\ pending' \subseteq pending \cup {kind}
  BY DEF TypeOK, ApacheTypeOK, PhaseInv, Stop, Kinds, Upright, apacheVars

LEMMA ProcessEndsPhase == ASSUME ProcessEnds PROVE Faithful'
  BY DEF ProcessEnds, Faithful, PhaseInv, RunningInv, StopPassedOn, Upright

LEMMA ApachePhase ==
  ASSUME ~Unasked, TypeOK, Faithful, ApacheStep, ServerFrame
  PROVE  Faithful'
<1>1. alive' = alive /\ state' = state /\ thread' = thread
  BY DEF ServerFrame, processVars
<1>2. pending \subseteq Kinds
  BY DEF TypeOK, ApacheTypeOK
<1> USE <1>1, <1>2 DEF Faithful, PhaseInv, RunningInv, StopPassedOn, Upright, Kinds
<1>3. CASE Configure
  BY <1>3 DEF Configure
<1>4. CASE Create
  BY <1>4 DEF Create
<1>5. CASE Serve
  BY <1>5 DEF Serve
<1>6. CASE Close
  BY <1>6 DEF Close
<1>7. CASE Unwind
  BY <1>7 DEF Unwind
<1>8. CASE MarkStopping
  BY <1>8 DEF MarkStopping
<1>9. CASE Conclude
  BY <1>9 DEF Conclude
<1>10. CASE Destroy
  BY <1>10 DEF Destroy
<1>11. QED
  BY <1>3, <1>4, <1>5, <1>6, <1>7, <1>8, <1>9, <1>10 DEF ApacheStep

\* The clients' calls: of these only a stop and a restart reach Apache, and both
\* leave the running state.
LEMMA CallPhase ==
  ASSUME IInv, Faithful, NEW c \in Clients, Call(c)
  PROVE  Faithful'
<1> USE DEF Faithful, PhaseInv, RunningInv, StopPassedOn
<1>1. CASE Connect(c)
  BY <1>1 DEF Connect, apacheVars
<1>2. CASE Disconnect(c)
  <2>1. CASE EndsWith(c)
    BY <1>2, <2>1, ProcessEndsPhase DEF Disconnect
  <2>2. CASE ~EndsWith(c)
    BY <1>2, <2>2 DEF Disconnect, apacheVars, processVars
  <2>3. QED  BY <2>1, <2>2
<1>3. CASE StartHttpd(c)
  BY <1>3 DEF StartHttpd, apacheVars
<1>4. CASE StopHttpd(c) \/ RestartHttpd(c)
  <2>1. alive
    BY <1>4, LiveIsAlive DEF StopHttpd, RestartHttpd
  <2>2. CASE StopHttpd(c) /\ state # "Running"
    BY <2>2 DEF StopHttpd, apacheVars
  <2>3. CASE state = "Running"
    <3>1. PICK kind \in Kinds : Stop(kind)
      BY <1>4, <2>3 DEF StopHttpd, RestartHttpd, Kinds
    <3>2. phase \notin {"config", "create", "starting"}
      BY <2>1, <2>3 DEF RunningInv
    <3>3. PhaseInv'
      BY <3>1, <3>2, StopPhase DEF IInv
    <3>4. state' # "Running"
      BY <1>4, <2>3 DEF StopHttpd, RestartHttpd, UpdateHttpdState
    <3>5. RunningInv'
      BY <3>4
    <3>6. CASE StopHttpd(c)
      <4>1. Stop("shutdown")
        BY <2>3, <3>6 DEF StopHttpd
      <4>2. phase' = phase /\ phase \in {"serving", "closing", "decide", "over", "exited"}
        BY <2>1, <2>3, <3>1, <3>2, StopPhase DEF IInv
      <4>3. phase \in {"serving", "closing", "decide"} => "shutdown" \in pending'
        BY <4>1 DEF Stop, Upright
      <4>4. QED  BY <3>3, <3>5, <4>2, <4>3
    <3>7. CASE RestartHttpd(c)
      BY <2>3, <3>3, <3>5, <3>7 DEF RestartHttpd, UpdateHttpdState
    <3>8. QED  BY <1>4, <3>6, <3>7
  <2>4. QED  BY <1>4, <2>2, <2>3 DEF RestartHttpd
<1>5. CASE GetStateAsync(c) \/ GetStateOfDead(c) \/ TakeOrCancel(c)
  BY <1>5 DEF GetStateAsync, GetStateOfDead, TakeOrCancel,
              apacheVars, processVars
<1>6. QED  BY <1>1, <1>2, <1>3, <1>4, <1>5 DEF Call

LEMMA OthersPhase ==
  ASSUME ~Unasked, IInv, Faithful,
         ServerStep \/ ApacheRuns \/ AcceptFails \/ ConfigExits \/ MainPanics
  PROVE  Faithful'
<1> USE DEF Faithful, PhaseInv, RunningInv, StopPassedOn
<1>1. CASE Poll
  BY <1>1 DEF Poll, UpdateHttpdState, apacheVars
<1>2. CASE ThreadDeath \/ WorkerPanics \/ ServerPanics \/ ConfigExits
  BY <1>2, ProcessEndsPhase
     DEF ThreadDeath, WorkerPanics, ServerPanics, ConfigExits, Finish, Vanish
<1>3. CASE ApacheRuns
  BY <1>3, ApachePhase DEF ApacheRuns, IInv
<1>4. CASE AcceptFails
  <2>1. /\ Stop("shutdown") /\ phase = "serving" /\ thread' = thread
        /\ alive' = alive /\ state' = state
    BY <1>4 DEF AcceptFails, ServerFrame, processVars
  <2>2. PhaseInv' /\ phase' = phase /\ pending' \subseteq pending \cup {"shutdown"}
    BY <2>1, StopPhase DEF IInv, Kinds
  <2>3. pending \subseteq pending'
    BY <2>1 DEF Stop, apacheVars
  <2>4. QED  BY <2>1, <2>2, <2>3
<1>5. CASE MainPanics
  BY <1>5 DEF MainPanics, apacheVars
<1>6. QED  BY <1>1, <1>2, <1>3, <1>4, <1>5 DEF ServerStep

LEMMA SpecFaithful == ASSUME ~Unasked PROVE Spec => []Faithful
<1> USE DEF Faithful, PhaseInv, RunningInv, StopPassedOn
<1>1. Init => Faithful
  BY DEF Init, ApacheInit, Upright
<1>2. IInv /\ Faithful /\ [Next]_vars => Faithful'
  <2> SUFFICES ASSUME IInv, Faithful, [Next]_vars
               PROVE  Faithful'
    OBVIOUS
  <2>1. CASE \E c \in Clients : Call(c)
    BY <2>1, CallPhase
  <2>2. CASE ServerStep \/ ApacheRuns \/ AcceptFails \/ ConfigExits \/ MainPanics
    BY <2>2, OthersPhase
  <2>3. CASE UNCHANGED vars
    BY <2>3 DEF vars, apacheVars, processVars
  <2>4. QED  BY <2>1, <2>2, <2>3 DEF Next
<1>3. QED  BY <1>1, <1>2, Invariance, PTL DEF Spec

\* Over an Apache that ends a generation only when told to, RestartHttpd is not
\* mistaken for done: the running state means that no restart is pending.  And
\* a shutdown that StopHttpd has passed on stays with Apache until its end: the
\* Stopping that clients are told is true.
THEOREM CallsReachApache == ASSUME ~Unasked PROVE Spec => []CallsPassedOn
<1>1. Faithful => CallsPassedOn
  BY DEF Faithful, PhaseInv, RunningInv, CallsPassedOn, RunningIsCurrent, Upright
<1>2. QED  BY <1>1, SpecFaithful, PTL

-----------------------------------------------------------------------------
(* The Apache in the server is the one of module Apache.                   *)

\* A process without an Apache holds one that has not begun.
Fresh == thread = "none" => ApacheInit

\* What one life of the process does to Apache.
HostStep == alive /\ alive' => [ApacheNext]_apacheVars

\* StopHttpd, RestartHttpd, the workers and the end of the process are all that
\* reach Apache: within one life of the process it does nothing but its own
\* steps and hears nothing but its stop calls, and each life finds its static
\* data fresh.  So any Apache that implements module Apache, Mpm among them,
\* can serve here.
THEOREM HostsApache == Spec => [](~alive => ApacheInit) /\ [][HostStep]_vars
<1>1. Init => Fresh
  BY DEF Init, Fresh
<1>2. ASSUME IInv, Fresh, [Next]_vars PROVE Fresh' /\ [HostStep]_vars
  <2>1. CASE UNCHANGED apacheVars /\ (thread' = "none" => thread = "none")
    BY <1>2, <2>1 DEF Fresh, HostStep, ApacheInit, apacheVars
  <2>2. CASE ProcessEnds
    BY <2>2 DEF ProcessEnds, Fresh, HostStep, ApacheInit
  <2>3. ASSUME NEW c \in Clients, Call(c) PROVE Fresh' /\ [HostStep]_vars
    <3>1. CASE Disconnect(c)
      BY <2>1, <2>2, <3>1 DEF Disconnect, processVars
    <3>2. CASE StopHttpd(c) \/ RestartHttpd(c)
      <4>1. CASE state = "Running"
        <5>1. alive
          BY <1>2, <3>2, LiveIsAlive DEF StopHttpd, RestartHttpd
        <5>2. thread # "none" /\ thread' = thread
          BY <1>2, <3>2, <4>1, <5>1 DEF StopHttpd, RestartHttpd, IInv, Life
        <5>3. ApacheNext
          BY <3>2, <4>1 DEF StopHttpd, RestartHttpd, ApacheNext, Kinds
        <5>4. QED  BY <5>2, <5>3 DEF Fresh, HostStep
      <4>2. CASE state # "Running"
        BY <2>1, <3>2, <4>2 DEF StopHttpd, RestartHttpd
      <4>3. QED  BY <4>1, <4>2
    <3>3. QED
      BY <2>1, <2>3, <3>1, <3>2 DEF Call, Connect, StartHttpd, GetStateAsync,
         GetStateOfDead, TakeOrCancel, processVars
  <2>4. CASE ServerStep \/ ConfigExits
    BY <2>1, <2>2, <2>4 DEF ServerStep, Poll, ThreadDeath, WorkerPanics, ServerPanics,
       ConfigExits, Finish, Vanish
  <2>5. CASE ApacheRuns \/ AcceptFails
    <3>1. thread = "runs" /\ thread' = thread
      BY <2>5 DEF ApacheRuns, AcceptFails, ServerFrame, processVars
    <3>2. ApacheNext
      BY <2>5 DEF ApacheRuns, AcceptFails, ApacheNext, Kinds
    <3>3. QED  BY <3>1, <3>2 DEF Fresh, HostStep
  <2>6. CASE MainPanics
    BY <2>1, <2>6 DEF MainPanics
  <2>7. CASE UNCHANGED vars
    BY <2>1, <2>7 DEF vars, processVars
  <2>8. QED  BY <1>2, <2>3, <2>4, <2>5, <2>6, <2>7 DEF Next
<1>3. IInv /\ Fresh => (~alive => ApacheInit)
  BY DEF IInv, Life, Fresh
<1>4. QED  BY <1>1, <1>2, <1>3, Invariance, PTL DEF Spec

-----------------------------------------------------------------------------
(* The server's life as its clients see it.                                *)

LEMMA LifeBegins == Init => ServerLife!LifeInit
BY DEF Init, Sessions, ServerLife!LifeInit

\* A handler that lets the process live and does nothing to the handles.
LEMMA LifeUnseen ==
    ASSUME UNCHANGED <<alive, handle>>
    PROVE  UNCHANGED ServerLife!lifeVars
BY DEF Sessions, ServerLife!lifeVars

\* The process ends, and every session with it.
LEMMA LifeEnds ==
    ASSUME IInv, alive, ~alive', \A c \in Clients : handle'[c] # "live"
    PROVE  ServerLife!LifeNext
<1>1. Sessions' = {}
  BY DEF Sessions
<1>2. ServerLife!End
  BY <1>1 DEF ServerLife!End
<1>3. QED  BY <1>2 DEF ServerLife!LifeNext

LEMMA CallLife ==
    ASSUME IInv, NEW c \in Clients, Call(c)
    PROVE  [ServerLife!LifeNext]_(ServerLife!lifeVars)
<1> USE DEF IInv
<1>1. CASE Connect(c)
  <2>1. alive' = TRUE /\ Sessions' = Sessions \cup {c}
    BY <1>1 DEF Connect, Sessions, TypeOK
  <2>2. CASE alive
    <3>1. ServerLife!Open(c)
      BY <2>1, <2>2 DEF ServerLife!Open
    <3>2. QED  BY <3>1 DEF ServerLife!LifeNext
  <2>3. CASE ~alive
    <3>1. Sessions = {}
      BY <2>3 DEF Life, Sessions
    <3>2. ServerLife!BeginAndOpen("httpds", c)
      BY <2>1, <2>3, <3>1 DEF ServerLife!BeginAndOpen
    <3>3. QED  BY <3>2 DEF ServerLife!LifeNext
  <2>4. QED  BY <2>2, <2>3
<1>2. CASE Disconnect(c)
  <2>1. Sessions' = Sessions \ {c}
    BY <1>2 DEF Disconnect, Sessions, TypeOK
  <2>2. CASE EndsWith(c)
    <3>1. alive
      BY <2>2 DEF EndsWith, Life, Sessions
    <3>2. ~alive' /\ Sessions' = {}
      BY <1>2, <2>1, <2>2 DEF Disconnect, EndsWith, ProcessEnds
    <3>3. ServerLife!End
      BY <3>1, <3>2 DEF ServerLife!End
    <3>4. QED  BY <3>3 DEF ServerLife!LifeNext
  <2>3. CASE ~EndsWith(c)
    <3>1. UNCHANGED alive
      BY <1>2, <2>3 DEF Disconnect, processVars
    <3>2. ServerLife!Shut(c)
      BY <2>1, <3>1 DEF ServerLife!Shut
    <3>3. QED  BY <3>2 DEF ServerLife!LifeNext
  <2>4. QED  BY <2>2, <2>3
<1>3. CASE \/ StartHttpd(c) \/ StopHttpd(c) \/ RestartHttpd(c)
           \/ GetStateAsync(c) \/ GetStateOfDead(c) \/ TakeOrCancel(c)
  BY <1>3, LifeUnseen DEF StartHttpd, StopHttpd, RestartHttpd, GetStateAsync, GetStateOfDead,
                          TakeOrCancel, processVars
<1>4. QED  BY <1>1, <1>2, <1>3 DEF Call

LEMMA OthersLife ==
    ASSUME IInv, ServerStep \/ ApacheRuns \/ AcceptFails \/ ConfigExits \/ MainPanics
    PROVE  [ServerLife!LifeNext]_(ServerLife!lifeVars)
<1>1. CASE ThreadDeath \/ WorkerPanics \/ ServerPanics \/ ConfigExits
  <2>1. alive
    BY <1>1 DEF IInv, TypeOK, Life, ThreadDeath, WorkerPanics, ServerPanics, ConfigExits
  <2>2. ~alive' /\ SessionsDie
    BY <1>1 DEF ThreadDeath, WorkerPanics, ServerPanics, ConfigExits, Finish, Vanish,
                ProcessEnds
  <2>3. \A c \in Clients : handle'[c] # "live"
    BY <2>2 DEF SessionsDie
  <2>4. QED  BY <2>1, <2>2, <2>3, LifeEnds
<1>2. CASE Poll \/ ApacheRuns \/ AcceptFails \/ MainPanics
  BY <1>2, LifeUnseen
     DEF Poll, ApacheRuns, AcceptFails, MainPanics, ServerFrame, processVars, sessionVars
<1>3. QED  BY <1>1, <1>2 DEF ServerStep

\* Whatever ends the process, its sessions end with it and the next one begins
\* with none: the life of the server that ServerStartup shows Connect to be part
\* of, whichever client starts it.
THEOREM ServerIsServerLife == Spec => KeepsServerLife
<1>1. IInv /\ [Next]_vars => [ServerLife!LifeNext]_(ServerLife!lifeVars)
  <2> SUFFICES ASSUME IInv, [Next]_vars
               PROVE  [ServerLife!LifeNext]_(ServerLife!lifeVars)
    OBVIOUS
  <2>1. CASE Next
    BY <2>1, CallLife, OthersLife DEF Next
  <2>2. CASE UNCHANGED vars
    BY <2>2, LifeUnseen DEF vars, processVars, sessionVars
  <2>3. QED  BY <2>1, <2>2
<1>2. QED
  BY <1>1, LifeBegins, Invariance, PTL DEF Spec, KeepsServerLife, ServerLife!LifeSpec
=============================================================================
