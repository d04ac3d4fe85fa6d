----------------------------- MODULE MpmProofs -----------------------------
(***************************************************************************)
(* Theorems about the multi-processing module, for every thread limit,     *)
(* every setting of the spare threads, every backlog and every choice of   *)
(* faults: first the types, then the safety.  No signal is lost, a slot is *)
(* not reused under a running thread, and the accept token is held once    *)
(* and handed on; then, for several threads, that a restart is not         *)
(* mistaken for done, that the workers are counted exactly and that the    *)
(* search for a slot succeeds.                                             *)
(***************************************************************************)
EXTENDS MpmApache, TLAPS, FiniteSetTheorems

\* The loop index is a slot wherever the code uses it as one.  TypeOK alone is
\* not inductive: a step that starts a worker relies on this.
SlotInRange ==
    mainPc \in {"spawn", "scan", "join_slot", "start_worker"} => mainSlot \in Slots

Typed == TypeOK /\ SlotInRange

(* Helpers *)

\* A stop call returns the caller to a place of the caller's own kind.
LEMMA ReturnsType ==
    ASSUME TypeOK, NEW who \in {Ctl} \cup Slots, NEW kind, Returns(who, kind)
    PROVE  /\ wpc' \in [Slots -> WorkerPcs]
           /\ ctl' \in {"polling", "running", "stopping"}
BY DEF TypeOK, Returns, WorkerPcs, Ctl, Slots

\* Signalling the waiting workers keeps every worker at a place of the code.
LEMMA SignalType ==
    ASSUME NEW w \in [Slots -> WorkerPcs], NEW v \in SignalWorkers(w)
    PROVE  v \in [Slots -> WorkerPcs]
BY DEF SignalWorkers, TokenWaiters, WorkerPcs

LEMMA BroadcastType ==
    ASSUME NEW w \in [Slots -> WorkerPcs]
    PROVE  BroadcastWorkers(w) \in [Slots -> WorkerPcs]
BY DEF BroadcastWorkers, WorkerPcs

LEMMA SignalMainType ==
    ASSUME NEW pc \in MainPcs
    PROVE  SignalMain(pc) \in MainPcs
BY DEF SignalMain, MainPcs

LEMMA BeginWorkerType ==
    ASSUME TypeOK, NEW i \in Slots, BeginWorker(i)
    PROVE  wpc' \in [Slots -> WorkerPcs] /\ served' \in [Slots -> 0 .. MaxRequests]
BY SettingsAssumption DEF TypeOK, BeginWorker, WorkerPcs

\* Trying to start a worker in a slot, with success or without.
LEMMA StartType ==
    ASSUME TypeOK, NEW i \in Slots, WorkerStart(i) \/ WorkerStartFails(i)
    PROVE  /\ threads' \subseteq Slots /\ dead' \subseteq Slots /\ nWorkers' \in Int
           /\ wpc' \in [Slots -> WorkerPcs] /\ served' \in [Slots -> 0 .. MaxRequests]
<1>1. CASE WorkerStart(i)
  <2>1. wpc' \in [Slots -> WorkerPcs] /\ served' \in [Slots -> 0 .. MaxRequests]
    BY <1>1, BeginWorkerType DEF WorkerStart
  <2>2. QED  BY <1>1, <2>1 DEF WorkerStart, TypeOK
<1>2. CASE WorkerStartFails(i)
  BY <1>2 DEF WorkerStartFails, TypeOK, workerVars
<1>3. QED  BY <1>1, <1>2

LEMMA CallStopType ==
    ASSUME TypeOK, NEW who \in {Ctl} \cup Slots,
           NEW kind \in {"shutdown", "restart"}, CallStop(who, kind)
    PROVE  TypeOK'
<1>1. wpc' \in [Slots -> WorkerPcs] /\ ctl' \in {"polling", "running", "stopping"}
  BY ReturnsType DEF CallStop, TypeOK
<1>2. mainPc' \in MainPcs
  BY SignalMainType DEF CallStop, TypeOK
<1>3. stopper' \in Stoppers
  BY DEF CallStop, TypeOK, Stoppers
<1>4. QED
  BY <1>1, <1>2, <1>3 DEF CallStop, TypeOK, RequestStop, StopFrame, workersVars

-----------------------------------------------------------------------------

LEMMA InitType == Init => TypeOK
<1> SUFFICES ASSUME Init PROVE TypeOK
  OBVIOUS
<1>1. theMpm \in BOOLEAN /\ shutdownPending \in BOOLEAN /\ restartPending \in BOOLEAN
          /\ acceptAvailable \in BOOLEAN /\ shouldExit \in BOOLEAN
  BY DEF Init
<1>2. nWorkers \in Int /\ nActive \in Int /\ mainSlot \in 1 .. ThreadLimit + 1
          /\ backlog \in 0 .. MaxBacklog /\ served \in [Slots -> 0 .. MaxRequests]
  BY SettingsAssumption DEF Init
<1>3. /\ mpmState \in {"STARTING", "RUNNING", "STOPPING"} /\ stopper \in Stoppers
      /\ mainPc \in MainPcs /\ threads \subseteq Slots /\ dead \subseteq Slots
      /\ wpc \in [Slots -> WorkerPcs] /\ ctl \in {"polling", "running", "stopping"}
  BY DEF Init, Stoppers, MainPcs, WorkerPcs
<1>4. QED  BY <1>1, <1>2, <1>3 DEF TypeOK

LEMMA MainStepType ==
    ASSUME Typed, MainStep
    PROVE  Typed'
<1> USE SettingsAssumption DEF Typed, SlotInRange
<1>1. CASE ReadConfig
  BY <1>1 DEF TypeOK, ReadConfig, stateVars, workersVars, workerVars, MainPcs, WorkerPcs, Slots
<1>2. CASE CreateMpm
  <2>1. theMpm' \in BOOLEAN /\ shutdownPending' \in BOOLEAN /\ restartPending' \in BOOLEAN
          /\ acceptAvailable' \in BOOLEAN /\ shouldExit' \in BOOLEAN
    BY <1>2 DEF TypeOK, CreateMpm, stateVars, workersVars, workerVars, MainPcs
  <2>2. /\ mpmState' \in {"STARTING", "RUNNING", "STOPPING"} /\ stopper' \in Stoppers
        /\ nWorkers' \in Int /\ nActive' \in Int
        /\ mainPc' \in MainPcs /\ mainSlot' \in 1 .. ThreadLimit + 1
        /\ SlotInRange'
    BY <1>2 DEF TypeOK, CreateMpm, stateVars, workersVars, workerVars, MainPcs, Slots
  <2>3. /\ threads' \subseteq Slots /\ dead' \subseteq Slots
        /\ wpc' \in [Slots -> WorkerPcs] /\ served' \in [Slots -> 0 .. MaxRequests]
        /\ backlog' \in 0 .. MaxBacklog /\ ctl' \in {"polling", "running", "stopping"}
    BY <1>2 DEF TypeOK, CreateMpm, stateVars, workersVars, workerVars, MainPcs
  <2>4. QED  BY <2>1, <2>2, <2>3 DEF TypeOK
<1>3. CASE EnterMain
  <2>1. theMpm' \in BOOLEAN /\ shutdownPending' \in BOOLEAN /\ restartPending' \in BOOLEAN
          /\ acceptAvailable' \in BOOLEAN /\ shouldExit' \in BOOLEAN
    BY <1>3 DEF TypeOK, EnterMain, stateVars, workersVars, workerVars, MainPcs
  <2>2. /\ mpmState' \in {"STARTING", "RUNNING", "STOPPING"} /\ stopper' \in Stoppers
        /\ nWorkers' \in Int /\ nActive' \in Int
        /\ mainPc' \in MainPcs /\ mainSlot' \in 1 .. ThreadLimit + 1
        /\ SlotInRange'
    BY <1>3 DEF TypeOK, EnterMain, stateVars, workersVars, workerVars, MainPcs, Slots
  <2>3. /\ threads' \subseteq Slots /\ dead' \subseteq Slots
        /\ wpc' \in [Slots -> WorkerPcs] /\ served' \in [Slots -> 0 .. MaxRequests]
        /\ backlog' \in 0 .. MaxBacklog /\ ctl' \in {"polling", "running", "stopping"}
    BY <1>3 DEF TypeOK, EnterMain, stateVars, workersVars, workerVars, MainPcs
  <2>4. QED  BY <2>1, <2>2, <2>3 DEF TypeOK
<1>4. CASE RunSingle
  <2>1. theMpm' \in BOOLEAN /\ shutdownPending' \in BOOLEAN /\ restartPending' \in BOOLEAN
          /\ acceptAvailable' \in BOOLEAN /\ shouldExit' \in BOOLEAN
    BY <1>4 DEF TypeOK, RunSingle, stateVars, workersVars, workerVars, MainPcs
  <2>2. wpc' \in [Slots -> WorkerPcs] /\ served' \in [Slots -> 0 .. MaxRequests]
    BY <1>4, BeginWorkerType DEF RunSingle, Slots
  <2>3. /\ mpmState' \in {"STARTING", "RUNNING", "STOPPING"} /\ stopper' \in Stoppers
        /\ nWorkers' \in Int /\ nActive' \in Int
        /\ mainPc' \in MainPcs /\ mainSlot' \in 1 .. ThreadLimit + 1
        /\ threads' \subseteq Slots /\ dead' \subseteq Slots
        /\ backlog' \in 0 .. MaxBacklog /\ ctl' \in {"polling", "running", "stopping"}
        /\ SlotInRange'
    BY <1>4 DEF TypeOK, RunSingle, stateVars, MainPcs
  <2>4. QED  BY <2>1, <2>2, <2>3 DEF TypeOK
<1>5. CASE SingleReturns
  BY <1>5 DEF TypeOK, SingleReturns, stateVars, workersVars, workerVars, MainPcs, WorkerPcs, Slots
<1>6. CASE StartThread
  <2>1. theMpm' \in BOOLEAN /\ shutdownPending' \in BOOLEAN /\ restartPending' \in BOOLEAN
          /\ acceptAvailable' \in BOOLEAN /\ shouldExit' \in BOOLEAN
    BY <1>6 DEF TypeOK, StartThread, stateVars, workersVars, workerVars, MainPcs, WorkerStart, WorkerStartFails
  <2>2. /\ threads' \subseteq Slots /\ dead' \subseteq Slots /\ nWorkers' \in Int
        /\ wpc' \in [Slots -> WorkerPcs] /\ served' \in [Slots -> 0 .. MaxRequests]
    BY <1>6, StartType DEF StartThread
  <2>3. /\ mpmState' \in {"STARTING", "RUNNING", "STOPPING"} /\ stopper' \in Stoppers
        /\ nActive' \in Int /\ mainPc' \in MainPcs /\ mainSlot' \in 1 .. ThreadLimit + 1
        /\ backlog' \in 0 .. MaxBacklog /\ ctl' \in {"polling", "running", "stopping"}
        /\ SlotInRange'
    BY <1>6 DEF TypeOK, StartThread, MainPcs, LastToStart, Slots
  <2>4. QED  BY <2>1, <2>2, <2>3 DEF TypeOK
<1>7. CASE DeclareRunning
  BY <1>7 DEF TypeOK, DeclareRunning, stateVars, workersVars, workerVars, MainPcs, WorkerPcs, Slots
<1>8. CASE MainLoop
  BY <1>8 DEF TypeOK, MainLoop, stateVars, workersVars, workerVars, MainPcs, WorkerPcs, Slots
<1>9. CASE ScanSlot
  BY <1>9 DEF TypeOK, ScanSlot, stateVars, workersVars, workerVars, MainPcs, WorkerPcs, Slots
<1>10. CASE JoinSlot
  BY <1>10 DEF TypeOK, JoinSlot, stateVars, workersVars, workerVars, MainPcs, WorkerPcs, Slots
<1>11. CASE StartSpare
  <2>1. theMpm' \in BOOLEAN /\ shutdownPending' \in BOOLEAN /\ restartPending' \in BOOLEAN
          /\ acceptAvailable' \in BOOLEAN /\ shouldExit' \in BOOLEAN
    BY <1>11 DEF TypeOK, StartSpare, stateVars, workersVars, workerVars, MainPcs, WorkerStart, WorkerStartFails
  <2>2. /\ threads' \subseteq Slots /\ dead' \subseteq Slots /\ nWorkers' \in Int
        /\ wpc' \in [Slots -> WorkerPcs] /\ served' \in [Slots -> 0 .. MaxRequests]
    BY <1>11, StartType DEF StartSpare
  <2>3. /\ mpmState' \in {"STARTING", "RUNNING", "STOPPING"} /\ stopper' \in Stoppers
        /\ nActive' \in Int /\ mainPc' \in MainPcs /\ mainSlot' \in 1 .. ThreadLimit + 1
        /\ backlog' \in 0 .. MaxBacklog /\ ctl' \in {"polling", "running", "stopping"}
        /\ SlotInRange'
    BY <1>11 DEF TypeOK, StartSpare, MainPcs, LastToStart, Slots
  <2>4. QED  BY <2>1, <2>2, <2>3 DEF TypeOK
<1>12. CASE JoinThreads
  BY <1>12 DEF TypeOK, JoinThreads, stateVars, workersVars, workerVars, MainPcs, WorkerPcs, Slots
<1>13. CASE LeaveMain
  BY <1>13 DEF TypeOK, LeaveMain, stateVars, workersVars, workerVars, MainPcs, WorkerPcs, Slots
<1>14. CASE Decide
  BY <1>14 DEF TypeOK, Decide, stateVars, workersVars, workerVars, MainPcs, WorkerPcs, Slots
<1>15. CASE DestroyMpm
  BY <1>15 DEF TypeOK, DestroyMpm, stateVars, workersVars, workerVars, MainPcs, WorkerPcs, Slots
<1>16. QED
  BY <1>1, <1>2, <1>3, <1>4, <1>5, <1>6, <1>7, <1>8, <1>9, <1>10, <1>11, <1>12, <1>13, <1>14, <1>15 DEF MainStep

\* Changing one worker's place, alone or with a signal to the waiting ones.
LEMMA MoveToType ==
    ASSUME TypeOK, NEW i \in Slots, NEW pc \in WorkerPcs, MoveTo(i, pc)
    PROVE  wpc' \in [Slots -> WorkerPcs]
BY DEF TypeOK, MoveTo

LEMMA GiveTokenType ==
    ASSUME TypeOK, NEW i \in Slots, NEW pc \in WorkerPcs, GiveToken(i, pc)
    PROVE  wpc' \in [Slots -> WorkerPcs] /\ acceptAvailable' \in BOOLEAN
<1>1. [wpc EXCEPT ![i] = pc] \in [Slots -> WorkerPcs]
  BY DEF TypeOK
<1>2. QED
  BY <1>1, SignalType DEF GiveToken

\* Every step of a worker moves it to a place of the code.
LEMMA WorkerPlace ==
    ASSUME TypeOK, NEW i \in Slots, WorkerStep(i) \/ WorkerFault(i)
    PROVE  wpc' \in [Slots -> WorkerPcs]
<1>1. CASE SetUp(i)
  BY <1>1, MoveToType DEF SetUp, WorkerPcs
<1>2. CASE Leave(i)
  BY <1>2, MoveToType DEF Leave, WorkerPcs
<1>3. CASE LoopTop(i)
  BY <1>3, MoveToType DEF LoopTop, WorkerPcs
<1>4. CASE AskForToken(i)
  <2>1. [wpc EXCEPT ![i] = "finish"] \in [Slots -> WorkerPcs]
    BY DEF TypeOK, WorkerPcs
  <2>2. CASE wpc' \in SignalWorkers([wpc EXCEPT ![i] = "finish"])
    BY <2>1, <2>2, SignalType
  <2>3. CASE MoveTo(i, "accept") \/ MoveTo(i, "token_wait")
    BY <2>3, MoveToType DEF WorkerPcs
  <2>4. QED  BY <1>4, <2>2, <2>3 DEF AskForToken
<1>5. CASE ListenFails(i)
  BY <1>5, GiveTokenType DEF ListenFails, WorkerPcs
<1>6. CASE Accept(i)
  BY <1>6, MoveToType DEF Accept, WorkerPcs
<1>7. CASE CheckExit(i)
  BY <1>7, MoveToType DEF CheckExit, WorkerPcs
<1>8. CASE Claim(i)
  BY <1>8, MoveToType DEF Claim, WorkerPcs
<1>9. CASE HandOver(i)
  BY <1>9, GiveTokenType DEF HandOver, WorkerPcs
<1>10. CASE FinishRequest(i)
  BY <1>10, MoveToType DEF FinishRequest, WorkerPcs
<1>11. CASE DeclareDead(i)
  BY <1>11, MoveToType DEF DeclareDead, WorkerPcs
<1>12. CASE Uncount(i)
  BY <1>12, MoveToType DEF Uncount, WorkerPcs
<1>13. CASE AcceptFails(i)
  BY <1>13, MoveToType DEF AcceptFails, WorkerPcs
<1>14. QED
  BY <1>1, <1>2, <1>3, <1>4, <1>5, <1>6, <1>7, <1>8, <1>9, <1>10, <1>11, <1>12,
     <1>13 DEF WorkerStep, WorkerFault

\* What a worker may change besides its place.
LEMMA WorkerStepType ==
    ASSUME Typed, NEW i \in Slots, WorkerStep(i) \/ WorkerFault(i)
    PROVE  Typed'
<1> USE DEF Typed, SlotInRange
<1>1. wpc' \in [Slots -> WorkerPcs]
  BY WorkerPlace
<1>2. /\ WorkerFrame
      /\ mainPc' \in {mainPc, "loop", "exited"}
      /\ acceptAvailable' \in BOOLEAN /\ shouldExit' = shouldExit
  <2>1. CASE SetUp(i)
    BY <2>1 DEF SetUp, TypeOK, workersVars, GiveToken, AdjustWorkers, SignalMain
  <2>2. CASE Leave(i)
    BY <2>2 DEF Leave, TypeOK, workersVars, GiveToken, AdjustWorkers, SignalMain
  <2>3. CASE LoopTop(i)
    BY <2>3 DEF LoopTop, TypeOK, workersVars, GiveToken, AdjustWorkers, SignalMain
  <2>4. CASE AskForToken(i)
    BY <2>4 DEF AskForToken, TypeOK, workersVars, GiveToken, AdjustWorkers, SignalMain
  <2>5. CASE ListenFails(i)
    BY <2>5 DEF ListenFails, TypeOK, workersVars, GiveToken, AdjustWorkers, SignalMain
  <2>6. CASE Accept(i)
    BY <2>6 DEF Accept, TypeOK, workersVars, GiveToken, AdjustWorkers, SignalMain
  <2>7. CASE CheckExit(i)
    BY <2>7 DEF CheckExit, TypeOK, workersVars, GiveToken, AdjustWorkers, SignalMain
  <2>8. CASE Claim(i)
    BY <2>8 DEF Claim, TypeOK, workersVars, GiveToken, AdjustWorkers, SignalMain
  <2>9. CASE HandOver(i)
    BY <2>9 DEF HandOver, TypeOK, workersVars, GiveToken, AdjustWorkers, SignalMain
  <2>10. CASE FinishRequest(i)
    BY <2>10 DEF FinishRequest, TypeOK, workersVars, GiveToken, AdjustWorkers, SignalMain
  <2>11. CASE DeclareDead(i)
    BY <2>11 DEF DeclareDead, TypeOK, workersVars, GiveToken, AdjustWorkers, SignalMain
  <2>12. CASE Uncount(i)
    BY <2>12 DEF Uncount, TypeOK, workersVars, GiveToken, AdjustWorkers, SignalMain
  <2>13. CASE AcceptFails(i)
    BY <2>13 DEF AcceptFails, TypeOK, workersVars
  <2>14. QED
    BY <2>1, <2>2, <2>3, <2>4, <2>5, <2>6, <2>7, <2>8, <2>9, <2>10, <2>11, <2>12,
       <2>13
    DEF WorkerStep, WorkerFault
<1>3. /\ nWorkers' \in Int /\ nActive' \in Int /\ dead' \subseteq Slots
      /\ backlog' \in 0 .. MaxBacklog
  <2>1. CASE SetUp(i)
    BY <2>1 DEF SetUp, TypeOK
  <2>2. CASE Leave(i)
    BY <2>2 DEF Leave, TypeOK
  <2>3. CASE LoopTop(i)
    BY <2>3 DEF LoopTop, TypeOK
  <2>4. CASE AskForToken(i)
    BY <2>4 DEF AskForToken, TypeOK
  <2>5. CASE ListenFails(i)
    BY <2>5 DEF ListenFails, TypeOK
  <2>6. CASE Accept(i)
    BY <2>6, SettingsAssumption DEF Accept, TypeOK
  <2>7. CASE CheckExit(i)
    BY <2>7 DEF CheckExit, TypeOK
  <2>8. CASE Claim(i)
    BY <2>8 DEF Claim, TypeOK
  <2>9. CASE HandOver(i)
    BY <2>9 DEF HandOver, TypeOK
  <2>10. CASE FinishRequest(i)
    BY <2>10 DEF FinishRequest, TypeOK
  <2>11. CASE DeclareDead(i)
    BY <2>11 DEF DeclareDead, TypeOK
  <2>12. CASE Uncount(i)
    BY <2>12 DEF Uncount, TypeOK
  <2>13. CASE AcceptFails(i)
    BY <2>13 DEF AcceptFails, TypeOK
  <2>14. QED
    BY <2>1, <2>2, <2>3, <2>4, <2>5, <2>6, <2>7, <2>8, <2>9, <2>10, <2>11, <2>12,
       <2>13
    DEF WorkerStep, WorkerFault
<1>4. served' \in [Slots -> 0 .. MaxRequests]
  <2>1. CASE LoopTop(i)
    BY <2>1, SettingsAssumption DEF LoopTop, TypeOK
  <2>2. CASE UNCHANGED served
    BY <2>2 DEF TypeOK
  <2>3. UNCHANGED served \/ LoopTop(i)
    BY DEF WorkerStep, WorkerFault, SetUp, Leave, AskForToken, ListenFails, Accept, AcceptFails, CheckExit, Claim, HandOver, FinishRequest, DeclareDead, Uncount
  <2>4. QED  BY <2>1, <2>2, <2>3
<1>5. theMpm' \in BOOLEAN /\ shutdownPending' \in BOOLEAN /\ restartPending' \in BOOLEAN
          /\ shouldExit' \in BOOLEAN
  BY <1>2 DEF TypeOK, WorkerFrame
<1>6. mpmState' \in {"STARTING", "RUNNING", "STOPPING"} /\ stopper' \in Stoppers
          /\ mainPc' \in MainPcs /\ mainSlot' \in 1 .. ThreadLimit + 1
          /\ threads' \subseteq Slots /\ ctl' \in {"polling", "running", "stopping"}
          /\ SlotInRange'
  BY <1>2 DEF TypeOK, WorkerFrame, MainPcs
<1>7. QED  BY <1>1, <1>2, <1>3, <1>4, <1>5, <1>6 DEF TypeOK

LEMMA StopStepType ==
    ASSUME Typed, StopWorkers \/ StopWakeup \/ (\E i \in Slots : WorkerShutdown(i))
                  \/ StopHttpd \/ RestartHttpd
    PROVE  Typed'
<1> USE DEF Typed, SlotInRange
<1>1. CASE StopWorkers
  <2>1. wpc' \in [Slots -> WorkerPcs]
    BY <1>1, BroadcastType DEF StopWorkers, TypeOK
  <2>2. stopper' \in Stoppers
    BY <1>1 DEF StopWorkers, TypeOK, Stoppers, NoStopper
  <2>3. QED  BY <1>1, <2>1, <2>2 DEF StopWorkers, StopFrame, TypeOK
<1>2. CASE StopWakeup
  <2>1. stopper.by \in {Ctl} \cup Slots
    BY <1>2 DEF StopWakeup, TypeOK, Stoppers, NoStopper
  <2>2. wpc' \in [Slots -> WorkerPcs] /\ ctl' \in {"polling", "running", "stopping"}
    BY <1>2, <2>1, ReturnsType DEF StopWakeup
  <2>3. stopper' \in Stoppers
    BY <1>2 DEF StopWakeup, Stoppers
  <2>4. backlog' \in 0 .. MaxBacklog
    BY <1>2, SettingsAssumption DEF StopWakeup, TypeOK
  <2>5. QED  BY <1>2, <2>2, <2>3, <2>4 DEF StopWakeup, StopFrame, TypeOK
<1>3. ASSUME NEW who \in {Ctl} \cup Slots, NEW kind \in {"shutdown", "restart"},
             CallStop(who, kind)
      PROVE  Typed'
  <2>1. TypeOK'
    BY <1>3, CallStopType
  <2>2. mainSlot' = mainSlot /\ mainPc' \in {mainPc, "loop"}
    BY <1>3 DEF CallStop, StopFrame, SignalMain
  <2>3. QED  BY <2>1, <2>2
<1>4. QED
  BY <1>1, <1>2, <1>3 DEF WorkerShutdown, StopHttpd, RestartHttpd

LEMMA HostStepType ==
    ASSUME Typed, Poll \/ Connect \/ Exited
    PROVE  Typed'
<1>1. CASE Poll
  BY <1>1 DEF Typed, SlotInRange, TypeOK, Poll, stateVars, workersVars, mainVars, workerVars
<1>2. CASE Connect
  BY <1>2, SettingsAssumption
     DEF Typed, SlotInRange, TypeOK, Connect, stateVars, workersVars, mainVars, workerVars
<1>3. CASE Exited
  BY <1>3 DEF Typed, SlotInRange, TypeOK, Exited, vars, stateVars, workersVars,
              mainVars, workerVars
<1>4. QED  BY <1>1, <1>2, <1>3

LEMMA StepType == Typed /\ [Next]_vars => Typed'
<1> SUFFICES ASSUME Typed, [Next]_vars PROVE Typed'
  OBVIOUS
<1>1. CASE MainStep
  BY <1>1, MainStepType
<1>2. CASE \E i \in Slots : WorkerStep(i) \/ WorkerFault(i)
  BY <1>2, WorkerStepType
<1>3. CASE StopWorkers \/ StopWakeup \/ (\E i \in Slots : WorkerShutdown(i))
           \/ StopHttpd \/ RestartHttpd
  BY <1>3, StopStepType
<1>4. CASE Poll \/ Connect \/ Exited
  BY <1>4, HostStepType
<1>5. CASE UNCHANGED vars
  BY <1>5 DEF Typed, SlotInRange, TypeOK, vars, stateVars, workersVars, mainVars,
              workerVars
<1>6. QED  BY <1>1, <1>2, <1>3, <1>4, <1>5 DEF Next

LEMMA SpecTyped == Spec => []Typed
<1>1. Init => Typed
  BY InitType DEF Typed, SlotInRange, Init
<1>2. QED  BY <1>1, StepType, PTL DEF Spec

\* Type correctness: whatever the settings and the faults, every variable stays
\* in its type; above all no worker is ever started beyond mpm_thread_limit.
THEOREM TypeCorrect == Spec => []TypeOK
<1>1. Typed => TypeOK
  BY DEF Typed
<1>2. QED  BY <1>1, SpecTyped, PTL

-----------------------------------------------------------------------------
(* Safety.                                                                 *)

\* The main thread either runs the one worker itself or manages several.
MainKind ==
    IF SingleThread
    THEN mainPc \notin {"spawned", "loop", "cond_wait", "scan", "join_slot",
                        "start_worker", "join_all"}
    ELSE mainPc # "single"

\* Outside the time in which it manages workers, the main thread has none left.
Quiet ==
    ~SingleThread /\ mainPc \in {"config", "create", "pre_mpm", "closing", "decide",
                                 "destroy_restart", "destroy_exit", "exited"}
        => threads = {}

\* Every worker thread there is can be joined: it is in threads or it is the
\* main thread itself.
Owned ==
    \A i \in Slots : wpc[i] # "none" =>
        IF SingleThread
        THEN mainPc = "single" \/ (mainPc = "exited" /\ wpc[i] = "unwound")
        ELSE i \in threads

\* The slot a worker is about to be started in is free.
SlotFree ==
    ~SingleThread =>
        /\ mainPc = "spawn" => \A i \in threads : i < mainSlot
        /\ mainPc = "start_worker" => mainSlot \notin threads

\* A worker in a stop call stays where it made the call.
CallerWaits ==
    stopper # NoStopper /\ stopper.by # Ctl =>
        wpc[stopper.by] \in {"accept_failed", "abort"}

House == MainKind /\ Quiet /\ Owned /\ SlotFree /\ CallerWaits

\* A leave has unwound the single thread, and ap_mpm_run with it.
Unwound == SingleThread /\ mainPc = "exited" /\ wpc[1] = "unwound"

\* The life of the mpm.
Life ==
    /\ theMpm <=> mainPc \notin {"config", "create", "exited"} \/ Unwound
    /\ stopper # NoStopper => theMpm
    /\ Unwound => "leave" \in Faults

Inductive == Typed /\ House

(* What a step of one actor does to the places of all. *)

\* A waiter that is signalled goes back to look at the token; nobody else moves.
LEMMA SignalMoves ==
    ASSUME NEW w \in [Slots -> WorkerPcs], NEW v \in SignalWorkers(w), NEW j \in Slots
    PROVE  v[j] = w[j] \/ (w[j] = "token_wait" /\ v[j] = "token")
BY DEF SignalWorkers, TokenWaiters

\* After a signal, no waiter is left or one has been woken.
LEMMA SignalWakes ==
    ASSUME NEW w \in [Slots -> WorkerPcs], NEW v \in SignalWorkers(w)
    PROVE  TokenWaiters(v) = {} \/ \E j \in Slots : w[j] = "token_wait" /\ v[j] = "token"
<1>1. CASE TokenWaiters(w) = {}
  BY <1>1 DEF SignalWorkers
<1>2. CASE TokenWaiters(w) # {}
  BY <1>2 DEF SignalWorkers, TokenWaiters
<1>3. QED  BY <1>1, <1>2

LEMMA GiveTokenMoves ==
    ASSUME TypeOK, NEW i \in Slots, NEW pc \in WorkerPcs \ {"token_wait"},
           GiveToken(i, pc)
    PROVE  /\ wpc'[i] = pc
           /\ \A j \in Slots \ {i} :
                  wpc'[j] = wpc[j] \/ (wpc[j] = "token_wait" /\ wpc'[j] = "token")
<1> DEFINE w == [wpc EXCEPT ![i] = pc]
<1>1. w \in [Slots -> WorkerPcs] /\ wpc' \in SignalWorkers(w)
  BY DEF TypeOK, GiveToken
<1>2. \A j \in Slots : wpc'[j] = w[j] \/ (w[j] = "token_wait" /\ wpc'[j] = "token")
  <2> HIDE DEF w
  <2> QED  BY <1>1, SignalMoves
<1>3. w[i] = pc /\ \A j \in Slots \ {i} : w[j] = wpc[j]
  BY DEF TypeOK
<1>4. QED  BY <1>2, <1>3

\* The places between which the steps of a worker move it.
From == {"init", "ready", "token", "accept", "accepted", "claim", "handover",
         "busy", "finish", "dec"}

LEMMA WorkerMoves ==
    ASSUME TypeOK, NEW i \in Slots, WorkerStep(i) \/ WorkerFault(i)
    PROVE  /\ wpc[i] \in From
           /\ \A j \in Slots \ {i} :
                  wpc'[j] = wpc[j] \/ (wpc[j] = "token_wait" /\ wpc'[j] = "token")
           /\ UNCHANGED <<theMpm, stopper, mainSlot, threads, shutdownPending,
                          restartPending>>
           /\ \/ /\ mainPc' \in {mainPc, SignalMain(mainPc)}
                 /\ wpc'[i] \notin {"none", "unwound"}
                 /\ wpc'[i] = "abort" => ~SingleThread
              \/ /\ SingleThread /\ mainPc' = "exited"
                 /\ wpc'[i] = "unwound" /\ "leave" \in Faults
<1>1. CASE SetUp(i)
  BY <1>1 DEF SetUp, WorkerFrame, MoveTo, From, TypeOK
<1>2. CASE Leave(i)
  BY <1>2 DEF Leave, WorkerFrame, MoveTo, From, TypeOK
<1>3. CASE LoopTop(i)
  BY <1>3 DEF LoopTop, WorkerFrame, MoveTo, From, TypeOK
<1>4. CASE AskForToken(i)
  <2>1. CASE shouldExit
    <3> DEFINE w == [wpc EXCEPT ![i] = "finish"]
    <3>1. w \in [Slots -> WorkerPcs] /\ wpc' \in SignalWorkers(w)
      BY <1>4, <2>1 DEF AskForToken, TypeOK, WorkerPcs
    <3>2. \A j \in Slots : wpc'[j] = w[j] \/ (w[j] = "token_wait" /\ wpc'[j] = "token")
      <4> HIDE DEF w
      <4> QED  BY <3>1, SignalMoves
    <3>3. w[i] = "finish" /\ \A j \in Slots \ {i} : w[j] = wpc[j]
      BY DEF TypeOK
    <3>4. QED  BY <1>4, <3>2, <3>3 DEF AskForToken, WorkerFrame, From
  <2>2. CASE ~shouldExit
    BY <1>4, <2>2 DEF AskForToken, WorkerFrame, MoveTo, From, TypeOK
  <2>3. QED  BY <2>1, <2>2
<1>5. CASE ListenFails(i)
  <2>1. GiveToken(i, "finish")
    BY <1>5 DEF ListenFails
  <2>2. QED  BY <1>5, <2>1, GiveTokenMoves DEF ListenFails, WorkerFrame, From, WorkerPcs
<1>6. CASE Accept(i)
  BY <1>6 DEF Accept, WorkerFrame, MoveTo, From, TypeOK
<1>7. CASE AcceptFails(i)
  BY <1>7 DEF AcceptFails, WorkerFrame, MoveTo, From, TypeOK
<1>8. CASE CheckExit(i)
  BY <1>8 DEF CheckExit, WorkerFrame, MoveTo, From, TypeOK
<1>9. CASE Claim(i)
  BY <1>9 DEF Claim, WorkerFrame, MoveTo, From, TypeOK, AdjustWorkers
<1>10. CASE HandOver(i)
  <2>1. GiveToken(i, "busy")
    BY <1>10 DEF HandOver
  <2>2. QED  BY <1>10, <2>1, GiveTokenMoves DEF HandOver, WorkerFrame, From, WorkerPcs
<1>11. CASE FinishRequest(i)
  BY <1>11 DEF FinishRequest, WorkerFrame, MoveTo, From, TypeOK, AdjustWorkers
<1>12. CASE DeclareDead(i)
  BY <1>12 DEF DeclareDead, WorkerFrame, MoveTo, From, TypeOK
<1>13. CASE Uncount(i)
  BY <1>13 DEF Uncount, WorkerFrame, MoveTo, From, TypeOK
<1>14. QED
  BY <1>1, <1>2, <1>3, <1>4, <1>5, <1>6, <1>7, <1>8, <1>9, <1>10, <1>11, <1>12, <1>13
  DEF WorkerStep, WorkerFault

\* A caller that returns was in its call: only its own place changes.
LEMMA ReturnMoves ==
    ASSUME TypeOK, NEW who \in {Ctl} \cup Slots, NEW kind, Returns(who, kind)
    PROVE  \A j \in Slots :
               \/ wpc'[j] = wpc[j]
               \/ /\ j = who /\ wpc'[j] \in {"finish", "unwound"}
                  /\ wpc[j] = "accept_failed" => wpc'[j] = "finish"
BY DEF TypeOK, Returns, Ctl, Slots

(* House is kept. *)

\* Where nobody runs, nobody waits either.
LEMMA NobodyThere ==
    ASSUME Inductive, ~SingleThread, threads = {}
    PROVE  \A i \in Slots : wpc[i] = "none"
BY DEF Inductive, House, Owned

\* A slot in which a worker is about to be started has none.
LEMMA SlotUnused ==
    ASSUME Inductive
    PROVE  NoSlotReuse
<1>1. CASE SingleThread
  <2>1. mainPc \in {"spawn", "start_worker"} => mainSlot \in Slots
    BY DEF Inductive, Typed, SlotInRange
  <2>2. QED  BY <1>1, <2>1 DEF Inductive, House, Owned, MainKind, NoSlotReuse
<1>2. CASE ~SingleThread
  <2>1. CASE mainPc = "spawn"
    <3>1. mainSlot \in Slots /\ mainSlot \notin threads
      BY <1>2, <2>1 DEF Inductive, Typed, SlotInRange, House, SlotFree, Slots
    <3>2. QED  BY <1>2, <2>1, <3>1 DEF Inductive, House, Owned, NoSlotReuse
  <2>2. CASE mainPc = "start_worker"
    BY <1>2, <2>2 DEF Inductive, Typed, SlotInRange, House, SlotFree, Owned, NoSlotReuse
  <2>3. QED  BY <2>1, <2>2 DEF NoSlotReuse
<1>3. QED  BY <1>1, <1>2

\* A step that starts no worker, joins none and leaves the main thread's
\* phase alone keeps the main thread's part of House.
LEMMA HouseKept ==
    ASSUME Inductive, UNCHANGED <<threads, mainSlot>>,
           mainPc' = mainPc \/ mainPc' = SignalMain(mainPc),
           \A j \in Slots : wpc'[j] # "none" => wpc[j] # "none",
           \A j \in Slots : wpc[j] = "unwound" => wpc'[j] = "unwound"
    PROVE  MainKind' /\ Quiet' /\ Owned' /\ SlotFree'
<1>1. mainPc' = mainPc \/ (mainPc = "cond_wait" /\ mainPc' = "loop")
  BY DEF SignalMain
<1>2. MainKind' /\ Quiet' /\ SlotFree'
  BY <1>1 DEF Inductive, House, MainKind, Quiet, SlotFree, SingleThread
<1>3. Owned'
  BY <1>1 DEF Inductive, House, MainKind, Owned, SingleThread
<1>4. QED  BY <1>2, <1>3

LEMMA WorkerHouse ==
    ASSUME Inductive, NEW i \in Slots, WorkerStep(i) \/ WorkerFault(i)
    PROVE  House'
<1> USE DEF From
<1>1. TypeOK
  BY DEF Inductive, Typed
<1>2. /\ wpc[i] \in From
      /\ \A j \in Slots \ {i} :
             wpc'[j] = wpc[j] \/ (wpc[j] = "token_wait" /\ wpc'[j] = "token")
      /\ UNCHANGED <<theMpm, stopper, mainSlot, threads>>
      /\ \/ mainPc' \in {mainPc, SignalMain(mainPc)}
         \/ SingleThread /\ mainPc' = "exited" /\ wpc'[i] = "unwound"
  BY <1>1, WorkerMoves
<1>3. CallerWaits'
  <2>1. stopper.by \in {Ctl} \cup Slots \/ stopper = NoStopper
    BY <1>1 DEF TypeOK, Stoppers
  <2>2. QED  BY <1>2, <2>1 DEF Inductive, House, CallerWaits
<1>4. CASE mainPc' \in {mainPc, SignalMain(mainPc)}
  BY <1>2, <1>3, <1>4, HouseKept DEF House
<1>5. CASE SingleThread /\ mainPc' = "exited" /\ wpc'[i] = "unwound"
  <2>1. Slots = {i}
    BY <1>5 DEF SingleThread, Slots
  <2>2. QED
    BY <1>2, <1>3, <1>5, <2>1
    DEF House, MainKind, Quiet, Owned, SlotFree, SingleThread
<1>6. QED  BY <1>2, <1>4, <1>5

\* The main thread joins nobody and starts nobody in these steps.
LEMMA MainQuietHouse ==
    ASSUME Inductive,
           \/ ReadConfig \/ CreateMpm \/ EnterMain \/ DeclareRunning \/ MainLoop
           \/ ScanSlot \/ LeaveMain \/ Decide \/ DestroyMpm
    PROVE  House'
<1>1. UNCHANGED <<threads, wpc, stopper>>
  BY DEF ReadConfig, CreateMpm, EnterMain, DeclareRunning, MainLoop, ScanSlot,
         LeaveMain, Decide, DestroyMpm, workerVars
<1>2. CallerWaits'
  BY <1>1 DEF Inductive, House, CallerWaits
<1>3. mainPc \notin {"single", "exited", "join_all", "join_slot"}
  BY DEF ReadConfig, CreateMpm, EnterMain, DeclareRunning, MainLoop, ScanSlot,
         LeaveMain, Decide, DestroyMpm
<1>4. MainKind'
  BY DEF Inductive, House, MainKind, ReadConfig, CreateMpm, EnterMain, DeclareRunning,
         MainLoop, ScanSlot, LeaveMain, Decide, DestroyMpm, SingleThread
<1>5. Owned'
  BY <1>1, <1>3 DEF Inductive, House, Owned, SingleThread
<1>6. Quiet' /\ SlotFree'
  <2>1. CASE SingleThread
    BY <2>1 DEF Quiet, SlotFree, SingleThread
  <2>2. CASE ~SingleThread
    <3>1. CASE ReadConfig
      BY <1>1, <2>2, <3>1 DEF Inductive, House, ReadConfig, Quiet, SlotFree, SingleThread
    <3>2. CASE CreateMpm
      BY <1>1, <2>2, <3>2 DEF Inductive, House, CreateMpm, Quiet, SlotFree, SingleThread
    <3>3. CASE EnterMain
      BY <1>1, <2>2, <3>3 DEF Inductive, House, EnterMain, Quiet, SlotFree, SingleThread
    <3>4. CASE DeclareRunning
      BY <1>1, <2>2, <3>4 DEF Inductive, House, DeclareRunning, Quiet, SlotFree, SingleThread
    <3>5. CASE MainLoop
      BY <1>1, <2>2, <3>5 DEF Inductive, House, MainLoop, Quiet, SlotFree, SingleThread
    <3>6. CASE ScanSlot
      BY <1>1, <2>2, <3>6 DEF Inductive, House, ScanSlot, Quiet, SlotFree, SingleThread
    <3>7. CASE LeaveMain
      BY <1>1, <2>2, <3>7 DEF Inductive, House, LeaveMain, Quiet, SlotFree, SingleThread
    <3>8. CASE Decide
      BY <1>1, <2>2, <3>8 DEF Inductive, House, Decide, Quiet, SlotFree, SingleThread
    <3>9. CASE DestroyMpm
      BY <1>1, <2>2, <3>9 DEF Inductive, House, DestroyMpm, Quiet, SlotFree, SingleThread
    <3>10. QED
      BY <3>1, <3>2, <3>3, <3>4, <3>5, <3>6, <3>7, <3>8, <3>9
  <2>3. QED  BY <2>1, <2>2
<1>7. QED  BY <1>2, <1>4, <1>5, <1>6 DEF House

\* A step in which the main thread starts a worker, or fails to.
LEMMA StartHouse ==
    ASSUME Inductive, RunSingle \/ StartThread \/ StartSpare
    PROVE  House'
<1>1. wpc \in [Slots -> WorkerPcs] /\ mainPc \in {"spawn", "start_worker"}
      /\ mainSlot \in Slots /\ threads \subseteq Slots /\ UNCHANGED stopper
  BY DEF Inductive, Typed, TypeOK, SlotInRange, RunSingle, StartThread, StartSpare
<1>2. wpc[mainSlot] = "none"
  BY <1>1, SlotUnused DEF NoSlotReuse
<1>3. CASE RunSingle
  <2>1. Slots = {1} /\ SingleThread
    BY <1>3 DEF RunSingle, SingleThread, Slots
  <2>2. wpc'[1] = "init" /\ mainPc' = "single" /\ wpc[1] = "none"
    BY <1>1, <1>2, <1>3, <2>1 DEF RunSingle, BeginWorker
  <2>3. CallerWaits'
    <3>1. stopper.by \in {Ctl} \cup Slots \/ stopper = NoStopper
      BY DEF Inductive, Typed, TypeOK, Stoppers
    <3>2. QED  BY <1>1, <2>1, <2>2, <3>1 DEF Inductive, House, CallerWaits
  <2>4. QED
    BY <2>1, <2>2, <2>3 DEF House, MainKind, Quiet, Owned, SlotFree, SingleThread
<1>4. ASSUME NEW i \in Slots, i = mainSlot, ~SingleThread, WorkerStart(i)
      PROVE  Owned' /\ CallerWaits' /\ \A j \in threads' : j \in threads \/ j = mainSlot
  <2>1. /\ threads' = threads \cup {i}
        /\ wpc'[i] = "init" /\ \A j \in Slots \ {i} : wpc'[j] = wpc[j]
    BY <1>1, <1>4 DEF WorkerStart, BeginWorker
  <2>2. Owned'
    BY <1>4, <2>1 DEF Inductive, House, Owned, SingleThread
  <2>3. CallerWaits'
    <3>1. stopper.by \in {Ctl} \cup Slots \/ stopper = NoStopper
      BY DEF Inductive, Typed, TypeOK, Stoppers
    <3>2. QED  BY <1>1, <1>2, <1>4, <2>1, <3>1 DEF Inductive, House, CallerWaits
  <2>4. QED  BY <1>4, <2>1, <2>2, <2>3
<1>5. ASSUME NEW i \in Slots, i = mainSlot, ~SingleThread, WorkerStartFails(i)
      PROVE  Owned' /\ CallerWaits' /\ threads' = threads \ {i}
  <2>1. UNCHANGED wpc /\ threads' = threads \ {i}
    BY <1>5 DEF WorkerStartFails, workerVars
  <2>2. QED
    BY <1>1, <1>2, <1>5, <2>1 DEF Inductive, House, Owned, CallerWaits, SingleThread
<1>6. CASE StartThread
  <2>1. ~SingleThread /\ mainPc = "spawn" /\ \A j \in threads : j < mainSlot
    BY <1>6 DEF StartThread, Inductive, House, SlotFree
  <2>2. CASE WorkerStart(mainSlot) /\ mainSlot' = mainSlot + 1
             /\ mainPc' \in {"spawn", "spawned"}
    <3>1. Owned' /\ CallerWaits' /\ \A j \in threads' : j \in threads \/ j = mainSlot
      BY <1>1, <1>4, <2>1, <2>2
    <3>2. ASSUME NEW j \in threads' PROVE j < mainSlot'
      <4>1. j \in threads \/ j = mainSlot
        BY <3>1, <3>2
      <4>2. j \in Slots /\ mainSlot \in Slots
        BY <1>1, <4>1
      <4>3. j \in Int /\ mainSlot \in Int
        BY <4>2 DEF Slots
      <4>4. j = mainSlot \/ j < mainSlot
        BY <2>1, <4>1
      <4>5. QED  BY <2>2, <4>3, <4>4
    <3>3. QED
      BY <2>1, <2>2, <3>1, <3>2 DEF House, MainKind, Quiet, SlotFree, SingleThread
  <2>3. CASE WorkerStartFails(mainSlot) /\ UNCHANGED mainSlot
             /\ mainPc' = IF mainSlot = 1 THEN "closing" ELSE "spawned"
    <3>1. Owned' /\ CallerWaits' /\ threads' = threads \ {mainSlot}
      BY <1>1, <1>5, <2>1, <2>3
    <3>2. mainSlot = 1 => threads' = {}
      BY <1>1, <2>1, <3>1 DEF Slots
    <3>3. QED
      BY <2>1, <2>3, <3>1, <3>2 DEF House, MainKind, Quiet, SlotFree, SingleThread
  <2>4. QED  BY <1>6, <2>2, <2>3 DEF StartThread
<1>7. CASE StartSpare
  <2>1. ~SingleThread /\ mainPc' = "loop"
    BY <1>7 DEF StartSpare, Inductive, House, MainKind
  <2>2. Owned' /\ CallerWaits'
    BY <1>1, <1>4, <1>5, <1>7, <2>1 DEF StartSpare
  <2>3. QED  BY <2>1, <2>2 DEF House, MainKind, Quiet, SlotFree, SingleThread
<1>8. QED  BY <1>3, <1>6, <1>7

\* A step in which the main thread joins workers, or is done being one.
LEMMA JoinHouse ==
    ASSUME Inductive, SingleReturns \/ JoinSlot \/ JoinThreads
    PROVE  House'
<1>1. wpc \in [Slots -> WorkerPcs] /\ UNCHANGED stopper
      /\ (stopper.by \in {Ctl} \cup Slots \/ stopper = NoStopper)
  BY DEF Inductive, Typed, TypeOK, Stoppers, SingleReturns, JoinSlot, JoinThreads
<1>2. CASE SingleReturns
  <2>1. SingleThread /\ Slots = {1}
    BY <1>2 DEF SingleReturns, Inductive, House, MainKind, SingleThread, Slots
  <2>2. wpc[1] = "exited" /\ wpc'[1] = "none" /\ mainPc' = "closing"
    BY <1>1, <1>2, <2>1 DEF SingleReturns
  <2>3. QED
    BY <1>1, <2>1, <2>2
    DEF Inductive, House, MainKind, Quiet, Owned, SlotFree, CallerWaits, SingleThread
<1>3. CASE JoinSlot
  <2>1. ~SingleThread /\ mainPc = "join_slot" /\ mainPc' = "start_worker"
        /\ mainSlot \in Slots /\ UNCHANGED mainSlot
    BY <1>3 DEF JoinSlot, Inductive, House, MainKind, Typed, SlotInRange
  <2>2. /\ threads' = threads \ {mainSlot}
        /\ wpc[mainSlot] \in {"exited", "unwound"}
        /\ wpc'[mainSlot] = "none"
        /\ \A j \in Slots \ {mainSlot} : wpc'[j] = wpc[j]
    BY <1>1, <1>3, <2>1 DEF JoinSlot, Joinable
  <2>3. Owned' /\ CallerWaits'
    BY <1>1, <2>1, <2>2 DEF Inductive, House, Owned, CallerWaits, SingleThread
  <2>4. QED  BY <2>1, <2>2, <2>3 DEF House, MainKind, Quiet, SlotFree, SingleThread
<1>4. CASE JoinThreads
  <2>1. ~SingleThread
    BY <1>4 DEF JoinThreads, Inductive, House, MainKind
  <2>2. \A j \in Slots : wpc[j] \in {"none", "exited", "unwound"} /\ wpc'[j] = "none"
    BY <1>4, <2>1 DEF JoinThreads, Joinable, Inductive, House, Owned
  <2>3. threads' = {} /\ mainPc' = "closing"
    BY <1>4 DEF JoinThreads
  <2>4. QED
    BY <1>1, <2>1, <2>2, <2>3
    DEF Inductive, House, MainKind, Quiet, Owned, SlotFree, CallerWaits, SingleThread
<1>5. QED  BY <1>2, <1>3, <1>4

\* What a stop call does to the places of its caller and of the other threads.
LEMMA CallStopMoves ==
    ASSUME TypeOK, NEW who \in {Ctl} \cup Slots, NEW kind \in {"shutdown", "restart"},
           who # Ctl => wpc[who] \in {"accept_failed", "abort"},
           CallStop(who, kind)
    PROVE  /\ \A j \in Slots : \/ wpc'[j] = wpc[j]
                               \/ /\ wpc[j] \in {"accept_failed", "abort"}
                                  /\ wpc'[j] \in {"finish", "unwound"}
                                  /\ wpc[j] = "accept_failed" => wpc'[j] = "finish"
           /\ UNCHANGED <<threads, mainSlot, theMpm>>
           /\ mainPc' = mainPc \/ mainPc' = SignalMain(mainPc)
           /\ stopper = NoStopper
           /\ \/ stopper' = NoStopper
              \/ stopper'.by = who /\ UNCHANGED wpc /\ theMpm
<1>1. CASE Returns(who, kind) /\ UNCHANGED <<stopper, mainPc>>
  <2>1. stopper = NoStopper /\ UNCHANGED <<threads, mainSlot, theMpm>>
    BY DEF CallStop, MpmLockFree, StopFrame
  <2>2. \A j \in Slots :
            \/ wpc'[j] = wpc[j]
            \/ /\ j = who /\ wpc'[j] \in {"finish", "unwound"}
               /\ wpc[j] = "accept_failed" => wpc'[j] = "finish"
    BY <1>1, ReturnMoves
  <2>3. QED  BY <1>1, <2>1, <2>2 DEF Ctl, Slots
<1>2. CASE theMpm /\ mainPc' = SignalMain(mainPc)
           /\ stopper' = [by |-> who, kind |-> kind, step |-> "workers"]
           /\ UNCHANGED <<wpc, ctl>>
  BY <1>2 DEF CallStop, MpmLockFree, StopFrame
<1>3. QED  BY <1>1, <1>2 DEF CallStop

LEMMA CallStopHouse ==
    ASSUME Inductive, NEW who \in {Ctl} \cup Slots, NEW kind \in {"shutdown", "restart"},
           who # Ctl => wpc[who] \in {"accept_failed", "abort"},
           CallStop(who, kind)
    PROVE  House'
<1>1. TypeOK
  BY DEF Inductive, Typed
<1>2. /\ \A j \in Slots : \/ wpc'[j] = wpc[j]
                          \/ /\ wpc[j] \in {"accept_failed", "abort"}
                             /\ wpc'[j] \in {"finish", "unwound"}
      /\ UNCHANGED <<threads, mainSlot, theMpm>>
      /\ mainPc' = mainPc \/ mainPc' = SignalMain(mainPc)
      /\ \/ stopper' = NoStopper
         \/ stopper'.by = who /\ UNCHANGED wpc
  BY <1>1, CallStopMoves
<1>3. MainKind' /\ Quiet' /\ Owned' /\ SlotFree'
  BY <1>2, HouseKept
<1>4. CallerWaits'
  BY <1>2 DEF CallerWaits
<1>5. QED  BY <1>3, <1>4 DEF House

LEMMA StopHouse ==
    ASSUME Inductive,
           \/ StopWorkers \/ StopWakeup \/ StopHttpd \/ RestartHttpd
           \/ \E i \in Slots : WorkerShutdown(i)
    PROVE  House'
<1>1. TypeOK
  BY DEF Inductive, Typed
<1>2. CASE StopWorkers
  <2>1. /\ UNCHANGED <<threads, mainSlot, mainPc>>
        /\ \A j \in Slots : wpc'[j] = wpc[j] \/ (wpc[j] = "token_wait" /\ wpc'[j] = "token")
    BY <1>2 DEF StopWorkers, StopFrame, BroadcastWorkers
  <2>2. MainKind' /\ Quiet' /\ Owned' /\ SlotFree'
    BY <2>1, HouseKept
  <2>3. stopper \in Stoppers /\ stopper # NoStopper /\ stopper'.by = stopper.by
    BY <1>1, <1>2 DEF StopWorkers, TypeOK, Stoppers, NoStopper
  <2>4. stopper.by # Ctl => stopper.by \in Slots
    BY <2>3 DEF Stoppers
  <2>5. CallerWaits'
    BY <2>1, <2>3, <2>4 DEF Inductive, House, CallerWaits
  <2>6. QED  BY <2>2, <2>5 DEF House
<1>3. CASE StopWakeup
  <2>1. /\ UNCHANGED <<threads, mainSlot, mainPc>> /\ stopper' = NoStopper
        /\ Returns(stopper.by, stopper.kind)
    BY <1>3 DEF StopWakeup, StopFrame
  <2>2. stopper \in Stoppers /\ stopper # NoStopper
    BY <1>1, <1>3 DEF StopWakeup, TypeOK, NoStopper
  <2>3. stopper.by \in {Ctl} \cup Slots
    BY <2>2 DEF Stoppers
  <2>4. \A j \in Slots : wpc'[j] = wpc[j] \/ (j = stopper.by /\ wpc'[j] \in {"finish", "unwound"})
    BY <1>1, <2>1, <2>3, ReturnMoves
  <2>5. \A j \in Slots : j = stopper.by => wpc[j] \in {"accept_failed", "abort"}
    BY <2>2 DEF Inductive, House, CallerWaits, Ctl, Slots
  <2>6. MainKind' /\ Quiet' /\ Owned' /\ SlotFree'
    BY <2>1, <2>4, <2>5, HouseKept
  <2>7. QED  BY <2>1, <2>6 DEF House, CallerWaits
<1>4. CASE StopHttpd \/ RestartHttpd
  BY <1>4, CallStopHouse DEF StopHttpd, RestartHttpd
<1>5. ASSUME NEW i \in Slots, WorkerShutdown(i)
      PROVE  House'
  BY <1>5, CallStopHouse DEF WorkerShutdown
<1>6. QED  BY <1>2, <1>3, <1>4, <1>5

LEMMA StepInductive == Inductive /\ [Next]_vars => Inductive'
<1> SUFFICES ASSUME Inductive, [Next]_vars PROVE House'
  BY StepType DEF Inductive
<1>1. CASE MainStep
  BY <1>1, MainQuietHouse, StartHouse, JoinHouse DEF MainStep
<1>2. ASSUME NEW i \in Slots, WorkerStep(i) \/ WorkerFault(i) PROVE House'
  BY <1>2, WorkerHouse
<1>3. CASE \/ StopWorkers \/ StopWakeup \/ StopHttpd \/ RestartHttpd
           \/ \E i \in Slots : WorkerShutdown(i)
  BY <1>3, StopHouse
<1>4. CASE Poll \/ Connect \/ Exited \/ UNCHANGED vars
  <2>1. UNCHANGED <<threads, mainSlot, mainPc, wpc, stopper>>
    BY <1>4 DEF Poll, Connect, Exited, vars, mainVars, workerVars
  <2>2. QED
    BY <2>1
    DEF Inductive, House, MainKind, Quiet, Owned, SlotFree, CallerWaits, SingleThread
<1>5. QED  BY <1>1, <1>2, <1>3, <1>4 DEF Next

LEMMA InitInductive == Init => Inductive
<1> SUFFICES ASSUME Init PROVE Typed /\ House
  BY DEF Inductive
<1>1. Typed
  BY InitType DEF Init, Typed, SlotInRange
<1>2. House
  BY DEF Init, House, MainKind, Quiet, Owned, SlotFree, CallerWaits
<1>3. QED  BY <1>1, <1>2

LEMMA SpecInductive == Spec => []Inductive
BY InitInductive, StepInductive, PTL DEF Spec

-----------------------------------------------------------------------------
(* The main thread's wakeup. *)

\* adjust_workers cannot want both more and fewer workers.
LEMMA FewNotMany ==
    ASSUME NEW n \in Int, NEW a \in Int, TooFewSpare(n, a)
    PROVE  ~TooManySpare(n, a)
<1>1. MinSpare \in Int /\ MaxSpare \in Int /\ MinSpare <= MaxSpare
  <2>1. MaxSpare \in Nat
    BY SettingsAssumption
  <2>2. QED  BY <2>1, SettingsAssumption
<1>2. n - a \in Int /\ n - a < MinSpare
  BY DEF TooFewSpare, Spare
<1>3. ~(n - a > MaxSpare)
  BY <1>1, <1>2
<1>4. QED  BY <1>3 DEF TooManySpare, Spare

LEMMA StepWakeup == Typed /\ NoLostWakeup /\ [Next]_vars => NoLostWakeup'
<1> SUFFICES ASSUME TypeOK, NoLostWakeup, [Next]_vars, mainPc' = "cond_wait"
             PROVE  ~shutdownPending' /\ ~restartPending' /\ ~WorkerShouldBeStarted'
  BY DEF NoLostWakeup, Typed
<1> USE SettingsAssumption
<1>1. CASE MainStep
  <2>1. MainLoop /\ ~shutdownPending /\ ~restartPending /\ ~WorkerShouldBeStarted
    BY <1>1 DEF MainStep, ReadConfig, CreateMpm, EnterMain, RunSingle, SingleReturns,
       StartThread, DeclareRunning, MainLoop, ScanSlot, JoinSlot, StartSpare,
       JoinThreads, LeaveMain, Decide, DestroyMpm
  <2>2. QED  BY <2>1 DEF MainLoop, stateVars, WorkerShouldBeStarted, Spare
<1>2. ASSUME NEW i \in Slots, WorkerStep(i) \/ WorkerFault(i)
      PROVE  ~shutdownPending' /\ ~restartPending' /\ ~WorkerShouldBeStarted'
  <2>1. mainPc = "cond_wait" /\ UNCHANGED <<shutdownPending, restartPending>>
    BY <1>2, WorkerMoves DEF SignalMain
  <2>2. ~shutdownPending /\ ~restartPending /\ ~WorkerShouldBeStarted
    BY <2>1 DEF NoLostWakeup
  <2>3. CASE UNCHANGED <<nWorkers, nActive>>
    BY <2>1, <2>2, <2>3 DEF WorkerShouldBeStarted, Spare
  <2>4. CASE Claim(i)
    <3>1. nWorkers \in Int /\ nActive' \in Int /\ nWorkers' = nWorkers
      BY <2>4 DEF Claim, TypeOK
    <3>2. ~(~TooManySpare(nWorkers, nActive') /\ TooFewSpare(nWorkers, nActive'))
      BY <2>1, <2>4 DEF Claim, AdjustWorkers, SignalMain
    <3>3. TooFewSpare(nWorkers, nActive') => ~TooManySpare(nWorkers, nActive')
      BY <3>1, FewNotMany
    <3>4. ~WorkerShouldBeStarted'
      BY <3>1, <3>2, <3>3 DEF TooFewSpare, WorkerShouldBeStarted, Spare
    <3>5. QED  BY <2>1, <2>2, <3>4
  <2>5. CASE FinishRequest(i)
    <3>1. nWorkers' = nWorkers /\ nActive' = nActive - 1 /\ nWorkers \in Int /\ nActive \in Int
      BY <2>5 DEF FinishRequest, TypeOK
    <3>2. ~WorkerShouldBeStarted'
      BY <2>2, <3>1 DEF WorkerShouldBeStarted, Spare
    <3>3. QED  BY <2>1, <2>2, <3>2
  <2>6. ~Uncount(i)
    BY <2>1 DEF Uncount, SignalMain
  <2>7. QED
    BY <1>2, <2>3, <2>4, <2>5, <2>6
    DEF WorkerStep, WorkerFault, SetUp, Leave, LoopTop, AskForToken, ListenFails,
        Accept, AcceptFails, CheckExit, HandOver, DeclareDead
<1>3. ASSUME NEW who, NEW kind \in {"shutdown", "restart"}, CallStop(who, kind)
      PROVE  ~shutdownPending' /\ ~restartPending' /\ ~WorkerShouldBeStarted'
  <2>1. mainPc = "cond_wait" /\ UNCHANGED <<nWorkers, nActive>>
    BY <1>3 DEF CallStop, StopFrame, SignalMain
  <2>2. ~shutdownPending /\ ~restartPending /\ ~WorkerShouldBeStarted
    BY <2>1 DEF NoLostWakeup
  <2>3. ~Pending(kind)
    BY <2>2 DEF Pending
  <2>4. ~theMpm
    BY <1>3, <2>3 DEF CallStop, SignalMain
  <2>5. UNCHANGED <<shutdownPending, restartPending>>
    BY <1>3, <2>4 DEF CallStop
  <2>6. QED  BY <2>1, <2>2, <2>5 DEF WorkerShouldBeStarted, Spare
<1>4. CASE StopHttpd \/ RestartHttpd \/ \E i \in Slots : WorkerShutdown(i)
  BY <1>3, <1>4 DEF StopHttpd, RestartHttpd, WorkerShutdown
<1>5. CASE StopWorkers \/ StopWakeup \/ Poll \/ Connect \/ Exited \/ UNCHANGED vars
  <2>1. UNCHANGED <<mainPc, shutdownPending, restartPending, nWorkers, nActive>>
    BY <1>5 DEF StopWorkers, StopWakeup, StopFrame, Poll, Connect, Exited, vars,
       mainVars, stateVars
  <2>2. QED  BY <2>1 DEF NoLostWakeup, WorkerShouldBeStarted, Spare
<1>6. QED  BY <1>1, <1>2, <1>4, <1>5 DEF Next

\* The main thread never sleeps while a stop is pending or a worker should be
\* started: nobody forgets to signal it, whatever the workers do meanwhile.
THEOREM MainWoken == Spec => []NoLostWakeup
<1>1. Init => NoLostWakeup
  BY DEF Init, NoLostWakeup
<1>2. QED  BY <1>1, SpecTyped, StepWakeup, PTL DEF Spec

-----------------------------------------------------------------------------
(* The life of the mpm. *)

LEMMA OneSlot == 1 \in Slots /\ (SingleThread => Slots = {1})
BY SettingsAssumption DEF Slots, SingleThread

\* Only a leave unwinds the single thread, and nothing brings it back.
LEMMA UnwoundKept ==
    ASSUME Inductive, mainPc' \in {mainPc, SignalMain(mainPc)},
           \A j \in Slots : \/ wpc'[j] = wpc[j]
                            \/ wpc[j] \in From \cup {"token_wait", "accept_failed", "abort"}
    PROVE  Unwound' <=> Unwound
<1>1. mainPc' = "exited" <=> mainPc = "exited"
  BY DEF SignalMain
<1>2. SingleThread /\ mainPc = "exited" => wpc'[1] = wpc[1]
  BY OneSlot DEF Inductive, House, Owned, From
<1>3. QED  BY <1>1, <1>2 DEF Unwound, SingleThread

LEMMA StepLife == Inductive /\ Life /\ [Next]_vars => Life'
<1> SUFFICES ASSUME Inductive, Life, [Next]_vars
             PROVE  Life'
  OBVIOUS
<1>0. TypeOK
  BY DEF Inductive, Typed
<1>1. CASE MainStep
  <2>1. mainPc # "exited"
    BY <1>1 DEF MainStep, ReadConfig, CreateMpm, EnterMain, RunSingle, SingleReturns,
       StartThread, DeclareRunning, MainLoop, ScanSlot, JoinSlot, StartSpare,
       JoinThreads, LeaveMain, Decide, DestroyMpm
  <2>2. CASE ReadConfig \/ CreateMpm \/ DestroyMpm
    <3>1. UNCHANGED wpc /\ (SingleThread => wpc[1] = "none")
      BY <2>2, OneSlot DEF ReadConfig, CreateMpm, DestroyMpm, workerVars, Inductive,
         House, Owned
    <3>2. ~Unwound /\ ~Unwound'
      BY <2>1, <3>1 DEF Unwound, SingleThread
    <3>3. CASE ReadConfig
      BY <3>2, <3>3 DEF ReadConfig, Life
    <3>4. CASE CreateMpm
      BY <3>2, <3>4 DEF CreateMpm, Life, MpmLockFree
    <3>5. CASE DestroyMpm
      BY <3>2, <3>5 DEF DestroyMpm, Life, MpmLockFree
    <3>6. QED  BY <2>2, <3>3, <3>4, <3>5
  <2>3. CASE \/ EnterMain \/ RunSingle \/ SingleReturns \/ StartThread
             \/ DeclareRunning \/ MainLoop \/ ScanSlot \/ JoinSlot \/ StartSpare
             \/ JoinThreads \/ LeaveMain \/ Decide
    <3>1. UNCHANGED <<theMpm, stopper>>
          /\ mainPc \notin {"config", "create", "exited"}
          /\ mainPc' \notin {"config", "create", "exited"}
      BY <2>3 DEF EnterMain, RunSingle, SingleReturns, StartThread, DeclareRunning,
         MainLoop, ScanSlot, JoinSlot, StartSpare, JoinThreads, LeaveMain, Decide
    <3>2. QED  BY <3>1 DEF Life, Unwound
  <2>4. QED  BY <1>1, <2>2, <2>3 DEF MainStep
<1>2. ASSUME NEW i \in Slots, WorkerStep(i) \/ WorkerFault(i) PROVE Life'
  <2>1. /\ wpc[i] \in From
        /\ \A j \in Slots \ {i} :
               wpc'[j] = wpc[j] \/ (wpc[j] = "token_wait" /\ wpc'[j] = "token")
        /\ UNCHANGED <<theMpm, stopper>>
        /\ \/ mainPc' \in {mainPc, SignalMain(mainPc)}
           \/ SingleThread /\ mainPc' = "exited" /\ wpc'[i] = "unwound" /\ "leave" \in Faults
    BY <1>0, <1>2, WorkerMoves
  <2>2. CASE mainPc' \in {mainPc, SignalMain(mainPc)}
    <3>1. Unwound' <=> Unwound
      BY <2>1, <2>2, UnwoundKept
    <3>2. QED  BY <2>1, <2>2, <3>1 DEF Life, SignalMain
  <2>3. CASE SingleThread /\ mainPc' = "exited" /\ wpc'[i] = "unwound" /\ "leave" \in Faults
    <3>1. i = 1 /\ Unwound'
      BY <2>3, OneSlot DEF Unwound, SingleThread
    <3>2. mainPc = "single"
      BY <2>1, <2>3 DEF Inductive, House, Owned, From
    <3>3. QED  BY <2>1, <2>3, <3>1, <3>2 DEF Life
  <2>4. QED  BY <2>1, <2>2, <2>3
<1>3. ASSUME NEW who \in {Ctl} \cup Slots, NEW kind \in {"shutdown", "restart"},
             who # Ctl => wpc[who] \in {"accept_failed", "abort"},
             CallStop(who, kind)
      PROVE  Life'
  <2>1. /\ UNCHANGED theMpm
        /\ mainPc' = mainPc \/ mainPc' = SignalMain(mainPc)
        /\ \A j \in Slots : wpc'[j] = wpc[j] \/ wpc[j] \in {"accept_failed", "abort"}
        /\ stopper' = NoStopper \/ theMpm
    BY <1>0, <1>3, CallStopMoves
  <2>2. Unwound' <=> Unwound
    BY <2>1, UnwoundKept
  <2>3. QED  BY <2>1, <2>2 DEF Life, SignalMain
<1>4. CASE StopHttpd \/ RestartHttpd \/ \E i \in Slots : WorkerShutdown(i)
  BY <1>3, <1>4 DEF StopHttpd, RestartHttpd, WorkerShutdown
<1>5. CASE StopWorkers \/ StopWakeup
  <2>1. UNCHANGED <<theMpm, mainPc>> /\ stopper # NoStopper
    BY <1>5 DEF StopWorkers, StopWakeup, StopFrame, NoStopper
  <2>2. \A j \in Slots : \/ wpc'[j] = wpc[j]
                         \/ wpc[j] \in {"token_wait", "accept_failed", "abort"}
    <3>1. CASE StopWorkers
      BY <3>1 DEF StopWorkers, BroadcastWorkers
    <3>2. CASE StopWakeup
      <4>1. stopper.by \in {Ctl} \cup Slots /\ Returns(stopper.by, stopper.kind)
        BY <1>0, <2>1, <3>2 DEF StopWakeup, TypeOK, Stoppers
      <4>2. \A j \in Slots : wpc'[j] = wpc[j] \/ j = stopper.by
        BY <1>0, <4>1, ReturnMoves
      <4>3. \A j \in Slots : j = stopper.by => wpc[j] \in {"accept_failed", "abort"}
        BY <2>1 DEF Inductive, House, CallerWaits, Ctl, Slots
      <4>4. QED  BY <4>2, <4>3
    <3>3. QED  BY <1>5, <3>1, <3>2
  <2>3. Unwound' <=> Unwound
    BY <2>1, <2>2, UnwoundKept
  <2>4. QED  BY <2>1, <2>3 DEF Life
<1>6. CASE Poll \/ Connect \/ Exited \/ UNCHANGED vars
  <2>1. UNCHANGED <<theMpm, mainPc, stopper, wpc>>
    BY <1>6 DEF Poll, Connect, Exited, vars, mainVars, workerVars
  <2>2. QED  BY <2>1 DEF Life, Unwound, SingleThread
<1>7. QED  BY <1>1, <1>2, <1>4, <1>5, <1>6 DEF Next

LEMMA SpecLife == Spec => []Life
<1>1. Init => Life
  <2>1. Init => ~Unwound
    BY DEF Init, Unwound
  <2>2. QED  BY <2>1 DEF Init, Life
<1>2. QED  BY <1>1, SpecInductive, StepLife, PTL DEF Spec

\* Whoever uses the mpm finds it there, a worker or a caller.
LEMMA UsersFindMpm == Inductive /\ Life => MpmAlive \/ Unwound
<1> SUFFICES ASSUME Inductive, Life, ~Unwound, Alive # {} \/ stopper # NoStopper
             PROVE  theMpm /\ mainPc \notin {"config", "create", "exited"}
  BY DEF MpmAlive
<1>1. CASE stopper # NoStopper
  BY <1>1 DEF Life
<1>2. CASE Alive # {}
  <2>1. PICK i \in Slots : wpc[i] \notin {"none", "unwound"}
    BY <1>2 DEF Alive
  <2>2. CASE SingleThread
    <3>1. mainPc = "single"
      BY <2>1, <2>2 DEF Inductive, House, Owned
    <3>2. QED  BY <3>1 DEF Life
  <2>3. CASE ~SingleThread
    <3>1. threads # {}
      BY <2>1, <2>3 DEF Inductive, House, Owned
    <3>2. QED  BY <2>3, <3>1 DEF Inductive, House, Quiet, Life
  <2>4. QED  BY <2>2, <2>3
<1>3. QED  BY <1>1, <1>2

\* No thread uses the mpm outside its life: it is published before the first
\* worker and destroyed after the last worker has been joined and the last stop
\* call has let go of the mpm lock.  The one exception is a leave in the single
\* thread, which no trap stops below apache_main.
THEOREM MpmOutlivesItsUsers ==
    ASSUME ~SingleThread \/ "leave" \notin Faults
    PROVE  Spec => []MpmAlive
<1>1. Inductive /\ Life => MpmAlive
  BY UsersFindMpm DEF Life, Unwound
<1>2. QED  BY <1>1, SpecInductive, SpecLife, PTL

\* That leave is the only exception, and while it has not come about the mpm is
\* there for the single thread too.
THEOREM OnlyLeaveStrandsMpm == Spec => [](MpmAlive \/ Unwound)
BY UsersFindMpm, SpecInductive, SpecLife, PTL

-----------------------------------------------------------------------------
(* The accept token. *)

\* The part of NoLostToken that needs nothing but the steps on the token.
Recalled ==
    \A i \in TokenWaiters(wpc) :
        /\ ~shouldExit
        /\ acceptAvailable => \E j \in Slots : wpc[j] = "token"

Token == TokenExclusive /\ Recalled

\* What a step must do at least to keep the token in order.
LEMMA TokenKept ==
    ASSUME Token, UNCHANGED <<acceptAvailable, shouldExit>>,
           TokenHolders' \subseteq TokenHolders,
           \A j \in Slots : wpc'[j] = "token_wait" => wpc[j] = "token_wait",
           \A j \in Slots : wpc[j] = "token" => wpc'[j] = "token"
    PROVE  Token'
<1>1. TokenExclusive'
  BY DEF Token, TokenExclusive
<1>2. Recalled'
  BY DEF Token, Recalled, TokenWaiters
<1>3. QED  BY <1>1, <1>2 DEF Token

\* A step after which there is neither a holder nor a waiter.
LEMMA TokenAtRest ==
    ASSUME \A j \in Slots : wpc'[j] \in {"none", "init", "exited", "unwound"}
    PROVE  Token'
<1>1. TokenHolders' = {} /\ TokenWaiters(wpc)' = {}
  BY DEF TokenHolders, TokenWaiters
<1>2. QED  BY <1>1 DEF Token, TokenExclusive, Recalled

\* The holder gives the token back.
LEMMA TokenGiven ==
    ASSUME TypeOK, Token, NEW i \in TokenHolders, NEW pc \in {"finish", "busy"},
           GiveToken(i, pc), UNCHANGED shouldExit
    PROVE  Token'
<1>1. i \in Slots
  BY DEF TokenHolders
<1>2. /\ wpc'[i] = pc
      /\ \A j \in Slots \ {i} :
             wpc'[j] = wpc[j] \/ (wpc[j] = "token_wait" /\ wpc'[j] = "token")
  <2>1. pc \in WorkerPcs \ {"token_wait"}
    BY DEF WorkerPcs
  <2>2. QED  BY <1>1, <2>1, GiveTokenMoves
<1>3. \A j \in Slots \ {i} : j \notin TokenHolders
  BY DEF Token, TokenExclusive
<1>4. TokenHolders' = {}
  BY <1>2, <1>3 DEF TokenHolders
<1>5. TokenExclusive'
  BY <1>4 DEF TokenExclusive
<1>6. TokenWaiters(wpc') = {} \/ \E j \in Slots : wpc'[j] = "token"
  <2> DEFINE w == [wpc EXCEPT ![i] = pc]
  <2>1. w \in [Slots -> WorkerPcs] /\ wpc' \in SignalWorkers(w)
    BY DEF GiveToken, TypeOK, WorkerPcs
  <2>2. QED
    <3> HIDE DEF w
    <3> QED  BY <2>1, SignalWakes
<1>7. \A j \in TokenWaiters(wpc') : ~shouldExit
  BY <1>2 DEF Token, Recalled, TokenWaiters
<1>8. Recalled'
  BY <1>6, <1>7 DEF Recalled, TokenWaiters
<1>9. QED  BY <1>5, <1>8 DEF Token

LEMMA WorkerToken ==
    ASSUME TypeOK, Token, NEW i \in Slots, WorkerStep(i) \/ WorkerFault(i)
    PROVE  Token'
<1>1. CASE ListenFails(i) \/ HandOver(i)
  BY <1>1, TokenGiven DEF ListenFails, HandOver, TokenHolders
<1>2. CASE AskForToken(i)
  <2>1. CASE shouldExit
    <3>1. TokenWaiters(wpc) = {}
      BY <2>1 DEF Token, Recalled
    <3>2. wpc' = [wpc EXCEPT ![i] = "finish"]
      <4>1. TokenWaiters([wpc EXCEPT ![i] = "finish"]) = {}
        BY <3>1 DEF TokenWaiters, TypeOK
      <4>2. QED  BY <1>2, <2>1, <4>1 DEF AskForToken, SignalWorkers
    <3>3. UNCHANGED <<acceptAvailable, shouldExit>>
      BY <1>2, <2>1 DEF AskForToken
    <3>4. TokenHolders' \subseteq TokenHolders
      BY <3>2 DEF TokenHolders, TypeOK
    <3>5. TokenWaiters(wpc') = {}
      BY <3>1, <3>2 DEF TokenWaiters, TypeOK
    <3>6. QED
      BY <3>3, <3>4, <3>5 DEF Token, TokenExclusive, Recalled
  <2>2. CASE ~shouldExit /\ acceptAvailable
    <3>1. TokenHolders = {}
      BY <2>2 DEF Token, TokenExclusive
    <3>2. wpc' = [wpc EXCEPT ![i] = "accept"] /\ acceptAvailable' = FALSE
          /\ UNCHANGED shouldExit
      BY <1>2, <2>2 DEF AskForToken, MoveTo
    <3>3. TokenHolders' = {i}
      BY <3>1, <3>2 DEF TokenHolders, TypeOK
    <3>4. TokenExclusive'
      BY <3>2, <3>3 DEF TokenExclusive
    <3>5. Recalled'
      BY <2>2, <3>2 DEF Recalled
    <3>6. QED  BY <3>4, <3>5 DEF Token
  <2>3. CASE ~shouldExit /\ ~acceptAvailable
    <3>1. wpc' = [wpc EXCEPT ![i] = "token_wait"]
          /\ UNCHANGED <<acceptAvailable, shouldExit>>
      BY <1>2, <2>3 DEF AskForToken, MoveTo
    <3>2. TokenHolders' \subseteq TokenHolders
      BY <3>1 DEF TokenHolders, TypeOK
    <3>3. TokenExclusive'
      BY <3>1, <3>2 DEF Token, TokenExclusive
    <3>4. Recalled'
      BY <2>3, <3>1 DEF Recalled
    <3>5. QED  BY <3>3, <3>4 DEF Token
  <2>4. QED  BY <2>1, <2>2, <2>3
<1>3. ASSUME wpc[i] \notin {"token", "token_wait"},
             NEW pc \in WorkerPcs \ {"token_wait"}, MoveTo(i, pc),
             i \in TokenHolders
             \/ pc \notin {"accept", "accept_failed", "accepted", "claim", "handover"},
             UNCHANGED <<acceptAvailable, shouldExit>>
      PROVE  Token'
  <2>1. wpc' = [wpc EXCEPT ![i] = pc]
    BY <1>3 DEF MoveTo
  <2>2. TokenHolders' \subseteq TokenHolders
    BY <1>3, <2>1 DEF TokenHolders, TypeOK
  <2>3. /\ \A j \in Slots : wpc'[j] = "token_wait" => wpc[j] = "token_wait"
        /\ \A j \in Slots : wpc[j] = "token" => wpc'[j] = "token"
    BY <1>3, <2>1 DEF TypeOK
  <2>4. QED  BY <1>3, <2>2, <2>3, TokenKept
<1> USE DEF WorkerPcs, workersVars
<1>4. CASE SetUp(i)
  BY <1>3, <1>4 DEF SetUp
<1>5. CASE Leave(i)
  BY <1>3, <1>5 DEF Leave
<1>6. CASE LoopTop(i)
  BY <1>3, <1>6 DEF LoopTop
<1>7. CASE Accept(i) \/ AcceptFails(i)
  BY <1>3, <1>7 DEF Accept, AcceptFails, TokenHolders
<1>8. CASE CheckExit(i)
  BY <1>3, <1>8 DEF CheckExit, TokenHolders
<1>9. CASE Claim(i)
  BY <1>3, <1>9 DEF Claim, TokenHolders
<1>10. CASE FinishRequest(i)
  BY <1>3, <1>10 DEF FinishRequest
<1>11. CASE DeclareDead(i) \/ Uncount(i)
  BY <1>3, <1>11 DEF DeclareDead, Uncount
<1>12. QED
  BY <1>1, <1>2, <1>4, <1>5, <1>6, <1>7, <1>8, <1>9, <1>10, <1>11
  DEF WorkerStep, WorkerFault

LEMMA MainToken ==
    ASSUME Inductive, Token, MainStep
    PROVE  Token'
<1>1. wpc \in [Slots -> WorkerPcs]
  BY DEF Inductive, Typed, TypeOK
<1>2. CASE CreateMpm
  <2>1. UNCHANGED wpc /\ mainPc = "create"
    BY <1>2 DEF CreateMpm, workerVars
  <2>2. \A j \in Slots : wpc[j] = "none"
    <3>1. CASE SingleThread
      BY <2>1, <3>1 DEF Inductive, House, Owned
    <3>2. CASE ~SingleThread
      BY <2>1, <3>2, NobodyThere DEF Inductive, House, Quiet
    <3>3. QED  BY <3>1, <3>2
  <2>3. QED  BY <2>1, <2>2, TokenAtRest
<1>3. CASE RunSingle
  <2>1. Slots = {1} /\ wpc'[1] = "init"
    BY <1>1, <1>3 DEF RunSingle, SingleThread, Slots, BeginWorker
  <2>2. QED  BY <2>1, TokenAtRest
<1>4. CASE SingleReturns \/ JoinSlot
  <2>1. PICK s \in Slots : wpc[s] \in {"exited", "unwound"} /\ wpc' = [wpc EXCEPT ![s] = "none"]
    <3>1. CASE SingleReturns
      <4>1. 1 \in Slots
        BY SettingsAssumption DEF Slots
      <4>2. QED  BY <3>1, <4>1 DEF SingleReturns
    <3>2. CASE JoinSlot
      BY <3>2 DEF JoinSlot, Joinable, Inductive, Typed, SlotInRange
    <3>3. QED  BY <1>4, <3>1, <3>2
  <2>2. TokenHolders' \subseteq TokenHolders
    BY <1>1, <2>1 DEF TokenHolders
  <2>3. UNCHANGED <<acceptAvailable, shouldExit>>
    BY <1>4 DEF SingleReturns, JoinSlot, workersVars
  <2>4. QED  BY <1>1, <2>1, <2>2, <2>3, TokenKept
<1>5. CASE JoinThreads
  BY <1>5, TokenAtRest DEF JoinThreads
<1>6. CASE StartThread \/ StartSpare
  <2>1. /\ mainSlot \in Slots /\ wpc[mainSlot] = "none"
        /\ UNCHANGED <<acceptAvailable, shouldExit>>
    BY <1>6, SlotUnused
    DEF NoSlotReuse, StartThread, StartSpare, Inductive, Typed, SlotInRange, workersVars
  <2>2. UNCHANGED wpc \/ wpc' = [wpc EXCEPT ![mainSlot] = "init"]
    BY <1>6 DEF StartThread, StartSpare, WorkerStart, WorkerStartFails, BeginWorker,
       workerVars
  <2>3. TokenHolders' \subseteq TokenHolders
    BY <1>1, <2>1, <2>2 DEF TokenHolders
  <2>4. QED  BY <1>1, <2>1, <2>2, <2>3, TokenKept
<1>7. CASE \/ ReadConfig \/ EnterMain \/ DeclareRunning \/ MainLoop \/ ScanSlot
           \/ LeaveMain \/ Decide \/ DestroyMpm
  <2>1. UNCHANGED <<wpc, acceptAvailable, shouldExit>>
    BY <1>7 DEF ReadConfig, EnterMain, DeclareRunning, MainLoop, ScanSlot, LeaveMain,
       Decide, DestroyMpm, workersVars, workerVars
  <2>2. QED  BY <2>1, TokenKept DEF TokenHolders
<1>8. QED  BY <1>2, <1>3, <1>4, <1>5, <1>6, <1>7 DEF MainStep

LEMMA StepToken == Inductive /\ Token /\ [Next]_vars => Token'
<1> SUFFICES ASSUME Inductive, Token, [Next]_vars PROVE Token'
  OBVIOUS
<1>0. TypeOK
  BY DEF Inductive, Typed
<1>1. ASSUME NEW i \in Slots, WorkerStep(i) \/ WorkerFault(i) PROVE Token'
  BY <1>0, <1>1, WorkerToken
<1>2. ASSUME UNCHANGED <<acceptAvailable, shouldExit>>,
             \A j \in Slots : \/ wpc'[j] = wpc[j]
                              \/ /\ wpc[j] \in {"accept_failed", "abort"}
                                 /\ wpc'[j] \in {"finish", "unwound"}
      PROVE  Token'
  <2>1. TokenHolders' \subseteq TokenHolders
    BY <1>2 DEF TokenHolders
  <2>2. QED  BY <1>2, <2>1, TokenKept
<1>3. ASSUME NEW who \in {Ctl} \cup Slots, NEW kind \in {"shutdown", "restart"},
             who # Ctl => wpc[who] \in {"accept_failed", "abort"},
             CallStop(who, kind)
      PROVE  Token'
  <2>1. UNCHANGED <<acceptAvailable, shouldExit>>
    BY <1>3 DEF CallStop, StopFrame
  <2>2. QED  BY <1>0, <1>2, <1>3, <2>1, CallStopMoves
<1>4. CASE StopHttpd \/ RestartHttpd \/ \E i \in Slots : WorkerShutdown(i)
  BY <1>3, <1>4 DEF StopHttpd, RestartHttpd, WorkerShutdown
<1>5. CASE StopWorkers
  <2>1. /\ UNCHANGED acceptAvailable
        /\ \A j \in Slots : wpc'[j] = IF wpc[j] = "token_wait" THEN "token" ELSE wpc[j]
    BY <1>5 DEF StopWorkers, StopFrame, BroadcastWorkers
  <2>2. TokenHolders' = TokenHolders /\ TokenWaiters(wpc') = {}
    BY <2>1 DEF TokenHolders, TokenWaiters
  <2>3. QED  BY <2>1, <2>2 DEF Token, TokenExclusive, Recalled
<1>6. CASE StopWakeup
  <2>1. stopper \in Stoppers /\ stopper # NoStopper
    BY <1>0, <1>6 DEF StopWakeup, TypeOK, NoStopper
  <2>2. stopper.by \in {Ctl} \cup Slots
    BY <2>1 DEF Stoppers
  <2>3. /\ UNCHANGED <<acceptAvailable, shouldExit>>
        /\ Returns(stopper.by, stopper.kind)
    BY <1>6 DEF StopWakeup, StopFrame
  <2>4. \A j \in Slots : wpc'[j] = wpc[j] \/ (j = stopper.by /\ wpc'[j] \in {"finish", "unwound"})
    BY <1>0, <2>2, <2>3, ReturnMoves
  <2>5. \A j \in Slots : j = stopper.by => wpc[j] \in {"accept_failed", "abort"}
    BY <2>1 DEF Inductive, House, CallerWaits, Ctl, Slots
  <2>6. QED  BY <1>2, <2>3, <2>4, <2>5
<1>7. CASE Poll \/ Connect \/ Exited \/ UNCHANGED vars
  <2>1. UNCHANGED <<wpc, acceptAvailable, shouldExit>>
    BY <1>7 DEF Poll, Connect, Exited, vars, workersVars, workerVars
  <2>2. QED  BY <1>2, <2>1
<1>8. CASE MainStep
  BY <1>8, MainToken
<1>9. QED  BY <1>1, <1>4, <1>5, <1>6, <1>7, <1>8 DEF Next

LEMMA SpecToken == Spec => []Token
<1>1. Init => Token
  BY DEF Init, Token, TokenExclusive, Recalled, TokenHolders, TokenWaiters
<1>2. QED  BY <1>1, SpecInductive, StepToken, PTL DEF Spec

\* At most one worker accepts at a time, and the token is not on offer meanwhile.
THEOREM OneAccepts == Spec => []TokenExclusive
BY SpecToken, PTL DEF Token

-----------------------------------------------------------------------------
(* A stop reaches the workers, and the token is held by somebody.          *)

\* A stop is pending.
Pended == shutdownPending \/ restartPending

\* The part of a generation in which there may be workers to tell.
Staffed ==
    {"pre_mpm", "spawn", "spawned", "loop", "cond_wait", "scan", "join_slot",
     "start_worker", "join_all", "single"}

\* WorkersTold, with the time before the first worker.
ToldEarly ==
    Pended /\ mainPc \in Staffed => shouldExit \/ stopper.step = "workers"

\* The call that makes the connection has told the workers.
WakeupLast == stopper.step = "wakeup" => shouldExit

\* The token that is not on offer is with a worker, until they are told to exit.
TokenHeld == ~acceptAvailable /\ ~shouldExit => TokenHolders # {}

Reach == ToldEarly /\ WakeupLast /\ TokenHeld /\ AccepterWoken

\* A step that leaves the stop and the token alone, in which nobody who has the
\* token loses it and nobody comes to accept.
LEMMA ReachKept ==
    ASSUME Reach, UNCHANGED <<acceptAvailable, shouldExit, stopper>>,
           backlog' >= backlog, backlog \in Nat, backlog' \in Nat,
           Pended' /\ mainPc' \in Staffed => Pended /\ mainPc \in Staffed,
           shouldExit \/ TokenHolders \subseteq TokenHolders',
           \A j \in Slots : wpc'[j] = "accept" => wpc[j] = "accept"
    PROVE  Reach'
BY DEF Reach, ToldEarly, WakeupLast, TokenHeld, AccepterWoken

LEMMA WorkerReach ==
    ASSUME TypeOK, Token, Reach, NEW i \in Slots, WorkerStep(i) \/ WorkerFault(i)
    PROVE  Reach'
<1>1. /\ \A j \in Slots \ {i} :
             wpc'[j] = wpc[j] \/ (wpc[j] = "token_wait" /\ wpc'[j] = "token")
      /\ UNCHANGED <<stopper, shutdownPending, restartPending>>
      /\ mainPc' \in {mainPc, SignalMain(mainPc)} \/ mainPc' = "exited"
  BY WorkerMoves
<1>2. Pended' = Pended /\ (mainPc' \in Staffed => mainPc \in Staffed)
  BY <1>1 DEF Pended, SignalMain, Staffed
<1>3. backlog \in Nat /\ wpc \in [Slots -> WorkerPcs]
  BY SettingsAssumption DEF TypeOK
<1>4. \A j \in Slots \ {i} :
          /\ j \in TokenHolders => j \in TokenHolders'
          /\ wpc'[j] = "accept" => wpc[j] = "accept"
  BY <1>1 DEF TokenHolders
<1>5. ToldEarly' /\ WakeupLast' /\ shouldExit' = shouldExit
  <2>1. shouldExit' = shouldExit
    BY DEF WorkerStep, WorkerFault, SetUp, LoopTop, AskForToken, Accept, CheckExit, Claim,
       HandOver, FinishRequest, DeclareDead, Uncount, Leave, ListenFails, AcceptFails,
       workersVars
  <2>2. QED  BY <1>1, <1>2, <2>1 DEF Reach, ToldEarly, WakeupLast
<1>6. CASE AskForToken(i) /\ ~shouldExit /\ acceptAvailable
  <2>1. wpc' = [wpc EXCEPT ![i] = "accept"]
    BY <1>6 DEF AskForToken, MoveTo
  <2>2. i \in TokenHolders'
    BY <1>3, <2>1 DEF TokenHolders
  <2>3. QED  BY <1>5, <1>6, <2>2 DEF TokenHeld, AccepterWoken, Reach
<1>7. CASE ListenFails(i) \/ HandOver(i)
  <2>1. acceptAvailable' /\ backlog' = backlog /\ wpc'[i] # "accept"
    <3>1. PICK pc \in {"finish", "busy"} : GiveToken(i, pc)
      BY <1>7 DEF ListenFails, HandOver
    <3>2. wpc'[i] = pc
      BY <3>1, GiveTokenMoves DEF WorkerPcs
    <3>3. QED  BY <1>7, <3>1, <3>2 DEF GiveToken, ListenFails, HandOver
  <2>2. QED  BY <1>1, <1>4, <1>5, <2>1 DEF TokenHeld, AccepterWoken, Reach
<1>8. CASE Accept(i)
  <2>1. wpc[i] = "accept" /\ wpc' = [wpc EXCEPT ![i] = "accepted"]
        /\ acceptAvailable' = acceptAvailable
    BY <1>8 DEF Accept, MoveTo, workersVars
  <2>2. \A j \in Slots : wpc'[j] # "accept"
    BY <1>3, <2>1 DEF Token, TokenExclusive, TokenHolders
  <2>3. i \in TokenHolders'
    BY <1>3, <2>1 DEF TokenHolders
  <2>4. QED  BY <1>5, <2>2, <2>3 DEF TokenHeld, AccepterWoken, Reach
<1>9. ASSUME UNCHANGED <<acceptAvailable, backlog>>,
             wpc'[i] # "accept",
             shouldExit \/ i \notin TokenHolders \/ i \in TokenHolders'
      PROVE  Reach'
  <2>1. shouldExit \/ TokenHolders \subseteq TokenHolders'
    BY <1>4, <1>9 DEF TokenHolders
  <2>2. QED  BY <1>1, <1>2, <1>3, <1>4, <1>5, <1>9, <2>1, ReachKept
<1> USE DEF TokenHolders, MoveTo, workersVars
<1>10. CASE SetUp(i) \/ Leave(i) \/ LoopTop(i)
  BY <1>3, <1>9, <1>10 DEF SetUp, Leave, LoopTop
<1>11. CASE AskForToken(i) /\ (shouldExit \/ ~acceptAvailable)
  <2>1. wpc'[i] \in {"finish", "token_wait"}
    <3>1. CASE shouldExit
      <4> DEFINE w == [wpc EXCEPT ![i] = "finish"]
      <4>1. w \in [Slots -> WorkerPcs] /\ wpc' \in SignalWorkers(w) /\ w[i] = "finish"
        BY <1>3, <1>11, <3>1 DEF AskForToken, WorkerPcs
      <4>2. QED
        <5> HIDE DEF w
        <5> QED  BY <4>1, SignalMoves
    <3>2. CASE ~shouldExit
      BY <1>3, <1>11, <3>2 DEF AskForToken
    <3>3. QED  BY <3>1, <3>2
  <2>2. UNCHANGED <<acceptAvailable, backlog>> /\ wpc[i] = "token"
    BY <1>11 DEF AskForToken
  <2>3. QED  BY <1>9, <2>1, <2>2
<1>12. CASE AcceptFails(i)
  BY <1>3, <1>9, <1>12 DEF AcceptFails
<1>13. CASE CheckExit(i)
  BY <1>3, <1>9, <1>13 DEF CheckExit
<1>14. CASE Claim(i)
  BY <1>3, <1>9, <1>14 DEF Claim
<1>15. CASE FinishRequest(i)
  BY <1>3, <1>9, <1>15 DEF FinishRequest
<1>16. CASE DeclareDead(i) \/ Uncount(i)
  BY <1>3, <1>9, <1>16 DEF DeclareDead, Uncount
<1>17. QED
  BY <1>6, <1>7, <1>8, <1>10, <1>11, <1>12, <1>13, <1>14, <1>15, <1>16
  DEF WorkerStep, WorkerFault

LEMMA MainReach ==
    ASSUME Inductive, Reach, MainStep
    PROVE  Reach'
<1>1. /\ wpc \in [Slots -> WorkerPcs] /\ backlog \in Nat /\ UNCHANGED <<backlog, stopper>>
  BY SettingsAssumption DEF Inductive, Typed, TypeOK, MainStep, ReadConfig, CreateMpm,
     EnterMain, RunSingle, SingleReturns, StartThread, DeclareRunning, MainLoop, ScanSlot,
     JoinSlot, StartSpare, JoinThreads, LeaveMain, Decide, DestroyMpm
<1>2. CASE CreateMpm
  <2>1. UNCHANGED wpc /\ stopper = NoStopper /\ mainPc = "create"
    BY <1>2 DEF CreateMpm, MpmLockFree, workerVars
  <2>2. CASE mainPc' = "pre_mpm"
    <3>1. ~Pended' /\ acceptAvailable' /\ ~shouldExit'
      BY <1>2, <2>1, <2>2 DEF CreateMpm, Pended
    <3>2. QED
      BY <1>1, <2>1, <3>1
      DEF Reach, ToldEarly, WakeupLast, TokenHeld, AccepterWoken, NoStopper
  <2>3. CASE mainPc' # "pre_mpm"
    <3>1. UNCHANGED <<acceptAvailable, shouldExit>> /\ mainPc' = "exited"
      BY <1>2, <2>3 DEF CreateMpm, workersVars
    <3>2. QED
      BY <1>1, <2>1, <3>1, ReachKept DEF Staffed, TokenHolders
  <2>4. QED  BY <2>2, <2>3
<1>3. ASSUME UNCHANGED <<acceptAvailable, shouldExit>>,
             Pended' /\ mainPc' \in Staffed => Pended /\ mainPc \in Staffed,
             \A j \in Slots : \/ wpc'[j] = wpc[j]
                              \/ /\ wpc[j] \in {"none", "exited", "unwound"}
                                 /\ wpc'[j] \in {"none", "init"}
      PROVE  Reach'
  <2>1. /\ TokenHolders \subseteq TokenHolders'
        /\ \A j \in Slots : wpc'[j] = "accept" => wpc[j] = "accept"
    BY <1>3 DEF TokenHolders
  <2>2. QED  BY <1>1, <1>3, <2>1, ReachKept
<1>4. CASE RunSingle \/ StartThread \/ StartSpare
  <2>1. PICK s \in Slots : /\ wpc[s] = "none"
                           /\ UNCHANGED wpc \/ wpc' = [wpc EXCEPT ![s] = "init"]
    <3>1. CASE RunSingle
      <4>1. wpc[1] = "none"
        BY <3>1, OneSlot DEF RunSingle, Inductive, House, Owned
      <4>2. QED  BY <3>1, <4>1, OneSlot DEF RunSingle, BeginWorker
    <3>2. CASE StartThread \/ StartSpare
      <4>1. mainSlot \in Slots /\ wpc[mainSlot] = "none"
        BY <3>2, SlotUnused
        DEF NoSlotReuse, StartThread, StartSpare, Inductive, Typed, SlotInRange
      <4>2. QED
        BY <3>2, <4>1 DEF StartThread, StartSpare, WorkerStart, WorkerStartFails,
           BeginWorker, workerVars
    <3>3. QED  BY <1>4, <3>1, <3>2
  <2>2. \A j \in Slots : \/ wpc'[j] = wpc[j]
                         \/ wpc[j] = "none" /\ wpc'[j] = "init"
    BY <1>1, <2>1
  <2>3. /\ UNCHANGED <<acceptAvailable, shouldExit>>
        /\ Pended' /\ mainPc' \in Staffed => Pended /\ mainPc \in Staffed
    <3>1. CASE RunSingle \/ StartSpare
      BY <3>1 DEF RunSingle, StartSpare, Pended, Staffed, stateVars, workersVars
    <3>2. CASE StartThread
      <4>1. UNCHANGED <<acceptAvailable, shouldExit, restartPending>> /\ mainPc = "spawn"
        BY <3>2 DEF StartThread, workersVars
      <4>2. mainPc' = "closing" \/ shutdownPending' = shutdownPending
        <5>1. shutdownPending \in BOOLEAN
          BY DEF Inductive, Typed, TypeOK
        <5>2. QED  BY <3>2, <5>1 DEF StartThread
      <4>3. QED  BY <4>1, <4>2 DEF Pended, Staffed
    <3>3. QED  BY <1>4, <3>1, <3>2
  <2>4. QED  BY <1>3, <2>2, <2>3
<1>5. CASE SingleReturns \/ JoinSlot
  <2>1. PICK s \in Slots : /\ wpc[s] \in {"exited", "unwound"}
                           /\ wpc' = [wpc EXCEPT ![s] = "none"]
    BY <1>5, OneSlot DEF SingleReturns, JoinSlot, Joinable, Inductive, Typed, SlotInRange
  <2>2. \A j \in Slots : \/ wpc'[j] = wpc[j]
                         \/ wpc[j] \in {"exited", "unwound"} /\ wpc'[j] = "none"
    BY <1>1, <2>1
  <2>3. /\ UNCHANGED <<acceptAvailable, shouldExit>>
        /\ Pended' /\ mainPc' \in Staffed => Pended /\ mainPc \in Staffed
    BY <1>5 DEF SingleReturns, JoinSlot, Pended, Staffed, stateVars, workersVars
  <2>4. QED  BY <1>3, <2>2, <2>3
<1>6. CASE JoinThreads
  <2>1. \A j \in Slots : wpc[j] \in {"none", "exited", "unwound"} /\ wpc'[j] = "none"
    BY <1>6 DEF JoinThreads, Joinable, Inductive, House, Owned, MainKind
  <2>2. /\ UNCHANGED <<acceptAvailable, shouldExit>>
        /\ Pended' /\ mainPc' \in Staffed => Pended /\ mainPc \in Staffed
    BY <1>6 DEF JoinThreads, Pended, Staffed, stateVars, workersVars
  <2>3. QED  BY <1>3, <2>1, <2>2
<1>7. CASE \/ ReadConfig \/ EnterMain \/ DeclareRunning \/ MainLoop \/ ScanSlot
           \/ LeaveMain \/ Decide \/ DestroyMpm
  <2>1. /\ UNCHANGED <<wpc, acceptAvailable, shouldExit>>
        /\ Pended' /\ mainPc' \in Staffed => Pended /\ mainPc \in Staffed
    BY <1>7 DEF ReadConfig, EnterMain, DeclareRunning, MainLoop, ScanSlot, LeaveMain,
       Decide, DestroyMpm, Pended, Staffed, stateVars, workersVars, workerVars
  <2>2. QED  BY <1>3, <2>1
<1>8. QED  BY <1>2, <1>4, <1>5, <1>6, <1>7 DEF MainStep

\* A call that returns to a worker does so only after the workers were told.
LEMMA StopReach ==
    ASSUME Inductive, Life, Reach,
           \/ StopWorkers \/ StopWakeup \/ StopHttpd \/ RestartHttpd
           \/ \E i \in Slots : WorkerShutdown(i)
    PROVE  Reach'
<1>0. TypeOK /\ backlog \in Nat /\ MaxBacklog \in Nat \ {0}
  BY SettingsAssumption DEF Inductive, Typed, TypeOK
<1>1. CASE StopWorkers
  <2>1. /\ shouldExit' /\ stopper'.step = "wakeup"
        /\ UNCHANGED acceptAvailable
    BY <1>0, <1>1 DEF StopWorkers, StopFrame, TypeOK, Stoppers, NoStopper
  <2>2. QED  BY <2>1 DEF Reach, ToldEarly, WakeupLast, TokenHeld, AccepterWoken
<1>2. CASE StopWakeup
  <2>1. /\ shouldExit /\ shouldExit' /\ stopper' = NoStopper
    BY <1>2 DEF StopWakeup, Reach, WakeupLast
  <2>2. "wakeup" \notin Faults => backlog' > 0
    BY <1>0, <1>2 DEF StopWakeup
  <2>3. QED
    BY <2>1, <2>2 DEF Reach, ToldEarly, WakeupLast, TokenHeld, AccepterWoken, NoStopper
<1>3. ASSUME NEW who \in {Ctl} \cup Slots, NEW kind \in {"shutdown", "restart"},
             who # Ctl => wpc[who] \in {"accept_failed", "abort"},
             CallStop(who, kind)
      PROVE  Reach'
  <2>1. /\ \A j \in Slots : \/ wpc'[j] = wpc[j]
                            \/ /\ wpc[j] \in {"accept_failed", "abort"}
                               /\ wpc'[j] \in {"finish", "unwound"}
        /\ stopper = NoStopper /\ mainPc' \in {mainPc, SignalMain(mainPc)}
    BY <1>0, <1>3, CallStopMoves
  <2>2. /\ UNCHANGED <<acceptAvailable, shouldExit, backlog>>
        /\ mainPc' \in Staffed => mainPc \in Staffed
        /\ stopper.step = "none"
        /\ \A j \in Slots : wpc'[j] = "accept" => wpc[j] = "accept"
    BY <1>3, <2>1 DEF CallStop, StopFrame, SignalMain, Staffed, NoStopper
  <2>3. WakeupLast' /\ AccepterWoken'
    <3>1. stopper'.step \in {"none", "workers"}
      BY <1>3, <2>1, <2>2 DEF CallStop
    <3>2. QED  BY <2>2, <3>1 DEF Reach, WakeupLast, AccepterWoken
  <2>4. CASE UNCHANGED wpc
    <3>1. TokenHeld'
      BY <2>2, <2>4 DEF Reach, TokenHeld, TokenHolders
    <3>2. ToldEarly'
      <4>1. CASE theMpm /\ ~Pending(kind)
        BY <1>3, <4>1 DEF CallStop, ToldEarly
      <4>2. CASE ~theMpm
        BY <1>3, <2>2, <4>2 DEF CallStop, Reach, ToldEarly, Pended
      <4>3. CASE theMpm /\ Pending(kind)
        BY <1>3, <2>2, <4>3 DEF CallStop, Reach, ToldEarly, Pended, Pending
      <4>4. QED  BY <4>1, <4>2, <4>3
    <3>3. QED  BY <2>3, <3>1, <3>2 DEF Reach
  <2>5. CASE ~(UNCHANGED wpc)
    <3>1. who \in Slots /\ wpc[who] \in {"accept_failed", "abort"}
          /\ UNCHANGED stopper
      BY <1>3, <2>5 DEF CallStop, Returns, Ctl
    <3>2. mainPc \in Staffed /\ theMpm
      <4>1. CASE SingleThread
        BY <3>1, <4>1, OneSlot DEF Inductive, House, Owned, Staffed, Life, Unwound
      <4>2. CASE ~SingleThread
        BY <3>1, <4>2
        DEF Inductive, House, Owned, Quiet, Typed, TypeOK, MainPcs, Staffed, Life
      <4>3. QED  BY <4>1, <4>2
    <3>3. Pended
      BY <1>3, <2>5, <3>2 DEF CallStop, Pending, Pended
    <3>4. shouldExit
      BY <2>2, <3>2, <3>3 DEF Reach, ToldEarly
    <3>5. QED  BY <2>2, <2>3, <3>4 DEF Reach, ToldEarly, TokenHeld
  <2>6. QED  BY <2>4, <2>5
<1>4. CASE StopHttpd \/ RestartHttpd \/ \E i \in Slots : WorkerShutdown(i)
  BY <1>3, <1>4 DEF StopHttpd, RestartHttpd, WorkerShutdown
<1>5. QED  BY <1>1, <1>2, <1>4

LEMMA StepReach ==
    Inductive /\ Life /\ Token /\ Reach /\ [Next]_vars => Reach'
<1> SUFFICES ASSUME Inductive, Life, Token, Reach, [Next]_vars PROVE Reach'
  OBVIOUS
<1>1. CASE MainStep
  BY <1>1, MainReach
<1>2. ASSUME NEW i \in Slots, WorkerStep(i) \/ WorkerFault(i) PROVE Reach'
  BY <1>2, WorkerReach DEF Inductive, Typed
<1>3. CASE \/ StopWorkers \/ StopWakeup \/ StopHttpd \/ RestartHttpd
           \/ \E i \in Slots : WorkerShutdown(i)
  BY <1>3, StopReach
<1>4. CASE Poll \/ Connect \/ Exited \/ UNCHANGED vars
  <2>1. UNCHANGED <<wpc, acceptAvailable, shouldExit, stopper, mainPc, shutdownPending,
                    restartPending>>
        /\ backlog' \in {backlog, backlog + 1}
    BY <1>4 DEF Poll, Connect, Exited, vars, mainVars, workerVars, stateVars, workersVars
  <2>2. backlog \in Nat
    BY SettingsAssumption DEF Inductive, Typed, TypeOK
  <2>3. QED  BY <2>1, <2>2, ReachKept DEF Pended, TokenHolders
<1>5. QED  BY <1>1, <1>2, <1>3, <1>4 DEF Next

LEMMA SpecReach == Spec => []Reach
<1>1. Init => Reach
  BY DEF Init, Reach, ToldEarly, WakeupLast, TokenHeld, AccepterWoken, Pended, NoStopper
<1>2. QED  BY <1>1, SpecInductive, SpecLife, SpecToken, StepReach, PTL DEF Spec

\* A worker that waits for the token is never forgotten: somebody has the token
\* or is about to ask for it, and nobody waits once the workers are told to exit.
THEOREM TokenHandedOn == Spec => []NoLostToken
<1>1. Token /\ Reach => NoLostToken
  BY DEF Token, Recalled, Reach, TokenHeld, NoLostToken
<1>2. QED  BY <1>1, SpecToken, SpecReach, PTL

\* A pending stop has told the workers, or is just doing so, and the worker that
\* sleeps in accept has a connection to wake for, whoever calls the stop and
\* wherever the workers are: so no generation hangs that was told to end.
THEOREM StopReachesWorkers == Spec => []StopReaches
<1>1. Inductive /\ Reach => StopReaches
  <2> SUFFICES ASSUME Inductive, Reach PROVE WorkersTold
    BY DEF Reach, StopReaches
  <2>1. ASSUME NEW i \in Alive PROVE mainPc \in Staffed
    <3>1. CASE SingleThread
      BY <2>1, <3>1, OneSlot DEF Alive, Inductive, House, Owned, Staffed
    <3>2. CASE ~SingleThread
      BY <2>1, <3>2
      DEF Alive, Inductive, House, Owned, Quiet, Typed, TypeOK, MainPcs, Staffed
    <3>3. QED  BY <3>1, <3>2
  <2>2. QED  BY <2>1 DEF Reach, ToldEarly, WorkersTold, Pended
<1>2. QED  BY <1>1, SpecInductive, SpecReach, PTL

-----------------------------------------------------------------------------
(* A call is not forgotten, and a restart not mistaken for done. *)

\* Nothing but a stop call, or the failure to set a generation up, ends a
\* generation.  It is always so when several threads serve; the single thread
\* must not come to its end by itself.
Steady ==
    SingleThread => MaxRequests = 0 /\ Faults \cap {"setup", "listen"} = {}

\* The part of a generation in which no restart can have been asked for yet.
Early == {"config", "create", "pre_mpm", "spawn", "spawned"}

\* A stop call under way has been recorded, and the workers are only told to
\* exit on its behalf.
Told ==
    /\ stopper # NoStopper => Pended
    /\ shouldExit => Pended

\* The single thread is counted nowhere, so that it never finds itself spare;
\* once it is on its way out a stop is pending.
Alone ==
    SingleThread =>
        /\ mainPc \in {"pre_mpm", "spawn", "single"} => nWorkers <= 0 /\ nActive >= 0
        /\ mainPc = "single" /\ wpc[1] \in {"handover", "busy"} => nActive >= 1
        /\ mainPc = "single" /\ wpc[1] \in {"finish", "dec", "exited"} => Pended

\* A generation with a restart pending never calls itself running, and one
\* that has not come that far has no restart pending; a shutdown that is being
\* passed on comes before ap_mpm_run has decided to restart.
Current ==
    /\ Calling => ctl = "running"
    /\ theMpm /\ restartPending => mpmState = "STOPPING"
    /\ mainPc \in {"pre_mpm", "spawn", "spawned"} => ~restartPending
    /\ mainPc \in Early => ctl # "running" /\ mpmState # "RUNNING"
    /\ mainPc \in {"join_all", "closing", "decide"} => Pended
    /\ mainPc = "destroy_restart" => restartPending
    /\ mainPc \in {"decide", "destroy_restart"} => mpmState = "STOPPING"
    /\ Calling /\ stopper.kind = "shutdown" =>
           shutdownPending /\ mainPc # "destroy_restart"

Faithful == Told /\ Alone /\ Current /\ RunningIsCurrent /\ CallsKept

LEMMA MainFaithful ==
    ASSUME Inductive, Steady, Life, Faithful, MainStep
    PROVE  Faithful'
<1> USE DEF Current, RunningIsCurrent, CallsKept, ShutdownKept, StartKept, Early,
            Calling, SingleThread, Pended, Faithful, Told
<1>0. 1 \in Slots /\ nWorkers \in Int /\ nActive \in Int
      /\ wpc \in [Slots -> WorkerPcs]
  BY OneSlot DEF Inductive, Typed, TypeOK
<1>1. CASE ReadConfig
  BY <1>1 DEF ReadConfig, Life, Unwound, stateVars, workersVars, Alone
<1>2. CASE CreateMpm
  BY <1>2 DEF CreateMpm, stateVars, workersVars, Life, Unwound, Alone, MpmLockFree,
     NoStopper, Ctl
<1>3. CASE EnterMain
  BY <1>3 DEF EnterMain, stateVars, workersVars, workerVars, Alone
<1>4. CASE RunSingle
  BY <1>0, <1>4 DEF RunSingle, BeginWorker, stateVars, workersVars, Alone
<1>5. CASE SingleReturns
  <2>1. SingleThread /\ Pended
    BY <1>5 DEF SingleReturns, Inductive, House, MainKind, Alone
  <2>2. QED  BY <1>5, <2>1 DEF SingleReturns, stateVars, workersVars, Alone
<1>6. CASE StartThread
  <2>1. /\ ~SingleThread /\ mainPc = "spawn"
        /\ UNCHANGED <<mpmState, theMpm, stopper, restartPending, shouldExit, ctl>>
    BY <1>6 DEF StartThread, workersVars
  <2>2. \/ mainPc' \in {"spawn", "spawned"} /\ UNCHANGED shutdownPending
        \/ mainPc' = "spawned" /\ shutdownPending' = (shutdownPending \/ mainSlot = 1)
        \/ mainPc' = "closing" /\ shutdownPending'
    BY <1>6 DEF StartThread
  <2>3. QED  BY <2>1, <2>2 DEF Alone
<1>7. CASE DeclareRunning
  BY <1>7 DEF DeclareRunning, stateVars, workersVars, Alone
<1>8. CASE MainLoop
  BY <1>8 DEF MainLoop, stateVars, workersVars, Alone
<1>9. CASE ScanSlot \/ JoinSlot \/ StartSpare
  <2>1. ~SingleThread
    BY <1>9 DEF ScanSlot, JoinSlot, StartSpare, Inductive, House, MainKind
  <2>2. QED  BY <1>9, <2>1 DEF ScanSlot, JoinSlot, StartSpare, stateVars, workersVars, Alone
<1>10. CASE JoinThreads \/ LeaveMain \/ Decide
  BY <1>10 DEF JoinThreads, LeaveMain, Decide, stateVars, workersVars, Alone
<1>11. CASE DestroyMpm
  BY <1>11 DEF DestroyMpm, stateVars, workersVars, Life, MpmLockFree, NoStopper, Ctl, Alone
<1>12. QED
  BY <1>1, <1>2, <1>3, <1>4, <1>5, <1>6, <1>7, <1>8, <1>9, <1>10, <1>11 DEF MainStep

\* The single thread leaves its loop only because it was told to.
LEMMA WorkerAlone ==
    ASSUME Inductive, Steady, Told, Alone, NEW i \in Slots,
           WorkerStep(i) \/ WorkerFault(i)
    PROVE  Alone'
<1> SUFFICES ASSUME SingleThread
             PROVE  Alone'
  BY DEF Alone, SingleThread
<1> USE DEF Pended
<1>0. /\ i = 1 /\ TypeOK /\ SingleThread' /\ MaxSpare \in Nat
      /\ MaxRequests = 0 /\ "setup" \notin Faults /\ "listen" \notin Faults
  BY OneSlot, SettingsAssumption DEF Steady, Inductive, Typed, SingleThread
<1>1. wpc[i] \in From /\ UNCHANGED <<shutdownPending, restartPending>>
      /\ (mainPc' \in {mainPc, SignalMain(mainPc)} \/ mainPc' = "exited")
  BY <1>0, WorkerMoves
<1>2. mainPc = "single"
  BY <1>0, <1>1 DEF Inductive, House, Owned, From, SingleThread
<1>3. mainPc' \in {"single", "exited"}
  BY <1>1, <1>2 DEF SignalMain
<1>4. nWorkers \in Int /\ nActive \in Int /\ nWorkers <= 0 /\ nActive >= 0
      /\ (wpc[1] \in {"handover", "busy"} => nActive >= 1)
      /\ (wpc[1] \in {"finish", "dec", "exited"} => Pended)
  BY <1>0, <1>2 DEF Alone, TypeOK
<1>5. ASSUME nWorkers' \in Int, nActive' \in Int, nWorkers' <= 0, nActive' >= 0,
             wpc'[1] \in {"handover", "busy"} => nActive' >= 1,
             wpc'[1] \in {"finish", "dec", "exited"} => Pended
      PROVE  Alone'
  BY <1>1, <1>3, <1>5 DEF Alone
<1>6. CASE SetUp(i) \/ Leave(i) \/ LoopTop(i) \/ Accept(i) \/ AcceptFails(i)
           \/ CheckExit(i) \/ DeclareDead(i)
  <2>1. UNCHANGED <<nWorkers, nActive>> /\ wpc'[1] \notin {"handover", "busy"}
    BY <1>0, <1>6 DEF SetUp, Leave, LoopTop, Accept, AcceptFails, CheckExit,
       DeclareDead, MoveTo, TypeOK
  <2>2. wpc'[1] \in {"finish", "dec", "exited"} => shouldExit \/ wpc[1] = "finish"
    BY <1>0, <1>6 DEF SetUp, Leave, LoopTop, Accept, AcceptFails, CheckExit,
       DeclareDead, MoveTo, TypeOK
  <2>3. QED  BY <1>4, <1>5, <2>1, <2>2 DEF Told
<1>7. CASE AskForToken(i)
  <2>1. UNCHANGED <<nWorkers, nActive>>
    BY <1>7 DEF AskForToken
  <2>2. CASE shouldExit
    <3>1. wpc' \in SignalWorkers([wpc EXCEPT ![1] = "finish"])
      BY <1>0, <1>7, <2>2 DEF AskForToken
    <3>2. TokenWaiters([wpc EXCEPT ![1] = "finish"]) = {}
      BY <1>0, OneSlot DEF TokenWaiters, TypeOK
    <3>3. wpc'[1] = "finish"
      BY <1>0, <3>1, <3>2 DEF SignalWorkers, TypeOK
    <3>4. QED  BY <1>4, <1>5, <2>1, <2>2, <3>3 DEF Told
  <2>3. CASE ~shouldExit
    <3>1. wpc'[1] \in {"accept", "token_wait"}
      BY <1>0, <1>7, <2>3 DEF AskForToken, MoveTo, TypeOK
    <3>2. QED  BY <1>4, <1>5, <2>1, <3>1
  <2>4. QED  BY <2>2, <2>3
<1>8. CASE Claim(i)
  <2>1. nActive' = nActive + 1 /\ UNCHANGED nWorkers /\ wpc'[1] = "handover"
    BY <1>0, <1>8 DEF Claim, MoveTo, TypeOK
  <2>2. QED  BY <1>4, <1>5, <2>1
<1>9. CASE HandOver(i)
  <2>1. UNCHANGED <<nWorkers, nActive>> /\ wpc[1] = "handover"
    BY <1>0, <1>9 DEF HandOver
  <2>2. wpc'[1] = "busy"
    BY <1>0, <1>9, GiveTokenMoves DEF HandOver, WorkerPcs
  <2>3. QED  BY <1>4, <1>5, <2>1, <2>2
<1>10. CASE FinishRequest(i)
  <2>1. nActive' = nActive - 1 /\ UNCHANGED nWorkers /\ wpc[1] = "busy"
    BY <1>0, <1>10 DEF FinishRequest
  <2>2. ~TooManySpare(nWorkers, nActive)
    BY <1>0, <1>4, <2>1 DEF TooManySpare, Spare
  <2>3. wpc'[1] = "ready"
    BY <1>0, <1>10, <2>2 DEF FinishRequest, MoveTo, TypeOK
  <2>4. QED  BY <1>4, <1>5, <2>1, <2>3
<1>11. CASE Uncount(i)
  <2>1. nWorkers' = nWorkers - 1 /\ UNCHANGED nActive /\ wpc[1] = "dec" /\ wpc'[1] = "exited"
    BY <1>0, <1>11 DEF Uncount, MoveTo, TypeOK
  <2>2. QED  BY <1>4, <1>5, <2>1
<1>12. ~ListenFails(i)
  BY <1>0 DEF ListenFails
<1>13. QED
  BY <1>6, <1>7, <1>8, <1>9, <1>10, <1>11, <1>12 DEF WorkerStep, WorkerFault

LEMMA WorkerFaithful ==
    ASSUME Inductive, Steady, Faithful, NEW i \in Slots, WorkerStep(i) \/ WorkerFault(i)
    PROVE  Faithful'
<1> USE DEF Current, RunningIsCurrent, CallsKept, ShutdownKept, StartKept, Early,
            Calling, Pended, Told
<1>0. TypeOK
  BY DEF Inductive, Typed
<1>1. WorkerFrame /\ UNCHANGED shouldExit
  BY DEF WorkerStep, WorkerFault, SetUp, Leave, LoopTop, AskForToken, ListenFails,
         Accept, AcceptFails, CheckExit, Claim, HandOver, FinishRequest, DeclareDead,
         Uncount, workersVars
<1>2. mainPc' \in {mainPc, "exited"} \/ (mainPc = "cond_wait" /\ mainPc' = "loop")
  BY <1>0, WorkerMoves DEF SignalMain
<1>3. Alone'
  BY WorkerAlone DEF Faithful
<1>4. QED  BY <1>1, <1>2, <1>3 DEF Faithful, WorkerFrame

\* The single thread ends its rounds on a stop call of its own only when that
\* has been recorded.
LEMMA ReturnAlone ==
    ASSUME Inductive, Alone, NEW who \in {Ctl} \cup Slots, NEW kind,
           Returns(who, kind), Pended',
           mainPc' \in {mainPc, SignalMain(mainPc)}, UNCHANGED <<nWorkers, nActive>>
    PROVE  Alone'
<1>1. \A j \in Slots : wpc'[j] = wpc[j] \/ wpc'[j] \in {"finish", "unwound"}
  BY ReturnMoves DEF Inductive, Typed
<1>2. QED  BY <1>1, OneSlot DEF Alone, SignalMain, SingleThread

\* A call of CHttpdServer leaves the running state when it returns; a worker
\* never asks for a restart.
LEMMA CallFaithful ==
    ASSUME Inductive, Life, Faithful,
           NEW who \in {Ctl} \cup Slots, NEW kind \in {"shutdown", "restart"},
           who = Ctl => ctl = "running" /\ ~Calling,
           who # Ctl => kind = "shutdown" /\ wpc[who] \in {"accept_failed", "abort"},
           CallStop(who, kind)
    PROVE  Faithful'
<1> USE DEF Current, RunningIsCurrent, CallsKept, ShutdownKept, StartKept, Early,
            Calling, Pended, Told
<1>0. TypeOK
  BY DEF Inductive, Typed
<1>1. /\ stopper = NoStopper /\ stopper.by # Ctl
      /\ UNCHANGED <<theMpm, nWorkers, nActive, shouldExit>>
      /\ mainPc' = mainPc \/ (mainPc = "cond_wait" /\ mainPc' = "loop")
  BY DEF CallStop, MpmLockFree, StopFrame, NoStopper, Ctl, SignalMain
<1>2. CASE ~theMpm
  <2>1. UNCHANGED <<mpmState, stopper, shutdownPending, restartPending, mainPc>>
        /\ Returns(who, kind)
    BY <1>2 DEF CallStop
  <2>2. mainPc \in {"config", "create", "exited"}
    BY <1>2 DEF Life
  <2>3. who = Ctl => mainPc = "exited"
    BY <2>2 DEF Faithful
  <2>4. Alone'
    BY <2>1, <2>2, <1>1 DEF Alone, Faithful, SingleThread
  <2>5. QED  BY <1>1, <2>1, <2>3, <2>4 DEF Faithful, Returns
<1>3. CASE theMpm /\ Pending(kind)
  <2>1. /\ RequestStop(kind) /\ Returns(who, kind) /\ UNCHANGED <<stopper, mainPc>>
    BY <1>3 DEF CallStop
  <2>2. Pended' /\ UNCHANGED <<shutdownPending, restartPending>>
        /\ (kind = "shutdown" => shutdownPending)
    BY <1>3, <2>1 DEF RequestStop, Pending, Inductive, Typed, TypeOK
  <2>3. Alone'
    BY <1>1, <2>1, <2>2, ReturnAlone DEF Faithful
  <2>4. mainPc \notin {"config", "create"}
    BY <1>3 DEF Life, Unwound
  <2>5. who = Ctl => mainPc # "destroy_restart"
    BY <1>3 DEF Faithful
  <2>6. QED
    BY <1>1, <1>3, <2>1, <2>2, <2>3, <2>4, <2>5 DEF Faithful, Returns, RequestStop
<1>4. CASE theMpm /\ ~Pending(kind)
  <2>1. /\ RequestStop(kind) /\ UNCHANGED <<ctl, wpc>>
        /\ stopper'.by = who /\ stopper'.kind = kind
    BY <1>4 DEF CallStop
  <2>2. Pended' /\ (kind = "shutdown" => shutdownPending')
        /\ (shutdownPending => shutdownPending')
        /\ (restartPending' => restartPending \/ kind = "restart")
        /\ (restartPending => restartPending')
    BY <2>1 DEF RequestStop
  <2>3. kind = "restart" => who = Ctl /\ ctl = "running"
    OBVIOUS
  <2>4. who = Ctl => mainPc # "destroy_restart"
    BY <1>4 DEF Faithful
  <2>5. Told' /\ Alone'
    BY <1>1, <2>1, <2>2 DEF Faithful, Alone, SingleThread
  <2>6. Current'
    BY <1>1, <2>1, <2>2, <2>3, <2>4 DEF RequestStop, Faithful
  <2>7. RunningIsCurrent' /\ CallsKept'
    BY <1>1, <1>4, <2>1, <2>2, <2>3 DEF RequestStop, Faithful
  <2>8. QED  BY <2>5, <2>6, <2>7 DEF Faithful
<1>5. QED  BY <1>2, <1>3, <1>4

LEMMA StepFaithful ==
    ASSUME Inductive, Steady, Life, Faithful, [Next]_vars
    PROVE  Faithful'
<1> USE DEF Current, RunningIsCurrent, CallsKept, ShutdownKept, StartKept, Early,
            Calling, Pended, Told
<1>0. TypeOK
  BY DEF Inductive, Typed
<1>1. CASE MainStep
  BY <1>1, MainFaithful
<1>2. CASE \E i \in Slots : WorkerStep(i) \/ WorkerFault(i)
  BY <1>2, WorkerFaithful
<1>3. CASE StopHttpd
  BY <1>3, CallFaithful DEF StopHttpd
<1>4. CASE RestartHttpd
  BY <1>4, CallFaithful DEF RestartHttpd
<1>5. ASSUME NEW i \in Slots, WorkerShutdown(i)
      PROVE  Faithful'
  <2>1. i # Ctl /\ CallStop(i, "shutdown") /\ wpc[i] \in {"accept_failed", "abort"}
    BY <1>5 DEF WorkerShutdown, Ctl, Slots
  <2>2. QED  BY <2>1, CallFaithful
<1>6. CASE StopWorkers
  <2>1. stopper \in Stoppers /\ stopper # NoStopper
    BY <1>0, <1>6 DEF StopWorkers, TypeOK, NoStopper
  <2>2. stopper'.by = stopper.by /\ stopper'.kind = stopper.kind
    BY <1>6, <2>1 DEF StopWorkers, Stoppers
  <2>3. UNCHANGED <<mpmState, theMpm, shutdownPending, restartPending, mainPc, ctl,
                    nWorkers, nActive>>
    BY <1>6 DEF StopWorkers, StopFrame
  <2>4. Told'
    BY <2>1, <2>3 DEF Faithful
  <2>5. Alone'
    <3>1. \A j \in Slots : wpc'[j] = wpc[j] \/ wpc'[j] = "token"
      BY <1>6 DEF StopWorkers, BroadcastWorkers
    <3>2. QED  BY <2>3, <3>1, OneSlot DEF Faithful, Alone, SingleThread
  <2>6. QED  BY <2>2, <2>3, <2>4, <2>5 DEF Faithful
<1>7. CASE StopWakeup
  <2>1. stopper \in Stoppers /\ stopper # NoStopper
    BY <1>0, <1>7 DEF StopWakeup, TypeOK, NoStopper
  <2>2. stopper.by \in {Ctl} \cup Slots /\ stopper.kind \in {"shutdown", "restart"}
    BY <2>1 DEF Stoppers
  <2>3. /\ UNCHANGED <<mpmState, theMpm, shutdownPending, restartPending, mainPc,
                       nWorkers, nActive, shouldExit>>
        /\ stopper' = NoStopper /\ stopper'.by # Ctl
        /\ Returns(stopper.by, stopper.kind)
    BY <1>7 DEF StopWakeup, StopFrame, NoStopper, Ctl
  <2>4. Pended /\ Pended'
    BY <2>1, <2>3 DEF Faithful
  <2>5. Alone'
    BY <2>2, <2>3, <2>4, ReturnAlone DEF Faithful
  <2>6. mainPc \notin {"config", "create"}
    BY <2>1 DEF Life, Unwound
  <2>7. QED  BY <2>2, <2>3, <2>4, <2>5, <2>6 DEF Faithful, Returns
<1>8. CASE Poll
  BY <1>8 DEF Poll, stateVars, workersVars, mainVars, workerVars, Faithful, Alone, SingleThread
<1>9. CASE Connect \/ Exited \/ UNCHANGED vars
  <2>1. UNCHANGED <<mpmState, theMpm, stopper, stateVars, shouldExit, mainPc, wpc, ctl>>
    BY <1>9 DEF Connect, Exited, vars, mainVars, workersVars, workerVars
  <2>2. QED  BY <2>1 DEF Faithful, stateVars, Alone, SingleThread
<1>10. QED  BY <1>1, <1>2, <1>3, <1>4, <1>5, <1>6, <1>7, <1>8, <1>9 DEF Next

LEMMA SpecFaithful == ASSUME Steady PROVE Spec => []Faithful
<1>1. Init => Faithful
  BY DEF Init, Faithful, Told, Alone, Current, RunningIsCurrent, CallsKept,
         ShutdownKept, StartKept, Early, Calling, NoStopper, Ctl
<1>2. Inductive /\ Life /\ Faithful /\ [Next]_vars => Faithful'
  BY StepFaithful
<1>3. QED  BY <1>1, <1>2, SpecInductive, SpecLife, PTL DEF Spec

\* The poller never takes a generation that is about to restart for the
\* restarted one, although the main thread declares itself running outside
\* every lock.
THEOREM RestartIsCurrent ==
    ASSUME Steady
    PROVE  Spec => []RunningIsCurrent
BY SpecFaithful, PTL DEF Faithful

\* A shutdown that CHttpdServer has passed on stays pending until Apache has
\* exited, and nothing starts another generation; a start or restart that it
\* awaits is under way until it has come about.
THEOREM NoCallForgotten ==
    ASSUME Steady
    PROVE  Spec => []CallsKept
BY SpecFaithful, PTL DEF Faithful

-----------------------------------------------------------------------------
(* The counts of the workers, and the slot the main thread looks for. *)

At(w, K) == {i \in Slots : w[i] \in K}

\* The places of a worker that state.n_workers counts, of one that is counted
\* active, of one that may still be, and of one that is dead on the scoreboard.
Started == WorkerPcs \ {"none", "exited"}
InService == {"handover", "busy"}
InUse == InService \cup {"abort", "unwound"}
Done == {"dec", "exited"}

Managing ==
    {"pre_mpm", "spawn", "spawned", "loop", "cond_wait", "scan", "join_slot",
     "start_worker", "join_all"}

Counts ==
    mainPc \in Managing =>
        /\ nWorkers = Cardinality(At(wpc, Started))
        /\ nActive >= Cardinality(At(wpc, InService))
        /\ nActive <= Cardinality(At(wpc, InUse))

\* The scoreboard tells the truth of every thread there is.
DeadKnown ==
    /\ \A i \in threads : wpc[i] # "none" /\ (i \in dead <=> wpc[i] \in Done)
    /\ mainPc = "join_slot" => mainSlot \in threads \cap dead

Book == Counts /\ DeadKnown /\ SlotFound

LEMMA AtFinite ==
    ASSUME NEW w, NEW K
    PROVE  /\ IsFiniteSet(Slots) /\ Cardinality(Slots) = ThreadLimit
           /\ IsFiniteSet(At(w, K)) /\ Cardinality(At(w, K)) \in Nat
           /\ At(w, K) \in SUBSET Slots
<1>1. IsFiniteSet(Slots) /\ Cardinality(Slots) = ThreadLimit
  <2>1. ThreadLimit \in Int /\ ~(1 > ThreadLimit) /\ ThreadLimit - 1 + 1 = ThreadLimit
    BY SettingsAssumption
  <2>2. QED  BY <2>1, FS_Interval DEF Slots
<1>2. At(w, K) \in SUBSET Slots
  BY DEF At
<1>3. QED  BY <1>1, <1>2, FS_Subset, FS_CardinalityType

\* When one worker moves and waiters are at most woken, the number of workers
\* at a set of places changes as that worker enters or leaves the set.
LEMMA AtMoves ==
    ASSUME NEW w, NEW v, NEW i \in Slots, NEW K,
           "token" \in K <=> "token_wait" \in K,
           \A j \in Slots \ {i} : v[j] = w[j] \/ (w[j] = "token_wait" /\ v[j] = "token")
    PROVE  Cardinality(At(v, K)) =
               Cardinality(At(w, K)) + (IF v[i] \in K THEN 1 ELSE 0)
                                     - (IF w[i] \in K THEN 1 ELSE 0)
<1> DEFINE A == At(w, K)
           B == At(v, K)
<1>1. IsFiniteSet(A) /\ Cardinality(A) \in Nat
  BY AtFinite
<1>2. (i \in A <=> w[i] \in K) /\ (i \in B <=> v[i] \in K)
  BY DEF At
<1>3. B \ {i} = A \ {i}
  BY DEF At
<1>4. Cardinality(A \cup {i}) = IF i \in A THEN Cardinality(A) ELSE Cardinality(A) + 1
  <2> HIDE DEF A
  <2> QED  BY <1>1, FS_AddElement
<1>5. Cardinality(A \ {i}) = IF i \in A THEN Cardinality(A) - 1 ELSE Cardinality(A)
  <2> HIDE DEF A
  <2> QED  BY <1>1, FS_RemoveElement
<1>6. B = IF i \in B THEN A \cup {i} ELSE A \ {i}
  BY <1>3
<1> HIDE DEF A, B
<1>7. Cardinality(B) = Cardinality(A) + (IF i \in B THEN 1 ELSE 0)
                                      - (IF i \in A THEN 1 ELSE 0)
  <2>1. CASE i \in B
    <3>1. Cardinality(B) = Cardinality(A \cup {i})
      BY <1>6, <2>1
    <3>2. QED  BY <1>1, <1>4, <2>1, <3>1
  <2>2. CASE i \notin B
    <3>1. Cardinality(B) = Cardinality(A \ {i})
      BY <1>6, <2>2
    <3>2. QED  BY <1>1, <1>5, <2>2, <3>1
  <2>3. QED  BY <2>1, <2>2
<1>8. QED  BY <1>2, <1>7 DEF A, B

\* What a step of a worker does to the books.
LEMMA WorkerBook ==
    ASSUME TypeOK, ~SingleThread, NEW i \in Slots, WorkerStep(i) \/ WorkerFault(i)
    PROVE  /\ wpc'[i] # "none"
           /\ \/ dead' = dead /\ (wpc'[i] \in Done <=> wpc[i] \in Done)
              \/ dead' = dead \cup {i} /\ wpc'[i] \in Done
           /\ wpc[i] \in Started
           /\ \/ nWorkers' = nWorkers /\ wpc'[i] \in Started
              \/ nWorkers' = nWorkers - 1 /\ wpc'[i] \notin Started
           /\ \/ nActive' = nActive + 1 /\ wpc[i] \notin InUse /\ wpc'[i] \in InService
              \/ nActive' = nActive - 1 /\ wpc[i] \in InService /\ wpc'[i] \notin InUse
              \/ /\ nActive' = nActive
                 /\ wpc'[i] \in InService => wpc[i] \in InService
                 /\ wpc[i] \in InUse => wpc'[i] \in InUse
<1> USE DEF Started, InService, InUse, Done, WorkerPcs, MoveTo
<1>0. wpc \in [Slots -> WorkerPcs]
  BY DEF TypeOK
<1>1. CASE SetUp(i)
  BY <1>0, <1>1 DEF SetUp
<1>2. CASE Leave(i)
  BY <1>0, <1>2 DEF Leave
<1>3. CASE LoopTop(i)
  BY <1>0, <1>3 DEF LoopTop
<1>4. CASE AskForToken(i)
  <2>1. CASE shouldExit
    <3> DEFINE w == [wpc EXCEPT ![i] = "finish"]
    <3>1. w \in [Slots -> WorkerPcs] /\ wpc' \in SignalWorkers(w) /\ w[i] = "finish"
      BY <1>0, <1>4, <2>1 DEF AskForToken
    <3>2. wpc'[i] = "finish"
      <4> HIDE DEF w
      <4> QED  BY <3>1, SignalMoves
    <3>3. QED  BY <1>4, <3>2 DEF AskForToken
  <2>2. CASE ~shouldExit
    BY <1>0, <1>4, <2>2 DEF AskForToken
  <2>3. QED  BY <2>1, <2>2
<1>5. CASE ListenFails(i)
  <2>1. wpc'[i] = "finish"
    BY <1>5, GiveTokenMoves DEF ListenFails
  <2>2. QED  BY <1>5, <2>1 DEF ListenFails
<1>6. CASE Accept(i)
  BY <1>0, <1>6 DEF Accept
<1>7. CASE AcceptFails(i)
  BY <1>0, <1>7 DEF AcceptFails
<1>8. CASE CheckExit(i)
  BY <1>0, <1>8 DEF CheckExit
<1>9. CASE Claim(i)
  BY <1>0, <1>9 DEF Claim
<1>10. CASE HandOver(i)
  <2>1. wpc'[i] = "busy"
    BY <1>10, GiveTokenMoves DEF HandOver
  <2>2. QED  BY <1>10, <2>1 DEF HandOver
<1>11. CASE FinishRequest(i)
  BY <1>0, <1>11 DEF FinishRequest
<1>12. CASE DeclareDead(i)
  BY <1>0, <1>12 DEF DeclareDead
<1>13. CASE Uncount(i)
  BY <1>0, <1>13 DEF Uncount
<1>14. QED
  BY <1>1, <1>2, <1>3, <1>4, <1>5, <1>6, <1>7, <1>8, <1>9, <1>10, <1>11, <1>12, <1>13
  DEF WorkerStep, WorkerFault

\* A step in which worker i moves keeps the counts if it accounts for the move.
LEMMA CountsKept ==
    ASSUME TypeOK, TypeOK', Counts, NEW i \in Slots,
           mainPc' \in Managing => mainPc \in Managing,
           \A j \in Slots \ {i} :
               wpc'[j] = wpc[j] \/ (wpc[j] = "token_wait" /\ wpc'[j] = "token"),
           nWorkers' = nWorkers + (IF wpc'[i] \in Started THEN 1 ELSE 0)
                                - (IF wpc[i] \in Started THEN 1 ELSE 0),
           \/ nActive' = nActive + 1 /\ wpc[i] \notin InUse /\ wpc'[i] \in InService
           \/ nActive' = nActive - 1 /\ wpc[i] \in InService /\ wpc'[i] \notin InUse
           \/ /\ nActive' = nActive
              /\ wpc'[i] \in InService => wpc[i] \in InService
              /\ wpc[i] \in InUse => wpc'[i] \in InUse
    PROVE  Counts'
<1> SUFFICES ASSUME mainPc' \in Managing
             PROVE  /\ nWorkers' = Cardinality(At(wpc', Started))
                    /\ nActive' >= Cardinality(At(wpc', InService))
                    /\ nActive' <= Cardinality(At(wpc', InUse))
  BY DEF Counts, At, Slots
<1>1. /\ nWorkers = Cardinality(At(wpc, Started))
      /\ nActive >= Cardinality(At(wpc, InService))
      /\ nActive <= Cardinality(At(wpc, InUse))
  BY DEF Counts
<1>2. Cardinality(At(wpc', Started)) =
          Cardinality(At(wpc, Started)) + (IF wpc'[i] \in Started THEN 1 ELSE 0)
                                        - (IF wpc[i] \in Started THEN 1 ELSE 0)
  <2>1. "token" \in Started /\ "token_wait" \in Started
    BY DEF Started, WorkerPcs
  <2>2. QED  BY <2>1, AtMoves
<1>3. Cardinality(At(wpc', InService)) =
          Cardinality(At(wpc, InService)) + (IF wpc'[i] \in InService THEN 1 ELSE 0)
                                          - (IF wpc[i] \in InService THEN 1 ELSE 0)
  <2>1. "token" \notin InService /\ "token_wait" \notin InService
    BY DEF InService
  <2>2. QED  BY <2>1, AtMoves
<1>4. Cardinality(At(wpc', InUse)) =
          Cardinality(At(wpc, InUse)) + (IF wpc'[i] \in InUse THEN 1 ELSE 0)
                                      - (IF wpc[i] \in InUse THEN 1 ELSE 0)
  <2>1. "token" \notin InUse /\ "token_wait" \notin InUse
    BY DEF InService, InUse
  <2>2. QED  BY <2>1, AtMoves
<1>5. /\ Cardinality(At(wpc, InService)) \in Nat /\ Cardinality(At(wpc, InUse)) \in Nat
      /\ nActive \in Int
  BY AtFinite DEF TypeOK
<1>6. \A pc \in InService : pc \in InUse
  BY DEF InUse
<1>7. QED  BY <1>1, <1>2, <1>3, <1>4, <1>5, <1>6

\* If worker_should_be_started has said there is room, a slot is free or dead.
LEMMA RoomFound ==
    ASSUME TypeOK, Counts, DeadKnown, mainPc \in Managing, nWorkers < ThreadLimit
    PROVE  \E i \in Slots : i \notin threads \/ i \in dead
<1> SUFFICES ASSUME \A i \in Slots : i \in threads /\ i \notin dead
             PROVE  FALSE
  OBVIOUS
<1>1. \A i \in Slots : wpc[i] \in Started
  BY DEF DeadKnown, Done, Started, TypeOK
<1>2. At(wpc, Started) = Slots
  BY <1>1 DEF At
<1>3. nWorkers = ThreadLimit
  BY <1>2, AtFinite DEF Counts
<1>4. QED  BY <1>3, SettingsAssumption

LEMMA WorkerBooks ==
    ASSUME Inductive, Inductive', ~SingleThread, Book, NEW i \in Slots,
           WorkerStep(i) \/ WorkerFault(i)
    PROVE  Book'
<1>0. TypeOK /\ TypeOK'
  BY DEF Inductive, Typed
<1>1. /\ \A j \in Slots \ {i} :
             wpc'[j] = wpc[j] \/ (wpc[j] = "token_wait" /\ wpc'[j] = "token")
      /\ UNCHANGED <<mainSlot, threads>>
      /\ mainPc' \in {mainPc, SignalMain(mainPc)}
  BY <1>0, WorkerMoves
<1>2. mainPc' = mainPc \/ (mainPc = "cond_wait" /\ mainPc' = "loop")
  BY <1>1 DEF SignalMain
<1>3. /\ wpc'[i] # "none"
      /\ \/ dead' = dead /\ (wpc'[i] \in Done <=> wpc[i] \in Done)
         \/ dead' = dead \cup {i} /\ wpc'[i] \in Done
      /\ wpc[i] \in Started
      /\ \/ nWorkers' = nWorkers /\ wpc'[i] \in Started
         \/ nWorkers' = nWorkers - 1 /\ wpc'[i] \notin Started
      /\ \/ nActive' = nActive + 1 /\ wpc[i] \notin InUse /\ wpc'[i] \in InService
         \/ nActive' = nActive - 1 /\ wpc[i] \in InService /\ wpc'[i] \notin InUse
         \/ /\ nActive' = nActive
            /\ wpc'[i] \in InService => wpc[i] \in InService
            /\ wpc[i] \in InUse => wpc'[i] \in InUse
  BY <1>0, WorkerBook
<1>4. Counts'
  <2>1. mainPc' \in Managing => mainPc \in Managing
    BY <1>2 DEF Managing
  <2>2. nWorkers' = nWorkers + (IF wpc'[i] \in Started THEN 1 ELSE 0)
                             - (IF wpc[i] \in Started THEN 1 ELSE 0)
    BY <1>0, <1>3 DEF TypeOK
  <2>3. QED  BY <1>0, <1>1, <1>3, <2>1, <2>2, CountsKept DEF Book
<1>5. DeadKnown'
  <2>1. ASSUME NEW j \in threads PROVE wpc'[j] # "none" /\ (j \in dead' <=> wpc'[j] \in Done)
    <3>1. j \in Slots /\ wpc[j] # "none" /\ (j \in dead <=> wpc[j] \in Done)
      BY <1>0 DEF Book, DeadKnown, TypeOK
    <3>2. CASE j = i
      BY <1>3, <3>1, <3>2
    <3>3. CASE j # i
      BY <1>1, <1>3, <3>1, <3>3 DEF Done
    <3>4. QED  BY <3>2, <3>3
  <2>2. mainPc' = "join_slot" => mainSlot \in threads \cap dead'
    BY <1>2, <1>3 DEF Book, DeadKnown
  <2>3. QED  BY <1>1, <2>1, <2>2 DEF DeadKnown
<1>6. SlotFound'
  BY <1>1, <1>2, <1>3 DEF Book, SlotFound
<1>7. QED  BY <1>4, <1>5, <1>6 DEF Book

\* A step that touches no count and at most brings a stop call back, or wakes
\* waiting workers, keeps the books.
LEMMA QuietBooks ==
    ASSUME Inductive, Inductive', Book, NEW i \in Slots,
           UNCHANGED <<nWorkers, nActive, dead, threads, mainSlot>>,
           mainPc' \in {mainPc, SignalMain(mainPc)},
           \A j \in Slots \ {i} :
               wpc'[j] = wpc[j] \/ (wpc[j] = "token_wait" /\ wpc'[j] = "token"),
           \/ wpc'[i] = wpc[i]
           \/ wpc[i] = "token_wait" /\ wpc'[i] = "token"
           \/ wpc[i] = "accept_failed" /\ wpc'[i] = "finish"
           \/ wpc[i] = "abort" /\ wpc'[i] = "unwound"
    PROVE  Book'
<1>0. TypeOK /\ TypeOK' /\ nWorkers \in Int
  BY DEF Inductive, Typed, TypeOK
<1>1. mainPc' = mainPc \/ (mainPc = "cond_wait" /\ mainPc' = "loop")
  BY DEF SignalMain
<1>2. \A j \in Slots : /\ wpc'[j] \in Started <=> wpc[j] \in Started
                       /\ wpc'[j] \in InService <=> wpc[j] \in InService
                       /\ wpc'[j] \in InUse <=> wpc[j] \in InUse
                       /\ wpc'[j] \in Done <=> wpc[j] \in Done
                       /\ wpc'[j] = "none" <=> wpc[j] = "none"
  BY DEF Started, InService, InUse, Done, WorkerPcs
<1>3. Counts'
  <2>1. mainPc' \in Managing => mainPc \in Managing
    BY <1>1 DEF Managing
  <2>2. nWorkers' = nWorkers + (IF wpc'[i] \in Started THEN 1 ELSE 0)
                             - (IF wpc[i] \in Started THEN 1 ELSE 0)
    BY <1>0, <1>2
  <2>3. QED  BY <1>0, <1>2, <2>1, <2>2, CountsKept DEF Book
<1>4. threads \subseteq Slots
  BY <1>0 DEF TypeOK
<1>5. QED  BY <1>1, <1>2, <1>3, <1>4 DEF Book, DeadKnown, SlotFound

LEMMA StopBooks ==
    ASSUME Inductive, Inductive', Book,
           \/ StopWorkers \/ StopWakeup \/ StopHttpd \/ RestartHttpd
           \/ \E i \in Slots : WorkerShutdown(i)
    PROVE  Book'
<1>0. TypeOK /\ 1 \in Slots /\ Ctl \notin Slots
  BY SettingsAssumption DEF Inductive, Typed, Slots, Ctl
<1>1. ASSUME NEW who \in {Ctl} \cup Slots, NEW kind \in {"shutdown", "restart"},
             who # Ctl => wpc[who] \in {"accept_failed", "abort"},
             UNCHANGED <<nWorkers, nActive, dead, threads, mainSlot>>,
             mainPc' \in {mainPc, SignalMain(mainPc)},
             Returns(who, kind) \/ UNCHANGED wpc
      PROVE  Book'
  <2>1. CASE UNCHANGED wpc
    BY <1>0, <1>1, <2>1, QuietBooks
  <2>2. CASE Returns(who, kind) /\ who = Ctl
    BY <1>0, <1>1, <2>2, QuietBooks DEF Returns
  <2>3. CASE Returns(who, kind) /\ who \in Slots
    <3>1. /\ \A j \in Slots \ {who} : wpc'[j] = wpc[j]
          /\ \/ wpc[who] = "accept_failed" /\ wpc'[who] = "finish"
             \/ wpc[who] = "abort" /\ wpc'[who] = "unwound"
      BY <1>0, <1>1, <2>3 DEF Returns, TypeOK
    <3>2. QED  BY <1>1, <2>3, <3>1, QuietBooks
  <2>4. QED  BY <1>1, <2>1, <2>2, <2>3
<1>2. ASSUME NEW who \in {Ctl} \cup Slots, NEW kind \in {"shutdown", "restart"},
             who # Ctl => wpc[who] \in {"accept_failed", "abort"},
             CallStop(who, kind)
      PROVE  Book'
  <2>1. /\ UNCHANGED <<nWorkers, nActive, dead, threads, mainSlot>>
        /\ mainPc' \in {mainPc, SignalMain(mainPc)}
        /\ Returns(who, kind) \/ UNCHANGED wpc
    BY <1>2 DEF CallStop, StopFrame
  <2>2. QED  BY <1>1, <1>2, <2>1
<1>3. CASE StopHttpd \/ RestartHttpd
  BY <1>2, <1>3 DEF StopHttpd, RestartHttpd
<1>4. ASSUME NEW i \in Slots, WorkerShutdown(i) PROVE Book'
  BY <1>2, <1>4 DEF WorkerShutdown
<1>5. CASE StopWorkers
  <2>1. /\ UNCHANGED <<nWorkers, nActive, dead, threads, mainSlot, mainPc>>
        /\ \A j \in Slots : wpc'[j] = wpc[j] \/ (wpc[j] = "token_wait" /\ wpc'[j] = "token")
    BY <1>5 DEF StopWorkers, StopFrame, BroadcastWorkers
  <2>2. QED  BY <1>0, <2>1, QuietBooks
<1>6. CASE StopWakeup
  <2>1. /\ UNCHANGED <<nWorkers, nActive, dead, threads, mainSlot, mainPc>>
        /\ Returns(stopper.by, stopper.kind)
    BY <1>6 DEF StopWakeup, StopFrame
  <2>2. stopper \in Stoppers /\ stopper # NoStopper
    BY <1>0, <1>6 DEF StopWakeup, TypeOK, NoStopper
  <2>3. stopper.by \in {Ctl} \cup Slots /\ stopper.kind \in {"shutdown", "restart"}
    BY <2>2 DEF Stoppers
  <2>4. stopper.by # Ctl => wpc[stopper.by] \in {"accept_failed", "abort"}
    BY <2>2 DEF Inductive, House, CallerWaits
  <2>5. QED  BY <1>1, <2>1, <2>3, <2>4
<1>7. QED  BY <1>3, <1>4, <1>5, <1>6

\* The main thread starts and joins nobody in these steps.
LEMMA MainQuietBooks ==
    ASSUME Inductive, ~SingleThread, Book,
           \/ ReadConfig \/ EnterMain \/ DeclareRunning \/ MainLoop \/ ScanSlot
           \/ LeaveMain \/ Decide \/ DestroyMpm
    PROVE  Book'
<1>0. TypeOK /\ 1 \in Slots
  BY SettingsAssumption DEF Inductive, Typed, Slots
<1>1. UNCHANGED <<wpc, threads, nWorkers, nActive>>
  BY DEF ReadConfig, EnterMain, DeclareRunning, MainLoop, ScanSlot, LeaveMain,
         Decide, DestroyMpm, workerVars, stateVars
<1>2. mainPc' \in Managing => mainPc \in Managing
  BY DEF ReadConfig, EnterMain, DeclareRunning, MainLoop, ScanSlot, LeaveMain,
         Decide, DestroyMpm, Managing
<1>3. Counts'
  BY <1>1, <1>2 DEF Book, Counts, At
<1>4. CASE EnterMain
  <2>1. threads = {}
    BY <1>4 DEF EnterMain, Inductive, House, Quiet
  <2>2. mainPc' \notin {"join_slot", "scan"}
    BY <1>4 DEF EnterMain
  <2>3. QED  BY <1>1, <1>3, <2>1, <2>2 DEF Book, DeadKnown, SlotFound
<1>5. CASE MainLoop
  <2>1. mainPc' # "join_slot" /\ UNCHANGED <<threads, dead, wpc>>
    BY <1>5 DEF MainLoop, workerVars
  <2>2. SlotFound'
    <3>1. SUFFICES ASSUME mainPc' = "scan"
                   PROVE  \E i \in mainSlot' .. ThreadLimit : i \notin threads \/ i \in dead
      BY <2>1 DEF SlotFound
    <3>2. nWorkers < ThreadLimit /\ mainPc \in Managing /\ mainSlot' = 1
      BY <1>5, <3>1 DEF MainLoop, WorkerShouldBeStarted, Managing
    <3>3. \E i \in Slots : i \notin threads \/ i \in dead
      BY <1>0, <3>2, RoomFound DEF Book
    <3>4. QED  BY <3>2, <3>3 DEF Slots
  <2>3. QED  BY <1>3, <2>1, <2>2 DEF Book, DeadKnown
<1>6. CASE ScanSlot
  <2>1. UNCHANGED <<threads, dead, wpc>> /\ mainSlot \in Slots
    BY <1>6 DEF ScanSlot, workerVars, Inductive, Typed, SlotInRange
  <2>2. mainPc' = "join_slot" => mainSlot' \in threads \cap dead
    BY <1>6 DEF ScanSlot
  <2>3. ASSUME mainPc' = "scan"
        PROVE  \E i \in mainSlot' .. ThreadLimit : i \notin threads \/ i \in dead
    <3>1. mainSlot \in threads \ dead /\ mainSlot' = mainSlot + 1
      BY <1>6, <2>3 DEF ScanSlot
    <3>2. PICK i \in mainSlot .. ThreadLimit : i \notin threads \/ i \in dead
      BY <1>6 DEF ScanSlot, Book, SlotFound
    <3>3. i # mainSlot
      BY <3>1, <3>2
    <3>4. i \in mainSlot + 1 .. ThreadLimit
      BY <2>1, <3>2, <3>3, SettingsAssumption DEF Slots
    <3>5. QED  BY <3>1, <3>2, <3>4
  <2>4. QED  BY <1>3, <2>1, <2>2, <2>3 DEF Book, DeadKnown, SlotFound
<1>7. CASE ReadConfig \/ DeclareRunning \/ LeaveMain \/ Decide \/ DestroyMpm
  <2>1. UNCHANGED <<threads, dead, wpc>> /\ mainPc' \notin {"scan", "join_slot"}
    BY <1>7 DEF ReadConfig, DeclareRunning, LeaveMain, Decide, DestroyMpm, workerVars
  <2>2. QED  BY <1>3, <2>1 DEF Book, DeadKnown, SlotFound
<1>8. QED  BY <1>4, <1>5, <1>6, <1>7

\* A new generation starts with nobody counted and nobody there.
LEMMA CreateBooks ==
    ASSUME Inductive, ~SingleThread, Book, CreateMpm
    PROVE  Book'
<1>1. threads = {}
  BY DEF CreateMpm, Inductive, House, Quiet
<1>2. UNCHANGED <<threads, wpc, dead>> /\ mainPc' \in {"pre_mpm", "exited"}
      /\ (mainPc' = "pre_mpm" => nWorkers' = 0 /\ nActive' = 0)
  BY DEF CreateMpm, workerVars
<1>3. \A i \in Slots : wpc[i] = "none"
  BY <1>1, NobodyThere
<1>4. At(wpc, Started) = {} /\ At(wpc, InService) = {} /\ At(wpc, InUse) = {}
  BY <1>3 DEF At, Started, InService, InUse
<1>5. Counts'
  <2>1. At(wpc', Started) = {} /\ At(wpc', InService) = {} /\ At(wpc', InUse) = {}
    BY <1>2, <1>4
  <2>2. Cardinality({}) = 0
    BY FS_EmptySet
  <2>3. QED  BY <1>2, <2>1, <2>2 DEF Counts, Managing, At
<1>6. QED  BY <1>1, <1>2, <1>5 DEF Book, DeadKnown, SlotFound

LEMMA StartBooks ==
    ASSUME Inductive, Inductive', ~SingleThread, Book, StartThread \/ StartSpare
    PROVE  Book'
<1>0. TypeOK /\ TypeOK' /\ mainSlot \in Slots /\ wpc[mainSlot] = "none"
      /\ mainPc \in {"spawn", "start_worker"}
      /\ mainPc' \notin {"scan", "join_slot"}
  <2>1. mainPc \in {"spawn", "start_worker"} /\ mainPc' \notin {"scan", "join_slot"}
    BY DEF StartThread, StartSpare
  <2>2. QED  BY <2>1, SlotUnused DEF NoSlotReuse, Inductive, Typed, SlotInRange
<1>1. WorkerStart(mainSlot) \/ WorkerStartFails(mainSlot)
  BY DEF StartThread, StartSpare
<1>2. UNCHANGED nActive
  BY DEF StartThread, StartSpare
<1>3. CASE WorkerStart(mainSlot)
  <2>1. /\ threads' = threads \cup {mainSlot} /\ dead' = dead \ {mainSlot}
        /\ nWorkers' = nWorkers + 1
        /\ wpc'[mainSlot] = "init" /\ \A j \in Slots \ {mainSlot} : wpc'[j] = wpc[j]
    BY <1>0, <1>3 DEF WorkerStart, BeginWorker, TypeOK
  <2>2. Counts'
    <3>1. nWorkers' = nWorkers + (IF wpc'[mainSlot] \in Started THEN 1 ELSE 0)
                               - (IF wpc[mainSlot] \in Started THEN 1 ELSE 0)
      BY <1>0, <2>1 DEF Started, WorkerPcs, TypeOK
    <3>2. wpc'[mainSlot] \notin InUse /\ wpc[mainSlot] \notin InUse
          /\ wpc'[mainSlot] \notin InService
      BY <1>0, <2>1 DEF InService, InUse
    <3>3. mainPc \in Managing
      BY <1>0 DEF Managing
    <3>4. QED  BY <1>0, <1>2, <2>1, <3>1, <3>2, <3>3, CountsKept DEF Book
  <2>3. DeadKnown'
    <3>1. ASSUME NEW j \in threads' PROVE wpc'[j] # "none" /\ (j \in dead' <=> wpc'[j] \in Done)
      <4>1. CASE j = mainSlot
        BY <2>1, <4>1 DEF Done
      <4>2. CASE j # mainSlot
        BY <1>0, <2>1, <4>2 DEF Book, DeadKnown, TypeOK
      <4>3. QED  BY <4>1, <4>2
    <3>2. QED  BY <1>0, <3>1 DEF DeadKnown
  <2>4. QED  BY <1>0, <2>2, <2>3 DEF Book, SlotFound
<1>4. CASE WorkerStartFails(mainSlot)
  <2>1. /\ threads' = threads \ {mainSlot} /\ dead' \in {dead, dead \cup {mainSlot}}
        /\ UNCHANGED <<nWorkers, wpc>>
    BY <1>4 DEF WorkerStartFails, workerVars
  <2>2. Counts'
    <3>1. mainPc \in Managing
      BY <1>0 DEF Managing
    <3>2. QED  BY <1>2, <2>1, <3>1 DEF Book, Counts, At
  <2>3. DeadKnown'
    BY <1>0, <2>1 DEF Book, DeadKnown
  <2>4. QED  BY <1>0, <2>2, <2>3 DEF Book, SlotFound
<1>5. QED  BY <1>1, <1>3, <1>4

\* A thread that is dead on the scoreboard is joined when it is counted no more.
LEMMA JoinBooks ==
    ASSUME Inductive, Inductive', ~SingleThread, Book,
           SingleReturns \/ JoinSlot \/ JoinThreads
    PROVE  Book'
<1>0. TypeOK /\ TypeOK'
  BY DEF Inductive, Typed
<1>1. ~SingleReturns
  BY DEF SingleReturns, Inductive, House, MainKind
<1>2. CASE JoinThreads
  BY <1>2 DEF JoinThreads, Book, Counts, Managing, DeadKnown, SlotFound
<1>3. CASE JoinSlot
  <2>1. mainSlot \in threads \cap dead /\ mainSlot \in Slots
        /\ wpc[mainSlot] \in {"exited", "unwound"}
    BY <1>0, <1>3 DEF JoinSlot, Joinable, Book, DeadKnown, TypeOK
  <2>2. wpc[mainSlot] = "exited"
    BY <2>1 DEF Book, DeadKnown, Done
  <2>3. /\ threads' = threads \ {mainSlot} /\ mainPc' = "start_worker"
        /\ wpc'[mainSlot] = "none" /\ \A j \in Slots \ {mainSlot} : wpc'[j] = wpc[j]
        /\ UNCHANGED <<nWorkers, nActive, dead>>
    BY <1>0, <1>3, <2>1 DEF JoinSlot, TypeOK, stateVars
  <2>4. Counts'
    <3>1. /\ nWorkers' = nWorkers + (IF wpc'[mainSlot] \in Started THEN 1 ELSE 0)
                                  - (IF wpc[mainSlot] \in Started THEN 1 ELSE 0)
          /\ wpc'[mainSlot] \notin InService /\ wpc[mainSlot] \notin InUse
      BY <1>0, <2>2, <2>3 DEF TypeOK, Started, InService, InUse
    <3>2. mainPc \in Managing
      BY <1>3 DEF JoinSlot, Managing
    <3>3. QED  BY <1>0, <2>1, <2>3, <3>1, <3>2, CountsKept DEF Book
  <2>5. DeadKnown'
    BY <1>0, <2>3 DEF Book, DeadKnown, TypeOK
  <2>6. QED  BY <2>3, <2>4, <2>5 DEF Book, SlotFound
<1>4. QED  BY <1>1, <1>2, <1>3

LEMMA StepBook ==
    ASSUME Inductive, Inductive', ~SingleThread, Book, [Next]_vars
    PROVE  Book'
<1>1. CASE MainStep
  <2>1. ~RunSingle
    BY DEF RunSingle
  <2>2. QED
    BY <1>1, <2>1, MainQuietBooks, CreateBooks, StartBooks, JoinBooks DEF MainStep
<1>2. ASSUME NEW i \in Slots, WorkerStep(i) \/ WorkerFault(i) PROVE Book'
  BY <1>2, WorkerBooks
<1>3. CASE \/ StopWorkers \/ StopWakeup \/ StopHttpd \/ RestartHttpd
           \/ \E i \in Slots : WorkerShutdown(i)
  BY <1>3, StopBooks
<1>4. CASE Poll \/ Connect \/ Exited \/ UNCHANGED vars
  <2>1. UNCHANGED <<nWorkers, nActive, dead, threads, mainSlot, mainPc, wpc>>
    BY <1>4 DEF Poll, Connect, Exited, vars, stateVars, mainVars, workerVars
  <2>2. QED  BY <2>1 DEF Book, Counts, At, DeadKnown, SlotFound
<1>5. QED  BY <1>1, <1>2, <1>3, <1>4 DEF Next

LEMMA SpecBook == ASSUME ~SingleThread PROVE Spec => []Book
<1>1. Init => Book
  BY DEF Init, Book, Counts, Managing, DeadKnown, SlotFound
<1>2. Inductive /\ Inductive' /\ Book /\ [Next]_vars => Book'
  BY StepBook
<1>3. QED  BY <1>1, <1>2, SpecInductive, PTL DEF Spec

\* The search for a slot, which runs outside state.mutex, succeeds whenever
\* worker_should_be_started has said there is room, and it never finds a slot
\* whose old thread still runs: the thread found dead is joined first.
THEOREM SlotsRight == Spec => []SlotsSound
<1>1. CASE ~SingleThread
  <2>1. Book /\ Inductive => SlotsSound
    BY SlotUnused DEF Book, SlotsSound
  <2>2. QED  BY <1>1, <2>1, SpecBook, SpecInductive, PTL
<1>2. CASE SingleThread
  <2>1. Inductive => SlotsSound
    BY <1>2, SlotUnused DEF Inductive, House, MainKind, SlotFound, SlotsSound
  <2>2. QED  BY <2>1, SpecInductive, PTL
<1>3. QED  BY <1>1, <1>2

\* n_workers and n_active_workers, which decide when threads are started and
\* ended, are what they say they are, through starts, ends, failures and leaves.
THEOREM WorkersCounted == Spec => []CountsExact
<1>1. Inductive /\ Book => CountsExact
  <2> SUFFICES ASSUME TypeOK, Counts, mainPc \in Managing
               PROVE  /\ nWorkers = Cardinality({i \in Slots : wpc[i] \notin {"none", "exited"}})
                      /\ nActive \in Cardinality(At(wpc, InService)) .. Cardinality(At(wpc, InUse))
    <3> DEFINE Active == {i \in Slots : wpc[i] \in {"handover", "busy"}}
               Unwinding == {i \in Slots : wpc[i] \in {"abort", "unwound"}}
    <3>1. Active = At(wpc, InService) /\ Active \cup Unwinding = At(wpc, InUse)
      BY DEF At, InService, InUse
    <3>2. QED  BY <3>1 DEF CountsExact, Inductive, Typed, Book, Managing
  <2>1. At(wpc, Started) = {i \in Slots : wpc[i] \notin {"none", "exited"}}
    BY DEF At, Started, TypeOK
  <2>2. QED  BY <2>1, AtFinite DEF Counts, TypeOK
<1>2. CASE ~SingleThread
  BY <1>1, <1>2, SpecInductive, SpecBook, PTL
<1>3. CASE SingleThread
  <2>1. TypeOK => CountsExact
    BY <1>3 DEF CountsExact
  <2>2. QED  BY <2>1, TypeCorrect, PTL
<1>4. QED  BY <1>2, <1>3

-----------------------------------------------------------------------------
(* Nobody waits for ever. *)

\* A worker ends by an unwound thread only if it has asked for a shutdown, and
\* the main thread joins all its workers only because a stop is pending; the
\* single thread is there as long as ap_mpm_run waits for it.
Manned ==
    /\ mainPc = "single" => wpc[1] \notin {"none", "abort", "unwound"}
    /\ mainPc = "join_all" \/ stopper # NoStopper => Pended
    /\ ~SingleThread => \A i \in Slots : wpc[i] = "unwound" => Pended

LEMMA MainManned ==
    ASSUME Inductive, Manned, MainStep
    PROVE  Manned'
<1>1. wpc \in [Slots -> WorkerPcs] /\ stopper' = stopper
  BY DEF Inductive, Typed, TypeOK, MainStep, ReadConfig, CreateMpm, EnterMain, RunSingle,
     SingleReturns, StartThread, DeclareRunning, MainLoop, ScanSlot, JoinSlot, StartSpare,
     JoinThreads, LeaveMain, Decide, DestroyMpm
<1>2. CASE CreateMpm
  <2>1. UNCHANGED wpc /\ stopper = NoStopper /\ mainPc = "create"
        /\ mainPc' \notin {"single", "join_all"}
    BY <1>2 DEF CreateMpm, MpmLockFree, workerVars
  <2>2. ~SingleThread => \A j \in Slots : wpc[j] = "none"
    BY <2>1, NobodyThere DEF Inductive, House, Quiet
  <2>3. QED  BY <1>1, <2>1, <2>2 DEF Manned, SingleThread
<1>3. CASE RunSingle
  <2>1. wpc'[1] = "init" /\ mainPc' = "single" /\ Pended' = Pended /\ SingleThread
    BY <1>1, <1>3, OneSlot DEF RunSingle, BeginWorker, Pended, stateVars
  <2>2. QED  BY <1>1, <2>1 DEF Manned, SingleThread
<1>4. ASSUME mainPc' # "single", mainPc' = "join_all" => Pended', Pended => Pended',
             \A j \in Slots : wpc'[j] = wpc[j] \/ wpc'[j] \in {"none", "init"}
      PROVE  Manned'
  BY <1>1, <1>4 DEF Manned, SingleThread
<1>5. CASE StartThread \/ StartSpare
  <2>1. mainSlot \in Slots
    BY <1>5 DEF StartThread, StartSpare, Inductive, Typed, SlotInRange
  <2>2. \A j \in Slots : wpc'[j] = wpc[j] \/ wpc'[j] \in {"none", "init"}
    BY <1>1, <1>5, <2>1
    DEF StartThread, StartSpare, WorkerStart, WorkerStartFails, BeginWorker, workerVars
  <2>3. mainPc' \notin {"single", "join_all"}
    BY <1>5 DEF StartThread, StartSpare
  <2>4. Pended => Pended'
    <3>1. shutdownPending \in BOOLEAN /\ restartPending' = restartPending
      BY <1>5 DEF Inductive, Typed, TypeOK, StartThread, StartSpare
    <3>2. shutdownPending => shutdownPending'
      BY <1>5, <3>1 DEF StartThread, StartSpare
    <3>3. QED  BY <3>1, <3>2 DEF Pended
  <2>5. QED  BY <1>4, <2>2, <2>3, <2>4
<1>6. CASE SingleReturns \/ JoinSlot \/ JoinThreads
  <2>1. \A j \in Slots : wpc'[j] = wpc[j] \/ wpc'[j] \in {"none", "init"}
    BY <1>1, <1>6 DEF SingleReturns, JoinSlot, JoinThreads
  <2>2. mainPc' \notin {"single", "join_all"} /\ (Pended => Pended')
    BY <1>6 DEF SingleReturns, JoinSlot, JoinThreads, Pended, stateVars
  <2>3. QED  BY <1>4, <2>1, <2>2
<1>7. CASE \/ ReadConfig \/ EnterMain \/ DeclareRunning \/ MainLoop \/ ScanSlot
           \/ LeaveMain \/ Decide \/ DestroyMpm
  <2>1. UNCHANGED wpc /\ mainPc' # "single" /\ (Pended => Pended')
    BY <1>7 DEF ReadConfig, EnterMain, DeclareRunning, MainLoop, ScanSlot, LeaveMain,
       Decide, DestroyMpm, Pended, stateVars, workerVars
  <2>2. mainPc' = "join_all" => Pended
    BY <1>7 DEF ReadConfig, EnterMain, DeclareRunning, MainLoop, ScanSlot, LeaveMain,
       Decide, DestroyMpm, Pended
  <2>3. QED  BY <1>4, <2>1, <2>2
<1>8. QED  BY <1>2, <1>3, <1>5, <1>6, <1>7 DEF MainStep

LEMMA StepManned == Inductive /\ Life /\ Manned /\ [Next]_vars => Manned'
<1> SUFFICES ASSUME Inductive, Life, Manned, [Next]_vars PROVE Manned'
  OBVIOUS
<1>0. TypeOK
  BY DEF Inductive, Typed
<1>1. CASE MainStep
  BY <1>1, MainManned
<1>2. ASSUME NEW i \in Slots, WorkerStep(i) \/ WorkerFault(i) PROVE Manned'
  <2>1. /\ \A j \in Slots \ {i} :
               wpc'[j] = wpc[j] \/ (wpc[j] = "token_wait" /\ wpc'[j] = "token")
        /\ UNCHANGED <<stopper, shutdownPending, restartPending>>
        /\ \/ /\ mainPc' \in {mainPc, SignalMain(mainPc)}
              /\ wpc'[i] \notin {"none", "unwound"}
              /\ wpc'[i] = "abort" => ~SingleThread
           \/ SingleThread /\ mainPc' = "exited"
    BY <1>0, <1>2, WorkerMoves
  <2>2. Pended' = Pended
    BY <2>1 DEF Pended
  <2>3. CASE SingleThread /\ mainPc' = "exited"
    BY <2>1, <2>2, <2>3 DEF Manned, SingleThread
  <2>4. CASE /\ mainPc' \in {mainPc, SignalMain(mainPc)}
             /\ wpc'[i] \notin {"none", "unwound"}
             /\ wpc'[i] = "abort" => ~SingleThread
    <3>1. mainPc' \in {"single", "join_all"} => mainPc' = mainPc
      BY <2>4 DEF SignalMain
    <3>2. mainPc' = "single" => wpc'[1] \notin {"none", "abort", "unwound"}
      BY <2>1, <2>4, <3>1, OneSlot DEF Manned, Inductive, House, MainKind
    <3>3. QED  BY <2>1, <2>2, <2>4, <3>1, <3>2 DEF Manned, SingleThread
  <2>5. QED  BY <2>1, <2>3, <2>4
<1>3. ASSUME NEW who \in {Ctl} \cup Slots, NEW kind \in {"shutdown", "restart"},
             who # Ctl => wpc[who] \in {"accept_failed", "abort"},
             CallStop(who, kind)
      PROVE  Manned'
  <2>1. /\ \A j \in Slots : \/ wpc'[j] = wpc[j]
                            \/ /\ wpc[j] \in {"accept_failed", "abort"}
                               /\ wpc'[j] \in {"finish", "unwound"}
                               /\ wpc[j] = "accept_failed" => wpc'[j] = "finish"
        /\ mainPc' = mainPc \/ mainPc' = SignalMain(mainPc)
        /\ stopper = NoStopper
    BY <1>0, <1>3, CallStopMoves
  <2>2. mainPc' \in {"single", "join_all"} => mainPc' = mainPc
    BY <2>1 DEF SignalMain
  <2>3. mainPc' = "single" => wpc'[1] \notin {"none", "abort", "unwound"}
    BY <2>1, <2>2, OneSlot DEF Manned
  <2>4. CASE theMpm
    <3>1. Pended'
      BY <1>3, <2>4 DEF CallStop, RequestStop, Pended
    <3>2. QED  BY <2>3, <3>1 DEF Manned
  <2>5. CASE ~theMpm
    <3>1. UNCHANGED <<stopper, shutdownPending, restartPending>>
      BY <1>3, <2>5 DEF CallStop
    <3>2. ~SingleThread => \A j \in Slots : wpc'[j] = "unwound" => wpc[j] = "unwound"
      <4> SUFFICES ASSUME ~SingleThread, NEW j \in Slots, wpc[j] = "abort" PROVE FALSE
        BY <2>1
      <4> QED
        BY <2>5, <1>0 DEF Life, Inductive, House, Owned, Quiet
    <3>3. QED  BY <2>1, <2>2, <2>3, <3>1, <3>2 DEF Manned, Pended, SingleThread
  <2>6. QED  BY <2>4, <2>5
<1>4. CASE StopHttpd \/ RestartHttpd \/ \E i \in Slots : WorkerShutdown(i)
  BY <1>3, <1>4 DEF StopHttpd, RestartHttpd, WorkerShutdown
<1>5. CASE StopWorkers \/ StopWakeup
  <2>1. UNCHANGED <<mainPc, shutdownPending, restartPending>> /\ stopper # NoStopper
    BY <1>5 DEF StopWorkers, StopWakeup, StopFrame, NoStopper
  <2>2. Pended /\ Pended'
    BY <2>1 DEF Manned, Pended
  <2>3. mainPc' = "single" => wpc'[1] \notin {"none", "abort", "unwound"}
    <3>1. CASE StopWorkers
      BY <2>1, <3>1, OneSlot DEF StopWorkers, BroadcastWorkers, Manned
    <3>2. CASE StopWakeup
      <4>1. stopper.by \in {Ctl} \cup Slots /\ Returns(stopper.by, stopper.kind)
        BY <1>0, <2>1, <3>2 DEF StopWakeup, TypeOK, Stoppers
      <4>2. \A j \in Slots :
                \/ wpc'[j] = wpc[j]
                \/ /\ j = stopper.by /\ wpc'[j] \in {"finish", "unwound"}
                   /\ wpc[j] = "accept_failed" => wpc'[j] = "finish"
        BY <1>0, <4>1, ReturnMoves
      <4>3. \A j \in Slots : j = stopper.by => wpc[j] \in {"accept_failed", "abort"}
        BY <2>1 DEF Inductive, House, CallerWaits, Ctl, Slots
      <4>4. QED  BY <2>1, <4>2, <4>3, OneSlot DEF Manned
    <3>3. QED  BY <1>5, <3>1, <3>2
  <2>4. QED  BY <2>2, <2>3 DEF Manned
<1>6. CASE Poll \/ Connect \/ Exited \/ UNCHANGED vars
  <2>1. UNCHANGED <<mainPc, stopper, wpc, shutdownPending, restartPending>>
    BY <1>6 DEF Poll, Connect, Exited, vars, mainVars, workerVars, stateVars
  <2>2. QED  BY <2>1 DEF Manned, Pended, SingleThread
<1>7. QED  BY <1>1, <1>2, <1>4, <1>5, <1>6 DEF Next

LEMMA SpecManned == Spec => []Manned
<1>1. Init => Manned
  BY DEF Init, Manned
<1>2. QED  BY <1>1, SpecInductive, SpecLife, StepManned, PTL DEF Spec

\* A worker that cannot move has come to its end or waits for a connection.
LEMMA AtRest ==
    ASSUME TypeOK, NoLostToken, ~CanMove
    PROVE  /\ stopper = NoStopper
           /\ \A i \in Slots : \/ wpc[i] \in {"none", "exited", "unwound"}
                               \/ wpc[i] = "token_wait"
                               \/ wpc[i] = "accept" /\ backlog = 0
           /\ \A i \in Slots : wpc[i] = "token_wait" =>
                  ~shouldExit /\ \E j \in Slots : wpc[j] = "accept"
<1>1. stopper = NoStopper /\ ~MainCanMove /\ \A i \in Slots : ~WorkerCanMove(i)
  BY DEF CanMove
<1>2. backlog \in Nat /\ \A i \in Slots : wpc[i] \in WorkerPcs
  BY SettingsAssumption DEF TypeOK
<1>3. \A i \in Slots : \/ wpc[i] \in {"none", "exited", "unwound"}
                       \/ wpc[i] = "token_wait"
                       \/ wpc[i] = "accept" /\ backlog = 0
  BY <1>1, <1>2 DEF WorkerCanMove, WorkerPcs, MpmLockFree
<1>4. ASSUME NEW i \in Slots, wpc[i] = "token_wait"
      PROVE  ~shouldExit /\ \E j \in Slots : wpc[j] = "accept"
  <2>1. ~shouldExit /\ (TokenHolders # {} \/ \E j \in Slots : wpc[j] = "token")
    BY <1>4 DEF NoLostToken, TokenWaiters
  <2>2. QED  BY <1>3, <2>1 DEF TokenHolders
<1>5. QED  BY <1>1, <1>3, <1>4

\* The main thread waits for a thread to end only while that thread can move, or
\* waits for a connection.
LEMMA JoinerMoves ==
    ASSUME Inductive, Manned, NoLostToken, StopReaches, ~SingleThread => DeadKnown,
           ~CanMove, mainPc \in {"single", "join_slot", "join_all"}
    PROVE  \E i \in Slots : wpc[i] = "accept" /\ backlog = 0
<1>1. /\ stopper = NoStopper
      /\ \A i \in Slots : \/ wpc[i] \in {"none", "exited", "unwound"}
                          \/ wpc[i] = "token_wait"
                          \/ wpc[i] = "accept" /\ backlog = 0
      /\ \A i \in Slots : wpc[i] = "token_wait" =>
             ~shouldExit /\ \E j \in Slots : wpc[j] = "accept"
  BY AtRest DEF Inductive, Typed
<1>2. ~MainCanMove
  BY DEF CanMove
<1>3. CASE mainPc = "single"
  BY <1>1, <1>2, <1>3, OneSlot DEF MainCanMove, Manned
<1>4. CASE mainPc = "join_slot"
  <2>1. mainSlot \in Slots /\ wpc[mainSlot] \in Done
    BY <1>4 DEF Inductive, Typed, SlotInRange, House, MainKind, DeadKnown
  <2>2. QED  BY <1>1, <1>2, <1>4, <2>1 DEF MainCanMove, Joinable, Done
<1>5. CASE mainPc = "join_all"
  <2>1. PICK i \in threads : ~Joinable(i)
    BY <1>2, <1>5 DEF MainCanMove
  <2>2. i \in Slots /\ wpc[i] # "none"
    BY <1>5, <2>1 DEF Inductive, Typed, TypeOK, House, MainKind, DeadKnown
  <2>3. QED  BY <1>1, <2>1, <2>2 DEF Joinable
<1>6. QED  BY <1>3, <1>4, <1>5

\* The main thread sleeps only while there is a worker to wait for.
LEMMA SleeperMoves ==
    ASSUME Inductive, Manned, NoLostToken, NoLostWakeup, Counts,
           ~CanMove, mainPc = "cond_wait"
    PROVE  \E i \in Slots : wpc[i] = "accept" /\ backlog = 0
<1> SUFFICES ASSUME \A i \in Slots : wpc[i] # "accept" PROVE FALSE
  BY AtRest DEF Inductive, Typed
<1>1. ~SingleThread /\ ~Pended /\ ~WorkerShouldBeStarted
  BY DEF Inductive, House, MainKind, NoLostWakeup, Pended
<1>2. \A i \in Slots : wpc[i] \in {"none", "exited"}
  BY <1>1, AtRest DEF Manned, Inductive, Typed
<1>3. At(wpc, Started) = {} /\ At(wpc, InUse) = {} /\ At(wpc, InService) = {}
  BY <1>2 DEF At, Started, InUse, InService
<1>4. nWorkers = 0 /\ nActive = 0
  BY <1>3, FS_EmptySet DEF Counts, Managing, Inductive, Typed, TypeOK
<1>5. ThreadLimit > 1
  BY <1>1, SettingsAssumption DEF SingleThread
<1>6. QED  BY <1>1, <1>4, <1>5, SettingsAssumption DEF WorkerShouldBeStarted, Spare

\* Whatever the settings and the faults, everybody waits at the same time only
\* for a connection that nobody makes, and with a stop pending only if the one
\* connection the stop makes for that has failed.
THEOREM NobodyStuck == Spec => []NeverStuck
<1>1. ASSUME Inductive, Manned, NoLostToken, NoLostWakeup, StopReaches,
             ~SingleThread => Book
      PROVE  NeverStuck
  <2> SUFFICES ASSUME ~CanMove, mainPc # "exited"
               PROVE  /\ \E i \in Slots : wpc[i] = "accept" /\ backlog = 0
                      /\ Pended => "wakeup" \in Faults
    BY DEF NeverStuck, Pended
  <2>1. stopper = NoStopper
    BY DEF CanMove
  <2>2. mainPc \in {"cond_wait", "single", "join_slot", "join_all"}
    BY <2>1 DEF CanMove, MainCanMove, MpmLockFree
  <2>3. \E i \in Slots : wpc[i] = "accept" /\ backlog = 0
    <3>1. CASE mainPc = "cond_wait"
      <4>1. ~SingleThread
        BY <1>1, <3>1 DEF Inductive, House, MainKind
      <4>2. Counts
        BY <1>1, <4>1 DEF Book
      <4>3. QED  BY <1>1, <3>1, <4>2, SleeperMoves
    <3>2. CASE mainPc # "cond_wait"
      BY <1>1, <2>2, <3>2, JoinerMoves DEF Book
    <3>3. QED  BY <3>1, <3>2
  <2>4. ASSUME Pended PROVE "wakeup" \in Faults
    <3>1. shouldExit
      BY <1>1, <2>1, <2>3, <2>4 DEF StopReaches, WorkersTold, Alive, Pended, NoStopper
    <3>2. QED
      BY <1>1, <2>1, <2>3, <3>1 DEF StopReaches, AccepterWoken, NoStopper
  <2>5. QED  BY <2>3, <2>4
<1>2. CASE SingleThread
  BY <1>1, <1>2, SpecInductive, SpecManned, TokenHandedOn, MainWoken, StopReachesWorkers, PTL
<1>3. CASE ~SingleThread
  BY <1>1, <1>3, SpecInductive, SpecManned, TokenHandedOn, MainWoken, StopReachesWorkers,
     SpecBook, PTL
<1>4. QED  BY <1>2, <1>3

-----------------------------------------------------------------------------
(***************************************************************************)
(* The multi-processing module implements the abstract Apache thread, for  *)
(* every setting and every choice of faults: each of its steps is a step   *)
(* of the abstract thread or invisible to the host.                        *)
(***************************************************************************)

\* Nothing the host sees of Apache changes.
Unseen == UNCHANGED <<mpmState, theMpm, PendingKinds, Phase>>

LEMMA UnseenStep ==
    ASSUME Unseen
    PROVE  UNCHANGED Host!apacheVars
BY DEF Unseen, Host!apacheVars

\* The kinds of stop that are pending, as a set.
LEMMA PendingSet ==
    /\ "shutdown" \in PendingKinds <=> shutdownPending
    /\ "restart" \in PendingKinds <=> restartPending
    /\ PendingKinds \subseteq {"shutdown", "restart"}
BY DEF PendingKinds

LEMMA InitHost == Init => Host!ApacheInit
BY DEF Init, Host!ApacheInit, PendingKinds, Phase

\* The steps of the main thread, one by one.
LEMMA MainStepHost ==
    ASSUME Inductive, Manned, MainStep
    PROVE  [Host!ApacheNext]_(Host!apacheVars)
<1> USE DEF Host!ApacheNext, Host!ApacheStep
<1>1. CASE ReadConfig
  <2>1. Host!Configure
    BY <1>1 DEF ReadConfig, Host!Configure, Phase, PendingKinds, stateVars
  <2>2. QED  BY <2>1
<1>2. CASE CreateMpm
  <2>1. Host!Create
    BY <1>2 DEF CreateMpm, Host!Create, Phase, PendingKinds, stateVars
  <2>2. QED  BY <2>1
<1>3. CASE EnterMain
  <2>1. CASE mainPc' = "spawn" /\ UNCHANGED shutdownPending
    <3>1. Unseen
      BY <1>3, <2>1 DEF EnterMain, Unseen, Phase, PendingKinds
    <3>2. QED  BY <3>1, UnseenStep
  <2>2. CASE mainPc' = "closing" /\ shutdownPending'
    <3>1. PendingKinds' = PendingKinds \cup {"shutdown"}
      BY <1>3, <2>2 DEF EnterMain, PendingKinds
    <3>2. Host!Serve
      BY <1>3, <2>2, <3>1 DEF EnterMain, Host!Serve, Phase
    <3>3. QED  BY <3>2
  <2>3. CASE mainPc' = "destroy_exit" /\ UNCHANGED shutdownPending
    <3>1. Host!Serve
      BY <1>3, <2>3 DEF EnterMain, Host!Serve, Phase, PendingKinds
    <3>2. QED  BY <3>1
  <2>4. QED  BY <1>3, <2>1, <2>2, <2>3 DEF EnterMain
<1>4. CASE RunSingle \/ DeclareRunning
  <2>1. Host!Serve
    BY <1>4 DEF RunSingle, DeclareRunning, Host!Serve, Phase, PendingKinds, stateVars
  <2>2. QED  BY <2>1
<1>5. CASE SingleReturns
  <2>1. SingleThread
    BY <1>5 DEF SingleReturns, Inductive, House, MainKind
  <2>2. Host!Close
    BY <1>5, <2>1 DEF SingleReturns, Host!Close, Phase, PendingKinds, stateVars
  <2>3. QED  BY <2>2
<1>6. CASE StartThread
  <2>1. CASE mainPc' \in {"spawn", "spawned"} /\ UNCHANGED shutdownPending
    <3>1. Unseen
      BY <1>6, <2>1 DEF StartThread, Unseen, Phase, PendingKinds
    <3>2. QED  BY <3>1, UnseenStep
  <2>2. CASE mainPc' = "closing" /\ shutdownPending'
    <3>1. PendingKinds' = PendingKinds \cup {"shutdown"}
      BY <1>6, <2>2 DEF StartThread, PendingKinds
    <3>2. Host!Serve
      BY <1>6, <2>2, <3>1 DEF StartThread, Host!Serve, Phase
    <3>3. QED  BY <3>2
  <2>3. \/ mainPc' \in {"spawn", "spawned"} /\ UNCHANGED shutdownPending
        \/ mainPc' = "closing" /\ shutdownPending'
    <3>1. shutdownPending \in BOOLEAN
      BY DEF Inductive, Typed, TypeOK
    <3>2. CASE WorkerStart(mainSlot) /\ mainPc' \in {"spawn", "spawned"}
               /\ UNCHANGED shutdownPending
      BY <3>2
    <3>3. CASE /\ mainPc' = IF mainSlot = 1 THEN "closing" ELSE "spawned"
               /\ shutdownPending' = (shutdownPending \/ mainSlot = 1)
      <4>1. CASE mainSlot = 1
        BY <3>3, <4>1
      <4>2. CASE mainSlot # 1
        BY <3>1, <3>3, <4>2
      <4>3. QED  BY <4>1, <4>2
    <3>4. QED  BY <1>6, <3>2, <3>3 DEF StartThread
  <2>4. QED  BY <2>1, <2>2, <2>3
<1>7. CASE MainLoop \/ ScanSlot \/ JoinSlot \/ StartSpare
  <2>1. Unseen
    BY <1>7 DEF MainLoop, ScanSlot, JoinSlot, StartSpare, Unseen, Phase, PendingKinds,
       stateVars
  <2>2. QED  BY <2>1, UnseenStep
<1>8. CASE JoinThreads
  <2>1. PendingKinds # {}
    BY <1>8 DEF Manned, Pended, JoinThreads, PendingKinds
  <2>2. Host!Close
    BY <1>8, <2>1 DEF JoinThreads, Host!Close, Phase, PendingKinds, stateVars
  <2>3. QED  BY <2>2
<1>9. CASE LeaveMain
  <2>1. Host!MarkStopping
    BY <1>9 DEF LeaveMain, Host!MarkStopping, Phase, PendingKinds, stateVars
  <2>2. QED  BY <2>1
<1>10. CASE Decide
  <2>1. Host!Conclude
    BY <1>10, PendingSet DEF Decide, Host!Conclude, Phase, PendingKinds, stateVars
  <2>2. QED  BY <2>1
<1>11. CASE DestroyMpm
  <2>1. Host!Destroy
    BY <1>11 DEF DestroyMpm, Host!Destroy, Phase, PendingKinds, stateVars
  <2>2. QED  BY <2>1
<1>12. QED
  BY <1>1, <1>2, <1>3, <1>4, <1>5, <1>6, <1>7, <1>8, <1>9, <1>10, <1>11 DEF MainStep

\* A worker is invisible to the host, but for the leave that ends a single thread.
LEMMA WorkerStepHost ==
    ASSUME Inductive, NEW i \in Slots, WorkerStep(i) \/ WorkerFault(i)
    PROVE  [Host!ApacheNext]_(Host!apacheVars)
<1>1. /\ UNCHANGED <<theMpm, shutdownPending, restartPending>>
      /\ wpc[i] \in From
      /\ \/ mainPc' \in {mainPc, SignalMain(mainPc)}
         \/ SingleThread /\ mainPc' = "exited" /\ wpc'[i] = "unwound"
  BY WorkerMoves DEF Inductive, Typed
<1>2. UNCHANGED mpmState
  BY DEF WorkerStep, WorkerFault, WorkerFrame, SetUp, Leave, LoopTop, AskForToken,
     ListenFails, Accept, AcceptFails, CheckExit, Claim, HandOver, FinishRequest,
     DeclareDead, Uncount
<1>3. UNCHANGED PendingKinds
  BY <1>1 DEF PendingKinds
<1>4. CASE mainPc' \in {mainPc, SignalMain(mainPc)}
  <2>1. UNCHANGED Phase
    BY <1>4 DEF Phase, SignalMain
  <2>2. QED  BY <1>1, <1>2, <1>3, <2>1, UnseenStep DEF Unseen
<1>5. CASE mainPc' # mainPc /\ SingleThread /\ mainPc' = "exited" /\ wpc'[i] = "unwound"
  <2>1. mainPc = "single"
    BY <1>1, <1>5 DEF Inductive, House, Owned, From
  <2>2. Host!Unwind
    BY <1>1, <1>2, <1>3, <1>5, <2>1 DEF Host!Unwind, Phase
  <2>3. QED  BY <2>2 DEF Host!ApacheNext, Host!ApacheStep
<1>6. QED  BY <1>1, <1>4, <1>5

\* A stop call is heard by the host exactly when there is an mpm.
LEMMA CallStopHost ==
    ASSUME Inductive, NEW who \in {Ctl} \cup Slots, NEW kind \in {"shutdown", "restart"},
           CallStop(who, kind)
    PROVE  [Host!ApacheNext]_(Host!apacheVars)
<1>1. UNCHANGED theMpm
  BY DEF CallStop, StopFrame
<1>2. mainPc' \in {mainPc, SignalMain(mainPc)}
  BY DEF CallStop
<1>3. UNCHANGED Phase
  BY <1>2 DEF Phase, SignalMain
<1>4. CASE ~theMpm
  <2>1. UNCHANGED <<mpmState, PendingKinds>>
    BY <1>4 DEF CallStop, PendingKinds
  <2>2. QED  BY <1>1, <1>3, <2>1, UnseenStep DEF Unseen
<1>5. CASE theMpm
  <2>1. RequestStop(kind)
    BY <1>5 DEF CallStop
  <2>2. PendingKinds' = PendingKinds \cup {kind}
    <3>1. CASE kind = "shutdown"
      <4>1. shutdownPending' = TRUE /\ (restartPending' <=> restartPending)
        BY <2>1, <3>1 DEF RequestStop
      <4>2. QED  BY <3>1, <4>1 DEF PendingKinds
    <3>2. CASE kind = "restart"
      <4>1. restartPending' = TRUE /\ (shutdownPending' <=> shutdownPending)
        BY <2>1, <3>2 DEF RequestStop
      <4>2. QED  BY <3>2, <4>1 DEF PendingKinds
    <3>3. QED  BY <3>1, <3>2
  <2>3. Host!Stop(kind)
    BY <1>1, <1>3, <1>5, <2>1, <2>2 DEF Host!Stop, RequestStop
  <2>4. kind \in Host!Kinds
    BY DEF Host!Kinds
  <2>5. QED  BY <2>3, <2>4 DEF Host!ApacheNext
<1>6. QED  BY <1>4, <1>5

LEMMA StepHost ==
    ASSUME Inductive, Manned, [Next]_vars
    PROVE  [Host!ApacheNext]_(Host!apacheVars)
<1>1. CASE MainStep
  BY <1>1, MainStepHost
<1>2. ASSUME NEW i \in Slots, WorkerStep(i) \/ WorkerFault(i)
      PROVE  [Host!ApacheNext]_(Host!apacheVars)
  BY <1>2, WorkerStepHost
<1>3. CASE StopHttpd \/ RestartHttpd \/ \E i \in Slots : WorkerShutdown(i)
  BY <1>3, CallStopHost DEF StopHttpd, RestartHttpd, WorkerShutdown
<1>4. CASE StopWorkers \/ StopWakeup \/ Poll \/ Connect \/ Exited \/ UNCHANGED vars
  <2>1. UNCHANGED <<mpmState, theMpm, shutdownPending, restartPending, mainPc>>
    BY <1>4 DEF StopWorkers, StopWakeup, StopFrame, Poll, Connect, Exited, vars,
       stateVars, mainVars
  <2>2. Unseen
    BY <2>1 DEF Unseen, PendingKinds, Phase
  <2>3. QED  BY <2>2, UnseenStep
<1>5. QED  BY <1>1, <1>2, <1>3, <1>4 DEF Next

\* What CHttpdServer may rely on: seen through AP_MPMQ_MPM_STATE, the_mpm and its
\* exit, the multi-processing module behaves as the abstract Apache thread.
THEOREM MpmImplementsApache == Spec => ImplementsApache
<1>1. Inductive /\ Manned /\ [Next]_vars => [Host!ApacheNext]_(Host!apacheVars)
  BY StepHost
<1>2. QED
  BY <1>1, InitHost, SpecInductive, SpecManned, PTL
  DEF Spec, ImplementsApache, Host!ApacheSpec
=============================================================================
