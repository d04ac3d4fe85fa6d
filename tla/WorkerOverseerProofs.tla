----------------------- MODULE WorkerOverseerProofs -----------------------
(***************************************************************************)
(* The invariants of WorkerOverseer, for any number of worker threads and  *)
(* any faults.                                                             *)
(***************************************************************************)
EXTENDS WorkerOverseer, TLAPS

Past == {"running", "ended", "panicked", "joined"}

\* What a worker inside the callback has done so far; a deleted semaphore
\* lets nobody in; only workers that are past the callback are watched.
Handover ==
    /\ \A w \in Workers : worker[w] = "completing" => iWorker = w
    /\ phase = "deleted" => semaphore = 0
    /\ \A w \in waiters : worker[w] \in Past

\* There are no workers before Apache's main thread; and the overseer has been
\* made active with the first start.
Household ==
    /\ phase = "serving" /\ httpd # "none" => active
    /\ state = "NotStarted" => httpd = "none"
    /\ httpd = "none" => \A w \in Workers : worker[w] = "none"

IInv ==
    /\ TypeOK
    /\ HandshakeExclusive
    /\ NoStraySignal
    /\ RightWorker
    /\ EveryWorkerWatched
    /\ Handover
    /\ Household

LEMMA InitIInv == Init => IInv
<1> SUFFICES ASSUME Init PROVE IInv
  OBVIOUS
<1> USE DEF Init, Exists, Inside
<1>1. TypeOK
  <2>1. semaphore \in 0 .. 1
    OBVIOUS
  <2>2. worker \in [Workers -> {"none"}]
    OBVIOUS
  <2> QED BY <2>1, <2>2 DEF TypeOK, Phases
<1>2. HandshakeExclusive /\ NoStraySignal /\ RightWorker
  BY DEF HandshakeExclusive, NoStraySignal, RightWorker
<1>3. EveryWorkerWatched /\ Handover /\ Household
  BY DEF EveryWorkerWatched, Handover, Household
<1> QED BY <1>1, <1>2, <1>3 DEF IInv

LEMMA ActivateKeeps ==
    ASSUME IInv, StartHttpd \/ StartHttpdFails
    PROVE  IInv'
<1> USE DEF StartHttpd, StartHttpdFails, ActivateIfIdle, Activate, IInv, Exists, Inside,
            overseerVars, threadVars
<1>0. ~active => /\ semaphore = 0 /\ semaphore' = 1
                 /\ \A w \in Workers : ~Inside(w)
  <2> SUFFICES ASSUME ~active PROVE /\ semaphore = 0 /\ semaphore' = 1
                                    /\ \A w \in Workers : ~Inside(w)
    OBVIOUS
  <2>1. phase = "serving" /\ semaphore' = semaphore + 1
    OBVIOUS
  <2>2. semaphore = 0 /\ \A w \in Workers : ~Inside(w)
    BY <2>1 DEF HandshakeExclusive
  <2> QED BY <2>1, <2>2
<1>1. TypeOK'
  <2>1. semaphore' \in 0 .. 1
    <3>1. CASE active
      BY <3>1 DEF TypeOK
    <3>2. CASE ~active
      BY <3>2, <1>0
    <3> QED BY <3>1, <3>2
  <2>2. active' \in BOOLEAN /\ complete' \in BOOLEAN /\ watched' \in BOOLEAN
    <3>1. CASE active
      BY <3>1 DEF TypeOK
    <3>2. CASE ~active
      BY <3>2 DEF TypeOK
    <3> QED BY <3>1, <3>2
  <2> QED BY <2>1, <2>2 DEF TypeOK, Phases
<1>2. HandshakeExclusive'
  <2>1. CASE active
    BY <2>1 DEF TypeOK, HandshakeExclusive
  <2>2. CASE ~active
    <3>1. active' /\ ~complete' /\ UNCHANGED <<worker, phase>>
      BY <2>2
    <3> QED BY <3>1, <2>2, <1>0 DEF HandshakeExclusive
  <2> QED BY <2>1, <2>2
<1>3. NoStraySignal' /\ RightWorker'
  BY DEF TypeOK, HandshakeExclusive, NoStraySignal, RightWorker, Handover, Past
<1>4. EveryWorkerWatched'
  BY DEF TypeOK, HandshakeExclusive, EveryWorkerWatched, RightWorker, Handover
<1>5. Handover'
  BY DEF TypeOK, HandshakeExclusive, Handover, RightWorker, Past
<1>6. Household'
  BY DEF TypeOK, Household
<1> QED BY <1>1, <1>2, <1>3, <1>4, <1>5, <1>6

LEMMA WaitKeeps ==
    ASSUME IInv, NEW u \in Workers, Wait(u), Lives
    PROVE  IInv'
<1> USE DEF Wait, Lives, IInv, Exists, Inside, overseerVars, threadVars
<1>1. TypeOK'
  BY DEF TypeOK, HandshakeExclusive, Phases
<1>2. HandshakeExclusive'
  BY DEF TypeOK, HandshakeExclusive, Handover
<1>3. NoStraySignal' /\ RightWorker'
  BY DEF TypeOK, HandshakeExclusive, NoStraySignal, RightWorker, Handover, Past
<1>4. EveryWorkerWatched'
  BY DEF TypeOK, HandshakeExclusive, EveryWorkerWatched, RightWorker, Handover
<1>5. Handover'
  BY DEF TypeOK, HandshakeExclusive, Handover, RightWorker, Past
<1>6. Household'
  BY DEF TypeOK, Household
<1> QED BY <1>1, <1>2, <1>3, <1>4, <1>5, <1>6

LEMMA WaitPanicsKeeps ==
    ASSUME IInv, NEW u \in Workers, WaitPanics(u), Lives
    PROVE  IInv'
<1> USE DEF WaitPanics, Lives, IInv, Exists, Inside, overseerVars, threadVars
<1>1. TypeOK'
  BY DEF TypeOK, HandshakeExclusive, Phases
<1>2. HandshakeExclusive'
  BY DEF TypeOK, HandshakeExclusive, Handover
<1>3. NoStraySignal' /\ RightWorker'
  BY DEF TypeOK, HandshakeExclusive, NoStraySignal, RightWorker, Handover, Past
<1>4. EveryWorkerWatched'
  BY DEF TypeOK, HandshakeExclusive, EveryWorkerWatched, RightWorker, Handover
<1>5. Handover'
  BY DEF TypeOK, HandshakeExclusive, Handover, RightWorker, Past
<1>6. Household'
  BY DEF TypeOK, Household
<1> QED BY <1>1, <1>2, <1>3, <1>4, <1>5, <1>6

LEMMA WriteKeeps ==
    ASSUME IInv, NEW u \in Workers, WriteId(u), Lives
    PROVE  IInv'
<1> USE DEF WriteId, Lives, IInv, Exists, Inside, overseerVars, threadVars
<1>1. TypeOK'
  BY DEF TypeOK, HandshakeExclusive, Phases
<1>2. HandshakeExclusive'
  BY DEF TypeOK, HandshakeExclusive, Handover
<1>3. NoStraySignal' /\ RightWorker'
  BY DEF TypeOK, HandshakeExclusive, NoStraySignal, RightWorker, Handover, Past
<1>4. EveryWorkerWatched'
  BY DEF TypeOK, HandshakeExclusive, EveryWorkerWatched, RightWorker, Handover
<1>5. Handover'
  BY DEF TypeOK, HandshakeExclusive, Handover, RightWorker, Past
<1>6. Household'
  BY DEF TypeOK, Household
<1> QED BY <1>1, <1>2, <1>3, <1>4, <1>5, <1>6

LEMMA CompleteKeeps ==
    ASSUME IInv, NEW u \in Workers, Complete(u), Lives
    PROVE  IInv'
<1> USE NoneAssumption DEF Complete, Lives, IInv, Exists, Inside, overseerVars, threadVars
<1>1. TypeOK'
  BY DEF TypeOK, HandshakeExclusive, Phases
<1>2. HandshakeExclusive'
  BY DEF TypeOK, HandshakeExclusive, Handover
<1>3. NoStraySignal' /\ RightWorker'
  BY DEF TypeOK, HandshakeExclusive, NoStraySignal, RightWorker, Handover, Past
<1>4. EveryWorkerWatched'
  BY DEF TypeOK, HandshakeExclusive, EveryWorkerWatched, RightWorker, Handover
<1>5. Handover'
  BY DEF TypeOK, HandshakeExclusive, Handover, RightWorker, Past
<1>6. Household'
  BY DEF TypeOK, Household
<1> QED BY <1>1, <1>2, <1>3, <1>4, <1>5, <1>6

LEMMA WatchKeeps ==
    ASSUME IInv, RunL
    PROVE  IInv'
<1> USE NoneAssumption DEF RunL, Watch, WatchFails, IInv, Exists, Inside, overseerVars, threadVars
<1>1. TypeOK'
  <2>1. CASE Watch
    <3>1. semaphore = 0 /\ semaphore' = semaphore + 1
      BY <2>1 DEF HandshakeExclusive
    <3>2. semaphore' \in 0 .. 1
      BY <3>1
    <3>3. active' \in BOOLEAN /\ complete' \in BOOLEAN /\ phase' = phase
      BY <2>1
    <3>4. waiters' \subseteq Workers
      BY <2>1 DEF TypeOK, RightWorker
    <3> QED BY <2>1, <3>2, <3>3, <3>4 DEF TypeOK
  <2>2. CASE WatchFails
    BY <2>2 DEF TypeOK, HandshakeExclusive, Phases
  <2> QED BY <2>1, <2>2
<1>2. HandshakeExclusive'
  BY DEF TypeOK, HandshakeExclusive, Handover
<1>3. NoStraySignal' /\ RightWorker'
  BY DEF TypeOK, HandshakeExclusive, NoStraySignal, RightWorker, Handover, Past
<1>4. EveryWorkerWatched'
  BY DEF TypeOK, HandshakeExclusive, EveryWorkerWatched, RightWorker, Handover
<1>5. Handover'
  BY DEF TypeOK, HandshakeExclusive, Handover, RightWorker, Past
<1>6. Household'
  BY DEF TypeOK, Household
<1> QED BY <1>1, <1>2, <1>3, <1>4, <1>5, <1>6

\* The server's steps that touch neither the handshake nor a worker.
LEMMA ServerKeeps ==
    ASSUME IInv,
           \/ StartHttpdLeaves \/ StopHttpd \/ Detach \/ HttpdDeath
           \/ DeleteWaiters \/ DeleteOverseer \/ MainReturns
    PROVE  IInv'
<1> USE DEF StartHttpdLeaves, StopHttpd, Detach, HttpdDeath, DeleteWaiters,
            DeleteOverseer, MainReturns, IInv, Exists, Inside, overseerVars, threadVars
<1>1. TypeOK'
  <2>1. semaphore' \in {semaphore, 0} /\ active' \in {active, FALSE}
        /\ watched' \in {watched, FALSE} /\ UNCHANGED complete
    OBVIOUS
  <2>2. semaphore' \in 0 .. 1
    BY <2>1 DEF TypeOK
  <2>3. UNCHANGED <<iWorker, httpd, worker>> /\ waiters' \in {waiters, {}}
    OBVIOUS
  <2>4. phase' \in Phases
        /\ state' \in {"NotStarted", "Started", "Stopping", "Stopped", "Terminated"}
    BY DEF TypeOK, Phases
  <2> QED BY <2>1, <2>2, <2>3, <2>4 DEF TypeOK
<1>2. HandshakeExclusive'
  BY DEF HandshakeExclusive
<1>3. NoStraySignal' /\ RightWorker'
  BY DEF NoStraySignal, RightWorker
<1>4. EveryWorkerWatched'
  BY DEF EveryWorkerWatched
<1>5. Handover'
  BY DEF Handover
<1>6. Household'
  BY DEF Household
<1> QED BY <1>1, <1>2, <1>3, <1>4, <1>5, <1>6

LEMMA DeathKeeps ==
    ASSUME IInv, NEW u \in Workers, WorkerDeath(u) \/ WorkerPanicked(u)
    PROVE  IInv'
<1> USE DEF WorkerDeath, WorkerPanicked, IInv, Exists, Inside, overseerVars, threadVars
<1>1. TypeOK'
  BY DEF TypeOK, Phases
<1>2. HandshakeExclusive'
  BY DEF HandshakeExclusive
<1>3. NoStraySignal' /\ RightWorker'
  BY DEF NoStraySignal, RightWorker
<1>4. EveryWorkerWatched'
  BY DEF EveryWorkerWatched
<1>5. Handover' /\ Household'
  BY DEF Handover, Household
<1> QED BY <1>1, <1>2, <1>3, <1>4, <1>5

\* Apache's steps outside the callback.
LEMMA WorkerKeeps ==
    ASSUME IInv, NEW u \in Workers, Lives,
           Spawn(u) \/ Join(u) \/ WorkerExits(u) \/ WorkerPanics(u)
    PROVE  IInv'
<1> USE DEF Spawn, Join, WorkerExits, WorkerPanics, IInv, Exists, Inside, overseerVars,
            threadVars
<1>1. TypeOK'
  BY DEF TypeOK
<1>2. HandshakeExclusive'
  BY DEF TypeOK, HandshakeExclusive
<1>3. NoStraySignal' /\ RightWorker'
  BY DEF TypeOK, NoStraySignal, RightWorker
<1>4. EveryWorkerWatched'
  BY DEF TypeOK, EveryWorkerWatched
<1>5. Handover'
  BY DEF TypeOK, Handover, Past
<1>6. Household'
  BY DEF TypeOK, Household
<1> QED BY <1>1, <1>2, <1>3, <1>4, <1>5, <1>6

LEMMA HttpdKeeps ==
    ASSUME IInv, Lives, HttpdReturns \/ HttpdPanics \/ HttpdExits
    PROVE  IInv'
<1> USE DEF HttpdReturns, HttpdPanics, HttpdExits, Lives, IInv, Exists, Inside,
            overseerVars, threadVars
<1>1. TypeOK'
  BY DEF TypeOK, Phases
<1>2. HandshakeExclusive'
  BY DEF HandshakeExclusive
<1>3. NoStraySignal' /\ RightWorker'
  BY DEF NoStraySignal, RightWorker
<1>4. EveryWorkerWatched'
  BY DEF EveryWorkerWatched
<1>5. Handover' /\ Household'
  BY DEF Handover, Household
<1> QED BY <1>1, <1>2, <1>3, <1>4, <1>5

LEMMA StutterKeeps == IInv /\ UNCHANGED vars => IInv'
<1> SUFFICES ASSUME IInv, UNCHANGED vars PROVE IInv'
  OBVIOUS
<1> USE DEF vars, overseerVars, threadVars, IInv, Exists, Inside
<1>1. TypeOK' /\ Handover' /\ Household'
  BY DEF TypeOK, Handover, Household
<1>2. HandshakeExclusive' /\ NoStraySignal' /\ RightWorker' /\ EveryWorkerWatched'
  BY DEF HandshakeExclusive, NoStraySignal, RightWorker, EveryWorkerWatched
<1> QED BY <1>1, <1>2

LEMMA NextKeeps == IInv /\ [Next]_vars => IInv'
<1> SUFFICES ASSUME IInv, [Next]_vars PROVE IInv'
  OBVIOUS
<1>1. CASE Apache
  <2>1. CASE HttpdReturns \/ HttpdPanics \/ HttpdExits
    BY <1>1, <2>1, HttpdKeeps DEF Apache
  <2>2. ASSUME NEW w \in Workers,
               Spawn(w) \/ Join(w) \/ WorkerExits(w) \/ WorkerPanics(w)
        PROVE  IInv'
    BY <1>1, <2>2, WorkerKeeps DEF Apache
  <2>3. ASSUME NEW w \in Workers, Callback(w)
        PROVE  IInv'
    BY <1>1, <2>3, WaitKeeps, WaitPanicsKeeps, WriteKeeps, CompleteKeeps
       DEF Apache, Callback
  <2> QED BY <1>1, <2>1, <2>2, <2>3 DEF Apache
<1>2. CASE Server
  <2>1. CASE RunL
    BY <2>1, WatchKeeps
  <2>2. CASE StartHttpd \/ StartHttpdFails
    BY <2>2, ActivateKeeps
  <2>3. CASE \/ StartHttpdLeaves \/ StopHttpd \/ Detach \/ HttpdDeath
             \/ DeleteWaiters \/ DeleteOverseer \/ MainReturns
    BY <2>3, ServerKeeps
  <2>4. ASSUME NEW w \in Workers, WorkerDeath(w) \/ WorkerPanicked(w)
        PROVE  IInv'
    BY <2>4, DeathKeeps
  <2> QED BY <1>2, <2>1, <2>2, <2>3, <2>4 DEF Server
<1>3. CASE Gone \/ UNCHANGED vars
  BY <1>3, StutterKeeps DEF Gone
<1> QED BY <1>1, <1>2, <1>3 DEF Next

LEMMA Invariance == Spec => []IInv
BY InitIInv, NextKeeps, PTL DEF Spec

-----------------------------------------------------------------------------
\* Workers are handed over one at a time, however many call back at once; the
\* server reads the id of the one that signalled, no signal panics it, and none
\* of the workers waits while nobody would let it in.
THEOREM HandshakeSafe == Spec => []Handshake
<1>1. IInv => NoneTurnedAway
  <2> SUFFICES ASSUME IInv, phase = "serving", NEW w \in Workers, worker[w] = "calling",
                      ~(active /\ complete), \A v \in Workers : ~Inside(v)
               PROVE  semaphore > 0
    BY DEF NoneTurnedAway
  <2>1. active /\ ~complete
    BY DEF IInv, TypeOK, Household
  <2>2. semaphore = 1
    BY <2>1 DEF IInv, HandshakeExclusive, Exists
  <2> QED BY <2>2
<1>2. IInv => Handshake
  BY <1>1 DEF IInv, Handshake
<1> QED BY <1>2, Invariance, PTL

\* Every variable stays in its type; the semaphore counts no further than one.
THEOREM OverseerTypeCorrect == Spec => []TypeOK
<1>1. IInv => TypeOK
  BY DEF IInv
<1> QED BY <1>1, Invariance, PTL

\* No worker that runs or has paniced escapes the server's notice.
THEOREM NoneEscapes == Spec => []EveryWorkerWatched
<1>1. IInv => EveryWorkerWatched
  BY DEF IInv
<1> QED BY <1>1, Invariance, PTL
=============================================================================
