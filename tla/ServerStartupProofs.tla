------------------------ MODULE ServerStartupProofs ------------------------
(***************************************************************************)
(* The invariants of ServerStartup, for any number of clients and server   *)
(* processes, any settings and any faults; and what the settings of the    *)
(* next start are, for all settings there can be.                          *)
(***************************************************************************)
EXTENDS ServerStartup, TLAPS

Up == {"registered", "serving"}

\* The name belongs to the one process that has registered it.
Named ==
    \A s \in Servers : name = s <=> proc[s] \in Up

\* The semaphore belongs to the one client that is starting a server.
Owned ==
    \A c \in Clients : semOwner = c <=> client[c] \in {"created", "waiting", "released"}

\* A process that was started for a client signals before it serves.
Launched ==
    \A c \in Clients :
        client[c] = "waiting" =>
            /\ launched[c] \in Servers
            /\ proc[launched[c]] # "none"
            /\ proc[launched[c]] \in {"serving", "ended"} => semCount > 0

\* Only a process that serves writes, and what a process that was not overtaken
\* has in memory is what was written last.
Stored ==
    \A s \in Servers :
        /\ writing[s] # None => proc[s] = "serving"
        /\ proc[s] \in Up \cup {"read"} /\ s \notin overtaken => iSettings[s] = file

\* A signal was given by a process that serves, or has served.
Signalled ==
    (semCount > 0 \/ \E c \in Clients : client[c] = "released") =>
        \E s \in Servers : proc[s] \in {"serving", "ended"}

IInv == TypeOK /\ Named /\ Owned /\ Launched /\ Signalled /\ Stored

LEMMA InitIInv == Init => IInv
<1> SUFFICES ASSUME Init PROVE IInv
  OBVIOUS
<1> USE ValuesAssumption, NoneAssumption DEF Init
<1>1. TypeOK
  <2>1. file \in Values /\ iSettings \in [Servers -> Values]
    OBVIOUS
  <2>2. /\ client \in [Clients -> {"idle"}] /\ launched \in [Clients -> {None}]
        /\ proc \in [Servers -> {"none"}] /\ writing \in [Servers -> {None}]
    OBVIOUS
  <2>3. semCount \in Nat /\ ~(semCount > 0)
    OBVIOUS
  <2>4. torn \in BOOLEAN /\ overtaken \subseteq Servers
    OBVIOUS
  <2> QED BY <2>1, <2>2, <2>3, <2>4 DEF TypeOK
<1>2. Named /\ Owned /\ Launched
  BY DEF Named, Owned, Launched, Up
<1>3. Signalled /\ Stored
  BY DEF Signalled, Stored, Up
<1> QED BY <1>1, <1>2, <1>3 DEF IInv

-----------------------------------------------------------------------------
(* The clients.                                                            *)

LEMMA FindKeeps == ASSUME IInv, NEW c \in Clients, Find(c) PROVE IInv'
<1> USE NoneAssumption DEF IInv, Find, At, connectVars, storeVars
<1>1. TypeOK'
  BY ValuesAssumption DEF TypeOK
<1>2. Named'
  BY DEF Named, Up, TypeOK
<1>3. Owned'
  BY DEF Owned, TypeOK
<1>4. Launched'
  BY DEF Launched, Owned, Named, Up, TypeOK
<1>5. Signalled'
  BY DEF Signalled, Named, Owned, Up, TypeOK
<1>6. Stored'
  BY DEF Stored, Named, Up, TypeOK
<1> QED BY <1>1, <1>2, <1>3, <1>4, <1>5, <1>6

LEMMA CreateSemaphoreKeeps == ASSUME IInv, NEW c \in Clients, CreateSemaphore(c) PROVE IInv'
<1> USE NoneAssumption DEF IInv, CreateSemaphore, At, connectVars, storeVars
<1>1. TypeOK'
  BY ValuesAssumption DEF TypeOK
<1>2. Named'
  BY DEF Named, Up, TypeOK
<1>3. Owned'
  BY DEF Owned, TypeOK
<1>4. Launched'
  BY DEF Launched, Owned, Named, Up, TypeOK
<1>5. Signalled'
  BY DEF Signalled, Named, Owned, Up, TypeOK
<1>6. Stored'
  BY DEF Stored, Named, Up, TypeOK
<1> QED BY <1>1, <1>2, <1>3, <1>4, <1>5, <1>6

LEMMA CreateServerKeeps == ASSUME IInv, NEW c \in Clients, CreateServer(c) PROVE IInv'
<1> USE NoneAssumption DEF IInv, CreateServer, At, connectVars, storeVars
<1>1. TypeOK'
  BY ValuesAssumption DEF TypeOK
<1>2. Named'
  BY DEF Named, Up, TypeOK
<1>3. Owned'
  BY DEF Owned, TypeOK
<1>4. Launched'
  BY DEF Launched, Owned, Named, Up, TypeOK
<1>5. Signalled'
  BY DEF Signalled, Named, Owned, Up, TypeOK
<1>6. Stored'
  BY DEF Stored, Named, Up, TypeOK
<1> QED BY <1>1, <1>2, <1>3, <1>4, <1>5, <1>6

LEMMA CreateServerFailsKeeps == ASSUME IInv, NEW c \in Clients, CreateServerFails(c) PROVE IInv'
<1> USE NoneAssumption DEF IInv, CreateServerFails, At, connectVars, storeVars
<1>1. TypeOK'
  BY ValuesAssumption DEF TypeOK
<1>2. Named'
  BY DEF Named, Up, TypeOK
<1>3. Owned'
  BY DEF Owned, TypeOK
<1>4. Launched'
  BY DEF Launched, Owned, Named, Up, TypeOK
<1>5. Signalled'
  BY DEF Signalled, Named, Owned, Up, TypeOK
<1>6. Stored'
  BY DEF Stored, Named, Up, TypeOK
<1> QED BY <1>1, <1>2, <1>3, <1>4, <1>5, <1>6

LEMMA WaitKeeps == ASSUME IInv, NEW c \in Clients, Wait(c) PROVE IInv'
<1> USE NoneAssumption DEF IInv, Wait, At, connectVars, storeVars
<1>1. TypeOK'
  BY ValuesAssumption DEF TypeOK
<1>2. Named'
  BY DEF Named, Up, TypeOK
<1>3. Owned'
  BY DEF Owned, TypeOK
<1>4. Launched'
  BY DEF Launched, Owned, Named, Up, TypeOK
<1>5. Signalled'
  BY DEF Signalled, Named, Owned, Up, TypeOK
<1>6. Stored'
  BY DEF Stored, Named, Up, TypeOK
<1> QED BY <1>1, <1>2, <1>3, <1>4, <1>5, <1>6

LEMMA CloseSemaphoreKeeps == ASSUME IInv, NEW c \in Clients, CloseSemaphore(c) PROVE IInv'
<1> USE NoneAssumption DEF IInv, CloseSemaphore, At, connectVars, storeVars
<1>1. TypeOK'
  BY ValuesAssumption DEF TypeOK
<1>2. Named'
  BY DEF Named, Up, TypeOK
<1>3. Owned'
  BY DEF Owned, TypeOK
<1>4. Launched'
  BY DEF Launched, Owned, Named, Up, TypeOK
<1>5. Signalled'
  BY DEF Signalled, Named, Owned, Up, TypeOK
<1>6. Stored'
  BY DEF Stored, Named, Up, TypeOK
<1> QED BY <1>1, <1>2, <1>3, <1>4, <1>5, <1>6

LEMMA CreateSessionKeeps == ASSUME IInv, NEW c \in Clients, CreateSession(c) PROVE IInv'
<1> USE NoneAssumption DEF IInv, CreateSession, At, connectVars, storeVars
<1>1. TypeOK'
  BY ValuesAssumption DEF TypeOK
<1>2. Named'
  BY DEF Named, Up, TypeOK
<1>3. Owned'
  BY DEF Owned, TypeOK
<1>4. Launched'
  BY DEF Launched, Owned, Named, Up, TypeOK
<1>5. Signalled'
  BY DEF Signalled, Named, Owned, Up, TypeOK
<1>6. Stored'
  BY DEF Stored, Named, Up, TypeOK
<1> QED BY <1>1, <1>2, <1>3, <1>4, <1>5, <1>6

LEMMA CloseKeeps == ASSUME IInv, NEW c \in Clients, Close(c) PROVE IInv'
<1> USE NoneAssumption DEF IInv, Close, At, connectVars, storeVars
<1>1. TypeOK'
  BY ValuesAssumption DEF TypeOK
<1>2. Named'
  BY DEF Named, Up, TypeOK
<1>3. Owned'
  BY DEF Owned, TypeOK
<1>4. Launched'
  BY DEF Launched, Owned, Named, Up, TypeOK
<1>5. Signalled'
  BY DEF Signalled, Named, Owned, Up, TypeOK
<1>6. Stored'
  BY DEF Stored, Named, Up, TypeOK
<1> QED BY <1>1, <1>2, <1>3, <1>4, <1>5, <1>6

-----------------------------------------------------------------------------
(* The server processes.                                                   *)

LEMMA StartDirectlyKeeps == ASSUME IInv, NEW s \in Servers, StartDirectly(s) PROVE IInv'
<1> USE NoneAssumption DEF IInv, StartDirectly, connectVars, storeVars
<1>1. TypeOK'
  BY ValuesAssumption DEF TypeOK
<1>2. Named'
  BY DEF Named, Up, TypeOK
<1>3. Owned'
  BY DEF Owned, TypeOK
<1>4. Launched'
  BY DEF Launched, Owned, Named, Up, TypeOK
<1>5. Signalled'
  BY DEF Signalled, Named, Owned, Up, TypeOK
<1>6. Stored'
  BY DEF Stored, Named, Up, TypeOK
<1> QED BY <1>1, <1>2, <1>3, <1>4, <1>5, <1>6

LEMMA ReadSettingsKeeps == ASSUME IInv, NEW s \in Servers, ReadSettings(s) PROVE IInv'
<1> USE NoneAssumption DEF IInv, ReadSettings, connectVars, storeVars
<1>1. TypeOK'
  BY ValuesAssumption DEF TypeOK
<1>2. Named'
  BY DEF Named, Up, TypeOK
<1>3. Owned'
  BY DEF Owned, TypeOK
<1>4. Launched'
  BY DEF Launched, Owned, Named, Up, TypeOK
<1>5. Signalled'
  BY DEF Signalled, Named, Owned, Up, TypeOK
<1>6. Stored'
  BY DEF Stored, Named, Up, TypeOK
<1> QED BY <1>1, <1>2, <1>3, <1>4, <1>5, <1>6

LEMMA TakeNameKeeps == ASSUME IInv, NEW s \in Servers, TakeName(s) PROVE IInv'
<1> USE NoneAssumption DEF IInv, TakeName, connectVars, storeVars
<1>1. TypeOK'
  BY ValuesAssumption DEF TypeOK
<1>2. Named'
  BY DEF Named, Up, TypeOK
<1>3. Owned'
  BY DEF Owned, TypeOK
<1>4. Launched'
  BY DEF Launched, Owned, Named, Up, TypeOK
<1>5. Signalled'
  BY DEF Signalled, Named, Owned, Up, TypeOK
<1>6. Stored'
  BY DEF Stored, Named, Up, TypeOK
<1> QED BY <1>1, <1>2, <1>3, <1>4, <1>5, <1>6

LEMMA ConstructFailsKeeps == ASSUME IInv, NEW s \in Servers, ConstructFails(s) PROVE IInv'
<1> USE NoneAssumption DEF IInv, ConstructFails, ConstructionFails, Forget, connectVars, storeVars
<1>1. TypeOK'
  BY ValuesAssumption DEF TypeOK
<1>2. Named'
  BY DEF Named, Up, TypeOK
<1>3. Owned'
  BY DEF Owned, TypeOK
<1>4. Launched'
  BY DEF Launched, Owned, Named, Up, TypeOK
<1>5. Signalled'
  BY DEF Signalled, Named, Owned, Up, TypeOK
<1>6. Stored'
  BY DEF Stored, Named, Up, TypeOK
<1> QED BY <1>1, <1>2, <1>3, <1>4, <1>5, <1>6

LEMMA SignalKeeps == ASSUME IInv, NEW s \in Servers, Signal(s) PROVE IInv'
<1> USE NoneAssumption DEF IInv, Signal, connectVars, storeVars
<1>1. TypeOK'
  BY ValuesAssumption DEF TypeOK
<1>2. Named'
  BY DEF Named, Up, TypeOK
<1>3. Owned'
  BY DEF Owned, TypeOK
<1>4. Launched'
  BY DEF Launched, Owned, Named, Up, TypeOK
<1>5. Signalled'
  BY DEF Signalled, Named, Owned, Up, TypeOK
<1>6. Stored'
  BY DEF Stored, Named, Up, TypeOK
<1> QED BY <1>1, <1>2, <1>3, <1>4, <1>5, <1>6

LEMMA SignalFailsKeeps == ASSUME IInv, NEW s \in Servers, SignalFails(s) PROVE IInv'
<1> USE NoneAssumption DEF IInv, SignalFails, Die, Forget, connectVars, storeVars
<1>1. TypeOK'
  BY ValuesAssumption DEF TypeOK
<1>2. Named'
  BY DEF Named, Up, TypeOK
<1>3. Owned'
  BY DEF Owned, TypeOK
<1>4. Launched'
  BY DEF Launched, Owned, Named, Up, TypeOK
<1>5. Signalled'
  BY DEF Signalled, Named, Owned, Up, TypeOK
<1>6. Stored'
  BY DEF Stored, Named, Up, TypeOK
<1> QED BY <1>1, <1>2, <1>3, <1>4, <1>5, <1>6

LEMMA EndKeeps == ASSUME IInv, NEW s \in Servers, End(s) PROVE IInv'
<1> USE NoneAssumption DEF IInv, End, Die, Forget, connectVars, storeVars
<1>1. TypeOK'
  BY ValuesAssumption DEF TypeOK
<1>2. Named'
  BY DEF Named, Up, TypeOK
<1>3. Owned'
  BY DEF Owned, TypeOK
<1>4. Launched'
  BY DEF Launched, Owned, Named, Up, TypeOK
<1>5. Signalled'
  BY DEF Signalled, Named, Owned, Up, TypeOK
<1>6. Stored'
  BY DEF Stored, Named, Up, TypeOK
<1> QED BY <1>1, <1>2, <1>3, <1>4, <1>5, <1>6

LEMMA CommitKeeps == ASSUME IInv, NEW s \in Servers, Commit(s) PROVE IInv'
<1> USE NoneAssumption DEF IInv, Commit, connectVars, storeVars
<1>1. TypeOK'
  BY ValuesAssumption DEF TypeOK
<1>2. Named'
  BY DEF Named, Up, TypeOK
<1>3. Owned'
  BY DEF Owned, TypeOK
<1>4. Launched'
  BY DEF Launched, Owned, Named, Up, TypeOK
<1>5. Signalled'
  BY DEF Signalled, Named, Owned, Up, TypeOK
<1>6. Stored'
  BY DEF Stored, Named, Up, TypeOK
<1> QED BY <1>1, <1>2, <1>3, <1>4, <1>5, <1>6

LEMMA CommitFailsKeeps == ASSUME IInv, NEW s \in Servers, CommitFails(s) PROVE IInv'
<1> USE NoneAssumption DEF IInv, CommitFails, connectVars, storeVars
<1>1. TypeOK'
  BY ValuesAssumption DEF TypeOK
<1>2. Named'
  BY DEF Named, Up, TypeOK
<1>3. Owned'
  BY DEF Owned, TypeOK
<1>4. Launched'
  BY DEF Launched, Owned, Named, Up, TypeOK
<1>5. Signalled'
  BY DEF Signalled, Named, Owned, Up, TypeOK
<1>6. Stored'
  BY DEF Stored, Named, Up, TypeOK
<1> QED BY <1>1, <1>2, <1>3, <1>4, <1>5, <1>6

LEMMA ReplaceKeeps == ASSUME IInv, NEW s \in Servers, NEW v \in Values, Replace(s, v) PROVE IInv'
<1> USE NoneAssumption DEF IInv, Replace, connectVars, storeVars
<1>1. TypeOK'
  BY ValuesAssumption DEF TypeOK
<1>2. Named'
  BY DEF Named, Up, TypeOK
<1>3. Owned'
  BY DEF Owned, TypeOK
<1>4. Launched'
  BY DEF Launched, Owned, Named, Up, TypeOK
<1>5. Signalled'
  BY DEF Signalled, Named, Owned, Up, TypeOK
<1>6. Stored'
  BY DEF Stored, Named, Up, TypeOK
<1> QED BY <1>1, <1>2, <1>3, <1>4, <1>5, <1>6

LEMMA StutterKeeps == ASSUME IInv, UNCHANGED vars PROVE IInv'
BY DEF IInv, vars, connectVars, storeVars, TypeOK, Named, Owned, Launched,
       Signalled, Stored, Up

LEMMA NextKeeps == IInv /\ [Next]_vars => IInv'
<1> SUFFICES ASSUME IInv, [Next]_vars PROVE IInv'
  OBVIOUS
<1>1. ASSUME NEW c \in Clients,
             \/ Find(c) \/ CreateSemaphore(c) \/ CreateServer(c) \/ CreateServerFails(c)
             \/ Wait(c) \/ CloseSemaphore(c) \/ CreateSession(c) \/ Close(c)
      PROVE  IInv'
  BY <1>1, FindKeeps, CreateSemaphoreKeeps, CreateServerKeeps, CreateServerFailsKeeps,
     WaitKeeps, CloseSemaphoreKeeps, CreateSessionKeeps, CloseKeeps
<1>2. ASSUME NEW s \in Servers,
             \/ StartDirectly(s) \/ ReadSettings(s) \/ TakeName(s) \/ ConstructFails(s)
             \/ Signal(s) \/ SignalFails(s) \/ End(s) \/ Commit(s) \/ CommitFails(s)
      PROVE  IInv'
  BY <1>2, StartDirectlyKeeps, ReadSettingsKeeps, TakeNameKeeps, ConstructFailsKeeps,
     SignalKeeps, SignalFailsKeeps, EndKeeps, CommitKeeps, CommitFailsKeeps
<1>3. ASSUME NEW s \in Servers, NEW v \in Values, Replace(s, v) PROVE IInv'
  BY <1>3, ReplaceKeeps
<1>4. CASE UNCHANGED vars
  BY <1>4, StutterKeeps
<1> QED BY <1>1, <1>2, <1>3, <1>4 DEF Next

LEMMA Invariance == Spec => []IInv
BY InitIInv, NextKeeps, PTL DEF Spec

-----------------------------------------------------------------------------
(* The settings of the next start.                                         *)

Fields == {"stack", "minHeap", "maxHeap"}

XmlRecords == [override : BOOLEAN, settings : Settings]

LEMMA FieldsOfSettings ==
    /\ Unset \in Settings
    /\ DOMAIN Unset = Fields
    /\ \A set \in Settings : \A f \in Fields : set[f] \in Nat
BY DEF Unset, Settings, Fields

\* The heap that FitHeap gives fits, and only its beginning is changed, to its end.
LEMMA FitHeapFits ==
    ASSUME NEW set \in Settings
    PROVE  /\ FitHeap(set) \in Settings
           /\ FitHeap(set).minHeap <= FitHeap(set).maxHeap
           /\ FitHeap(set).stack = set.stack /\ FitHeap(set).maxHeap = set.maxHeap
           /\ \/ FitHeap(set).minHeap = set.minHeap
              \/ FitHeap(set).minHeap = FitHeap(set).maxHeap
BY DEF FitHeap, Settings

LEMMA GivenOrStoredIsSettings ==
    ASSUME NEW given \in Settings, NEW stored \in Settings
    PROVE  GivenOrStored(given, stored) \in Settings
BY FieldsOfSettings DEF GivenOrStored, Settings, Fields

\* httpds.xml that does not override: at least what was asked for, or the default.
LEMMA WithXmlRaises ==
    ASSUME NEW wanted \in Settings, NEW xml \in XmlRecords
    PROVE  /\ WithXml(wanted, xml) \in Settings
           /\ ~xml.override =>
                 \A f \in Fields :
                     WithXml(wanted, xml)[f] >= IF wanted[f] = 0 THEN Default[f] ELSE wanted[f]
BY FieldsOfSettings, ValuesAssumption DEF WithXml, MaxOf, XmlRecords, Settings, Fields, Unset

-----------------------------------------------------------------------------
\* The variables keep their types.
THEOREM StartupTypeCorrect == Spec => []TypeOK
<1>1. IInv => TypeOK
  BY DEF IInv
<1> QED BY <1>1, Invariance, PTL

\* However many processes are started, one serves.
THEOREM OnlyOneServes == Spec => []OneServes
<1>1. IInv => OneServes
  BY DEF IInv, Named, Up, OneServes, Serving
<1> QED BY <1>1, Invariance, PTL

\* Nobody waits for a signal that has been given or that no process of its own
\* will give, and who is released finds the server or one that has ended.
THEOREM SignalsAreKept == Spec => []StartSound
<1>1. IInv => NoLostSignal
  BY DEF IInv, Owned, Launched, NoLostSignal
<1>2. IInv => ReleasedFindsServer
  BY NoneAssumption DEF IInv, Named, Up, Signalled, ReleasedFindsServer
<1>3. IInv => OneServes
  BY DEF IInv, Named, Up, OneServes, Serving
<1>4. IInv => StartSound
  BY <1>1, <1>2, <1>3 DEF StartSound
<1> QED BY <1>4, Invariance, PTL

\* For all settings: what is in memory is what was stored last, unless the process
\* was overtaken while it started; and what is stored or given reaches Apache, in
\* a heap that fits.
THEOREM NextStartsFit == Spec => []SettingsSound
<1>1. IInv => SettingsKept
  BY DEF IInv, Stored, Up, SettingsKept
<1>2. IInv => StoredReachesApache
  <2> SUFFICES ASSUME IInv, NEW s \in Servers, NEW given \in Values, NEW xml \in Xmls,
                      proc[s] = "serving", s \notin overtaken
               PROVE
      LET set == GetSettings(given, iSettings[s], xml)
      IN  /\ set.minHeap <= set.maxHeap
          /\ xml.override \/
                /\ set.stack >= Wanted(given, "stack")
                /\ set.maxHeap >= Wanted(given, "maxHeap")
                /\ set.minHeap >= Wanted(given, "minHeap")
                      \/ set.minHeap = set.maxHeap
    BY DEF StoredReachesApache
  <2> DEFINE asked == GivenOrStored(given, file)
             large == WithXml(asked, xml)
             set == FitHeap(large)
  <2>1. iSettings[s] = file
    BY <1>1 DEF SettingsKept
  <2>2. given \in Settings /\ file \in Settings /\ xml \in XmlRecords
    BY ValuesAssumption DEF IInv, TypeOK, XmlRecords
  <2>3. asked \in Settings
    BY <2>2, GivenOrStoredIsSettings
  <2>4. \A f \in Fields : Wanted(given, f) = IF asked[f] = 0 THEN Default[f] ELSE asked[f]
    BY <2>2, FieldsOfSettings DEF Wanted, GivenOrStored
  <2>5. /\ large \in Settings
        /\ ~xml.override => \A f \in Fields : large[f] >= Wanted(given, f)
    BY <2>2, <2>3, <2>4, WithXmlRaises
  <2>6. /\ set.minHeap <= set.maxHeap
        /\ set.stack = large.stack /\ set.maxHeap = large.maxHeap
        /\ set.minHeap = large.minHeap \/ set.minHeap = set.maxHeap
    BY <2>5, FitHeapFits
  <2>7. ~xml.override => /\ large.stack >= Wanted(given, "stack")
                         /\ large.maxHeap >= Wanted(given, "maxHeap")
                         /\ large.minHeap >= Wanted(given, "minHeap")
    BY <2>5 DEF Fields
  <2>8. GetSettings(given, iSettings[s], xml) = set
    BY <2>1 DEF GetSettings
  <2> HIDE DEF set, large
  <2> QED BY <2>6, <2>7, <2>8
<1>3. IInv => SettingsSound
  BY <1>1, <1>2 DEF SettingsSound
<1> QED BY <1>3, Invariance, PTL
-----------------------------------------------------------------------------
(* The start as the abstract life of a server.                             *)

Connected == {c \in Clients : client[c] = "connected"}

LEMMA LifeBegins == Init => Life!LifeInit
BY DEF Init, Life!LifeInit, Serving

\* What changes neither the processes that serve nor who is connected is no step
\* of the server's life.
Unseen == Serving' = Serving /\ Connected' = Connected

LEMMA UnseenStep == ASSUME Unseen PROVE UNCHANGED Life!lifeVars
BY DEF Unseen, Connected, Life!lifeVars

\* A client that goes from one place to another of which neither is a session.
LEMMA Moves ==
    ASSUME TypeOK, NEW c \in Clients, NEW pc, At(c, pc)
    PROVE  /\ client[c] # "connected" /\ pc # "connected" => Connected' = Connected
           /\ pc = "connected" => Connected' = Connected \cup {c}
           /\ pc # "connected" => Connected' = Connected \ {c}
BY DEF TypeOK, At, Connected

\* A process that serves neither before nor after, or both.
LEMMA ProcMoves ==
    ASSUME TypeOK, NEW s \in Servers, NEW pc, proc' = [proc EXCEPT ![s] = pc],
           proc[s] \in Up <=> pc \in Up
    PROVE  Serving' = Serving
BY DEF TypeOK, Serving, Up

LEMMA ClientLife ==
    ASSUME IInv, NEW c \in Clients,
           \/ Find(c) \/ CreateSemaphore(c) \/ CreateServer(c) \/ CreateServerFails(c)
           \/ Wait(c) \/ CloseSemaphore(c) \/ CreateSession(c) \/ Close(c)
    PROVE  [Life!LifeNext]_(Life!lifeVars)
<1> USE Moves DEF IInv
<1>1. CASE Find(c)
  <2>1. UNCHANGED proc /\ Connected' = Connected
    BY <1>1 DEF Find
  <2>2. QED  BY <2>1, UnseenStep DEF Unseen, Serving
<1>2. CASE CreateSemaphore(c)
  <2>1. UNCHANGED proc /\ Connected' = Connected
    BY <1>2 DEF CreateSemaphore
  <2>2. QED  BY <2>1, UnseenStep DEF Unseen, Serving
<1>3. CASE CreateServer(c)
  <2>1. Connected' = Connected
    BY <1>3 DEF CreateServer
  <2>2. PICK s \in Servers : proc[s] = "none" /\ proc' = [proc EXCEPT ![s] = "starting"]
    BY <1>3 DEF CreateServer
  <2>3. Serving' = Serving
    BY <2>2, ProcMoves DEF Up
  <2>4. QED  BY <2>1, <2>3, UnseenStep DEF Unseen
<1>4. CASE CreateServerFails(c) \/ Wait(c) \/ CloseSemaphore(c)
  <2>1. UNCHANGED proc /\ Connected' = Connected
    BY <1>4 DEF CreateServerFails, Wait, CloseSemaphore
  <2>2. QED  BY <2>1, UnseenStep DEF Unseen, Serving
<1>5. CASE CreateSession(c)
  <2>1. CASE name = None
    <3>1. UNCHANGED proc /\ Connected' = Connected
      BY <1>5, <2>1 DEF CreateSession
    <3>2. QED  BY <3>1, UnseenStep DEF Unseen, Serving
  <2>2. CASE name # None
    <3>1. name \in Servers /\ proc[name] \in Up
      BY <2>2 DEF TypeOK, Named
    <3>2. Serving # {} /\ Serving' = Serving
      BY <1>5, <3>1 DEF Serving, Up, CreateSession
    <3>3. Connected' = Connected \cup {c}
      BY <1>5, <2>2 DEF CreateSession
    <3>4. Life!Open(c)
      BY <3>2, <3>3 DEF Life!Open, Connected
    <3>5. QED  BY <3>4 DEF Life!LifeNext
  <2>3. QED  BY <2>1, <2>2
<1>6. CASE Close(c)
  <2>1. UNCHANGED proc /\ Connected' = Connected \ {c}
    BY <1>6 DEF Close
  <2>2. Life!Shut(c)
    BY <2>1 DEF Life!Shut, Serving, Connected
  <2>3. QED  BY <2>2 DEF Life!LifeNext
<1>7. QED  BY <1>1, <1>2, <1>3, <1>4, <1>5, <1>6

LEMMA ProcessLife ==
    ASSUME IInv, NEW s \in Servers,
           \/ StartDirectly(s) \/ ReadSettings(s) \/ TakeName(s) \/ ConstructFails(s)
           \/ Signal(s) \/ SignalFails(s) \/ End(s)
           \/ Commit(s) \/ CommitFails(s) \/ \E v \in Values : Replace(s, v)
    PROVE  [Life!LifeNext]_(Life!lifeVars)
<1> USE DEF IInv
<1>1. CASE StartDirectly(s) \/ ReadSettings(s) \/ ConstructFails(s) \/ Signal(s)
  <2>1. UNCHANGED client
    BY <1>1 DEF StartDirectly, ReadSettings, ConstructFails, Signal, connectVars
  <2>2. Serving' = Serving
    BY <1>1, ProcMoves
       DEF StartDirectly, ReadSettings, ConstructFails, ConstructionFails, Signal, Up
  <2>3. QED  BY <2>1, <2>2, UnseenStep DEF Unseen, Connected
<1>2. CASE Commit(s) \/ CommitFails(s) \/ \E v \in Values : Replace(s, v)
  <2>1. UNCHANGED <<client, proc>>
    BY <1>2 DEF Commit, CommitFails, Replace, connectVars
  <2>2. QED  BY <2>1, UnseenStep DEF Unseen, Connected, Serving
<1>3. CASE TakeName(s)
  <2>1. Serving = {}
    BY <1>3, NoneAssumption DEF TakeName, Named, Serving, Up
  <2>2. Serving' = {s}
    BY <1>3, <2>1 DEF TakeName, TypeOK, Serving
  <2>3. Life!Begin(s)
    BY <1>3, <2>1, <2>2 DEF TakeName, connectVars, Life!Begin
  <2>4. QED  BY <2>3 DEF Life!LifeNext
<1>4. CASE SignalFails(s) \/ End(s)
  <2>1. PICK end \in {"ended", "panicked"} : proc[s] \in Up /\ Die(s, end)
    BY <1>4 DEF End, SignalFails, Up
  <2>2. Serving = {s}
    BY <2>1 DEF Named, Serving, Up
  <2>3. Serving' = {}
    BY <2>1, <2>2 DEF Die, TypeOK, Serving
  <2>4. Connected' = {}
    BY <2>1 DEF Die, Connected
  <2>5. Life!End
    BY <2>2, <2>3, <2>4 DEF Life!End, Connected
  <2>6. QED  BY <2>5 DEF Life!LifeNext
<1>5. QED  BY <1>1, <1>2, <1>3, <1>4

\* The race of several clients for the start, and every failure of it, is the
\* abstract life of one server: HttpdServer may take Connect for one step.
THEOREM StartIsServerLife == Spec => ImplementsServerLife
<1>1. IInv /\ [Next]_vars => [Life!LifeNext]_(Life!lifeVars)
  <2> SUFFICES ASSUME IInv, [Next]_vars PROVE [Life!LifeNext]_(Life!lifeVars)
    OBVIOUS
  <2>1. CASE Next
    BY <2>1, ClientLife, ProcessLife DEF Next
  <2>2. CASE UNCHANGED vars
    BY <2>2, UnseenStep DEF vars, connectVars, Unseen, Connected, Serving
  <2> QED BY <2>1, <2>2
<1> QED BY <1>1, LifeBegins, Invariance, PTL DEF Spec, ImplementsServerLife, Life!LifeSpec
=============================================================================
