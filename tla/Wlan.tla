-------------------------------- MODULE Wlan --------------------------------
(***************************************************************************)
(* CWLAN of the application: what it knows of the wireless network, what   *)
(* the main view shows of it, and the connection the user has activated.   *)
(*                                                                         *)
(* The interface monitor waits for interfaces to come up; when a wireless  *)
(* one does, the connection monitor is moved to it and the view is told.   *)
(* The connection monitor waits for the progress of that one connection    *)
(* and tells the view when it has gone.  Both are active objects of one    *)
(* scheduler, of the same priority: either may run first.                  *)
(*                                                                         *)
(* The socket server is external: it keeps the notifications of interfaces *)
(* in order, reports the end of a connection to whoever is attached to it, *)
(* and refuses to attach to one that is gone.  Other bearers only pass by. *)
(***************************************************************************)
EXTENDS Naturals, Sequences, FiniteSets

CONSTANTS
    Waps,      \* wireless access points
    None,      \* none of them
    MaxUp,     \* bound: interfaces up at a time
    MaxNews,   \* bound: notifications not delivered yet
    Faults     \* the failures the environment may inject

ASSUME BoundsAssumption ==
    /\ IsFiniteSet(Waps) /\ None \notin Waps
    /\ MaxUp \in Nat \ {0} /\ MaxNews \in Nat \ {0}

FaultKinds == {"error", "address", "start", "lookup", "attach"}

ASSUME FaultsAssumption == Faults \subseteq FaultKinds

VARIABLES
    up,            \* the wireless interfaces that are up
    news,          \* interfaces reported up, not yet handled
    missed,        \* history: interfaces that are up, whose coming was lost to an
                   \* error that the code ignores
    listening,     \* the interface monitor: "off", "waiting" or "failed"
    iActive,       \* the connection monitor has a request outstanding
    iMonitoring,   \* its iMonitoring
    iInfo,         \* its iInfo
    ended,         \* the connection it is attached to has gone
    shown,         \* the view is there and attached to CWLAN
    label,         \* what its labels show
    iActivated,    \* CImp's iActivated
    iConnection,   \* what CImp's own connection is attached to
    asking         \* the dialog of ActivateWLANL is open

networkVars == <<up, news, missed>>
monitorVars == <<iActive, iMonitoring, iInfo, ended>>
viewVars == <<shown, label>>
ownVars == <<iActivated, iConnection, asking>>
vars == <<networkVars, listening, monitorVars, viewVars, ownVars>>

\* Of the type; and nothing is queued for a monitor that does not wait.
TypeOK ==
    /\ up \subseteq Waps
    /\ news \in Seq(Waps)
    /\ missed \subseteq up
    /\ news # <<>> => listening = "waiting"
    /\ listening \in {"off", "waiting", "failed"}
    /\ iActive \in BOOLEAN
    /\ iMonitoring \in BOOLEAN
    /\ iInfo \in Waps \cup {None}
    /\ ended \in BOOLEAN
    /\ shown \in BOOLEAN
    /\ label \in Waps \cup {None}
    /\ iActivated \in BOOLEAN
    /\ iConnection \in Waps \cup {None}
    /\ asking \in BOOLEAN

\* The application has not been started: there is no CWLAN.
Init ==
    /\ up \in {u \in SUBSET Waps : Cardinality(u) <= MaxUp}
    /\ news = <<>>
    /\ missed = {}
    /\ listening = "off"
    /\ iActive = FALSE
    /\ iMonitoring = FALSE
    /\ iInfo = None
    /\ ended = FALSE
    /\ shown = FALSE
    /\ label = None
    /\ iActivated = FALSE
    /\ iConnection = None
    /\ asking = FALSE

There == listening # "off"

-----------------------------------------------------------------------------
(* The network.                                                            *)

Announce(w) == news' = IF listening = "waiting" THEN Append(news, w) ELSE news

InterfaceUp(w) ==
    /\ w \notin up
    /\ Cardinality(up) < MaxUp /\ Len(news) < MaxNews
    /\ up' = up \cup {w}
    /\ Announce(w)
    /\ UNCHANGED <<missed, listening, monitorVars, viewVars, ownVars>>

InterfaceDown(w) ==
    /\ w \in up
    /\ up' = up \ {w}
    /\ missed' = missed \ {w}
    /\ ended' = (ended \/ (iMonitoring /\ iInfo = w))
    /\ UNCHANGED <<news, listening, iActive, iMonitoring, iInfo, viewVars, ownVars>>

-----------------------------------------------------------------------------
(* The monitors.                                                           *)

\* Notify with an open stage reaches CMainContainer::UpdateL; without an
\* address both labels are left empty.
Show(w) ==
    IF shown THEN label' \in {w} \cup (IF "address" \in Faults THEN {None} ELSE {})
             ELSE label' = label

\* CConnectionMonitor::StartL, where it does not leave.
StartMonitor(w) ==
    /\ iActive' = TRUE
    /\ iMonitoring' = TRUE
    /\ iInfo' = w
    /\ ended' = FALSE

\* Wrong: iMonitoring stays.
StopMonitorHalf ==
    /\ iActive' = FALSE
    /\ ended' = FALSE
    /\ UNCHANGED <<iMonitoring, iInfo>>

\* CConnectionMonitor::Stop.
StopMonitor ==
    /\ iActive' = FALSE
    /\ iMonitoring' = FALSE
    /\ ended' = FALSE
    /\ UNCHANGED iInfo

\* Wrong: what is monitored is not stopped first, and StartL leaves with
\* KErrInUse.
UpdateWithoutStop(w) ==
    \/ /\ ~iActive /\ w \in up
       /\ StartMonitor(w) /\ Show(w)
       /\ missed' = missed \ {w}
    \/ (iActive \/ w \notin up) /\ UNCHANGED <<monitorVars, label, missed>>

\* UpdateL of the interface monitor's notification: stops what is monitored,
\* moves to the new one and tells the view.  StartL leaves in between if the new
\* one has gone again or cannot be attached to; and if its bearer cannot be
\* looked up nothing is done at all.
Update(w) ==
    \/ /\ w \in up
       /\ iActive => iMonitoring
       /\ StartMonitor(w)
       /\ Show(w)
       /\ missed' = missed \ {w}
    \/ /\ w \notin up \/ "attach" \in Faults
       /\ IF iMonitoring THEN StopMonitor ELSE UNCHANGED monitorVars
       /\ missed' = missed \cup (up \cap {w})
       /\ UNCHANGED label
    \/ /\ "lookup" \in Faults
       /\ missed' = missed \cup (up \cap {w})
       /\ UNCHANGED <<monitorVars, label>>

\* CInterfaceMonitor::RunL asks again after it has told its observers.
InterfaceRunL ==
    /\ listening = "waiting" /\ news # <<>>
    /\ Update(Head(news))
    /\ news' = Tail(news)
    /\ UNCHANGED <<up, listening, shown, ownVars>>

\* ErrorL does nothing: the monitor will not ask again.
InterfaceError ==
    /\ listening = "waiting" /\ "error" \in Faults
    /\ listening' = "failed"
    /\ news' = <<>>
    /\ UNCHANGED <<up, missed, monitorVars, viewVars, ownVars>>

\* CConnectionMonitor::RunL: progress short of the end.
ConnectionProgress ==
    /\ iActive
    /\ Show(iInfo)
    /\ UNCHANGED <<networkVars, listening, monitorVars, shown, ownVars>>

\* Wrong: stopped, and nobody told.
ConnectionEndsSilently ==
    /\ iActive /\ ended
    /\ StopMonitor
    /\ UNCHANGED <<networkVars, listening, viewVars, ownVars>>

\* CConnectionMonitor::RunL: the stage is KConnectionUninitialised.
ConnectionEnds ==
    /\ iActive /\ ended
    /\ label' = None
    /\ StopMonitor
    /\ UNCHANGED <<networkVars, listening, shown, ownVars>>

-----------------------------------------------------------------------------
(* The application.                                                        *)

\* ConstructL: the monitors are attached, and then a wireless connection that is
\* there is monitored at once, one that has come up since included.  If the
\* look-up leaves, that is ignored.
Construct ==
    /\ ~There
    /\ listening' = "waiting"
    /\ \/ UNCHANGED <<up, news>>
       \/ \E w \in Waps \ up :
             Cardinality(up) < MaxUp /\ up' = up \cup {w} /\ news' = <<w>>
    /\ \/ up' = {} /\ missed' = {} /\ UNCHANGED monitorVars
       \/ missed' = {} /\ \E w \in up' : StartMonitor(w)
       \/ "lookup" \in Faults /\ missed' = up /\ UNCHANGED monitorVars
    /\ UNCHANGED <<viewVars, ownVars>>

\* The application ends: the destructor.  If ConstructL has to leave, there is
\* no application either.
Destroy ==
    /\ There /\ ~shown /\ ~asking
    /\ listening' = "off"
    /\ news' = <<>>
    /\ missed' = {}
    /\ iActive' = FALSE /\ iMonitoring' = FALSE /\ iInfo' = None /\ ended' = FALSE
    /\ iActivated' = FALSE /\ iConnection' = None
    /\ UNCHANGED <<up, viewVars, asking>>

\* Wrong: the container is told nothing when it attaches.
DoActivateBlank ==
    /\ There /\ ~shown
    /\ shown' = TRUE
    /\ label' = None
    /\ UNCHANGED <<networkVars, listening, monitorVars, ownVars>>

\* DoActivateL: a new container attaches itself, and is shown what is monitored.
DoActivate ==
    /\ There /\ ~shown
    /\ shown' = TRUE
    /\ IF iMonitoring
       THEN label' \in {iInfo} \cup (IF "address" \in Faults THEN {None} ELSE {})
       ELSE label' = None
    /\ UNCHANGED <<networkVars, listening, monitorVars, ownVars>>

DoDeactivate ==
    /\ shown
    /\ shown' = FALSE
    /\ label' = None
    /\ UNCHANGED <<networkVars, listening, monitorVars, ownVars>>

\* ActivateWLANL asks the user unless the connection is activated already.
Ask ==
    /\ There /\ ~asking /\ ~iActivated
    /\ asking' = TRUE
    /\ UNCHANGED <<networkVars, listening, monitorVars, viewVars, iActivated, iConnection>>

\* CImp::ActivateL, from the menu or after the dialog: what was held is closed;
\* a connection that is up is attached to.
Attach ==
    /\ There
    /\ \E w \in up : iConnection' = w
    /\ iActivated' = TRUE
    /\ asking' = FALSE
    /\ UNCHANGED <<networkVars, listening, monitorVars, viewVars>>

\* It goes down before it is attached to.
AttachGone ==
    /\ There
    /\ \E w \in up :
          /\ up' = up \ {w}
          /\ missed' = missed \ {w}
          /\ ended' = (ended \/ (iMonitoring /\ iInfo = w))
    /\ iActivated' = FALSE
    /\ iConnection' = None
    /\ asking' = FALSE
    /\ UNCHANGED <<news, listening, iActive, iMonitoring, iInfo, viewVars>>

\* The connection cannot be opened, the look-up leaves, or the one that is up
\* cannot be attached to.
ActivateLeaves ==
    /\ There
    /\ "lookup" \in Faults \/ (up # {} /\ "attach" \in Faults)
    /\ iActivated' = FALSE
    /\ iConnection' = None
    /\ asking' = FALSE
    /\ UNCHANGED <<networkVars, listening, monitorVars, viewVars>>

\* Otherwise one is started, the user choosing it; the user may cancel, or the
\* start fail.
Start ==
    /\ There /\ up = {} /\ Len(news) < MaxNews
    /\ \/ \E w \in Waps :
             /\ up' = {w}
             /\ Announce(w)
             /\ UNCHANGED missed
             /\ iActivated' = TRUE /\ iConnection' = w
       \/ /\ "start" \in Faults
          /\ UNCHANGED networkVars
          /\ iActivated' = FALSE /\ iConnection' = None
    /\ asking' = FALSE
    /\ UNCHANGED <<listening, monitorVars, viewVars>>

\* The dialog is dismissed.
Dismiss ==
    /\ asking
    /\ asking' = FALSE
    /\ UNCHANGED <<networkVars, listening, monitorVars, viewVars, iActivated, iConnection>>

Close ==
    /\ There
    /\ iActivated' = FALSE /\ iConnection' = None
    /\ UNCHANGED <<networkVars, listening, monitorVars, viewVars, asking>>

Next ==
    \/ \E w \in Waps : InterfaceUp(w) \/ InterfaceDown(w)
    \/ InterfaceRunL \/ InterfaceError \/ ConnectionProgress \/ ConnectionEnds
    \/ Construct \/ Destroy \/ DoActivate \/ DoDeactivate
    \/ Ask \/ Attach \/ AttachGone \/ ActivateLeaves \/ Start \/ Dismiss \/ Close

\* The application's scheduler serves both monitors.
Fairness == WF_vars(InterfaceRunL) /\ WF_vars(ConnectionEnds)

Spec == Init /\ [][Next]_vars /\ Fairness

-----------------------------------------------------------------------------
(* Properties.                                                             *)

\* A request is outstanding exactly while a connection is monitored, so that
\* moving the monitor never leaves with KErrInUse and the end of what is
\* monitored is always noticed.
MonitorConsistent ==
    /\ TypeOK
    /\ iActive = iMonitoring
    /\ iMonitoring => iInfo # None /\ There
    /\ iMonitoring /\ ~ended => iInfo \in up

\* With one interface at a time, the last notification to handle is of the one
\* that is up; and when all are handled that one is monitored, not as one that has
\* gone before, unless its coming was lost to an error that is ignored.
NothingMissed ==
    MaxUp = 1 /\ listening = "waiting" =>
        \A w \in up :
            IF news = <<>> THEN w \in missed \/ (iMonitoring /\ iInfo = w /\ ~ended)
                           ELSE news[Len(news)] = w

\* The monitors are in step with each other and with the network.
MonitorSound == MonitorConsistent /\ NothingMissed

\* While a connection is monitored the view shows it, in whatever order view,
\* connection and interface came and went; without an address it shows none.
LabelAgrees ==
    shown /\ iMonitoring =>
        label = iInfo \/ (label = None /\ "address" \in Faults)

\* A label outlives its monitor only if StartL has left for the very interface
\* whose notification was handled: it had gone again, or it could not be attached
\* to.
OnlyFailedStartOrphans ==
    [][ iMonitoring /\ ~iMonitoring' /\ label' # None =>
            /\ news # <<>> /\ news' = Tail(news)
            /\ Head(news) \notin up \/ Head(news) \in missed' ]_vars

\* With one interface at a time, one that comes up and stays is monitored,
\* unless there is no application, the notifications have failed, or an error in
\* handling its own was ignored.
UpIsMonitored ==
    \A w \in Waps :
        w \in up ~> ( \/ w \notin up
                      \/ listening # "waiting"
                      \/ w \in missed
                      \/ iMonitoring /\ iInfo = w )

\* What is shown and has gone does not stay shown while anything is monitored.
LabelCorrected ==
    \A w \in Waps :
        label = w /\ w \notin up ~> label # w \/ w \in up \/ ~iMonitoring

\* The application follows the network, whichever monitor runs first.
NetworkFollowed == UpIsMonitored /\ LabelCorrected
=============================================================================
