----------------------------- MODULE WlanProofs -----------------------------
(***************************************************************************)
(* The view and the connection monitor of the application agree, for any   *)
(* access points, any number of interfaces up at a time and any order of   *)
(* their coming, their going and the user's steps.                         *)
(***************************************************************************)
EXTENDS Wlan, FiniteSetTheorems, TLAPS

\* The view lives within the application; without a view no label shows
\* anything.
ViewWithin ==
    /\ shown => There
    /\ ~shown => label = None

\* The dialog, too, is only open while there is an application.
DialogWithin == asking => There

WlanInv == MonitorConsistent /\ ViewWithin /\ DialogWithin /\ LabelAgrees

-----------------------------------------------------------------------------
(* Lemmas about the operators of the model.                                *)

\* A notification goes to the end of the queue of a monitor that waits, and
\* nowhere otherwise.
LEMMA Announced ==
    ASSUME TypeOK, NEW w \in Waps, Announce(w)
    PROVE  news' \in Seq(Waps) /\ (news' # <<>> => listening = "waiting")
<1>1. CASE listening = "waiting"
  <2>1. news' = Append(news, w)
    BY <1>1 DEF Announce
  <2>2. QED  BY <1>1, <2>1 DEF TypeOK
<1>2. CASE listening # "waiting"
  <2>1. news' = news
    BY <1>2 DEF Announce
  <2>2. QED  BY <2>1 DEF TypeOK
<1>3. QED  BY <1>1, <1>2

\* What a view that is there shows of w is w, or nothing where the address
\* could not be had.
LEMMA Shown ==
    ASSUME TypeOK, NEW w \in Waps, Show(w)
    PROVE  /\ label' \in Waps \cup {None}
           /\ shown => label' = w \/ (label' = None /\ "address" \in Faults)
           /\ ~shown => label' = label
BY DEF TypeOK, Show

\* The next notification to handle is of an access point, and handling it
\* shortens the queue by one.
LEMMA Handled ==
    ASSUME TypeOK, news # <<>>
    PROVE  /\ Head(news) \in Waps
           /\ Tail(news) \in Seq(Waps)
           /\ Len(Tail(news)) < Len(news)
<1>1. news \in Seq(Waps)
  BY DEF TypeOK
<1>2. QED  BY <1>1

-----------------------------------------------------------------------------
(* The invariant, action by action.                                        *)

LEMMA NoNews == <<>> \in Seq(Waps)
OBVIOUS

LEMMA WlanInit == Init => WlanInv
BY NoNews, BoundsAssumption
   DEF Init, WlanInv, MonitorConsistent, TypeOK, ViewWithin, DialogWithin, LabelAgrees, There

\* The network: the connection that is monitored has ended by the time its
\* interface is down.
LEMMA NetworkKeeps ==
    ASSUME WlanInv, NEW w \in Waps, InterfaceUp(w) \/ InterfaceDown(w)
    PROVE  WlanInv'
<1> USE DEF WlanInv, MonitorConsistent, ViewWithin, DialogWithin, LabelAgrees, There
<1>1. CASE InterfaceUp(w)
  <2>1. news' \in Seq(Waps) /\ (news' # <<>> => listening = "waiting")
    BY <1>1, Announced DEF InterfaceUp
  <2>2. TypeOK'
    BY <1>1, <2>1 DEF InterfaceUp, TypeOK, monitorVars, viewVars, ownVars
  <2>3. QED
    BY <1>1, <2>2 DEF InterfaceUp, monitorVars, viewVars, ownVars
<1>2. CASE InterfaceDown(w)
  <2>1. TypeOK'
    BY <1>2 DEF InterfaceDown, TypeOK, viewVars, ownVars
  <2>2. iMonitoring' /\ ~ended' => iInfo' \in up'
    BY <1>2 DEF InterfaceDown
  <2>3. QED
    BY <1>2, <2>1, <2>2 DEF InterfaceDown, viewVars, ownVars
<1>3. QED  BY <1>1, <1>2

\* The interface monitor: whether it moves the connection monitor or StartL
\* leaves or the look-up does, monitor and labels are left in agreement.
LEMMA InterfaceRunKeeps ==
    ASSUME WlanInv, InterfaceRunL
    PROVE  WlanInv'
<1> DEFINE w == Head(news)
<1> USE DEF WlanInv, MonitorConsistent, ViewWithin, DialogWithin, LabelAgrees, There
<1>1. w \in Waps /\ Tail(news) \in Seq(Waps)
  BY Handled DEF InterfaceRunL
<1>2. /\ news' = Tail(news)
      /\ listening = "waiting"
      /\ UNCHANGED <<up, listening, shown, iActivated, iConnection, asking>>
  BY DEF InterfaceRunL, ownVars
<1>3. CASE /\ w \in up
           /\ StartMonitor(w)
           /\ Show(w)
           /\ missed' = missed \ {w}
  <2> HIDE DEF w
  <2>1. /\ label' \in Waps \cup {None}
        /\ shown => label' = w \/ (label' = None /\ "address" \in Faults)
        /\ ~shown => label' = label
    BY <1>1, <1>3, Shown
  <2>2. TypeOK'
    BY <1>1, <1>2, <1>3, <2>1 DEF TypeOK, StartMonitor
  <2>3. QED
    BY <1>1, <1>2, <1>3, <2>1, <2>2, BoundsAssumption DEF StartMonitor
<1>4. CASE /\ IF iMonitoring THEN StopMonitor ELSE UNCHANGED monitorVars
           /\ missed' = missed \cup (up \cap {w})
           /\ UNCHANGED label
  <2> HIDE DEF w
  <2>1. TypeOK'
    BY <1>1, <1>2, <1>4 DEF TypeOK, StopMonitor, monitorVars
  <2>2. ~iMonitoring' /\ iActive' = iMonitoring'
    BY <1>4 DEF StopMonitor, monitorVars
  <2>3. QED
    BY <1>2, <1>4, <2>1, <2>2
<1>5. CASE /\ missed' = missed \cup (up \cap {w})
           /\ UNCHANGED <<monitorVars, label>>
  <2> HIDE DEF w
  <2>1. TypeOK'
    BY <1>1, <1>2, <1>5 DEF TypeOK, monitorVars
  <2>2. QED
    BY <1>2, <1>5, <2>1 DEF monitorVars
<1>6. QED
  BY <1>3, <1>4, <1>5 DEF InterfaceRunL, Update

\* The connection monitor and the failure of the other one.
LEMMA MonitorKeeps ==
    ASSUME WlanInv, InterfaceError \/ ConnectionProgress \/ ConnectionEnds
    PROVE  WlanInv'
<1> USE DEF WlanInv, MonitorConsistent, ViewWithin, DialogWithin, LabelAgrees, There
<1>1. CASE InterfaceError
  <2>1. TypeOK'
    BY <1>1, NoNews DEF InterfaceError, TypeOK, monitorVars, viewVars, ownVars
  <2>2. QED
    BY <1>1, <2>1 DEF InterfaceError, monitorVars, viewVars, ownVars
<1>2. CASE ConnectionProgress
  <2>1. iInfo \in Waps
    BY <1>2 DEF ConnectionProgress, TypeOK
  <2>2. /\ label' \in Waps \cup {None}
        /\ shown => label' = iInfo \/ (label' = None /\ "address" \in Faults)
        /\ ~shown => label' = label
    BY <1>2, <2>1, Shown DEF ConnectionProgress
  <2>3. TypeOK'
    BY <1>2, <2>2 DEF ConnectionProgress, TypeOK, networkVars, monitorVars, ownVars
  <2>4. QED
    BY <1>2, <2>2, <2>3 DEF ConnectionProgress, networkVars, monitorVars, ownVars
<1>3. CASE ConnectionEnds
  <2>1. TypeOK'
    BY <1>3 DEF ConnectionEnds, StopMonitor, TypeOK, networkVars, ownVars
  <2>2. QED
    BY <1>3, <2>1 DEF ConnectionEnds, StopMonitor, networkVars, ownVars
<1>4. QED  BY <1>1, <1>2, <1>3

\* The application comes and goes: it never starts with a view, or ends with
\* one.
LEMMA LifeKeeps ==
    ASSUME WlanInv, Construct \/ Destroy
    PROVE  WlanInv'
<1> USE DEF WlanInv, MonitorConsistent, ViewWithin, DialogWithin, LabelAgrees, There
<1>1. CASE Construct
  <2>1. ~shown /\ ~iMonitoring /\ ~asking /\ listening' = "waiting"
    BY <1>1 DEF Construct
  <2>2. up' \subseteq Waps /\ news' \in Seq(Waps)
    <3>1. news = <<>>
      BY <2>1, <1>1 DEF Construct, TypeOK
    <3>2. UNCHANGED <<up, news>> \/ \E w \in Waps : up' = up \cup {w} /\ news' = <<w>>
      BY <1>1 DEF Construct
    <3>3. up \subseteq Waps /\ <<>> \in Seq(Waps) /\ \A w \in Waps : <<w>> \in Seq(Waps)
      BY DEF TypeOK
    <3>4. QED  BY <3>1, <3>2, <3>3
  <2>3. /\ missed' \subseteq up'
        /\ UNCHANGED <<viewVars, ownVars>>
    BY <1>1, <2>1 DEF Construct, TypeOK
  <2>4. UNCHANGED monitorVars \/ \E w \in up' : StartMonitor(w)
    BY <1>1 DEF Construct
  <2>5. TypeOK'
    BY <2>1, <2>2, <2>3, <2>4 DEF StartMonitor, TypeOK, monitorVars, viewVars, ownVars
  <2>6. QED
    BY <2>1, <2>2, <2>3, <2>4, <2>5, BoundsAssumption
       DEF StartMonitor, TypeOK, monitorVars, viewVars, ownVars
<1>2. CASE Destroy
  <2>1. TypeOK'
    BY <1>2, NoNews DEF Destroy, TypeOK, viewVars
  <2>2. QED
    BY <1>2, <2>1 DEF Destroy, viewVars
<1>3. QED  BY <1>1, <1>2

\* The view comes and goes: a new container is shown what is monitored.
LEMMA ViewKeeps ==
    ASSUME WlanInv, DoActivate \/ DoDeactivate
    PROVE  WlanInv'
<1> USE DEF WlanInv, MonitorConsistent, ViewWithin, DialogWithin, LabelAgrees, There
<1>1. CASE DoActivate
  <2>1. TypeOK'
    BY <1>1 DEF DoActivate, TypeOK, networkVars, monitorVars, ownVars
  <2>2. QED
    BY <1>1, <2>1 DEF DoActivate, networkVars, monitorVars, ownVars
<1>2. CASE DoDeactivate
  <2>1. TypeOK'
    BY <1>2 DEF DoDeactivate, TypeOK, networkVars, monitorVars, ownVars
  <2>2. QED
    BY <1>2, <2>1 DEF DoDeactivate, networkVars, monitorVars, ownVars
<1>3. QED  BY <1>1, <1>2

\* The connection the user has activated.
LEMMA OwnKeeps ==
    ASSUME WlanInv,
           Ask \/ Attach \/ AttachGone \/ ActivateLeaves \/ Start \/ Dismiss \/ Close
    PROVE  WlanInv'
<1> USE DEF WlanInv, MonitorConsistent, ViewWithin, DialogWithin, LabelAgrees, There
<1>1. CASE Ask \/ ActivateLeaves \/ Dismiss \/ Close
  <2>1. TypeOK'
    BY <1>1 DEF Ask, ActivateLeaves, Dismiss, Close, TypeOK, networkVars, monitorVars,
                viewVars
  <2>2. QED
    BY <1>1, <2>1 DEF Ask, ActivateLeaves, Dismiss, Close, networkVars, monitorVars, viewVars
<1>2. CASE Attach
  <2>1. TypeOK'
    BY <1>2 DEF Attach, TypeOK, networkVars, monitorVars, viewVars
  <2>2. QED
    BY <1>2, <2>1 DEF Attach, networkVars, monitorVars, viewVars
<1>3. CASE AttachGone
  <2>1. TypeOK'
    BY <1>3 DEF AttachGone, TypeOK, viewVars
  <2>2. QED
    BY <1>3, <2>1 DEF AttachGone, viewVars
<1>4. CASE Start
  <2>1. CASE \E w \in Waps : /\ up' = {w}
                             /\ Announce(w)
                             /\ UNCHANGED missed
                             /\ iActivated' = TRUE /\ iConnection' = w
    <3>1. news' \in Seq(Waps) /\ (news' # <<>> => listening = "waiting")
      BY <2>1, Announced
    <3>2. TypeOK'
      BY <1>4, <2>1, <3>1 DEF Start, TypeOK, monitorVars, viewVars
    <3>3. iMonitoring => ended
      BY <1>4 DEF Start
    <3>4. QED
      BY <1>4, <2>1, <3>2, <3>3 DEF Start, monitorVars, viewVars
  <2>2. CASE UNCHANGED networkVars /\ iActivated' = FALSE /\ iConnection' = None
    <3>1. TypeOK'
      BY <1>4, <2>2 DEF Start, TypeOK, networkVars, monitorVars, viewVars
    <3>2. QED
      BY <1>4, <2>2, <3>1 DEF Start, networkVars, monitorVars, viewVars
  <2>3. QED  BY <1>4, <2>1, <2>2 DEF Start
<1>5. QED  BY <1>1, <1>2, <1>3, <1>4

LEMMA WlanStep == WlanInv /\ [Next]_vars => WlanInv'
<1> SUFFICES ASSUME WlanInv, [Next]_vars
             PROVE  WlanInv'
  OBVIOUS
<1>1. CASE Next
  BY <1>1, NetworkKeeps, InterfaceRunKeeps, MonitorKeeps, LifeKeeps, ViewKeeps, OwnKeeps
     DEF Next
<1>2. CASE UNCHANGED vars
  BY <1>2 DEF vars, networkVars, monitorVars, viewVars, ownVars, WlanInv, MonitorConsistent,
              TypeOK, ViewWithin, DialogWithin, LabelAgrees, There
<1>3. QED  BY <1>1, <1>2

LEMMA SpecWlan == Spec => []WlanInv
BY WlanInit, WlanStep, PTL DEF Spec

-----------------------------------------------------------------------------
(* The monitors follow the network.                                        *)

UpBounded == Cardinality(up) <= MaxUp

Following == UpBounded /\ NothingMissed

LEMMA UpFinite ==
    ASSUME TypeOK
    PROVE  IsFiniteSet(up) /\ Cardinality(up) \in Nat
BY BoundsAssumption, FS_Subset, FS_CardinalityType DEF TypeOK

\* One interface at a time: all that are up are the same.
LEMMA OnlyOneUp ==
    ASSUME TypeOK, UpBounded, MaxUp = 1, NEW v \in up, NEW w \in up
    PROVE  v = w
<1>1. Cardinality(up) # 0
  BY UpFinite, FS_EmptySet
<1>2. Cardinality(up) = 1
  BY <1>1, UpFinite DEF UpBounded
<1>3. \E x : up = {x}
  BY <1>2, UpFinite, FS_Singleton
<1>4. QED  BY <1>3

LEMMA FollowingInit == Init => Following
<1>1. Init => UpBounded
  BY DEF Init, UpBounded
<1>2. Init => NothingMissed
  BY DEF Init, NothingMissed
<1>3. QED  BY <1>1, <1>2 DEF Following

LEMMA UpBoundedKeeps ==
    ASSUME WlanInv, UpBounded, [Next]_vars
    PROVE  UpBounded'
<1> USE UpFinite DEF UpBounded, WlanInv, MonitorConsistent
<1>1. ASSUME NEW w \in Waps, up' = up \cup {w}, w \notin up, Cardinality(up) < MaxUp
      PROVE  UpBounded'
  <2>1. Cardinality(up \cup {w}) = Cardinality(up) + 1
    BY <1>1, FS_AddElement
  <2>2. QED  BY <1>1, <2>1, BoundsAssumption
<1>2. ASSUME NEW w \in up, up' = up \ {w} PROVE UpBounded'
  <2>1. Cardinality(up') = Cardinality(up) - 1
    BY <1>2, FS_RemoveElement
  <2>2. QED  BY <2>1, BoundsAssumption
<1>3. CASE Start
  <2>1. UNCHANGED up \/ \E w \in Waps : up' = {w}
    BY <1>3 DEF Start, networkVars
  <2>2. ASSUME NEW w \in Waps, up' = {w} PROVE UpBounded'
    BY <2>2, FS_Singleton, BoundsAssumption
  <2>3. QED  BY <2>1, <2>2
<1>4. CASE Construct
  <2>1. \/ UNCHANGED up
        \/ \E w \in Waps \ up : Cardinality(up) < MaxUp /\ up' = up \cup {w}
    BY <1>4 DEF Construct
  <2>2. QED  BY <1>1, <2>1
<1>5. \/ UNCHANGED up \/ Start \/ Construct
      \/ \E w \in Waps : InterfaceUp(w)
      \/ \E w \in up : up' = up \ {w}
  BY DEF Next, vars, networkVars, InterfaceDown, InterfaceRunL, InterfaceError,
         ConnectionProgress, ConnectionEnds, Destroy, DoActivate, DoDeactivate,
         Ask, Attach, AttachGone, ActivateLeaves, Dismiss, Close
<1>6. QED  BY <1>1, <1>2, <1>3, <1>4, <1>5 DEF InterfaceUp

\* One that comes up is the last notification; one that is handled last is
\* monitored; and no monitor is stopped for an interface that is still there.
LEMMA NothingMissedKeeps ==
    ASSUME WlanInv, Following, [Next]_vars
    PROVE  NothingMissed'
<1> SUFFICES ASSUME MaxUp = 1, listening' = "waiting", NEW w \in up'
             PROVE  IF news' = <<>>
                    THEN w \in missed' \/ (iMonitoring' /\ iInfo' = w /\ ~ended')
                    ELSE news'[Len(news')] = w
  BY DEF NothingMissed
<1> USE DEF WlanInv, MonitorConsistent, Following
<1>1. \A v \in up, u \in up : v = u
  BY OnlyOneUp
<1>2. news \in Seq(Waps) /\ (listening # "waiting" => news = <<>>) /\ up \subseteq Waps
  BY DEF TypeOK
<1>3. listening = "waiting" /\ w \in up =>
          IF news = <<>> THEN w \in missed \/ (iMonitoring /\ iInfo = w /\ ~ended)
                         ELSE news[Len(news)] = w
  BY DEF NothingMissed
<1>4. ASSUME NEW v \in Waps, Announce(v), up' = {v}, UNCHANGED listening
      PROVE  news' # <<>> /\ news'[Len(news')] = w
  <2>1. news' = Append(news, v) /\ w = v
    BY <1>4 DEF Announce
  <2>2. QED  BY <1>2, <2>1
<1>5. ASSUME NEW v \in up, up' = up \ {v} PROVE FALSE
  BY <1>1, <1>5
<1>6. ASSUME NEW v \in Waps, InterfaceUp(v)
      PROVE  news' # <<>> /\ news'[Len(news')] = w
  <2>1. Cardinality(up) = 0
    BY <1>6, UpFinite DEF InterfaceUp
  <2>2. up = {}
    BY <2>1, UpFinite, FS_EmptySet
  <2>3. QED  BY <1>4, <1>6, <2>2 DEF InterfaceUp
<1>7. ASSUME NEW v \in Waps, InterfaceDown(v) PROVE FALSE
  BY <1>5, <1>7 DEF InterfaceDown
<1>8. CASE InterfaceRunL
  <2> DEFINE h == Head(news)
  <2>1. /\ listening = "waiting" /\ news # <<>> /\ news' = Tail(news)
        /\ w \in up /\ Update(h)
    BY <1>8 DEF InterfaceRunL
  <2>2. CASE Tail(news) # <<>>
    <3>1. Len(Tail(news)) = Len(news) - 1 /\ Len(Tail(news)) \in 1 .. Len(news) - 1
      BY <1>2, <2>1, <2>2
    <3>2. Tail(news)[Len(Tail(news))] = news[Len(news)]
      BY <1>2, <2>1, <3>1
    <3>3. news[Len(news)] = w
      BY <1>3, <2>1
    <3>4. QED  BY <2>1, <2>2, <3>2, <3>3
  <2>3. CASE Tail(news) = <<>>
    <3>1. Len(news) = 1
      <4>1. Len(Tail(news)) = Len(news) - 1 /\ Len(news) \in Nat
        BY <1>2, <2>1
      <4>2. Len(<<>>) = 0
        OBVIOUS
      <4>3. Len(Tail(news)) = 0
        BY <2>3, <4>2, Zenon
      <4>4. QED  BY <4>1, <4>3
    <3>2. h = w
      BY <1>2, <1>3, <2>1, <3>1
    <3>3. w \in missed' \/ (iMonitoring' /\ iInfo' = w /\ ~ended')
      BY <2>1, <3>2 DEF Update, StartMonitor
    <3>4. QED  BY <2>1, <2>3, <3>3
  <2>4. QED  BY <2>2, <2>3
<1>9. CASE ConnectionEnds
  <2>1. ended /\ UNCHANGED <<up, news, missed, listening>>
    BY <1>9 DEF ConnectionEnds, networkVars
  <2>2. QED  BY <1>3, <2>1
<1>10. CASE Construct
  <2>1. news = <<>>
    BY <1>2, <1>10 DEF Construct, There
  <2>2. CASE news' # <<>>
    <3>1. PICK v \in Waps \ up : /\ Cardinality(up) < MaxUp
                                 /\ up' = up \cup {v} /\ news' = <<v>>
      BY <1>10, <2>1, <2>2 DEF Construct
    <3>2. up = {}
      <4>1. Cardinality(up) = 0
        BY <3>1, UpFinite
      <4>2. QED  BY <4>1, UpFinite, FS_EmptySet
    <3>3. w = v /\ <<w>> # <<>> /\ <<w>>[Len(<<w>>)] = w
      BY <3>1, <3>2
    <3>4. news' = <<w>>
      BY <3>1, <3>3
    <3>5. QED  BY <2>2, <3>3, <3>4
  <2>3. CASE news' = <<>>
    <3>1. up' = up
      BY <1>10, <2>3 DEF Construct
    <3>2. missed' = up' \/ \E v \in up' : StartMonitor(v)
      BY <1>10, <3>1 DEF Construct
    <3>3. QED  BY <1>1, <2>3, <3>1, <3>2 DEF StartMonitor
  <2>4. QED  BY <2>2, <2>3
<1>11. CASE Start
  <2>1. \E v \in Waps : up' = {v} /\ Announce(v) /\ UNCHANGED listening
    BY <1>11 DEF Start, networkVars
  <2>2. QED  BY <1>4, <2>1
<1>12. CASE AttachGone
  BY <1>5, <1>12 DEF AttachGone
<1>13. CASE UNCHANGED <<up, news, missed, listening, iMonitoring, iInfo, ended>>
  BY <1>3, <1>13
<1>14. CASE InterfaceError \/ Destroy
  BY <1>14 DEF InterfaceError, Destroy
<1>15. CASE \/ ConnectionProgress \/ DoActivate \/ DoDeactivate \/ Ask \/ Attach
            \/ ActivateLeaves \/ Dismiss \/ Close \/ UNCHANGED vars
  <2>1. UNCHANGED <<networkVars, listening, monitorVars>>
    BY <1>15 DEF ConnectionProgress, DoActivate, DoDeactivate, Ask, Attach,
                 ActivateLeaves, Dismiss, Close, vars
  <2>2. QED  BY <1>13, <2>1 DEF networkVars, monitorVars
<1>16. QED
  BY <1>6, <1>7, <1>8, <1>9, <1>10, <1>11, <1>12, <1>14, <1>15 DEF Next

LEMMA SpecFollowing == Spec => []Following
<1>1. WlanInv /\ Following /\ [Next]_vars => Following'
  BY UpBoundedKeeps, NothingMissedKeeps DEF Following
<1>2. QED  BY FollowingInit, SpecWlan, <1>1, PTL DEF Spec

-----------------------------------------------------------------------------
(* What is proved of the application's view of the network.                *)

\* A request of the connection monitor is outstanding exactly while a connection
\* is monitored, so that UpdateL never leaves with KErrInUse, and the end of
\* what is monitored is not missed.  With one interface at a time, one that is
\* up is monitored or about to be, so that none is passed over while the
\* interface monitor waits, unless one of the three errors that the code ignores
\* loses it: the look-up of ConstructL, that of the bearer, and StartL's Attach.
THEOREM MonitorRight == Spec => []MonitorSound
<1>1. WlanInv /\ Following => MonitorSound
  BY DEF WlanInv, Following, MonitorSound
<1>2. QED  BY SpecWlan, SpecFollowing, <1>1, PTL

\* The labels of the main view agree with the connection monitor whenever both
\* are there, in whatever order view, connection and interface came and went.
THEOREM ViewAgrees == Spec => []LabelAgrees
<1>1. WlanInv => LabelAgrees
  BY DEF WlanInv
<1>2. QED  BY SpecWlan, <1>1, PTL

\* Only a StartL that leaves while a notification is handled stops the monitor
\* and leaves a label behind: for an interface that has gone, or that could not be
\* attached to and is up without a monitor.
Orphaning ==
    /\ news # <<>> /\ news' = Tail(news)
    /\ Head(news) \notin up \/ Head(news) \in missed'

LEMMA OrphanStep ==
    ASSUME WlanInv, [Next]_vars, iMonitoring, ~iMonitoring', label' # None
    PROVE  Orphaning
<1>1. InterfaceRunL \/ ConnectionEnds \/ Destroy
  <2>1. UNCHANGED iMonitoring \/ iMonitoring' \/ InterfaceRunL \/ ConnectionEnds \/ Destroy
    BY DEF Next, vars, InterfaceUp, InterfaceDown, InterfaceError, ConnectionProgress,
           Construct, StartMonitor, DoActivate, DoDeactivate, Ask, Attach, AttachGone,
           ActivateLeaves, Start, Dismiss, Close, monitorVars
  <2>2. QED  BY <2>1
<1>2. CASE InterfaceRunL
  <2>1. news # <<>> /\ news' = Tail(news) /\ Update(Head(news))
    BY <1>2 DEF InterfaceRunL
  <2>2. Head(news) \notin up \/ Head(news) \in missed'
    BY <2>1 DEF Update, StartMonitor, monitorVars
  <2>3. QED
    BY <2>1, <2>2 DEF Orphaning
<1>3. CASE ConnectionEnds
  BY <1>3 DEF ConnectionEnds
<1>4. CASE Destroy
  BY <1>4 DEF Destroy, viewVars, WlanInv, ViewWithin
<1>5. QED  BY <1>1, <1>2, <1>3, <1>4

\* A label that outlives its monitor is explained by a failed StartL of the
\* notification just handled.
THEOREM OrphansExplained == Spec => OnlyFailedStartOrphans
<1>1. WlanInv /\ [Next]_vars =>
        [ iMonitoring /\ ~iMonitoring' /\ label' # None =>
            /\ news # <<>> /\ news' = Tail(news)
            /\ Head(news) \notin up \/ Head(news) \in missed' ]_vars
  BY OrphanStep DEF Orphaning
<1>2. QED
  BY SpecWlan, <1>1, PTL DEF Spec, OnlyFailedStartOrphans
=============================================================================
