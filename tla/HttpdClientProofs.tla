------------------------- MODULE HttpdClientProofs -------------------------
(***************************************************************************)
(* The client library, for every number of clients and every choice of     *)
(* faults: what the server promises holds under it, its subject is never   *)
(* started twice, and an observer that waits knows the present state.      *)
(***************************************************************************)
EXTENDS HttpdClient, HttpdServerProofs

Asking == {"ask", "ask_attach", "ask_connect"}

\* What the library keeps of client c.
Orderly(c) ==
    /\ handle[c] = "none" => req[c] = "idle" /\ doing[c] = "nothing"
    /\ ~observed[c] => req[c] = "idle" /\ doing[c] \in {"nothing", "read_connect"}
    /\ doing[c] \in Asking => req[c] = "idle"
    \* The next request tells the server what the observers have been told.
    /\ doing[c] = "ask" => seen[c] = data[c]
    /\ Free(c) /\ observed[c] /\ req[c] = "pending" =>
           seen[c] = state \/ state = "Stopping"

\* The inductive invariant: the server's, the types, and order at every client.
ClientIInv ==
    /\ IInv
    /\ observed \in [Clients -> BOOLEAN]
    /\ doing \in [Clients -> Doings]
    /\ seen \in [Clients -> States]
    /\ \A c \in Clients : Orderly(c)

-----------------------------------------------------------------------------
(* What a step of others does to a client.                                 *)

Untouched(c) ==
    /\ \/ req'[c] = req[c]
       \/ req[c] = "pending" /\ req'[c] \in {"answered", "terminated"}
    /\ data'[c] = data[c] \/ req[c] = "pending"
    /\ handle'[c] = handle[c] \/ (handle[c] = "live" /\ handle'[c] = "dead")
    /\ req'[c] = "pending" => state' \in {state, "Stopping"}

LEMMA DeliverTouches ==
    ASSUME NEW s, Deliver(s), NEW c \in Clients
    PROVE  /\ req'[c] = IF req[c] = "pending" THEN "answered" ELSE req[c]
           /\ req[c] # "pending" => data'[c] = data[c]
BY DEF Deliver

\* The server's own calls touch a client that waits and no other.
LEMMA HttpdCallTouches ==
    ASSUME IInv, NEW c \in Clients, NEW d \in Clients,
           StartHttpd(d) \/ StopHttpd(d) \/ RestartHttpd(d)
    PROVE  Untouched(c)
<1>1. UNCHANGED handle
  BY DEF StartHttpd, StopHttpd, RestartHttpd
<1>2. CASE \E s \in States : Deliver(s)
  BY <1>1, <1>2, DeliverTouches DEF Untouched
<1>3. CASE UNCHANGED <<req, data>> /\ state' \in {state, "Stopping"}
  BY <1>1, <1>3 DEF Untouched
<1>4. QED
  BY <1>2, <1>3 DEF StartHttpd, StopHttpd, RestartHttpd, UpdateHttpdState, States

LEMMA SessionCallTouches ==
    ASSUME IInv, NEW c \in Clients, NEW d \in Clients, c # d,
           \/ Connect(d) \/ Disconnect(d) \/ GetStateAsync(d) \/ GetStateOfDead(d)
           \/ TakeOrCancel(d)
    PROVE  Untouched(c)
<1> USE DEF IInv, TypeOK
<1>1. /\ handle'[c] = handle[c] /\ req'[c] = req[c] /\ data'[c] = data[c]
  BY DEF Connect, Disconnect, GetStateAsync, GetStateOfDead, TakeOrCancel
<1>2. ASSUME req[c] = "pending" PROVE state' = state
  <2>1. alive /\ handle[c] = "live"
    BY <1>2 DEF PendingIsCurrent, PendingInSession
  <2>2. Sessions # {d}
    BY <2>1 DEF Sessions
  <2>3. QED
    BY <2>1, <2>2
    DEF Connect, Disconnect, EndsWith, GetStateAsync, GetStateOfDead, TakeOrCancel,
        processVars
<1>3. QED  BY <1>1, <1>2 DEF Untouched

LEMMA ServerTouches ==
    ASSUME IInv, NEW c \in Clients,
           ServerStep \/ ApacheRuns \/ AcceptFails \/ ConfigExits \/ MainPanics
    PROVE  Untouched(c)
<1>1. ASSUME NEW s, Finish(s) PROVE Untouched(c)
  <2>1. handle'[c] = IF handle[c] = "live" THEN "dead" ELSE handle[c]
    BY <1>1 DEF Finish, SessionsDie
  <2>2. Deliver(s)
    BY <1>1 DEF Finish
  <2>3. QED  BY <2>1, <2>2, DeliverTouches DEF Untouched
<1>2. CASE Vanish
  BY <1>2 DEF Vanish, SessionsDie, Untouched
<1>3. CASE Poll
  <2>1. Deliver("Running") /\ UNCHANGED handle
    BY <1>3 DEF Poll, UpdateHttpdState
  <2>2. QED  BY <2>1, DeliverTouches DEF Untouched
<1>4. CASE UNCHANGED <<state, sessionVars>>
  BY <1>4 DEF Untouched, sessionVars
<1>5. QED
  BY <1>1, <1>2, <1>3, <1>4
  DEF ServerStep, ThreadDeath, WorkerPanics, ServerPanics, ApacheRuns, AcceptFails,
      ConfigExits, MainPanics, ServerFrame, processVars

\* A step of others leaves a client in order.
LEMMA UntouchedOrderly ==
    ASSUME NEW c \in Clients, Orderly(c), Untouched(c),
           observed'[c] = observed[c], doing'[c] = doing[c], seen'[c] = seen[c]
    PROVE  Orderly(c)'
BY DEF Orderly, Untouched, Free, Asking

-----------------------------------------------------------------------------
(* The library's own steps.                                                *)

\* The step of client d leaves the library's data of the others alone.
Frame(d) ==
    \A c \in Clients \ {d} :
        observed'[c] = observed[c] /\ doing'[c] = doing[c] /\ seen'[c] = seen[c]

ClientTypes ==
    /\ observed \in [Clients -> BOOLEAN]
    /\ doing \in [Clients -> Doings]
    /\ seen \in [Clients -> States]

LEMMA OwnStep ==
    ASSUME ClientIInv, NEW d \in Clients, Frame(d), Orderly(d)', ClientTypes', [Next]_vars,
           \A c \in Clients \ {d} : Untouched(c)
    PROVE  ClientIInv'
<1>1. IInv'
  BY StepGood DEF ClientIInv
<1>2. \A c \in Clients : Orderly(c)'
  BY UntouchedOrderly DEF ClientIInv, Frame
<1>3. QED  BY <1>1, <1>2 DEF ClientIInv, ClientTypes

LEMMA NothingTouches ==
    ASSUME UNCHANGED vars, NEW c \in Clients
    PROVE  Untouched(c)
BY DEF Untouched, vars, processVars, sessionVars

\* Whichever call of the server the step of client d makes, the others only
\* see what Untouched allows.
LEMMA CallTouches ==
    ASSUME IInv, NEW d \in Clients, Call(d) \/ UNCHANGED vars
    PROVE  [Next]_vars /\ \A c \in Clients \ {d} : Untouched(c)
<1>1. [Next]_vars
  BY DEF Next
<1>2. ASSUME NEW c \in Clients \ {d} PROVE Untouched(c)
  BY HttpdCallTouches, SessionCallTouches, NothingTouches DEF Call
<1>3. QED  BY <1>1, <1>2

LEMMA ConnectStep ==
    ASSUME ClientIInv, NEW d \in Clients, ConnectL(d)
    PROVE  ClientIInv'
<1> USE DEF ClientIInv, IInv, TypeOK
<1>1. handle[d] = "none" /\ handle'[d] = "live" /\ req[d] = "idle" /\ UNCHANGED req
  BY DEF ConnectL, Connect, Orderly
<1>2. /\ doing' = [doing EXCEPT ![d] = IF observed[d] THEN "ask_connect" ELSE "read_connect"]
      /\ UNCHANGED <<observed, seen>>
  BY DEF ConnectL, Goes
<1>3. Frame(d) /\ ClientTypes'
  BY <1>2 DEF Frame, ClientTypes, Doings
<1>4. Orderly(d)'
  BY <1>1, <1>2 DEF Orderly, Free, Asking
<1>5. Call(d)
  BY DEF ConnectL, Call
<1>6. QED  BY <1>3, <1>4, <1>5, CallTouches, OwnStep

LEMMA CloseStep ==
    ASSUME ClientIInv, NEW d \in Clients, CloseL(d)
    PROVE  ClientIInv'
<1> USE DEF ClientIInv, IInv, TypeOK
<1>1. handle'[d] = "none" /\ req'[d] = "idle" /\ doing[d] = "nothing"
  BY DEF CloseL, Disconnect, Free
<1>2. UNCHANGED <<observed, doing, seen>>
  BY DEF CloseL, clientVars
<1>3. Frame(d) /\ ClientTypes'
  BY <1>2 DEF Frame, ClientTypes
<1>4. Orderly(d)'
  BY <1>1, <1>2 DEF Orderly, Free, Asking
<1>5. Call(d)
  BY DEF CloseL, Call
<1>6. QED  BY <1>3, <1>4, <1>5, CallTouches, OwnStep

LEMMA AttachStep ==
    ASSUME ClientIInv, NEW d \in Clients, AttachL(d)
    PROVE  ClientIInv'
<1> USE DEF ClientIInv, IInv, TypeOK
<1>1. /\ observed' = [observed EXCEPT ![d] = TRUE] /\ UNCHANGED seen
      /\ ~observed[d] /\ doing[d] = "nothing" /\ req[d] = "idle"
  BY DEF AttachL, Orderly, Free
<1>2. /\ UNCHANGED req
      /\ \/ handle'[d] # "none" /\ Goes(d, "ask_attach") /\ UNCHANGED vars
         \/ handle'[d] # "none" /\ Goes(d, "ask_connect") /\ Connect(d)
         \/ handle'[d] = "none" /\ UNCHANGED <<vars, doing>>
  BY DEF AttachL, Connect, vars, sessionVars
<1>3. \/ doing' = [doing EXCEPT ![d] = "ask_attach"]
      \/ doing' = [doing EXCEPT ![d] = "ask_connect"]
      \/ doing' = doing
  BY <1>2 DEF Goes
<1>4. Frame(d) /\ ClientTypes'
  BY <1>1, <1>3 DEF Frame, ClientTypes, Doings
<1>5. Orderly(d)'
  BY <1>1, <1>2 DEF Orderly, Free, Asking, Goes
<1>6. Call(d) \/ UNCHANGED vars
  BY <1>2 DEF Call, vars
<1>7. QED  BY <1>4, <1>5, <1>6, CallTouches, OwnStep

LEMMA DetachStep ==
    ASSUME ClientIInv, NEW d \in Clients, Detach(d)
    PROVE  ClientIInv'
<1> USE DEF ClientIInv, IInv, TypeOK
<1>1. /\ observed' = [observed EXCEPT ![d] = FALSE] /\ UNCHANGED <<doing, seen>>
      /\ doing[d] = "nothing" /\ req'[d] = "idle"
  BY DEF Detach, Free
<1>2. Frame(d) /\ ClientTypes'
  BY <1>1 DEF Frame, ClientTypes
<1>3. Orderly(d)'
  BY <1>1 DEF Orderly, Free, Asking
<1>4. Call(d) \/ UNCHANGED vars
  <2>1. CASE req[d] # "idle"
    BY <2>1 DEF Detach, TakeOrCancel, Call
  <2>2. CASE req[d] = "idle"
    <3>1. req' = req
      BY <2>2 DEF Detach
    <3>2. QED  BY <3>1 DEF Detach, vars, sessionVars
  <2>3. QED  BY <2>1, <2>2
<1>5. QED  BY <1>2, <1>3, <1>4, CallTouches, OwnStep

LEMMA HttpdCallStep ==
    ASSUME ClientIInv, NEW d \in Clients, StartL(d) \/ StopL(d) \/ RestartL(d)
    PROVE  ClientIInv'
<1>1. (StartHttpd(d) \/ StopHttpd(d) \/ RestartHttpd(d)) /\ UNCHANGED <<observed, doing, seen>>
  BY DEF StartL, StopL, RestartL, clientVars
<1>2. Untouched(d)
  BY <1>1, HttpdCallTouches DEF ClientIInv
<1>3. Orderly(d)'
  BY <1>1, <1>2, UntouchedOrderly DEF ClientIInv
<1>4. Frame(d) /\ ClientTypes'
  BY <1>1 DEF Frame, ClientTypes, ClientIInv
<1>5. Call(d)
  BY <1>1 DEF Call
<1>6. QED  BY <1>3, <1>4, <1>5, CallTouches, OwnStep DEF ClientIInv

LEMMA AskStep ==
    ASSUME ClientIInv, NEW d \in Clients, Ask(d)
    PROVE  ClientIInv'
<1> USE DEF ClientIInv, IInv, TypeOK
<1>1. /\ doing[d] \in Asking /\ observed[d] /\ handle[d] # "none"
      /\ UNCHANGED <<handle, observed, seen, state>>
  BY DEF Ask, Asking, Orderly, GetStateAsync, GetStateOfDead, processVars
<1>2. /\ doing[d] = "ask" => doing' = [doing EXCEPT ![d] = "nothing"]
      /\ doing[d] = "ask_attach" => doing' = [doing EXCEPT ![d] = "read_attach"]
      /\ doing[d] = "ask_connect" => doing' = [doing EXCEPT ![d] = "read_connect"]
  BY DEF Ask, Goes
<1>3. Frame(d) /\ ClientTypes'
  BY <1>1, <1>2 DEF Frame, ClientTypes, Doings, Asking
<1>4. doing'[d] \in {"nothing", "read_attach", "read_connect"}
      /\ (doing'[d] = "nothing" => doing[d] = "ask")
  BY <1>1, <1>2 DEF Asking
<1>5. doing[d] = "ask" => seen[d] = data[d]
  BY DEF Orderly
<1>6. req'[d] = "pending" => data[d] = state
  BY DEF Ask, GetStateAsync, GetStateOfDead
<1>7. Orderly(d)'
  BY <1>1, <1>4, <1>5, <1>6 DEF Orderly, Free, Asking
<1>8. Call(d)
  BY DEF Ask, Call
<1>9. QED  BY <1>3, <1>7, <1>8, CallTouches, OwnStep

LEMMA ReadStep ==
    ASSUME ClientIInv, NEW d \in Clients, ReadState(d)
    PROVE  ClientIInv'
<1> USE DEF ClientIInv, IInv, TypeOK
<1> DEFINE s == IF handle[d] = "live" THEN state ELSE "Terminated"
<1>1. /\ doing[d] \in {"read_attach", "read_connect"}
      /\ doing' = [doing EXCEPT ![d] = "nothing"]
      /\ seen' = [seen EXCEPT ![d] = IF observed[d] THEN s ELSE @]
      /\ UNCHANGED observed
      /\ Disconnect(d) \/ UNCHANGED vars
  BY DEF ReadState, Tell, Goes
<1>2. s \in States
  BY DEF States
<1>3. Frame(d) /\ ClientTypes'
  BY <1>1, <1>2 DEF Frame, ClientTypes, Doings
<1>4. Orderly(d)'
  <2>1. doing'[d] = "nothing" /\ observed'[d] = observed[d]
        /\ (observed[d] => seen'[d] = s)
    BY <1>1
  <2>2. CASE Disconnect(d)
    <3>1. handle'[d] = "none" /\ req'[d] = "idle"
      BY <2>2 DEF Disconnect
    <3>2. QED  BY <2>1, <3>1 DEF Orderly, Free, Asking
  <2>3. CASE UNCHANGED vars
    <3>1. UNCHANGED <<handle, req, state>>
      BY <2>3 DEF vars, processVars, sessionVars
    <3>2. req[d] = "pending" => handle[d] = "live"
      BY DEF PendingInSession
    <3>3. handle[d] # "none"
      BY <1>1 DEF Orderly
    <3>4. ~observed[d] => req[d] = "idle"
      BY DEF Orderly
    <3>5. QED  BY <2>1, <3>1, <3>2, <3>3, <3>4 DEF Orderly, Free, Asking
  <2>4. QED  BY <1>1, <2>2, <2>3
<1>5. Call(d) \/ UNCHANGED vars
  BY <1>1 DEF Call
<1>6. QED  BY <1>3, <1>4, <1>5, CallTouches, OwnStep

LEMMA RunStep ==
    ASSUME ClientIInv, NEW d \in Clients, RunL(d)
    PROVE  ClientIInv'
<1> USE DEF ClientIInv, IInv, TypeOK
<1>1. doing[d] = "nothing" /\ observed[d] /\ handle[d] # "none"
      /\ req[d] \in {"answered", "terminated"} /\ UNCHANGED observed
  BY DEF RunL, Free, Orderly
<1>2. Answer(d) \in States
  BY DEF Answer, States
<1>3. seen' = [seen EXCEPT ![d] = Answer(d)]
  BY <1>1 DEF RunL, Tell
<1>4. CASE Answer(d) \in Final
  <2>1. Disconnect(d) /\ UNCHANGED doing
    BY <1>4 DEF RunL
  <2>2. handle'[d] = "none" /\ req'[d] = "idle"
    BY <2>1 DEF Disconnect
  <2>3. Orderly(d)'
    BY <1>1, <2>1, <2>2 DEF Orderly, Free, Asking
  <2>4. Frame(d) /\ ClientTypes'
    BY <1>1, <1>2, <1>3, <2>1 DEF Frame, ClientTypes
  <2>5. QED  BY <2>1, <2>3, <2>4, CallTouches, OwnStep DEF Call
<1>5. CASE Answer(d) \notin Final
  <2>1. TakeOrCancel(d) /\ doing' = [doing EXCEPT ![d] = "ask"]
    BY <1>5 DEF RunL, Goes
  <2>2. req'[d] = "idle" /\ UNCHANGED <<handle, data>>
    BY <2>1 DEF TakeOrCancel
  <2>3. seen'[d] = data[d]
    BY <1>1, <1>3, <1>5 DEF Answer, Final
  <2>4. Orderly(d)'
    BY <1>1, <2>1, <2>2, <2>3 DEF Orderly, Free, Asking
  <2>5. Frame(d) /\ ClientTypes'
    BY <1>1, <1>2, <1>3, <2>1 DEF Frame, ClientTypes, Doings
  <2>6. QED  BY <2>1, <2>4, <2>5, CallTouches, OwnStep DEF Call
<1>6. QED  BY <1>4, <1>5

-----------------------------------------------------------------------------
(* The theorems.                                                           *)

LEMMA ClientInitGood == ClientInit => ClientIInv
<1> SUFFICES ASSUME ClientInit PROVE ClientIInv
  OBVIOUS
<1>1. IInv
  BY InitGood DEF ClientInit
<1>2. \A c \in Clients : Orderly(c)
  BY DEF ClientInit, Init, Orderly, Free, Asking
<1>3. QED  BY <1>1, <1>2 DEF ClientInit, ClientIInv, Doings, States

LEMMA ClientStepGood == ClientIInv /\ [ClientNext]_allVars => ClientIInv'
<1> SUFFICES ASSUME ClientIInv, [ClientNext]_allVars PROVE ClientIInv'
  OBVIOUS
<1>1. ASSUME NEW d \in Clients,
             \/ ConnectL(d) \/ CloseL(d) \/ AttachL(d) \/ Detach(d)
             \/ StartL(d) \/ StopL(d) \/ RestartL(d) \/ ClientStep(d)
      PROVE  ClientIInv'
  BY <1>1, ConnectStep, CloseStep, AttachStep, DetachStep, HttpdCallStep, AskStep,
     ReadStep, RunStep
  DEF ClientStep
<1>2. CASE /\ ServerStep \/ ApacheRuns \/ AcceptFails \/ ConfigExits \/ MainPanics
           /\ UNCHANGED clientVars
  <2>1. UNCHANGED <<observed, doing, seen>>
    BY <1>2 DEF clientVars
  <2>2. \A c \in Clients : Orderly(c)'
    BY <1>2, <2>1, ServerTouches, UntouchedOrderly DEF ClientIInv
  <2>3. IInv'
    BY <1>2, StepGood DEF ClientIInv, Next
  <2>4. QED  BY <2>1, <2>2, <2>3 DEF ClientIInv
<1>3. CASE UNCHANGED allVars
  <2>1. UNCHANGED vars /\ UNCHANGED <<observed, doing, seen>>
    BY <1>3 DEF allVars, clientVars
  <2>2. \A c \in Clients : Orderly(c)'
    BY <2>1, NothingTouches, UntouchedOrderly DEF ClientIInv
  <2>3. IInv'
    BY <2>1, StepGood DEF ClientIInv
  <2>4. QED  BY <2>1, <2>2, <2>3 DEF ClientIInv
<1>4. QED  BY <1>1, <1>2, <1>3 DEF ClientNext

LEMMA ClientInvariance == ClientSpec => []ClientIInv
BY ClientInitGood, ClientStepGood, PTL DEF ClientSpec

\* Every step of the library and the server together is a step of the server
\* with some client: what is proved of the server holds under the library.
THEOREM LibraryIsClient == ClientSpec => Spec
<1>1. ClientInit => Init
  BY DEF ClientInit
<1>2. ClientIInv /\ [ClientNext]_allVars => [Next]_vars
  <2> SUFFICES ASSUME ClientIInv, [ClientNext]_allVars PROVE [Next]_vars
    OBVIOUS
  <2>1. ASSUME NEW d \in Clients,
               \/ ConnectL(d) \/ CloseL(d) \/ AttachL(d) \/ Detach(d)
               \/ StartL(d) \/ StopL(d) \/ RestartL(d) \/ ClientStep(d)
        PROVE  Call(d) \/ UNCHANGED vars
    <3>1. CASE Detach(d)
      <4>1. CASE req[d] # "idle"
        BY <3>1, <4>1 DEF Detach, TakeOrCancel, Call
      <4>2. CASE req[d] = "idle"
        <5>1. req' = req
          BY <3>1, <4>2 DEF Detach, ClientIInv, IInv, TypeOK
        <5>2. QED  BY <3>1, <5>1 DEF Detach, vars, sessionVars
      <4>3. QED  BY <4>1, <4>2
    <3>2. CASE ~Detach(d)
      BY <2>1, <3>2 DEF ConnectL, CloseL, AttachL, StartL, StopL, RestartL, ClientStep,
         Ask, ReadState, RunL, Call
    <3>3. QED  BY <3>1, <3>2
  <2>2. CASE UNCHANGED allVars
    BY <2>2 DEF allVars
  <2>3. QED  BY <2>1, <2>2 DEF ClientNext, Next
<1>3. QED  BY <1>1, <1>2, ClientInvariance, PTL DEF ClientSpec, Spec

\* So it is: over the library's calls, too, no request waits with an old state,
\* no server stays behind over nothing, but for the two errors it ignores, and a
\* stopping Apache does not come back.
THEOREM ServerUnderLibrary ==
  ClientSpec => []PendingIsCurrent /\ []NoIdleServer /\ NoResurrection
BY LibraryIsClient, NoStaleRequest, NeverIdle, StoppingIsFinal

\* Over an Apache that does not end a generation unasked, StopL and RestartL
\* have the effect that the states tell.
THEOREM LibraryCallsReachApache ==
  ASSUME ~Unasked PROVE ClientSpec => []CallsPassedOn
BY LibraryIsClient, CallsReachApache

\* The subject is never started while its request is outstanding, however
\* ConnectL, AttachL, Close, Detach and its own RunL follow one another.
THEOREM StartedOnce == ClientSpec => []NoDoubleStart
<1>1. ClientIInv => NoDoubleStart
  BY DEF ClientIInv, Orderly, NoDoubleStart, Asking
<1>2. QED  BY <1>1, ClientInvariance, PTL

\* While the subject waits, its observers have been told the state there is.
THEOREM WaitsInformed == ClientSpec => []WatcherInformed
<1>1. ClientIInv => WatcherInformed
  BY DEF ClientIInv, Orderly, WatcherInformed
<1>2. QED  BY <1>1, ClientInvariance, PTL

\* The types of the library and of the server under it, and every call under
\* way has a session.
THEOREM ClientTypeCorrect == ClientSpec => []ClientTypeOK
<1>1. ClientIInv => ClientTypeOK
  BY DEF ClientIInv, IInv, Orderly, ClientTypeOK
<1>2. QED  BY <1>1, ClientInvariance, PTL
=============================================================================
