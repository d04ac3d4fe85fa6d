------------------------- MODULE ZendTimeoutProofs -------------------------
(***************************************************************************)
(* The invariants of ZendTimeout, for any limits, any configuration and    *)
(* any word: what wraps to a negative interval kills the timeout thread,   *)
(* and the invariants say what holds then, too.                            *)
(***************************************************************************)
EXTENDS ZendTimeout, TLAPS

\* Who has the right to speak to the message handler.
Baton ==
    /\ NoStraySignal
    /\ ~(semaphore > 0 /\ posting)
    /\ iStatus = "pending" => semaphore > 0 \/ posting
    /\ posting => "cancel" \in todo \/ Due("set")
    /\ thread \in {"none", "starting"} =>
          iStatus = "idle" /\ timer = "off" /\ wanted = 0
    /\ thread = "dead" => iStatus = "idle" /\ timer = "off"

\* What the parameter and the timer have to do with the last message.
Slot ==
    /\ "set" \in todo => timeout_seconds # 0
    /\ iStatus = "set" => wanted # 0 /\ iMessageParameter = wanted
    /\ iStatus = "cancel" => wanted = 0
    /\ iStatus \in {"pending", "idle"} /\ timer # "off" => wanted # 0 /\ armed = wanted

\* A limit that has been asked for is on its way, runs, or has been reported.
Asked ==
    \/ thread = "dead"
    \/ /\ thread = "up"
       /\ wanted = timeout_seconds
       /\ iStatus = "set" \/ timer # "off" \/ timed_out

Watch ==
    phase \in {"startup", "script"} /\ timeout_seconds # 0 =>
        /\ "cancel" \in todo => "set" \in todo
        /\ "set" \in todo \/ Asked

Quiet ==
    phase = "idle" =>
        /\ "set" \notin todo
        /\ "cancel" \in todo \/ wanted = 0

IInv == TypeOK /\ Baton /\ Slot /\ Watch /\ Quiet

LEMMA InitIInv == Init => IInv
<1> SUFFICES ASSUME Init PROVE IInv
  OBVIOUS
<1> USE LimitsAssumption, BoundsAssumption DEF Init
<1>1. TypeOK
  <2>1. changes \in 0..MaxChanges /\ semaphore \in 0..1
    BY BoundsAssumption
  <2>2. timeout_seconds \in Limits /\ max_execution_time \in Limits
    BY LimitsAssumption
  <2> QED BY <2>1, <2>2 DEF TypeOK, Phases
<1>2. Baton
  BY DEF Baton, NoStraySignal
<1>3. Slot /\ Watch /\ Quiet
  BY DEF Slot, Watch, Quiet
<1> QED BY <1>1, <1>2, <1>3 DEF IInv

-----------------------------------------------------------------------------
(* Between two calls nobody holds the baton.                               *)

LEMMA NothingPosted == ASSUME Baton, todo = {} PROVE ~posting
BY DEF Baton, Due

LEMMA ApplyConfigKeeps == ASSUME IInv, ApplyConfig PROVE IInv'
<1> USE DEF IInv, ApplyConfig, AlterTimeLimit, OnUpdateTimeout, ZendSetTimeout, Limited,
            RestoreTimeLimit, BetweenRequests, requestVars, controllerVars, timerVars
<1>0. ~posting
  BY NothingPosted
<1>1. TypeOK'
  <2>1. changes' \in 0..MaxChanges
    BY BoundsAssumption
  <2>2. timeout_seconds' \in Limits /\ max_execution_time' \in Limits
    BY LimitsAssumption DEF TypeOK
  <2>3. todo' \subseteq {"cancel", "clear", "set", "enter"} /\ ("clear" \in todo' => "set" \in todo')
    BY LimitsAssumption DEF TypeOK
  <2>4. modified' \in BOOLEAN
    BY LimitsAssumption DEF TypeOK
  <2> QED BY <2>1, <2>2, <2>3, <2>4 DEF TypeOK, Phases
<1>2. Baton'
  BY <1>0 DEF Baton, NoStraySignal, Due, TypeOK
<1>3. Slot'
  BY <1>0 DEF Slot, Baton, NoStraySignal, TypeOK
<1>4. Watch'
  BY <1>0 DEF Watch, Asked, Slot, Baton, NoStraySignal, TypeOK
<1>5. Quiet'
  BY <1>0 DEF Quiet, Slot, Baton, TypeOK
<1> QED BY <1>1, <1>2, <1>3, <1>4, <1>5

LEMMA DeclineKeeps == ASSUME IInv, Decline PROVE IInv'
<1> USE DEF IInv, Decline, AlterTimeLimit, OnUpdateTimeout, ZendSetTimeout, Limited,
            RestoreTimeLimit, BetweenRequests, requestVars, controllerVars, timerVars
<1>0. ~posting
  BY NothingPosted
<1>1. TypeOK'
  <2>1. timeout_seconds' \in Limits /\ max_execution_time' \in Limits
    BY LimitsAssumption DEF TypeOK
  <2>2. todo' \subseteq {"cancel", "clear", "set", "enter"} /\ ("clear" \in todo' => "set" \in todo')
    BY LimitsAssumption DEF TypeOK
  <2> QED BY <2>1, <2>2 DEF TypeOK, Phases
<1>2. Baton'
  BY <1>0 DEF Baton, NoStraySignal, Due, TypeOK
<1>3. Slot'
  BY <1>0 DEF Slot, Baton, NoStraySignal, TypeOK
<1>4. Watch'
  BY <1>0 DEF Watch, Asked, Slot, Baton, NoStraySignal, TypeOK
<1>5. Quiet'
  BY <1>0 DEF Quiet, Slot, Baton, TypeOK
<1> QED BY <1>1, <1>2, <1>3, <1>4, <1>5

LEMMA StartupKeeps == ASSUME IInv, Startup PROVE IInv'
<1> USE DEF IInv, Startup, AlterTimeLimit, OnUpdateTimeout, ZendSetTimeout, Limited,
            RestoreTimeLimit, BetweenRequests, requestVars, controllerVars, timerVars
<1>0. ~posting
  BY NothingPosted
<1>1. TypeOK'
  BY LimitsAssumption, BoundsAssumption DEF TypeOK, Phases
<1>2. Baton'
  BY <1>0 DEF Baton, NoStraySignal, Due, TypeOK
<1>3. Slot'
  BY <1>0 DEF Slot, Baton, NoStraySignal, TypeOK
<1>4. Watch'
  BY <1>0 DEF Watch, Asked, Slot, Baton, NoStraySignal, TypeOK
<1>5. Quiet'
  BY <1>0 DEF Quiet, Slot, Baton, TypeOK
<1> QED BY <1>1, <1>2, <1>3, <1>4, <1>5

LEMMA ExecuteScriptKeeps == ASSUME IInv, ExecuteScript PROVE IInv'
<1> USE DEF IInv, ExecuteScript, AlterTimeLimit, OnUpdateTimeout, ZendSetTimeout, Limited,
            RestoreTimeLimit, BetweenRequests, requestVars, controllerVars, timerVars
<1>0. ~posting
  BY NothingPosted
<1>1. TypeOK'
  BY LimitsAssumption, BoundsAssumption DEF TypeOK, Phases
<1>2. Baton'
  BY <1>0 DEF Baton, NoStraySignal, Due, TypeOK
<1>3. Slot'
  BY <1>0 DEF Slot, Baton, NoStraySignal, TypeOK
<1>4. Watch'
  BY <1>0 DEF Watch, Asked, Slot, Baton, NoStraySignal, TypeOK
<1>5. Quiet'
  BY <1>0 DEF Quiet, Slot, Baton, TypeOK
<1> QED BY <1>1, <1>2, <1>3, <1>4, <1>5

LEMMA SetTimeLimitKeeps == ASSUME IInv, SetTimeLimit PROVE IInv'
<1> USE DEF IInv, SetTimeLimit, AlterTimeLimit, OnUpdateTimeout, ZendSetTimeout, Limited,
            RestoreTimeLimit, BetweenRequests, requestVars, controllerVars, timerVars
<1>0. ~posting
  BY NothingPosted
<1>1. TypeOK'
  BY LimitsAssumption, BoundsAssumption DEF TypeOK, Phases
<1>2. Baton'
  BY <1>0 DEF Baton, NoStraySignal, Due, TypeOK
<1>3. Slot'
  BY <1>0 DEF Slot, Baton, NoStraySignal, TypeOK
<1>4. Watch'
  BY <1>0 DEF Watch, Asked, Slot, Baton, NoStraySignal, TypeOK
<1>5. Quiet'
  BY <1>0 DEF Quiet, Slot, Baton, TypeOK
<1> QED BY <1>1, <1>2, <1>3, <1>4, <1>5

LEMMA ZendTimeoutKeeps == ASSUME IInv, ZendTimeout PROVE IInv'
<1> USE DEF IInv, ZendTimeout, AlterTimeLimit, OnUpdateTimeout, ZendSetTimeout, Limited,
            RestoreTimeLimit, BetweenRequests, requestVars, controllerVars, timerVars
<1>0. ~posting
  BY NothingPosted
<1>1. TypeOK'
  BY LimitsAssumption, BoundsAssumption DEF TypeOK, Phases
<1>2. Baton'
  BY <1>0 DEF Baton, NoStraySignal, Due, TypeOK
<1>3. Slot'
  BY <1>0 DEF Slot, Baton, NoStraySignal, TypeOK
<1>4. Watch'
  BY <1>0 DEF Watch, Asked, Slot, Baton, NoStraySignal, TypeOK
<1>5. Quiet'
  BY <1>0 DEF Quiet, Slot, Baton, TypeOK
<1> QED BY <1>1, <1>2, <1>3, <1>4, <1>5

LEMMA DeactivateKeeps == ASSUME IInv, Deactivate PROVE IInv'
<1> USE DEF IInv, Deactivate, AlterTimeLimit, OnUpdateTimeout, ZendSetTimeout, Limited,
            RestoreTimeLimit, BetweenRequests, requestVars, controllerVars, timerVars
<1>0. ~posting
  BY NothingPosted
<1>1. TypeOK'
  <2>1. timeout_seconds' \in Limits /\ max_execution_time' \in Limits
    BY LimitsAssumption DEF TypeOK
  <2>2. todo' \subseteq {"cancel", "clear", "set", "enter"} /\ ("clear" \in todo' => "set" \in todo')
    BY LimitsAssumption DEF TypeOK
  <2> QED BY <2>1, <2>2 DEF TypeOK, Phases
<1>2. Baton'
  BY <1>0 DEF Baton, NoStraySignal, Due, TypeOK
<1>3. Slot'
  BY <1>0 DEF Slot, Baton, NoStraySignal, TypeOK
<1>4. Watch'
  BY <1>0 DEF Watch, Asked, Slot, Baton, NoStraySignal, TypeOK
<1>5. Quiet'
  BY <1>0 DEF Quiet, Slot, Baton, TypeOK
<1> QED BY <1>1, <1>2, <1>3, <1>4, <1>5

LEMMA EndKeeps == ASSUME IInv, ScriptEnds \/ ResetTimeout PROVE IInv'
<1> USE DEF IInv, ScriptEnds, ResetTimeout, requestVars, controllerVars, timerVars
<1>0. ~posting
  BY NothingPosted
<1>1. TypeOK'
  BY LimitsAssumption, BoundsAssumption DEF TypeOK, Phases
<1>2. Baton'
  BY <1>0 DEF Baton, NoStraySignal, Due, TypeOK
<1>3. Slot'
  BY <1>0 DEF Slot, Baton, NoStraySignal, TypeOK
<1>4. Watch'
  BY <1>0 DEF Watch, Asked, Slot, Baton, NoStraySignal, TypeOK
<1>5. Quiet'
  BY <1>0 DEF Quiet, Slot, Baton, TypeOK
<1> QED BY <1>1, <1>2, <1>3, <1>4, <1>5

-----------------------------------------------------------------------------
(* The calls.                                                              *)

LEMMA ClearKeeps == ASSUME IInv, Clear PROVE IInv'
<1> USE DEF IInv, Clear, Due, Active, requestVars, controllerVars, timerVars
<1>1. TypeOK'
  <2>1. todo' \subseteq {"cancel", "clear", "set", "enter"} /\ ("clear" \in todo' => "set" \in todo')
    BY DEF TypeOK
  <2>2. timed_out' \in BOOLEAN
    OBVIOUS
  <2> QED BY <2>1, <2>2 DEF TypeOK, Phases, Due
<1>2. Baton'
  BY DEF Baton, NoStraySignal, Due, TypeOK
<1>3. Slot'
  BY DEF Slot, Baton, NoStraySignal, TypeOK
<1>4. Watch'
  BY DEF Watch, Asked, Slot, Baton, NoStraySignal, TypeOK
<1>5. Quiet'
  BY DEF Quiet, Slot, Baton, TypeOK
<1> QED BY <1>1, <1>2, <1>3, <1>4, <1>5

LEMMA EnterKeeps == ASSUME IInv, Enter PROVE IInv'
<1> USE DEF IInv, Enter, Due, Active, requestVars, controllerVars, timerVars
<1>1. TypeOK'
  BY LimitsAssumption, BoundsAssumption DEF TypeOK, Phases
<1>2. Baton'
  BY DEF Baton, NoStraySignal, Due, TypeOK
<1>3. Slot'
  BY DEF Slot, Baton, NoStraySignal, TypeOK
<1>4. Watch'
  BY DEF Watch, Asked, Slot, Baton, NoStraySignal, TypeOK
<1>5. Quiet'
  BY DEF Quiet, Slot, Baton, TypeOK
<1> QED BY <1>1, <1>2, <1>3, <1>4, <1>5

LEMMA NothingToCancelKeeps == ASSUME IInv, NothingToCancel PROVE IInv'
<1> USE DEF IInv, NothingToCancel, Due, Active, requestVars, controllerVars, timerVars
<1>1. TypeOK'
  BY LimitsAssumption, BoundsAssumption DEF TypeOK, Phases
<1>2. Baton'
  BY DEF Baton, NoStraySignal, Due, TypeOK
<1>3. Slot'
  BY DEF Slot, Baton, NoStraySignal, TypeOK
<1>4. Watch'
  BY DEF Watch, Asked, Slot, Baton, NoStraySignal, TypeOK
<1>5. Quiet'
  BY DEF Quiet, Slot, Baton, TypeOK
<1> QED BY <1>1, <1>2, <1>3, <1>4, <1>5

LEMMA CreateThreadKeeps == ASSUME IInv, CreateThread \/ CreateThreadFails PROVE IInv'
<1> USE DEF IInv, CreateThread, CreateThreadFails, Due, Active, requestVars,
            controllerVars, timerVars
<1>1. TypeOK'
  BY LimitsAssumption, BoundsAssumption DEF TypeOK, Phases
<1>2. Baton'
  BY DEF Baton, NoStraySignal, Due, TypeOK
<1>3. Slot'
  BY DEF Slot, Baton, NoStraySignal, TypeOK
<1>4. Watch'
  BY DEF Watch, Asked, Slot, Baton, NoStraySignal, TypeOK
<1>5. Quiet'
  BY DEF Quiet, Slot, Baton, TypeOK
<1> QED BY <1>1, <1>2, <1>3, <1>4, <1>5

LEMMA WaitReadyKeeps == ASSUME IInv, WaitReady PROVE IInv'
<1> USE DEF IInv, WaitReady, Due, Active, requestVars, controllerVars, timerVars
<1>1. TypeOK'
  BY LimitsAssumption, BoundsAssumption DEF TypeOK, Phases
<1>2. Baton'
  BY DEF Baton, NoStraySignal, Due, TypeOK
<1>3. Slot'
  BY DEF Slot, Baton, NoStraySignal, TypeOK
<1>4. Watch'
  BY DEF Watch, Asked, Slot, Baton, NoStraySignal, TypeOK
<1>5. Quiet'
  BY DEF Quiet, Slot, Baton, TypeOK
<1> QED BY <1>1, <1>2, <1>3, <1>4, <1>5

LEMMA PostSetKeeps == ASSUME IInv, PostSet PROVE IInv'
<1> USE DEF IInv, PostSet, Due, Active, requestVars, controllerVars, timerVars
<1>1. TypeOK'
  BY LimitsAssumption, BoundsAssumption DEF TypeOK, Phases
<1>2. Baton'
  BY DEF Baton, NoStraySignal, Due, TypeOK
<1>3. Slot'
  BY DEF Slot, Baton, NoStraySignal, TypeOK
<1>4. Watch'
  BY DEF Watch, Asked, Slot, Baton, NoStraySignal, TypeOK
<1>5. Quiet'
  BY DEF Quiet, Slot, Baton, TypeOK
<1> QED BY <1>1, <1>2, <1>3, <1>4, <1>5

LEMMA PostCancelKeeps == ASSUME IInv, PostCancel PROVE IInv'
<1> USE DEF IInv, PostCancel, Due, Active, requestVars, controllerVars, timerVars
<1>1. TypeOK'
  BY LimitsAssumption, BoundsAssumption DEF TypeOK, Phases
<1>2. Baton'
  BY DEF Baton, NoStraySignal, Due, TypeOK
<1>3. Slot'
  BY DEF Slot, Baton, NoStraySignal, TypeOK
<1>4. Watch'
  BY DEF Watch, Asked, Slot, Baton, NoStraySignal, TypeOK
<1>5. Quiet'
  BY DEF Quiet, Slot, Baton, TypeOK
<1> QED BY <1>1, <1>2, <1>3, <1>4, <1>5

-----------------------------------------------------------------------------
(* The timeout thread.                                                     *)

LEMMA ThreadStartsKeeps == ASSUME IInv, ThreadStarts PROVE IInv'
<1> USE DEF IInv, ThreadStarts, requestVars, controllerVars, timerVars
<1>1. TypeOK'
  BY LimitsAssumption, BoundsAssumption DEF TypeOK, Phases
<1>2. Baton'
  BY DEF Baton, NoStraySignal, Due, TypeOK
<1>3. Slot'
  BY DEF Slot, Baton, NoStraySignal, TypeOK
<1>4. Watch'
  BY DEF Watch, Asked, Slot, Baton, NoStraySignal, TypeOK
<1>5. Quiet'
  BY DEF Quiet, Slot, Baton, TypeOK
<1> QED BY <1>1, <1>2, <1>3, <1>4, <1>5

LEMMA WaitForMessageKeeps == ASSUME IInv, WaitForMessage PROVE IInv'
<1> USE DEF IInv, WaitForMessage, requestVars, controllerVars, timerVars
<1>1. TypeOK'
  <2>1. semaphore' \in 0..1
    BY DEF TypeOK, Baton, NoStraySignal
  <2> QED BY <2>1 DEF TypeOK, Phases
<1>2. Baton'
  BY DEF Baton, NoStraySignal, Due, TypeOK
<1>3. Slot'
  BY DEF Slot, Baton, NoStraySignal, TypeOK
<1>4. Watch'
  BY DEF Watch, Asked, Slot, Baton, NoStraySignal, TypeOK
<1>5. Quiet'
  BY DEF Quiet, Slot, Baton, TypeOK
<1> QED BY <1>1, <1>2, <1>3, <1>4, <1>5

LEMMA HandleSetKeeps == ASSUME IInv, HandleSet PROVE IInv'
<1> USE DEF IInv, HandleSet, requestVars, controllerVars, timerVars
<1>1. TypeOK'
  BY LimitsAssumption, BoundsAssumption DEF TypeOK, Phases
<1>2. Baton'
  BY DEF Baton, NoStraySignal, Due, TypeOK
<1>3. Slot'
  BY DEF Slot, Baton, NoStraySignal, TypeOK
<1>4. Watch'
  BY DEF Watch, Asked, Slot, Baton, NoStraySignal, TypeOK
<1>5. Quiet'
  BY DEF Quiet, Slot, Baton, TypeOK
<1> QED BY <1>1, <1>2, <1>3, <1>4, <1>5

LEMMA HandleCancelKeeps == ASSUME IInv, HandleCancel PROVE IInv'
<1> USE DEF IInv, HandleCancel, requestVars, controllerVars, timerVars
<1>1. TypeOK'
  BY LimitsAssumption, BoundsAssumption DEF TypeOK, Phases
<1>2. Baton'
  BY DEF Baton, NoStraySignal, Due, TypeOK
<1>3. Slot'
  BY DEF Slot, Baton, NoStraySignal, TypeOK
<1>4. Watch'
  BY DEF Watch, Asked, Slot, Baton, NoStraySignal, TypeOK
<1>5. Quiet'
  BY DEF Quiet, Slot, Baton, TypeOK
<1> QED BY <1>1, <1>2, <1>3, <1>4, <1>5

LEMMA TimerKeeps == ASSUME IInv, Expire \/ TimerRunL PROVE IInv'
<1> USE DEF IInv, Expire, TimerRunL, requestVars, controllerVars, timerVars
<1>1. TypeOK'
  BY LimitsAssumption, BoundsAssumption DEF TypeOK, Phases
<1>2. Baton'
  BY DEF Baton, NoStraySignal, Due, TypeOK
<1>3. Slot'
  BY DEF Slot, Baton, NoStraySignal, TypeOK
<1>4. Watch'
  BY DEF Watch, Asked, Slot, Baton, NoStraySignal, TypeOK
<1>5. Quiet'
  BY DEF Quiet, Slot, Baton, TypeOK
<1> QED BY <1>1, <1>2, <1>3, <1>4, <1>5

LEMMA StutterKeeps == ASSUME IInv, UNCHANGED vars PROVE IInv'
BY DEF IInv, vars, requestVars, controllerVars, timerVars, TypeOK, Baton, NoStraySignal, Due,
       Slot, Watch, Asked, Quiet

LEMMA NextKeeps == IInv /\ [Next]_vars => IInv'
<1> SUFFICES ASSUME IInv, [Next]_vars PROVE IInv'
  OBVIOUS
<1>1. CASE Request \/ ZendTimeout
  BY <1>1, ApplyConfigKeeps, DeclineKeeps, StartupKeeps, ExecuteScriptKeeps,
     SetTimeLimitKeeps, ZendTimeoutKeeps, DeactivateKeeps, EndKeeps DEF Request
<1>2. CASE Calls
  BY <1>2, ClearKeeps, EnterKeeps, NothingToCancelKeeps, CreateThreadKeeps, WaitReadyKeeps, PostSetKeeps,
     PostCancelKeeps DEF Calls
<1>3. CASE TimeoutThread \/ Expire
  BY <1>3, ThreadStartsKeeps, WaitForMessageKeeps, HandleSetKeeps, HandleCancelKeeps,
     TimerKeeps DEF TimeoutThread
<1>4. CASE UNCHANGED vars
  BY <1>4, StutterKeeps
<1> QED BY <1>1, <1>2, <1>3, <1>4 DEF Next

LEMMA Invariance == Spec => []IInv
BY InitIInv, NextKeeps, PTL DEF Spec

-----------------------------------------------------------------------------
\* The variables keep their types; the semaphore is never more than one.
THEOREM TimeoutTypeCorrect == Spec => []TypeOK
<1>1. IInv => TypeOK
  BY DEF IInv
<1> QED BY <1>1, Invariance, PTL

\* A message finds the handler waiting, a call and the handler never wait for each
\* other, a timer that was cancelled or replaced does not come back, and no request
\* that PHP has served leaves one behind.
THEOREM TimerFollowsTheCalls == Spec => []TimerInStep
<1>1. IInv => NoStraySignal
  BY DEF IInv, Baton
<1>2. IInv => TimerIsTheLastAsked
  BY DEF IInv, Slot, TimerIsTheLastAsked
<1>3. IInv => QuietBetweenRequests
  BY DEF IInv, Slot, Quiet, QuietBetweenRequests
<1>4. IInv => NoMutualWait
  BY DEF IInv, Baton, NoMutualWait
<1>5. IInv => TimerInStep
  BY <1>1, <1>2, <1>3, <1>4 DEF TimerInStep
<1> QED BY <1>5, Invariance, PTL

\* A script under a limit is never left without a timer or a report of its end
\* while the timeout thread lives.
THEOREM LimitNeverLost == Spec => []LimitWatched
<1>1. IInv => LimitWatched
  BY DEF IInv, TypeOK, Slot, Watch, Asked, LimitWatched
<1> QED BY <1>1, Invariance, PTL
=============================================================================
