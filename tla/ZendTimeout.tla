---------------------------- MODULE ZendTimeout ----------------------------
(***************************************************************************)
(* The time limit of a PHP script on Symbian.                              *)
(*                                                                         *)
(* The thread that serves a request asks a second thread for a timer and   *)
(* has it taken back.  The two share a controller: a semaphore that says   *)
(* that the message handler of the second thread listens, the handler's    *)
(* request status, through which the message comes, and one word for the   *)
(* parameter.  When the timer has run out its active object sets           *)
(* EG(timed_out), which the script's thread looks at before every opcode.  *)
(*                                                                         *)
(* Time is not modelled: a timer that runs may run out at any moment.      *)
(***************************************************************************)
EXTENDS Integers

CONSTANTS
    Limits,       \* the limits, in seconds, that are ever asked for; 0 is none
    MaxExecution, \* max_execution_time of php.ini
    MaxInput,     \* max_input_time of php.ini; -1 is max_execution_time
    MaxChanges,   \* a bound: calls of set_time_limit in one request
    Second,       \* a second in the unit of RTimer::After
    Word,         \* 2^32, the values of a TInt
    Faults        \* the failures the environment may inject

ASSUME LimitsAssumption ==
    /\ Limits \subseteq Nat
    /\ MaxExecution \in Limits
    /\ MaxInput \in Limits \cup {-1}

ASSUME BoundsAssumption == MaxChanges \in Nat /\ Second \in Nat \ {0} /\ Word \in Nat \ {0}

ASSUME FaultsAssumption == Faults \subseteq {"create"}

VARIABLES
    phase,              \* how far the handler of requests is
    todo,               \* what is left of the calls it makes to the timeout
    timeout_seconds,    \* EG(timeout_seconds)
    max_execution_time, \* the value of the ini entry
    modified,           \* whether the ini entry has been altered
    changes,            \* calls of set_time_limit in this request
    thread,             \* the timeout thread
    semaphore,          \* iReadyForMessageSemaphore
    posting,            \* the request's thread has passed the semaphore
    iMessageParameter,
    iStatus,            \* of the message handler; "idle" while it is not active
    timer,              \* of the other active object
    armed,              \* the seconds the timer has been set for
    wanted,             \* what the last message asked for; 0 is no timer
    timed_out           \* EG(timed_out)

requestVars == <<phase, todo, timeout_seconds, max_execution_time, modified, changes>>
controllerVars == <<semaphore, posting, iMessageParameter, iStatus, wanted>>
timerVars == <<timer, armed>>
vars == <<requestVars, thread, controllerVars, timerVars, timed_out>>

\* "idle" and "declined" are between requests; after "exited" there are none.
Phases == {"idle", "declined", "config", "startup", "script", "ending", "restored", "exited"}

TypeOK ==
    /\ phase \in Phases
    /\ todo \subseteq {"cancel", "clear", "set", "enter"}
    /\ "clear" \in todo => "set" \in todo
    /\ timeout_seconds \in Limits
    /\ max_execution_time \in Limits
    /\ modified \in BOOLEAN
    /\ changes \in 0..MaxChanges
    /\ thread \in {"none", "starting", "up", "dead"}
    /\ semaphore \in 0..1
    /\ posting \in BOOLEAN
    /\ iMessageParameter \in Limits \cup {0}
    /\ iStatus \in {"idle", "pending", "set", "cancel"}
    /\ timer \in {"off", "running", "expired"}
    /\ armed \in Limits \cup {0}
    /\ wanted \in Limits \cup {0}
    /\ timed_out \in BOOLEAN

Init ==
    /\ phase = "idle"
    /\ todo = {}
    /\ timeout_seconds = MaxExecution
    /\ max_execution_time = MaxExecution
    /\ modified = FALSE
    /\ changes = 0
    /\ thread = "none"
    /\ semaphore = 0
    /\ posting = FALSE
    /\ iMessageParameter = 0
    /\ iStatus = "idle"
    /\ timer = "off"
    /\ armed = 0
    /\ wanted = 0
    /\ timed_out = FALSE

-----------------------------------------------------------------------------
(* The request's thread: what it calls, and when.  The calls are carried   *)
(* out one after the other, in the order "cancel", "clear", "set"; what is *)
(* altered is entered behind them.                                         *)

\* zend_set_timeout: without a limit nothing is done at all.
Limited(seconds) == IF seconds = 0 THEN {} ELSE {"clear", "set"}

ZendSetTimeout(seconds) ==
    /\ timeout_seconds' = seconds
    /\ todo' = Limited(seconds)

OnUpdateTimeout(seconds) ==
    /\ timeout_seconds' = seconds
    /\ todo' = {"cancel"} \cup Limited(seconds)

\* zend_alter_ini_entry: the entry is changed once on_modify has succeeded.
AlterTimeLimit(seconds) ==
    /\ timeout_seconds' = seconds
    /\ todo' = {"cancel", "enter"} \cup Limited(seconds)
    /\ UNCHANGED <<max_execution_time, modified>>

\* zend_ini_deactivate.
RestoreTimeLimit ==
    /\ IF modified
       THEN OnUpdateTimeout(MaxExecution)
       ELSE UNCHANGED <<timeout_seconds, todo>>
    /\ max_execution_time' = MaxExecution
    /\ modified' = FALSE

BetweenRequests == phase \in {"idle", "declined"}

\* The handler of requests applies what is configured for the directory.
ApplyConfig ==
    /\ BetweenRequests /\ todo = {}
    /\ phase' = "config"
    /\ changes' = 0
    /\ \/ UNCHANGED <<timeout_seconds, todo, max_execution_time, modified>>
       \/ \E seconds \in Limits : AlterTimeLimit(seconds)
    /\ UNCHANGED <<thread, controllerVars, timerVars, timed_out>>

\* It is not for PHP.
Decline ==
    /\ phase = "config" /\ todo = {}
    /\ phase' = "declined"
    /\ RestoreTimeLimit
    /\ UNCHANGED <<changes, thread, controllerVars, timerVars, timed_out>>

\* php_request_startup, from init_executor on.
Startup ==
    /\ phase = "config" /\ todo = {}
    /\ phase' = "startup"
    /\ timed_out' = FALSE
    /\ ZendSetTimeout(IF MaxInput = -1 THEN timeout_seconds ELSE MaxInput)
    /\ UNCHANGED <<max_execution_time, modified, changes, thread, controllerVars, timerVars>>

\* Wrong: the limit for the input is taken to be the one of the script.
ExecuteScriptUnderOldLimit ==
    /\ phase = "startup" /\ todo = {}
    /\ phase' = "script"
    /\ timeout_seconds' = max_execution_time
    /\ UNCHANGED <<todo, max_execution_time, modified, changes, thread, controllerVars,
                   timerVars, timed_out>>

ExecuteScript ==
    /\ phase = "startup" /\ todo = {}
    /\ phase' = "script"
    /\ IF MaxInput # -1
       THEN ZendSetTimeout(max_execution_time)
       ELSE UNCHANGED <<timeout_seconds, todo>>
    /\ UNCHANGED <<max_execution_time, modified, changes, thread, controllerVars, timerVars,
                   timed_out>>

\* set_time_limit, of the script or of one of its shutdown functions.
SetTimeLimit ==
    /\ phase \in {"script", "ending"} /\ todo = {}
    /\ changes < MaxChanges
    /\ changes' = changes + 1
    /\ \E seconds \in Limits : AlterTimeLimit(seconds)
    /\ UNCHANGED <<phase, thread, controllerVars, timerVars, timed_out>>

\* Before an opcode: zend_timeout grants the shutdown functions the same limit
\* again and leaves the script with a fatal error.
ZendTimeout ==
    /\ phase \in {"script", "ending"} /\ todo = {}
    /\ timed_out
    /\ phase' = "ending"
    /\ ZendSetTimeout(timeout_seconds)
    /\ UNCHANGED <<max_execution_time, modified, changes, thread, controllerVars, timerVars,
                   timed_out>>

\* The script, or the start of the request, has come to an end.
ScriptEnds ==
    /\ phase \in {"startup", "script"} /\ todo = {}
    /\ phase' = "ending"
    /\ UNCHANGED <<todo, timeout_seconds, max_execution_time, modified, changes, thread,
                   controllerVars, timerVars, timed_out>>

\* php_request_shutdown: zend_deactivate restores the ini entries, ...
Deactivate ==
    /\ phase = "ending" /\ todo = {}
    /\ phase' = "restored"
    /\ RestoreTimeLimit
    /\ UNCHANGED <<changes, thread, controllerVars, timerVars, timed_out>>

\* ... and at the end the limit is reset.
ResetTimeout ==
    /\ phase = "restored" /\ todo = {}
    /\ phase' = "idle"
    /\ todo' = {"cancel"}
    /\ UNCHANGED <<timeout_seconds, max_execution_time, modified, changes, thread,
                   controllerVars, timerVars, timed_out>>

-----------------------------------------------------------------------------
(* The request's thread: the calls.                                        *)

\* Wrong: the flag is cleared after the new timer has been asked for.
DueFlagLast(call) ==
    CASE call = "cancel" -> "cancel" \in todo
      [] call = "clear"  -> "clear" \in todo /\ {"cancel", "set"} \cap todo = {}
      [] call = "set"    -> "set" \in todo /\ "cancel" \notin todo
      [] call = "enter"  -> todo = {"enter"}

\* Which of them is next.
Due(call) ==
    CASE call = "cancel" -> "cancel" \in todo
      [] call = "clear"  -> "clear" \in todo /\ "cancel" \notin todo
      [] call = "set"    -> "set" \in todo /\ "cancel" \notin todo /\ "clear" \notin todo
      [] call = "enter"  -> todo = {"enter"}

\* zend_set_timeout clears the flag before it asks for the new timer.
Clear ==
    /\ Due("clear")
    /\ todo' = todo \ {"clear"}
    /\ timed_out' = FALSE
    /\ UNCHANGED <<phase, timeout_seconds, max_execution_time, modified, changes, thread,
                   controllerVars, timerVars>>

\* The rest of zend_alter_ini_entry.
Enter ==
    /\ Due("enter")
    /\ todo' = {}
    /\ max_execution_time' = timeout_seconds
    /\ modified' = TRUE
    /\ UNCHANGED <<phase, timeout_seconds, changes, thread, controllerVars, timerVars,
                   timed_out>>

\* zend_unset_timeout_symbian: there is no thread to tell.
NothingToCancel ==
    /\ Due("cancel")
    /\ thread = "none"
    /\ todo' = todo \ {"cancel"}
    /\ UNCHANGED <<phase, timeout_seconds, max_execution_time, modified, changes, thread,
                   controllerVars, timerVars, timed_out>>

\* start_symbian_timeout_thread.
CreateThread ==
    /\ Due("set")
    /\ thread = "none"
    /\ thread' = "starting"
    /\ UNCHANGED <<requestVars, controllerVars, timerVars, timed_out>>

\* The error is fatal to the request: it goes on behind the zend_try around
\* the call, and there is none around the configuration of the directory.
CreateThreadFails ==
    /\ "create" \in Faults
    /\ Due("set")
    /\ thread = "none"
    /\ todo' = {}
    /\ phase' = CASE phase = "config"                -> "exited"
                  [] phase \in {"startup", "script"} -> "ending"
                  [] OTHER                           -> phase
    /\ UNCHANGED <<timeout_seconds, max_execution_time, modified, changes, thread,
                   controllerVars, timerVars, timed_out>>

Active == thread # "none"

\* SetTimeout and CancelTimeout, up to the semaphore.
WaitReady ==
    /\ Active
    /\ Due("cancel") \/ Due("set")
    /\ ~posting
    /\ semaphore > 0
    /\ semaphore' = semaphore - 1
    /\ posting' = TRUE
    /\ UNCHANGED <<requestVars, thread, iMessageParameter, iStatus, wanted, timerVars, timed_out>>

PostSet ==
    /\ posting /\ Due("set")
    /\ posting' = FALSE
    /\ todo' = todo \ {"set"}
    /\ iMessageParameter' = timeout_seconds
    /\ iStatus' = "set"
    /\ wanted' = timeout_seconds
    /\ UNCHANGED <<phase, timeout_seconds, max_execution_time, modified, changes, thread,
                   semaphore, timerVars, timed_out>>

PostCancel ==
    /\ posting /\ Due("cancel")
    /\ posting' = FALSE
    /\ todo' = todo \ {"cancel"}
    /\ iStatus' = "cancel"
    /\ wanted' = 0
    /\ UNCHANGED <<phase, timeout_seconds, max_execution_time, modified, changes, thread,
                   semaphore, iMessageParameter, timerVars, timed_out>>

-----------------------------------------------------------------------------
(* The timeout thread: two active objects, the timer's before the message  *)
(* handler's.                                                              *)

ThreadStarts ==
    /\ thread = "starting"
    /\ thread' = "up"
    /\ UNCHANGED <<requestVars, controllerVars, timerVars, timed_out>>

\* Wrong: the handler listens again only when the timer has run out.
WaitForMessageUntimed ==
    /\ thread = "up" /\ iStatus = "idle"
    /\ timer = "off"
    /\ iStatus' = "pending"
    /\ semaphore' = semaphore + 1
    /\ UNCHANGED <<requestVars, thread, posting, iMessageParameter, wanted, timerVars, timed_out>>

WaitForMessage ==
    /\ thread = "up" /\ iStatus = "idle"
    /\ iStatus' = "pending"
    /\ semaphore' = semaphore + 1
    /\ UNCHANGED <<requestVars, thread, posting, iMessageParameter, wanted, timerVars, timed_out>>

\* What a number of seconds is in a signed word of microseconds.
Interval(seconds) ==
    LET wrapped == (seconds * Second) % Word
    IN  IF 2 * wrapped >= Word THEN wrapped - Word ELSE wrapped

\* RTimer::After panics the thread when the interval is negative.
HandleSet ==
    /\ thread = "up" /\ iStatus = "set"
    /\ timer # "expired"
    /\ iStatus' = "idle"
    /\ IF Interval(iMessageParameter) < 0
       THEN thread' = "dead" /\ timer' = "off" /\ UNCHANGED armed
       ELSE timer' = "running" /\ armed' = iMessageParameter /\ UNCHANGED thread
    /\ UNCHANGED <<requestVars, semaphore, posting, iMessageParameter, wanted, timed_out>>

\* Wrong: a cancelled timer runs on.
HandleCancelNot ==
    /\ thread = "up" /\ iStatus = "cancel"
    /\ timer # "expired"
    /\ iStatus' = "idle"
    /\ UNCHANGED <<requestVars, thread, semaphore, posting, iMessageParameter, wanted,
                   timerVars, timed_out>>

HandleCancel ==
    /\ thread = "up" /\ iStatus = "cancel"
    /\ timer # "expired"
    /\ iStatus' = "idle"
    /\ timer' = "off"
    /\ UNCHANGED <<requestVars, thread, semaphore, posting, iMessageParameter, wanted, armed,
                   timed_out>>

\* The clock.
Expire ==
    /\ thread = "up" /\ timer = "running"
    /\ timer' = "expired"
    /\ UNCHANGED <<requestVars, thread, controllerVars, armed, timed_out>>

TimerRunL ==
    /\ thread = "up" /\ timer = "expired" /\ iStatus # "idle"
    /\ timer' = "off"
    /\ timed_out' = TRUE
    /\ UNCHANGED <<requestVars, thread, controllerVars, armed>>

-----------------------------------------------------------------------------
Request ==
    ApplyConfig \/ Decline \/ Startup \/ ExecuteScript \/ SetTimeLimit \/ ScriptEnds
        \/ Deactivate \/ ResetTimeout

Calls ==
    Clear \/ Enter \/ NothingToCancel \/ CreateThread \/ CreateThreadFails \/ WaitReady
        \/ PostSet \/ PostCancel

TimeoutThread ==
    ThreadStarts \/ WaitForMessage \/ HandleSet \/ HandleCancel \/ TimerRunL

Next == Request \/ ZendTimeout \/ Calls \/ TimeoutThread \/ Expire

Spec == Init /\ [][Next]_vars

\* Time passes; the threads run; a script goes from opcode to opcode.  Nothing
\* says that a script ends by itself.
FairSpec ==
    /\ Spec
    /\ WF_vars(Calls)
    /\ WF_vars(TimeoutThread)
    /\ WF_vars(Expire)
    /\ WF_vars(ZendTimeout)

-----------------------------------------------------------------------------
(* What must hold.                                                         *)

\* Whoever has passed the semaphore, or may pass it, finds the handler
\* waiting: a message never completes a request that is not pending and never
\* overwrites one that has not been handled.
NoStraySignal == semaphore > 0 \/ posting => iStatus = "pending"

\* Once the handler listens again, a timer that runs is the one that was
\* asked for last: what was cancelled or replaced does not come back.
TimerIsTheLastAsked ==
    iStatus = "pending" /\ timer # "off" => wanted # 0 /\ armed = wanted

\* A script that has a limit and is not in the middle of a call is watched:
\* the timer of its limit is set or has been reported, unless the timeout
\* thread has died.
LimitWatched ==
    phase = "script" /\ todo = {} /\ timeout_seconds # 0 /\ thread # "dead" =>
        \/ iStatus = "set" /\ iMessageParameter = timeout_seconds
        \/ timer # "off" /\ armed = timeout_seconds
        \/ timed_out

\* Between requests no timer is left behind, except by a request that was
\* declined after its directory's limit had been applied.
QuietBetweenRequests ==
    phase = "idle" /\ todo = {} /\ iStatus = "pending" => timer = "off"

\* A call never waits for a handler that waits for it: while one is due either
\* the request's thread can go on with it, or the timeout thread, if it lives,
\* has something to do before it listens.
NoMutualWait ==
    todo # {} /\ thread # "dead" =>
        \/ Due("clear") \/ Due("enter") \/ thread = "none" \/ posting \/ semaphore > 0
        \/ thread = "starting" \/ iStatus # "pending"

\* The timer is in step with the calls, in spite of the thread between them.
TimerInStep ==
    NoStraySignal /\ NoMutualWait /\ TimerIsTheLastAsked /\ QuietBetweenRequests

\* A script under a limit is stopped in the end, even if it never ends itself,
\* unless the limit is taken from it or the timeout thread dies.
ScriptIsStopped ==
    phase = "script" /\ timeout_seconds # 0
        ~> phase # "script" \/ timeout_seconds = 0 \/ thread = "dead"

\* No call to set or cancel the timeout waits for ever, unless the timeout
\* thread dies.
CallsReturn == todo # {} ~> todo = {} \/ thread = "dead"
=============================================================================
