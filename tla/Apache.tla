------------------------------- MODULE Apache -------------------------------
(***************************************************************************)
(* What the Apache thread promises to the process that hosts it: the life  *)
(* of apache_main as seen through ap_mpm_query(AP_MPMQ_MPM_STATE), through *)
(* the_mpm, which says whether a stop call is heard, and through the exit  *)
(* of the thread.  Mpm implements this specification and HttpdServer is    *)
(* built on it.                                                            *)
(***************************************************************************)

CONSTANT
    Unasked   \* whether serving may end though nobody asked, as in a single thread

ASSUME UnaskedAssumption == Unasked \in BOOLEAN

VARIABLES
    mpmState,   \* mpm_state
    up,         \* the_mpm # 0: ap_mpm_run has an mpm to call into
    pending,    \* the stop calls this mpm has accepted
    phase       \* where apache_main is

apacheVars == <<mpmState, up, pending, phase>>

Kinds == {"shutdown", "restart"}
Phases ==
    {"config", "create", "starting", "serving", "closing", "decide", "again",
     "over", "exited"}

ApacheTypeOK ==
    /\ mpmState \in {"STARTING", "RUNNING", "STOPPING"}
    /\ up \in BOOLEAN
    /\ pending \subseteq Kinds
    /\ phase \in Phases

ApacheInit ==
    /\ mpmState = "STARTING"
    /\ up = FALSE
    /\ pending = {}
    /\ phase = "config"

\* apache_main reads the configuration of the next generation, or exits.
Configure ==
    /\ phase = "config"
    /\ phase' \in {"create", "exited"}
    /\ mpmState' \in {mpmState, "STARTING"}
    /\ phase' = "create" => mpmState' = "STARTING"
    /\ UNCHANGED <<up, pending>>

\* ap_mpm_run publishes a fresh mpm, or could not make one and exits.
Create ==
    /\ phase = "create"
    /\ \/ up' = TRUE /\ pending' = {} /\ phase' = "starting"
       \/ UNCHANGED <<up, pending>> /\ phase' = "exited"
    /\ UNCHANGED mpmState

\* The workers are up, or the start is given up, which shuts Apache down.
Serve ==
    /\ phase = "starting"
    /\ \/ mpmState' = "RUNNING" /\ phase' = "serving" /\ UNCHANGED pending
       \/ /\ UNCHANGED mpmState
          /\ \/ phase' = "closing" /\ pending' = pending \cup {"shutdown"}
             \/ phase' = "over" /\ UNCHANGED pending
    /\ UNCHANGED up

\* All the workers are gone, because of a stop call or, single-threaded, because
\* the one worker came to its end.
Close ==
    /\ phase = "serving"
    /\ pending # {} \/ Unasked
    /\ phase' = "closing"
    /\ UNCHANGED <<mpmState, up, pending>>

\* A leave ends the single thread's apache_main where it is.
Unwind ==
    /\ Unasked
    /\ phase = "serving"
    /\ phase' = "exited"
    /\ UNCHANGED <<mpmState, up, pending>>

\* The end of mpm_main, the result of ap_mpm_run, and the end of the mpm.
MarkStopping ==
    /\ phase = "closing"
    /\ mpmState' = "STOPPING"
    /\ phase' = "decide"
    /\ UNCHANGED <<up, pending>>

Conclude ==
    /\ phase = "decide"
    /\ phase' = IF "shutdown" \in pending THEN "over" ELSE "again"
    /\ UNCHANGED <<mpmState, up, pending>>

Destroy ==
    /\ phase \in {"again", "over"}
    /\ up' = FALSE
    /\ phase' = IF phase = "again" THEN "config" ELSE "exited"
    /\ UNCHANGED <<mpmState, pending>>

\* ap_symbian_shutdown and ap_symbian_restart: ignored without an mpm.
Stop(kind) ==
    IF up THEN /\ mpmState' = "STOPPING"
               /\ pending' = pending \cup {kind}
               /\ UNCHANGED <<up, phase>>
          ELSE UNCHANGED apacheVars

ApacheStep ==
    \/ Configure \/ Create \/ Serve \/ Close \/ Unwind
    \/ MarkStopping \/ Conclude \/ Destroy

\* The steps Apache is bound to take: it need not end its serving unasked.
ApacheMust ==
    \/ Configure \/ Create \/ Serve \/ (pending # {} /\ Close)
    \/ MarkStopping \/ Conclude \/ Destroy

ApacheNext == ApacheStep \/ \E kind \in Kinds : Stop(kind)

ApacheSpec == ApacheInit /\ [][ApacheNext]_apacheVars

ApacheFairSpec == ApacheSpec /\ WF_apacheVars(ApacheMust)
=============================================================================
