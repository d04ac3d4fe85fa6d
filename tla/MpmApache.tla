----------------------------- MODULE MpmApache -----------------------------
(***************************************************************************)
(* The multi-processing module implements the abstract Apache thread.      *)
(***************************************************************************)
EXTENDS Mpm

PendingKinds ==
    (IF shutdownPending THEN {"shutdown"} ELSE {}) \cup
    (IF restartPending THEN {"restart"} ELSE {})

\* Where apache_main is, for its host.
Phase ==
    CASE mainPc = "config" -> "config"
      [] mainPc = "create" -> "create"
      [] mainPc \in {"pre_mpm", "spawn", "spawned"} -> "starting"
      [] mainPc \in {"loop", "cond_wait", "scan", "join_slot", "start_worker",
                     "join_all", "single"} -> "serving"
      [] mainPc = "closing" -> "closing"
      [] mainPc = "decide" -> "decide"
      [] mainPc = "destroy_restart" -> "again"
      [] mainPc = "destroy_exit" -> "over"
      [] mainPc = "exited" -> "exited"

Host == INSTANCE Apache WITH
            Unasked <- SingleThread, up <- theMpm, pending <- PendingKinds,
            phase <- Phase

\* Every step of the threads of the mpm is a step of the abstract Apache thread
\* or invisible to its host.
ImplementsApache == Host!ApacheSpec

\* Under the threads' fairness Apache also does what it must: it comes up, and
\* once told to stop it ends or begins its next generation.
ImplementsApacheFairly == Host!ApacheFairSpec
=============================================================================
