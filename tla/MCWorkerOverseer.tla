-------------------------- MODULE MCWorkerOverseer --------------------------
(* Three workers, distinguishable: liveness is checked.                    *)
EXTENDS WorkerOverseer
=============================================================================
