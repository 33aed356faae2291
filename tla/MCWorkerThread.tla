--------------------------- MODULE MCWorkerThread ---------------------------
(* The instance of WorkerThread that TLC checks: its tasks and stoppers    *)
(* are model values, the same in the safety and the liveness part, so      *)
(* that no symmetry is used.                                               *)
EXTENDS WorkerThread
=============================================================================
