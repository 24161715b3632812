---------------------------- MODULE MCWorkerPool ----------------------------
(***************************************************************************)
(* WorkerPool on model values.  Two workers and a channel smaller than the *)
(* number of jobs: jobs queue behind each other, overflow, and race with   *)
(* two Shutdown calls.  Workers, jobs and calls are interchangeable, but   *)
(* the run checks liveness too, for which symmetry is unsound.             *)
(***************************************************************************)
EXTENDS WorkerPool
=============================================================================
