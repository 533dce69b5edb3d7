----------------------------- MODULE MCScanJobs -----------------------------
(* Small instances of ScanJobs for TLC. *)
EXTENDS ScanJobs, TLC

(* Every job scans the same target, so that deleting it meets every job. *)
OneTarget == [j \in Job |-> CHOOSE t \in Target : TRUE]

(* Jobs, workers and requests are interchangeable (not for liveness). *)
Symmetry == Permutations(Job) \cup Permutations(Worker) \cup Permutations(Handler)
=============================================================================
