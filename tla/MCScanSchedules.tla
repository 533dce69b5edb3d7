--------------------------- MODULE MCScanSchedules ---------------------------
(* Small instances of ScanSchedules for TLC. *)
EXTENDS ScanSchedules, TLC

(* Schedules, runners and requests are interchangeable. *)
Symmetry == Permutations(Schedule) \cup Permutations(Runner) \cup Permutations(Handler)
=============================================================================
