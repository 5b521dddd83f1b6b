----------------------------- MODULE MCExecutor -----------------------------
(* Small instances of Executor for TLC. *)
EXTENDS Executor, TLC

CONSTANTS d1, d2, j1, j2, e1, e2, e3

\* Two jobs of one device compete for its slot.
OneDevice == [j \in {j1, j2} |-> d1]
\* A job each: j2 was moved to another device after the client loaded its
\* schedules, and execute_job reads the device from the job's current row.
TwoDevices == (j1 :> d1) @@ (j2 :> d2)

\* Executions are interchangeable, and the jobs of one device (for safety only).
Symmetry == Permutations(Execs) \cup Permutations(Jobs)
=============================================================================
