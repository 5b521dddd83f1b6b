----------------------------- MODULE MissedRuns -----------------------------
(***************************************************************************)
(* The pure functions of src/scheduler/missed_runs.rs, over the rows and   *)
(* times of ScheduleCalc.  Nothing in the client calls them yet.           *)
(***************************************************************************)
EXTENDS ScheduleCalc

\* is_run_missed
IsRunMissed(next_run_at, now, grace) == next_run_at # None /\ next_run_at + grace < now

\* last_run.or(schedule.last_run_at)
LastRunOr(last_run, last_run_at) == IF last_run # None THEN last_run ELSE last_run_at

\* Mutant: the run that will be caught up is counted too.
CountMissedAndCaughtUp(d, last_run, last_run_at, now) ==
  LET last == LastRunOr(last_run, last_run_at) IN
  IF /\ IsInterval(d) /\ d.interval_seconds \in Int /\ d.interval_seconds > 0
     /\ last # None /\ now - last >= d.interval_seconds
  THEN (now - last) \div d.interval_seconds
  ELSE 0

\* count_missed_interval_runs.  The quotient is at least 1 there, so that
\* saturating_sub(1) never saturates.
CountMissedIntervalRuns(d, last_run, last_run_at, now) ==
  LET last == LastRunOr(last_run, last_run_at) IN
  IF /\ IsInterval(d) /\ d.interval_seconds \in Int /\ d.interval_seconds > 0
     /\ last # None /\ now - last >= d.interval_seconds
  THEN (now - last) \div d.interval_seconds - 1
  ELSE 0
=============================================================================
