---------------------------- MODULE ScheduleCalc ----------------------------
(***************************************************************************)
(* The pure functions of src/scheduler/schedule_calc.rs.  Times are natural *)
(* numbers, None is the absent value of an Option, and an Err is None too:  *)
(* every caller passes the error on with `?`.                               *)
(***************************************************************************)
EXTENDS Integers

CONSTANTS
  None,
  Occurrences   \* the times each well-formed cron expression stands for: the
                \* cron crate; an expression outside the domain does not parse

ASSUME ScheduleCalcAssumption ==
  /\ None \notin Int
  /\ \A e \in DOMAIN Occurrences : Occurrences[e] \subseteq Nat

Time == Nat
OptTime == Time \cup {None}

\* A row of schedules, without its times.
IsCron(d)     == d.schedule_type = "cron"
IsInterval(d) == d.schedule_type = "interval"

\* CronSchedule::after(now).next(): the first occurrence strictly after now.
IsNextOccurrence(e, now, t) ==
  /\ t \in Occurrences[e]
  /\ t > now
  /\ \A u \in Occurrences[e] : u > now => t <= u

\* calculate_next_cron_run
NextCronRun(d, now) ==
  IF /\ d.cron_expression \in DOMAIN Occurrences
     /\ \E t \in Occurrences[d.cron_expression] : IsNextOccurrence(d.cron_expression, now, t)
  THEN CHOOSE t \in Occurrences[d.cron_expression] : IsNextOccurrence(d.cron_expression, now, t)
  ELSE None

\* calculate_next_interval_run; interval_seconds may be NULL, zero or negative
NextIntervalRun(d, last_run, now) ==
  IF d.interval_seconds \in Int /\ d.interval_seconds > 0
  THEN (IF last_run # None THEN last_run ELSE now) + d.interval_seconds
  ELSE None

\* calculate_next_run
CalculateNextRun(d, last_run, now) ==
  IF IsCron(d) THEN NextCronRun(d, now)
  ELSE IF IsInterval(d) THEN NextIntervalRun(d, last_run, now)
  ELSE None

\* Mutant: only the very instant counts.
IsDueExactly(next_run_at, now) == next_run_at = None \/ next_run_at = now

\* Mutant: what is due before the next tick counts as well.
IsDueSoon(next_run_at, now) == next_run_at = None \/ next_run_at <= now + 1

\* is_due
IsDue(next_run_at, now) == next_run_at = None \/ next_run_at <= now
=============================================================================
