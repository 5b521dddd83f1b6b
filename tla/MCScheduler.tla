---------------------------- MODULE MCScheduler ----------------------------
(* Small instances of Scheduler for TLC. *)
EXTENDS Scheduler, TLC

CONSTANTS s1, s2, s3, j1, j2, j3

CronTimes == [even |-> {2, 4, 6}, never |-> {}]

Cron(e)  == [schedule_type |-> "cron", cron_expression |-> e, interval_seconds |-> None]
Every(n) == [schedule_type |-> "interval", cron_expression |-> None, interval_seconds |-> n]

\* A cron schedule and an interval schedule, and a job for each.
CronAndInterval == (s1 :> Cron("even")) @@ (s2 :> Every(2))
OneJobEach == (s1 :> j1) @@ (s2 :> j2)

\* Both schedules drive the same job.
SharedJob == [s \in {s1, s2} |-> j1]

\* The database accepts an interval of zero: its CHECK asks for NOT NULL only.
OneBadRow == CronAndInterval @@ (s3 :> Every(0))
JobsOfThree == OneJobEach @@ (s3 :> j3)

\* A row nobody has loaded yet, and one whose run was due at time 1.
NewOrPlanned == {NoRow, [last |-> 0, next |-> 1]}
Planned == {[last |-> 0, next |-> 1]}
=============================================================================
