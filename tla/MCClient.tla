------------------------------ MODULE MCClient ------------------------------
(* Small instances of Client for TLC. *)
EXTENDS Client, TLC

CONSTANTS s1, j1, d1, e1, e2

\* One job with one schedule, which runs every unit of time.
EveryUnit == s1 :> [schedule_type |-> "interval", cron_expression |-> None, interval_seconds |-> 1]
ScheduledJob == s1 :> j1
OneDevice == j1 :> d1
NoCron == [e \in {} |-> {}]

\* A row nobody has loaded yet, and one whose run is due at time 1.
NewOrPlanned == {[last |-> None, next |-> None], [last |-> 0, next |-> 1]}
Planned == {[last |-> 0, next |-> 1]}
=============================================================================
