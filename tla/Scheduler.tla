----------------------------- MODULE Scheduler -----------------------------
(***************************************************************************)
(* The scheduler of the backup client, src/scheduler.rs: reload_schedules  *)
(* once at the start of the process, then check_schedules at every tick,   *)
(* and queue_job for each schedule that is due.                            *)
(*                                                                         *)
(* The rows of the table schedules (table) survive the process; the map    *)
(* of loaded schedules and the channel to the executor do not.             *)
(*                                                                         *)
(* Time is counted in some unit of which CheckInterval make the 60 seconds *)
(* of a tick.  MaxTime is the horizon of a behaviour: the clock stops      *)
(* there, and ticks then go on at that instant.                            *)
(***************************************************************************)
EXTENDS MissedRuns, Sequences, FiniteSets

CONSTANTS
  Schedules,      \* ids of the schedules of this device
  Jobs,           \* ids of backup jobs
  JobOf,          \* schedules.job_id
  Def,            \* schedule_type, cron_expression, interval_seconds of a row
  InitRows,       \* last_run_at and next_run_at a row may start with
  QueueCapacity,  \* capacity of the mpsc channel (100 in the code)
  CheckInterval,  \* SCHEDULER_CHECK_INTERVAL_SECONDS, in units of time
  MaxTime,        \* bound: the horizon
  MaxDbErrors,    \* bound: failing database calls
  MaxRestarts,    \* bound: exits of the client
  MaxEdits,       \* bound: schedules switched on or off by an administrator
  MaxManual       \* bound: calls of trigger_manual_backup

Row == [last : OptTime, next : OptTime]
NoRow == [last |-> None, next |-> None]

ASSUME SchedulerAssumption ==
  /\ JobOf \in [Schedules -> Jobs]
  /\ InitRows \subseteq Row
  /\ None \notin Schedules
  /\ QueueCapacity \in Nat \ {0} /\ CheckInterval \in Nat \ {0}
  /\ MaxTime \in Nat /\ MaxDbErrors \in Nat /\ MaxRestarts \in Nat
  /\ MaxEdits \in Nat /\ MaxManual \in Nat

VARIABLES
  now,        \* Utc::now()
  tick,       \* when the interval timer fires next
  pc,         \* where the scheduler task stands
  loaded,     \* the keys of the map `schedules`
  schedules,  \* its values: last_run_at and next_run_at in memory
  todo,       \* fetched rows whose next_run_at is still to be calculated
  due,        \* due schedules of the current check, not queued yet
  cur,        \* the schedule queue_job is working on
  plan,       \* its locals now and next_run, as what they are written to
  queue,      \* the channel to the executor
  table,      \* last_run_at and next_run_at in the database
  enabled,    \* schedules with s.enabled and j.enabled in the database
  recorded,   \* history: the last run of each schedule whose UPDATE succeeded
  dbErrors, restarts, edits, manual

memory == <<loaded, schedules, todo>>
check  == <<due, cur, plan>>
bounds == <<dbErrors, restarts, edits, manual>>
vars   == <<now, tick, pc, memory, check, queue, table, enabled, recorded, bounds>>

JobExecution == [job_id : Jobs, triggered_by : {"schedule", "manual"}]
Pc == {"start", "loading", "idle", "checking", "sent", "planned", "written", "stopped"}

\* queue_job is under way, after its send.
Queueing == {"sent", "planned", "written"}

NextOf(s, last, t) == CalculateNextRun(Def[s], last, t)

-----------------------------------------------------------------------------
Init ==
  /\ now = 0 /\ tick = 0
  /\ pc = "start"
  /\ loaded = {} /\ todo = {} /\ due = {} /\ cur = None /\ plan = NoRow
  /\ schedules = [s \in Schedules |-> NoRow]
  /\ queue = <<>>
  /\ table \in [Schedules -> InitRows]
  /\ enabled = Schedules
  /\ recorded = [s \in Schedules |-> None]
  /\ dbErrors = 0 /\ restarts = 0 /\ edits = 0 /\ manual = 0

DbError ==
  /\ dbErrors < MaxDbErrors
  /\ dbErrors' = dbErrors + 1
  /\ UNCHANGED <<restarts, edits, manual>>

\* Mutant: the UPDATE forgets next_run_at.
UpdateLastOnly(job, last, next) ==
  table' = [s \in Schedules |->
    IF JobOf[s] = job THEN [table[s] EXCEPT !.last = last] ELSE table[s]]

\* update_schedule_last_run: WHERE job_id, so every schedule of the job.
UpdateScheduleLastRun(job, last, next) ==
  table' = [s \in Schedules |->
    IF JobOf[s] = job THEN [last |-> last, next |-> next] ELSE table[s]]

\* Mutant: a run that was missed is planned anew instead of being caught up.
LoadSkippingMissed ==
  /\ pc = "start"
  /\ pc' = "loading"
  /\ loaded' = enabled
  /\ schedules' = table
  /\ todo' = {s \in enabled : table[s].next = None \/ table[s].next < now}
  /\ UNCHANGED <<now, tick, check, queue, table, enabled, recorded, bounds>>

\* reload_schedules: get_schedules_for_device.  An error ends start(), and
\* with it the process.
Load ==
  /\ pc = "start"
  /\ \/ /\ pc' = "loading"
        /\ loaded' = enabled
        /\ schedules' = table
        /\ todo' = {s \in enabled : table[s].next = None}
        /\ UNCHANGED bounds
     \/ /\ DbError
        /\ pc' = "stopped"
        /\ UNCHANGED memory
  /\ UNCHANGED <<now, tick, check, queue, table, enabled, recorded>>

\* reload_schedules, a row without next_run_at.  A row for which none can be
\* calculated ends the reload (`?`); a failing UPDATE is logged only.  The
\* clock is read before the UPDATE, and whatever happens in between finds the
\* map locked and the row untouched: one step stands for both.
LoadRow(s) ==
  LET next == NextOf(s, schedules[s].last, now)
      last == IF schedules[s].last = None THEN now ELSE schedules[s].last
  IN
  /\ pc = "loading"
  /\ s \in todo
  /\ \/ /\ next = None
        /\ pc' = "stopped"
        /\ UNCHANGED <<memory, table, bounds>>
     \/ /\ next # None
        /\ schedules' = [schedules EXCEPT ![s].next = next]
        /\ todo' = todo \ {s}
        /\ \/ UpdateScheduleLastRun(JobOf[s], last, next) /\ UNCHANGED bounds
           \/ DbError /\ (UpdateScheduleLastRun(JobOf[s], last, next) \/ UNCHANGED table)
        /\ UNCHANGED <<pc, loaded>>
  /\ UNCHANGED <<now, tick, check, queue, enabled, recorded>>

\* start: the interval is created; its first tick is immediate.
FinishLoad ==
  /\ pc = "loading"
  /\ todo = {}
  /\ pc' = "idle"
  /\ tick' = now
  /\ UNCHANGED <<now, memory, check, queue, table, enabled, recorded, bounds>>

\* A late tick does not move the following ones (MissedTickBehavior::Burst).
NextTick(t) == IF t + CheckInterval <= MaxTime THEN t + CheckInterval ELSE MaxTime

\* Mutant: the check walks over every row, loaded or not.
CheckAllRows ==
  /\ pc = "idle"
  /\ tick <= now
  /\ tick' = NextTick(tick)
  /\ due' = {s \in Schedules : IsDue(schedules[s].next, now)}
  /\ pc' = "checking"
  /\ UNCHANGED <<now, memory, cur, plan, queue, table, enabled, recorded, bounds>>

\* check_schedules: now is read once, and the map cloned.  Every loaded row
\* had enabled = true, so the loop's own test of it skips nothing.
CheckSchedules ==
  /\ pc = "idle"
  /\ tick <= now
  /\ tick' = NextTick(tick)
  /\ due' = {s \in loaded : IsDue(schedules[s].next, now)}
  /\ pc' = "checking"
  /\ UNCHANGED <<now, memory, cur, plan, queue, table, enabled, recorded, bounds>>

\* queue_job: send, which waits while the channel is full.  The map's order is
\* arbitrary.
Send(s) ==
  /\ pc = "checking"
  /\ s \in due
  /\ Len(queue) < QueueCapacity
  /\ queue' = Append(queue, [job_id |-> JobOf[s], triggered_by |-> "schedule"])
  /\ due' = due \ {s}
  /\ cur' = s
  /\ pc' = "sent"
  /\ UNCHANGED <<now, tick, memory, plan, table, enabled, recorded, bounds>>

\* Mutant: the next run is counted from the run before this one.
NextFromLastRun(s) == NextOf(s, schedules[s].last, now)

\* queue_job: calculate_next_run(schedule, Some(now), now).
NextAfterQueueing(s) == NextOf(s, now, now)

\* Mutant: a schedule that cannot be planned ends the check (`?` in the loop).
PlanOrGiveUp ==
  LET next == NextAfterQueueing(cur) IN
  /\ pc = "sent"
  /\ \/ /\ next = None
        /\ pc' = "checking" /\ due' = {} /\ cur' = None
        /\ UNCHANGED plan
     \/ /\ next # None
        /\ pc' = "planned"
        /\ plan' = [last |-> now, next |-> next]
        /\ UNCHANGED <<due, cur>>
  /\ UNCHANGED <<now, tick, memory, queue, table, enabled, recorded, bounds>>

\* queue_job returns, with or without an error; check_schedules goes on.
EndQueueing == pc' = "checking" /\ cur' = None /\ plan' = NoRow /\ UNCHANGED due

\* queue_job: now is read again, and the next run calculated from it.
PlanNext ==
  LET next == NextAfterQueueing(cur) IN
  /\ pc = "sent"
  /\ \/ next = None /\ EndQueueing
     \/ /\ next # None
        /\ pc' = "planned"
        /\ plan' = [last |-> now, next |-> next]
        /\ UNCHANGED <<due, cur>>
  /\ UNCHANGED <<now, tick, memory, queue, table, enabled, recorded, bounds>>

\* queue_job: the UPDATE of the row.  Time passes while it is awaited, also
\* beyond the planned time.  If it fails, the map stays as it was.
WriteRow ==
  /\ pc = "planned"
  /\ \/ /\ UpdateScheduleLastRun(JobOf[cur], plan.last, plan.next)
        /\ recorded' = [recorded EXCEPT ![cur] = plan.last]
        /\ pc' = "written"
        /\ UNCHANGED <<check, bounds>>
     \/ /\ DbError
        /\ UpdateScheduleLastRun(JobOf[cur], plan.last, plan.next) \/ UNCHANGED table
        /\ EndQueueing
        /\ UNCHANGED recorded
  /\ UNCHANGED <<now, tick, memory, queue, enabled>>

\* queue_job: the map.
WriteMap ==
  /\ pc = "written"
  /\ schedules' = [schedules EXCEPT ![cur] = plan]
  /\ EndQueueing
  /\ UNCHANGED <<now, tick, loaded, todo, queue, table, enabled, recorded, bounds>>

EndCheck ==
  /\ pc = "checking"
  /\ due = {}
  /\ pc' = "idle"
  /\ UNCHANGED <<now, tick, memory, check, queue, table, enabled, recorded, bounds>>

\* trigger_manual_backup, called from another task while the process runs.
TriggerManualBackup(job) ==
  /\ pc # "stopped"
  /\ manual < MaxManual
  /\ Len(queue) < QueueCapacity
  /\ queue' = Append(queue, [job_id |-> job, triggered_by |-> "manual"])
  /\ manual' = manual + 1
  /\ UNCHANGED <<now, tick, pc, memory, check, table, enabled, recorded, dbErrors, restarts, edits>>

-----------------------------------------------------------------------------
(* The environment *)

AdvanceClock ==
  /\ now < MaxTime
  /\ now' = now + 1
  /\ UNCHANGED <<tick, pc, memory, check, queue, table, enabled, recorded, bounds>>

\* JobExecutor::start receives and spawns at once; it never waits for a backup.
Consume ==
  /\ queue # <<>>
  /\ queue' = Tail(queue)
  /\ UNCHANGED <<now, tick, pc, memory, check, table, enabled, recorded, bounds>>

\* An administrator switches a schedule, or its job, on or off in the database.
SetEnabled(s) ==
  /\ edits < MaxEdits
  /\ edits' = edits + 1
  /\ enabled' = IF s \in enabled THEN enabled \ {s} ELSE enabled \cup {s}
  /\ UNCHANGED <<now, tick, pc, memory, check, queue, table, recorded, dbErrors, restarts, manual>>

SchedulesOf(job) == {s \in Schedules : JobOf[s] = job}

\* A job is deleted: its schedules go with it (ON DELETE CASCADE).  What their
\* rows hold is not read again, and an UPDATE of them has no effect.
DeleteSchedulesOf(job) ==
  /\ edits < MaxEdits
  /\ enabled \cap SchedulesOf(job) # {}
  /\ edits' = edits + 1
  /\ enabled' = enabled \ SchedulesOf(job)
  /\ UNCHANGED <<now, tick, pc, memory, check, queue, table, recorded, dbErrors, restarts, manual>>

\* The process ends, wherever the scheduler stands, and is started again.
Restart ==
  /\ restarts < MaxRestarts
  /\ restarts' = restarts + 1
  /\ pc' = "start"
  /\ tick' = 0
  /\ loaded' = {} /\ todo' = {} /\ due' = {} /\ cur' = None /\ plan' = NoRow
  /\ schedules' = [s \in Schedules |-> NoRow]
  /\ queue' = <<>>
  /\ UNCHANGED <<now, table, enabled, recorded, dbErrors, edits, manual>>

\* The scheduler task.
SchedulerStep ==
  \/ Load \/ FinishLoad \/ CheckSchedules \/ EndCheck
  \/ PlanNext \/ WriteRow \/ WriteMap
  \/ \E s \in Schedules : LoadRow(s) \/ Send(s)

\* main: start() has returned, select! ends, and the process with it.  Nobody
\* has to start it again, so this step also repeats for ever.
ProcessEnd ==
  /\ pc = "stopped"
  /\ queue' = <<>>
  /\ UNCHANGED <<now, tick, pc, memory, check, table, enabled, recorded, bounds>>

Next ==
  \/ SchedulerStep \/ ProcessEnd
  \/ \E job \in Jobs : TriggerManualBackup(job) \/ DeleteSchedulesOf(job)
  \/ AdvanceClock \/ Consume \/ Restart
  \/ \E s \in Schedules : SetEnabled(s)

Spec == Init /\ [][Next]_vars

\* The task runs whenever it can, the executor keeps receiving, and time
\* passes.  Nobody has to restart a process that has stopped.
FairSpec ==
  /\ Spec
  /\ WF_vars(SchedulerStep) /\ WF_vars(Consume) /\ WF_vars(AdvanceClock)

-----------------------------------------------------------------------------
(* Properties *)

\* Types of the variables, and which of them mean something at which place of the
\* scheduler task.
TypeOK ==
  /\ now \in Nat /\ tick \in Nat
  /\ pc \in Pc
  /\ loaded \subseteq Schedules /\ todo \subseteq loaded /\ due \subseteq loaded
  /\ pc \in {"checking"} \cup Queueing \/ due = {}
  /\ cur \in Schedules \cup {None} /\ (pc \in Queueing <=> cur # None)
  /\ plan \in Row /\ (pc \in {"planned", "written"} <=> plan # NoRow)
  /\ schedules \in [Schedules -> Row]
  /\ queue \in Seq(JobExecution)
  /\ table \in [Schedules -> Row]
  /\ enabled \subseteq Schedules
  /\ recorded \in [Schedules -> OptTime]
  /\ dbErrors \in Nat /\ restarts \in Nat /\ edits \in Nat /\ manual \in Nat

\* No two schedules belong to the same job.
OneSchedulePerJob == \A s, t \in Schedules : JobOf[s] = JobOf[t] => s = t

\* A run that queue_job has recorded is not repeated before its next time: when
\* a schedule is queued again, the time calculated from the recorded run has
\* come, whatever was restarted, reloaded or failed in between, and however
\* long an UPDATE took.  (A run that was queued and not recorded may be
\* repeated.)
RecordedRunNotRepeated ==
  pc = "sent" /\ recorded[cur] # None =>
    NextOf(cur, recorded[cur], recorded[cur]) <= now

\* A due time in the database is only replaced once the job has been queued
\* for it: no step moves next_run_at of a schedule but the UPDATE that follows
\* a send for that schedule.  This is what makes a missed run be caught up.
DueTimeAdvancesBySend ==
  [][\A s \in Schedules :
       table[s].next # None /\ table'[s].next # table[s].next =>
         pc = "planned" /\ cur = s]_vars

\* Each schedule behaves as PeriodicTrigger promises: its plan is the column
\* next_run_at, and the plans whose run was not recorded are those that an
\* UPDATE has moved of which queue_job was told that it failed: the row and
\* the map differ, and queue_job is not about to write the map.
NextRuns     == [s \in Schedules |-> table[s].next]
NextRecorded(s) == NextOf(s, recorded[s], recorded[s])
EarliestRuns == [s \in Schedules |-> IF recorded[s] = None THEN None ELSE NextRecorded(s)]
Unconfirmed  == {s \in loaded \ todo : /\ table[s].next \notin {None, schedules[s].next}
                                       /\ ~(pc = "written" /\ cur = s)}
Trigger == INSTANCE PeriodicTrigger WITH Triggers <- Schedules, clock <- now,
             planned <- NextRuns, earliest <- EarliestRuns, unconfirmed <- Unconfirmed
TriggerSpec == Trigger!Spec

\* Between two calls of queue_job, and if no database call has failed, the
\* database and the loaded map agree on when each schedule runs next: a restart
\* at any such moment changes no schedule.
DatabaseAgrees ==
  pc \in {"idle", "checking"} /\ dbErrors = 0 =>
    \A s \in loaded : table[s].next = schedules[s].next

\* The scheduler has stopped, and for one of the two reasons there are: the
\* database did not answer when the schedules were loaded, or one of them has
\* no next run and none can be calculated.
StoppedForCause ==
  /\ pc = "stopped"
  /\ \/ dbErrors > 0
     \/ \E s \in todo : table[s].next = None /\ NextOf(s, table[s].last, now) = None

\* README.md:22, "Automatically catches up on missed backups when offline", and
\* doc/00-architecture-overview.md:94: an enabled schedule whose time has come,
\* while the client ran or while it did not, is queued (queue_job sends for it,
\* and the row stays due until the UPDATE that follows), whatever the other
\* schedules are, unless the scheduler has stopped for one of its two reasons
\* or an administrator switches the schedule off.  A schedule that is due and
\* cannot be planned any more neither stops the scheduler nor starves others.
MissedRunCaughtUp ==
  \A s \in Schedules :
    s \in enabled /\ table[s].next # None /\ table[s].next <= now ~>
      cur = s \/ StoppedForCause \/ s \notin enabled

\* The two functions of missed_runs.rs agree with each other and with the rows
\* the scheduler writes.  For an interval schedule that is overdue, and was
\* planned from its last run: the count is the number of due times after
\* next_run_at that have gone by as well, which the one run that catches up
\* leaves out; and if there is any, is_run_missed says so too, for every grace
\* period shorter than the interval.
MissedRunsCounted ==
  \A s \in Schedules :
    LET d == Def[s]
        i == d.interval_seconds
        c == CountMissedIntervalRuns(d, None, table[s].last, now)
    IN
    /\ IsInterval(d) /\ i \in Int /\ i > 0
    /\ table[s].last # None /\ table[s].next = table[s].last + i
    /\ table[s].next <= now
    => /\ table[s].next + c * i <= now /\ now < table[s].next + (c + 1) * i
       /\ c > 0 => \A grace \in 0 .. i - 1 : IsRunMissed(table[s].next, now, grace)

-----------------------------------------------------------------------------
(* What the documents say of the scheduler, and the code does not do. *)

\* doc/03-relica-compatibility.md:296, "Tracked by `schedules.last_run_at` for
\* each schedule": what queue_job records for one schedule is recorded in the
\* row of that schedule.
TrackedPerSchedule ==
  [][\A s \in Schedules : pc = "planned" /\ table'[s] # table[s] => cur = s]_vars

=============================================================================
