------------------------------ MODULE Executor ------------------------------
(***************************************************************************)
(* The job executor of the backup client: JobExecutor in                   *)
(* src/scheduler/executor.rs, and the backup it runs for one request,      *)
(* execute_backup in src/backup.rs.                                        *)
(*                                                                         *)
(* start() receives one request at a time and spawns a task for each; the  *)
(* tasks run concurrently on a multi-threaded runtime.  A task is an       *)
(* element of Execs; pc[e] is the await point or lock it stands at.  The   *)
(* row it inserts into the table runs carries the task's identity, so      *)
(* status[e] and triggered_by[e] are the columns of that row.              *)
(*                                                                         *)
(* The database, the restic child processes and the repository outlive the *)
(* client: ProcessExit loses the tasks, the queue and running_jobs only.   *)
(***************************************************************************)
EXTENDS Naturals, Sequences, FiniteSets

CONSTANTS
  Execs,          \* the executions that may ever be spawned (a bound)
  Jobs,           \* ids of backup jobs
  Devices,        \* ids of devices
  DeviceOf,       \* device_id of a job's row
  Triggers,       \* values of triggered_by that callers send
  MaxConcurrent,  \* max_concurrent_per_device
  QueueCapacity,  \* capacity of the mpsc channel (100 in the code)
  MaxDbErrors,    \* bound: failing database calls in a behaviour
  MaxRestarts,    \* bound: exits of the client in a behaviour
  None

JobExecution == [job_id : Jobs, triggered_by : Triggers]

ASSUME ConstantsAssumption ==
  /\ DeviceOf \in [Jobs -> Devices]
  /\ None \notin Jobs \cup Triggers \cup JobExecution
  /\ Triggers \subseteq {"schedule", "manual"}
  /\ MaxConcurrent \in Nat
  /\ QueueCapacity \in Nat \ {0}
  /\ MaxDbErrors \in Nat /\ MaxRestarts \in Nat

VARIABLES
  queue,         \* the channel between Scheduler and JobExecutor
  pc,            \* where each execution stands
  request,       \* the JobExecution each task was spawned with
  result,        \* why the task failed, or that it did not, for the log only
  running_jobs,  \* HashMap device_id -> job_id; None: no entry
  jobs,          \* the rows of backup_jobs
  status,        \* runs.status
  triggered_by,  \* runs.triggered_by
  restic,        \* the restic child of each execution
  repository,    \* the executions whose snapshot the repository holds
  dbErrors, restarts

tables   == <<jobs, status, triggered_by>>
external == <<restic, repository>>
bounds   == <<dbErrors, restarts>>
vars     == <<queue, pc, request, result, running_jobs, tables, external, bounds>>

\* Final: the task is over.  "lost": the process ended under it.
Final  == {"ended", "skipped", "lost"}
\* Marked: between mark_running and mark_completed.
Marked == {"create", "start", "wait", "record_failed", "record_success", "unmark"}
Live   == {"lookup", "check", "mark"} \cup Marked

RunStatus    == {"absent", "running", "success", "failed", "deleted"}
ResticStatus == {"none", "running", "complete", "no_summary", "failed"}
Results      == {"none", "ok", "db", "config", "restic"}

Job(e)    == request[e].job_id
Device(e) == DeviceOf[Job(e)]

-----------------------------------------------------------------------------
Init ==
  /\ queue = <<>>
  /\ pc = [e \in Execs |-> "free"]
  /\ request = [e \in Execs |-> None]
  /\ result = [e \in Execs |-> "none"]
  /\ running_jobs = [d \in Devices |-> None]
  /\ jobs = Jobs
  /\ status = [e \in Execs |-> "absent"]
  /\ triggered_by = [e \in Execs |-> None]
  /\ restic = [e \in Execs |-> "none"]
  /\ repository = {}
  /\ dbErrors = 0 /\ restarts = 0

Goto(e, label) == pc' = [pc EXCEPT ![e] = label]
Return(e, res) == result' = [result EXCEPT ![e] = res]

\* A database call fails.  Whether its statement was applied before the
\* connection was lost is for the caller of this operator to choose.
DbError ==
  /\ dbErrors < MaxDbErrors
  /\ dbErrors' = dbErrors + 1
  /\ UNCHANGED restarts

\* Bound: no more requests in the channel than executions left to take them.
Free == {e \in Execs : pc[e] = "free"}
Room == Len(queue) < Cardinality(Free)

\* The scheduler, or a caller of trigger_manual_backup, sends a request.
EnqueueRequest ==
  /\ Len(queue) < QueueCapacity
  /\ Room
  /\ \E r \in JobExecution : queue' = Append(queue, r)
  /\ UNCHANGED <<pc, request, result, running_jobs, tables, external, bounds>>

\* start: receive a request and spawn a task for it.
Recv(e) ==
  /\ pc[e] = "free"
  /\ queue # <<>>
  /\ request' = [request EXCEPT ![e] = Head(queue)]
  /\ queue' = Tail(queue)
  /\ Goto(e, "lookup")
  /\ UNCHANGED <<result, running_jobs, tables, external, bounds>>

\* execute_job: get_job_by_id.  A missing job is skipped without an error.
Lookup(e) ==
  /\ pc[e] = "lookup"
  /\ \/ /\ Job(e) \in jobs
        /\ Goto(e, "check")
        /\ UNCHANGED <<result, bounds>>
     \/ /\ Job(e) \notin jobs
        /\ Goto(e, "ended") /\ Return(e, "ok")
        /\ UNCHANGED bounds
     \/ /\ DbError
        /\ Goto(e, "ended") /\ Return(e, "db")
  /\ UNCHANGED <<queue, request, running_jobs, tables, external>>

\* Mutant: the device filter is forgotten (running.len()).
RunningOnAny(d) == {k \in Devices : running_jobs[k] # None}

\* The entries of running_jobs whose key is d.
RunningOn(d) == {k \in Devices : running_jobs[k] # None /\ k = d}

CanExecute(d) == Cardinality(RunningOn(d)) < MaxConcurrent

\* execute_job: can_execute, under a lock that is released on return.
CheckLimit(e) ==
  /\ pc[e] = "check"
  /\ \/ /\ CanExecute(Device(e))
        /\ Goto(e, "mark")
        /\ UNCHANGED result
     \/ /\ ~CanExecute(Device(e))
        /\ Goto(e, "skipped") /\ Return(e, "ok")
  /\ UNCHANGED <<queue, request, running_jobs, tables, external, bounds>>

\* execute_job: mark_running takes the lock again.
MarkRunning(e) ==
  /\ pc[e] = "mark"
  /\ running_jobs' = [running_jobs EXCEPT ![Device(e)] = Job(e)]
  /\ Goto(e, "create")
  /\ UNCHANGED <<queue, request, result, tables, external, bounds>>

\* Mutant: a status string that the CHECK constraint of the column would refuse.
InsertRunStarted(e) ==
  /\ Job(e) \in jobs
  /\ status' = [status EXCEPT ![e] = "started"]
  /\ triggered_by' = [triggered_by EXCEPT ![e] = "manual"]
  /\ UNCHANGED jobs

\* The INSERT of create_run; execute_backup always passes "manual".
InsertRun(e) ==
  /\ Job(e) \in jobs
  /\ status' = [status EXCEPT ![e] = "running"]
  /\ triggered_by' = [triggered_by EXCEPT ![e] = "manual"]
  /\ UNCHANGED jobs

\* execute_backup: create_run.  The job may have been deleted since the
\* lookup: the foreign key runs.job_id then refuses the row.
CreateRun(e) ==
  /\ pc[e] = "create"
  /\ \/ /\ InsertRun(e)
        /\ Goto(e, "start")
        /\ UNCHANGED <<result, bounds>>
     \/ /\ Job(e) \notin jobs
        /\ Goto(e, "unmark") /\ Return(e, "db")
        /\ UNCHANGED <<tables, bounds>>
     \/ /\ DbError
        /\ Goto(e, "unmark") /\ Return(e, "db")
        /\ InsertRun(e) \/ UNCHANGED tables
  /\ UNCHANGED <<queue, request, running_jobs, external>>

\* Mutant: a child that cannot be started returns at once, unrecorded.
StartResticUnrecorded(e) ==
  /\ pc[e] = "start"
  /\ \/ /\ \E err \in {"config", "restic"} : Return(e, err)
        /\ Goto(e, "unmark")
        /\ UNCHANGED restic
     \/ /\ restic' = [restic EXCEPT ![e] = "running"]
        /\ Goto(e, "wait")
        /\ UNCHANGED result
  /\ UNCHANGED <<queue, request, running_jobs, tables, repository, bounds>>

\* execute_backup: ResticCommand::new, whose error returns at once, then the
\* start of the child process, whose failure is recorded.
StartRestic(e) ==
  /\ pc[e] = "start"
  /\ \/ /\ Goto(e, "unmark") /\ Return(e, "config")
        /\ UNCHANGED restic
     \/ /\ Goto(e, "record_failed") /\ Return(e, "restic")
        /\ UNCHANGED restic
     \/ /\ restic' = [restic EXCEPT ![e] = "running"]
        /\ Goto(e, "wait")
        /\ UNCHANGED result
  /\ UNCHANGED <<queue, request, running_jobs, tables, repository, bounds>>

\* The child process ends.  "complete": exit code 0 and a summary that names the
\* snapshot it stored; "no_summary": exit code 0 without one; "failed": any other
\* end.  Restic can store a snapshot and still end in one of the last two ways.
\* A client that does not wait any more does not learn how ("failed" stands for it).
ResticExit(e) ==
  /\ restic[e] = "running"
  /\ \/ /\ pc[e] = "wait"
        /\ restic' = [restic EXCEPT ![e] = "complete"]
        /\ repository' = repository \cup {e}
     \/ /\ \E end \in IF pc[e] = "wait" THEN {"no_summary", "failed"} ELSE {"failed"} :
             restic' = [restic EXCEPT ![e] = end]
        /\ repository' \in {repository, repository \cup {e}}
  /\ UNCHANGED <<queue, pc, request, result, running_jobs, tables, bounds>>

\* Mutant: an exit code of 0 is success, whatever the parser says.
CollectOutputUnparsed(e) ==
  /\ pc[e] = "wait"
  /\ \/ restic[e] = "failed" /\ Goto(e, "record_failed") /\ Return(e, "restic")
     \/ /\ restic[e] \in {"no_summary", "complete"}
        /\ Goto(e, "record_success") /\ UNCHANGED result
  /\ UNCHANGED <<queue, request, running_jobs, tables, external, bounds>>

\* Mutant: a failed restic is started again.
CollectOutputRetry(e) ==
  /\ pc[e] = "wait"
  /\ \/ restic[e] = "failed" /\ Goto(e, "start") /\ UNCHANGED result
     \/ restic[e] = "no_summary" /\ Goto(e, "record_failed") /\ Return(e, "restic")
     \/ restic[e] = "complete" /\ Goto(e, "record_success") /\ UNCHANGED result
  /\ UNCHANGED <<queue, request, running_jobs, tables, external, bounds>>

\* execute_backup: command.output() fails though it had started the child, which
\* it drops: the outcome is recorded as a failure, and restic goes on.
OutputFails(e) ==
  /\ pc[e] = "wait"
  /\ Goto(e, "record_failed") /\ Return(e, "restic")
  /\ UNCHANGED <<queue, request, running_jobs, tables, external, bounds>>

\* execute_backup: command.output() returns; exit status, then the parser.
CollectOutput(e) ==
  /\ pc[e] = "wait"
  /\ \/ restic[e] = "failed" /\ Goto(e, "record_failed") /\ Return(e, "restic")
     \/ restic[e] = "no_summary" /\ Goto(e, "record_failed") /\ Return(e, "restic")
     \/ restic[e] = "complete" /\ Goto(e, "record_success") /\ UNCHANGED result
  /\ UNCHANGED <<queue, request, running_jobs, tables, external, bounds>>

\* Mutant: INSERT ... ON CONFLICT DO UPDATE brings a deleted run back.
UpsertRun(e, s) ==
  /\ status' = [status EXCEPT ![e] = s]
  /\ UNCHANGED <<jobs, triggered_by>>

\* The UPDATE of update_run: no row, no effect, no error.
UpdateRun(e, s) ==
  /\ status' = IF status[e] = "deleted" THEN status ELSE [status EXCEPT ![e] = s]
  /\ UNCHANGED <<jobs, triggered_by>>

\* update_run_with_failure: its own error replaces the one it reports.
RecordFailure(e) ==
  /\ pc[e] = "record_failed"
  /\ Goto(e, "unmark")
  /\ \/ UpdateRun(e, "failed") /\ UNCHANGED <<result, bounds>>
     \/ /\ DbError /\ Return(e, "db")
        /\ UpdateRun(e, "failed") \/ UNCHANGED tables
  /\ UNCHANGED <<queue, request, running_jobs, external>>

\* update_run_with_success.
RecordSuccess(e) ==
  /\ pc[e] = "record_success"
  /\ Goto(e, "unmark")
  /\ \/ UpdateRun(e, "success") /\ Return(e, "ok") /\ UNCHANGED bounds
     \/ /\ DbError /\ Return(e, "db")
        /\ UpdateRun(e, "success") \/ UNCHANGED tables
  /\ UNCHANGED <<queue, request, running_jobs, external>>

\* Mutant: execute_backup(...).await? returns before mark_completed.
MarkCompletedOnSuccess(e) ==
  /\ pc[e] = "unmark"
  /\ running_jobs' = IF result[e] = "ok" THEN [running_jobs EXCEPT ![Device(e)] = None]
                                         ELSE running_jobs
  /\ Goto(e, "ended")
  /\ UNCHANGED <<queue, request, result, tables, external, bounds>>

\* execute_job: mark_completed, whatever execute_backup returned.  The result is
\* logged, and execute_job returns Ok(()).
MarkCompleted(e) ==
  /\ pc[e] = "unmark"
  /\ running_jobs' = [running_jobs EXCEPT ![Device(e)] = None]
  /\ Goto(e, "ended")
  /\ UNCHANGED <<queue, request, result, tables, external, bounds>>

\* A job is deleted from the database: its runs go with it (ON DELETE CASCADE).
DeleteJob(j) ==
  /\ j \in jobs
  /\ jobs' = jobs \ {j}
  /\ status' = [e \in Execs |->
       IF status[e] # "absent" /\ Job(e) = j THEN "deleted" ELSE status[e]]
  /\ UNCHANGED <<queue, pc, request, result, running_jobs, triggered_by, external, bounds>>

\* The process ends (a signal, a crash, the scheduler's return) and is started
\* again.  Its restic children are not killed.
ProcessExit ==
  /\ restarts < MaxRestarts
  /\ restarts' = restarts + 1
  /\ queue' = <<>>
  /\ running_jobs' = [d \in Devices |-> None]
  /\ pc' = [e \in Execs |-> IF pc[e] \in Live THEN "lost" ELSE pc[e]]
  /\ UNCHANGED <<request, result, tables, external, dbErrors>>

\* One step of a task.
Task(e) ==
  \/ Recv(e) \/ Lookup(e) \/ CheckLimit(e) \/ MarkRunning(e)
  \/ CreateRun(e) \/ StartRestic(e) \/ CollectOutput(e)
  \/ RecordFailure(e) \/ RecordSuccess(e) \/ MarkCompleted(e)

\* Nothing is under way: the client waits for requests.  (With this step, a
\* state without a successor is one where some task is stuck.)
Idle ==
  /\ queue = <<>>
  /\ \A e \in Execs : pc[e] \in Final \cup {"free"} /\ restic[e] # "running"
  /\ UNCHANGED vars

Next ==
  \/ EnqueueRequest
  \/ \E e \in Execs : Task(e) \/ OutputFails(e) \/ ResticExit(e)
  \/ \E j \in Jobs : DeleteJob(j)
  \/ ProcessExit
  \/ Idle

Spec == Init /\ [][Next]_vars

\* Tokio runs every task that can run; nothing is said of restic, which the
\* client waits for without a timeout.
FairSpec == Spec /\ \A e \in Execs : WF_vars(Task(e))

-----------------------------------------------------------------------------
(* Properties *)

\* Types of the variables, and the values that the CHECK constraints of runs admit.
TypeOK ==
  /\ queue \in Seq(JobExecution)
  /\ pc \in [Execs -> {"free"} \cup Live \cup Final]
  /\ request \in [Execs -> JobExecution \cup {None}]
  /\ \A e \in Execs : pc[e] = "free" <=> request[e] = None
  /\ result \in [Execs -> Results]
  /\ running_jobs \in [Devices -> Jobs \cup {None}]
  /\ jobs \subseteq Jobs
  /\ status \in [Execs -> RunStatus]
  /\ triggered_by \in [Execs -> {"schedule", "manual", None}]
  /\ restic \in [Execs -> ResticStatus]
  /\ repository \subseteq Execs
  /\ dbErrors \in Nat /\ restarts \in Nat

\* An entry of running_jobs is backed by a task that will remove it: one that
\* is between mark_running and mark_completed, on that device, for that job.
\* Tasks of one device share the entry, any of them removes it, and tasks die
\* with the process; if an entry ever outlived its task, the device would skip
\* every backup from then on.
EntryNamesActiveJob ==
  \A d \in Devices :
    running_jobs[d] # None =>
      \E e \in Execs : pc[e] \in Marked /\ Device(e) = d /\ Job(e) = running_jobs[d]

\* A request is turned away at the limit only while another backup of the
\* same device is under way (for a limit that is not zero).
SkipJustified ==
  [][\A e \in Execs :
       MaxConcurrent > 0 /\ pc[e] = "check" /\ pc'[e] = "skipped" =>
         \E f \in Execs \ {e} : pc[f] \in Marked /\ Device(f) = Device(e)]_vars

\* A run is recorded as a success only if its snapshot is in the repository,
\* whatever restic printed and however it ended.
SuccessHasSnapshot ==
  \A e \in Execs : status[e] = "success" => e \in repository

\* A row that still says "running" when its task is over has one of three
\* explanations: the process ended first, a database call failed, or
\* ResticCommand::new returned early.  No other path of execute_backup leaves
\* its row open.
OpenRowExplained ==
  \A e \in Execs :
    status[e] = "running" /\ pc[e] \in Final =>
      pc[e] = "lost" \/ result[e] \in {"db", "config"}

\* The rows of runs and the snapshots behave as RunHistory promises.
History == INSTANCE RunHistory WITH ledger <- status
HistorySpec == History!Spec

\* Nothing was ever executed, whatever is requested, restarted or deleted: what
\* becomes of max_concurrent_backups = "0", which parses (main.rs), as theorem
\* LimitZeroRunsNothing proves.
NothingRuns == \A e \in Execs : status[e] = "absent" /\ restic[e] = "none"

\* The client waits for restic without a timeout and never kills it.
Waiting(e) == pc[e] = "wait" /\ restic[e] = "running"

\* Every task that was spawned ends, whatever the database and the other tasks
\* do, unless its restic never does.
EveryTaskEnds ==
  \A e \in Execs : pc[e] \in Live ~> (pc[e] \in Final \/ []Waiting(e))

\* A device that is marked busy becomes free again, unless a restic of it never
\* ends.
SlotEventuallyFree ==
  \A d \in Devices :
    running_jobs[d] # None ~>
      (running_jobs[d] = None \/ \E e \in Execs : [](Waiting(e) /\ Device(e) = d))

-----------------------------------------------------------------------------
(* What the documents say of the executor, and the code does not do. *)

InBackup(d) == {e \in Execs : pc[e] \in Marked /\ Device(e) = d}

\* doc/00-architecture-overview.md:308, "Single backup execution at a time
\* (per device)": with a limit of one, one task per device runs a backup.
SingleBackupPerDevice ==
  MaxConcurrent = 1 => \A d \in Devices : Cardinality(InBackup(d)) <= 1

\* migrations/20250101000002_initial_data.sql:5, "Maximum concurrent backup
\* jobs per device": a task passes can_execute only if fewer backups than the
\* maximum are under way on its device at that moment.
AdmittedBelowLimit ==
  [][\A e \in Execs :
       pc[e] = "check" /\ pc'[e] = "mark" =>
         Cardinality(InBackup(Device(e))) < MaxConcurrent]_vars

\* No request for a job that exists is dropped: what becomes of the promise in
\* doc/00-architecture-overview.md:309, "Queue subsequent jobs if one is
\* running", when the maximum is above one (theorem LimitAboveOneNeverBinds).
NoRequestDropped == \A e \in Execs : pc[e] # "skipped"

\* doc/00-architecture-overview.md:270, "restic failure: Log error, write
\* failed run to DB (when DB available)": no task ends with its row open when
\* no database call failed.
EndedRunIsClosed ==
  \A e \in Execs : pc[e] = "ended" /\ result[e] # "db" => status[e] # "running"
=============================================================================
