# A TLA+ model of rbackup2

rbackup2 is a backup client: it reads backup jobs and their schedules from PostgreSQL, starts
`restic` when a schedule is due, and records every run in the database. This directory models how
the client starts and what it does while it runs: with which settings, which runs it queues, which
it executes, what it writes down about them, and what is left when a call fails, a job disappears
or the process dies in between.
Paths below are relative to the repository; `src/` is its Rust crate.

## 1. Inventory

| Component | State it keeps | Operations | Talks to |
|---|---|---|---|
| Scheduler, `src/scheduler.rs` | the map of loaded schedules (memory), an interval timer | `start`, `reload_schedules`, `check_schedules`, `queue_job`, `trigger_manual_backup` | table `schedules` (read once, written per queued run); the channel to the executor |
| Next run calculation, `src/scheduler/schedule_calc.rs` | none | `calculate_next_run`, `is_due` | called by the scheduler |
| Job executor, `src/scheduler/executor.rs` | `running_jobs`: device -> job (memory) | `start`, `execute_job`, `can_execute`, `mark_running`, `mark_completed` | the channel; table `backup_jobs`; backup execution |
| Backup execution, `src/backup.rs`, `src/backup/restic.rs` | none; a child process | `execute_backup`, `ResticCommand::new`, `execute_restic_command` | `create_run` and `update_run` on table `runs`; restic; the repository |
| restic output parser, `src/backup/output.rs` | none | `parse_restic_json_output` | called by backup execution |
| Remote configuration, `src/config/remote.rs` | jobs, schedules and settings as they were at the start | `load_config_from_db`, `get_setting` | the database, once; executor and `ResticCommand` read it |
| Client process, `src/main.rs` | the tasks of the two loops | startup, `--test-backup`, exit | all of the above |
| Missed run detection, `src/scheduler/missed_runs.rs` | none | `is_run_missed`, `count_missed_interval_runs` | nothing calls it |
| Database layer, `src/db/queries.rs`, migrations | the tables, which outlive the client | one SQL statement per function, no transactions | PostgreSQL |
| Local configuration, `src/config/local.rs` | none after the start | `from_file`, `validate` | one file |
| Device registry, `upsert_device` in `src/db/queries.rs` | table `devices` | an upsert at each start | the foreign keys of all other tables |
| Errors, `src/error.rs` | none | conversions | every `?` |

The scheduler and the executor are two tasks of one process, joined by an `mpsc` channel of
capacity 100. The scheduler sends a request and then records it; the executor receives a request
and spawns a task for it without waiting for the backup. The requests in the channel,
`running_jobs` and the map of schedules live in memory only; `schedules`, `backup_jobs` and `runs`
live in the database, and restic children live on when the client is killed. A client started with
`--test-backup` is another process, usually beside the service on the same device; the two meet in
the database only. The HTTP interface, the periodic sync, metrics, the retry of failed connections
and the graceful shutdown that the documents describe are not implemented.

What makes each part correct, and where it is hard:

- **Executor.** Tasks of one device share one entry of `running_jobs` and interleave at two locks
  and at every database call. The entry must never outlive its tasks, or the device is busy for
  ever; a request may be turned away only if another backup really is under way.
- **Backup execution.** Six database calls and a child process can each fail; a failing call may
  have been applied. "success" must mean a snapshot, a snapshot must have a row, and a row must be
  closed once.
- **Scheduler.** `next_run_at` exists twice, in the row and in the map; a request is sent before it
  is recorded, and time passes while it is recorded. A recorded run must not be repeated and a due
  time must not be passed over, through restarts, failing or slow writes, a full channel and late
  ticks.
- **Client.** Each run that was recorded must have its own request in the channel or a task, as long
  as the process lives; the scheduler must not wait for the executor and the executor for a backup.
- **Start.** A dozen steps, each of which can fail, on a database that others edit meanwhile. It
  must come to a decision and take the settings of the device before those of all; exit code and
  results of a test backup must be about its own run.
- **restic command.** Options, sources, columns that may be NULL and any additional arguments make
  one argument list.
- **Missed runs.** A quotient and two comparisons at due times.
- **Parser.** One readable summary among other lines decides whether a backup counts.
- **Calculation.** The next time lies strictly ahead, and is not earlier for a later run.

`PROJECT.json` lists the hazards line by line with the properties that cover them.

## 2. Modules

| Module | Models |
|---|---|
| `ScheduleCalc` | `calculate_next_run` and `is_due` as operators. `None` stands for an absent `Option` and for an `Err`, which every caller passes on. A cron expression is the set of times it stands for (`Occurrences`); one outside the domain does not parse. |
| `Scheduler` | `src/scheduler.rs` with the rows of `schedules`. |
| `Executor` | `src/scheduler/executor.rs` and `src/backup.rs`, with `backup_jobs`, `runs`, restic and the repository. |
| `RunHistory` | The abstract specification of `runs` and the repository: the life of a row and of its snapshot. |
| `PeriodicTrigger` | The abstract specification of a schedule: its plan, the earliest moment of its next run, and the plans that a lost write has left unconfirmed. |
| `ResticOutput` | `parse_restic_json_output`, `src/backup/output.rs`. |
| `MissedRuns` | `src/scheduler/missed_runs.rs` as operators; `Scheduler` extends it. |
| `Client` | The two tasks of `run()` after the start: `Scheduler` and `Executor` as instances, over one channel and one database, in one process. |
| `ResticCommand` | `build_backup_command` and `get_restic_tags` as operators, and how restic reads its command line. |
| `Main` | `run()` in `src/main.rs` from the local configuration to the exit code, with `src/config/`, for several processes on one database. |
| `MCScheduler`, `MCExecutor`, `MCResticOutput`, `MCClient`, `MCMain` | Instances for TLC. |
| `SchedulerProofs`, `TriggerProofs`, `ExecutorProofs`, `ResticOutputProofs`, `ClientProofs`, `ResticCommandProofs`, `MainProofs`, `MainHistoryProofs` | Theorems and their proofs. |

### Executor

A task is an element of `Execs`, and `pc[e]` says at which await or lock it stands:
`lookup` (`get_job_by_id`), `check` (`can_execute`), `mark` (`mark_running`), `create`
(`create_run`), `start` (`ResticCommand::new` and the start of the child; no await in between),
`wait` (`command.output()`), `record_failed` / `record_success` (`update_run`), `unmark`
(`mark_completed`); then `ended`, `skipped` (the device was at its limit) or `lost` (the process
exited under it). `result[e]` is how the task came out: for a backup, the `Result` of
`execute_backup`, which `execute_job` logs before it returns `Ok(())`, so that nobody else learns of
it and no property is about it beyond its type. The row that `e` inserts is
`status[e]` and `triggered_by[e]`; "deleted" marks a row that ON DELETE CASCADE removed with its job.

Every database call has the outcomes *done*, *failed and not applied*, *failed and applied*
(the connection was lost after the statement ran). `ResticExit` is the environment: the child ends
with a summary and its snapshot (`complete`), with code 0 and no usable summary (`no_summary`), or
in any other way (`failed`), and in the last two cases it may have stored a snapshot. It also ends
when its client is gone, or has given up on it: `OutputFails` is `command.output()` failing after the
child was started, which is recorded as a failure while restic goes on. `ProcessExit` is exit and restart in one: while the client is down nothing
of the executor's moves but restic and `DeleteJob`, which do not need it.

`MaxConcurrent` is the value parsed from the settings at startup, fixed afterwards as in the code.
The device of a task comes from the job's row (`DeviceOf`). A client loads the schedules of its own
device only, but a job can be moved to another device after that, so the model has several.

### Scheduler

`pc` is the scheduler task: `start`, `loading`, `idle` (waiting for the tick), `checking`, then in
`queue_job` `sent` (after `send`), `planned` (the clock is read and `plan` calculated) and `written`
(the UPDATE is done and the map is not), and `stopped`. `PlanNext`, `WriteRow` and `WriteMap` are steps
of their own: the UPDATE is awaited, so that the clock can pass the planned time before it is in the
row or in the map, requests are received, jobs deleted, and the process can end in between. `table` holds the two times of each row, `schedules` and
`loaded` the map. `UpdateScheduleLastRun` writes all rows of the job, as its SQL does. `Load`
fetches the rows and `LoadRow` plans one that has no `next_run_at`; rows that have one are only
copied, which `Load` does at once, since the lock is held for the whole reload. `check_schedules`
reads the clock once, so the set `due` is fixed at its start; `queue_job` reads it again after
`send`. The clock can advance between any two steps. `LoadRow` is one step though it has an await as
well: its `plan` goes to the row and to a map that nobody reads before the whole load is over, so that
what the clock does meanwhile is what it could do before the step or after it. The timer's missed ticks fire at once
(`NextTick`), tokio's default. `ProcessEnd` is `select!` in `main.rs` after `start` has returned.

`Consume` stands for the executor's receive loop, `SetEnabled` for an administrator,
`DeleteSchedulesOf` for the deletion of a job, whose schedules go with it,
`TriggerManualBackup` for the public method of that name, which the binary does not call.
`recorded` is a history variable.

As a `PeriodicTrigger`, a schedule has the column `next_run_at` for its plan, the time calculated
from `recorded` for the earliest moment of its next run, and is unconfirmed while the row is ahead
of the map: an UPDATE was applied though its caller was told that it failed. The next check then
queues the schedule by the older time of the map, which is the one way a plan is replaced early.
The promise is that a plan gives way only when its time has come, to a later one, and that a recorded
run is not repeated before the plan made with it; it is no promise that a plan lies ahead of the
clock, since a slow UPDATE writes one that does not.

### Client

`S` and `E` are `Scheduler` and `Executor`, each with variables of its own; the channel `queue` is
the one variable they share. A step is a step of one of them, except where they meet: `Spawn`
takes a request off the channel (`Consume` there) and spawns its task (`Recv` here); `Restart` and
`ProcessEnd` strike both; `DeleteJob` removes the job, its runs and its schedules together. Nothing
else is added to the two modules, so `Client` shows that what each of them assumes of the other is
what the other does: `SchedulerSpec` and `ExecutorSpec`.

A request names a job and not the run that it stands for, so a property about the request of *this*
run needs history variables, which no guard reads. `sends` numbers the requests; `tags` runs beside
the channel and holds the number of each request in it; `spawned[e]` is the number of the request
that task `e` was spawned with; `confirmed` is the set of runs that `WriteRow` has recorded, each with
its number, its job and the start of the process it belongs to. `InHand(run, job)` is: that number
stands in the channel beside a request for the job, or belongs to a task that has such a request. It
is lost when the channel is, with the process.

An execution of the model is used once. The scheduler task is given `Room` for a send only as long
as there is an execution to receive it, and `Finished` is the end of such a behaviour. `Receive` picks
one of the free executions, which differ in name only.

### Main and ResticCommand

`pc[p]` is the call at which process `p` stands: `start` (local configuration and logging),
`connect`, `migrate`, `register` (`upsert_device`), `jobs` / `schedules` / `settings` (the three
queries of `load_config_from_db`), `gate` (the repository URL), and then `running` (the scheduler
and the executor, which are `Client`) or a test backup: `lookup`, `create`, `command`
(`ResticCommand::new` and the start of the child), `restic`, `record`, `report`
(`get_recent_runs`). It ends in `exit_ok`, `exit_error`, `panicked` (`setup_logging`) or `killed`.
As in `Executor`, a call is done, or has failed, or has failed after it was applied.

`settings` holds the rows of the keys that the client reads. The query orders them by device with
NULL first and leaves rows of one device in any order; `Orders` is the set of those orders and
`Collected` what `collect()` into a `HashMap` then keeps. Several rows of a key without a device
are possible, since NULLs are distinct in `UNIQUE (device_id, key)`; `WriteSetting` inserts them.
Administrators also delete settings, jobs and devices, with what hangs on them, at any moment of a
start, also the device that has just registered itself. `OtherRun` stands for all that others
execute: its row is inserted, and its status is not read here.

A row of `runs` is numbered in the order of `start_time`, by which `get_recent_runs` sorts. A local
file is a record of what `validate` looks at, and whether it parses.

An argument of restic is the tuple of the pieces that it is formatted from, so that a tag, a
pattern and a path are told apart. The second half of `ResticCommand` reads an argument list as
restic does, for any set of options without a value (`Flags`) and with one (`ValueOptions`), of which
the client itself uses `--json`, `--exclude` and `--tag`: an option with a value takes the argument
after it, wherever it stands, and what neither is an option nor taken by one is a source. The schema
calls `restic_args` "additional restic CLI arguments", so they may hold options and values as well as
paths, and `ReadAsMeant` says that they mean in the whole list what they mean by themselves, beside
the row's own sources, patterns and tags. `PlainRow` is what that takes: no path, pattern or tag of a
row is spelled like an option (one that is would be the administrator's word, not the client's).
Nothing is asked of `restic_args`. That the list `Strings` keeps of them is a list of its own elements is
spelled out there because the prover knows nothing of `SelectSeq`; it always holds. Not modelled of
restic's command line: `--`, `--option=value`, short options in one word, and a value that is itself
spelled like an option.

`Rows` is what the columns of a job may hold when a process reads them. In TLC's instance that is
each combination of columns that are NULL or set, with `restic_args` that are absent, a flag, an
option with its value, or a path with one of the client's own options, and with elements that are no
strings.

`Main` has runs and snapshots as well, written by processes instead of tasks. `Ledger` reads the
table as `RunHistory` has it (a number that was given out and has no row any more is deleted), and
`Stored` counts the snapshots that restic has reported to the test backup of a row.

### ResticOutput

The loop over the lines, one step per line, and the answer after it. A line is a kind and, for a
summary, a snapshot id and a number, either of which can be absent; the number stands for all the
numbers of a summary, and does not fit its field when it is above `MaxCount` (the `i32` and `i64` of
the code). `Line` has no summary with a field of the wrong JSON type: it fails like a number that
does not fit. An `Ok` is what `Executor` calls `complete`, an `Err` what it calls `no_summary`.

## 3. What is checked

| Run | Instance | Shows |
|---|---|---|
| `executor_faults` | 3 executions, 2 jobs, 1 device, limit 1, 1 database error, 1 exit | `TypeOK`; `EntryNamesActiveJob`: an entry of `running_jobs` has a task that will remove it; `SuccessHasSnapshot`; `OpenRowExplained`: a row left running has one of three causes; `SkipJustified`: a request is turned away only while another backup of its device is under way; `HistorySpec`: implements `RunHistory` |
| `executor_progress` | 2 executions, 2 jobs on 2 devices, 1 database error, 1 exit | `EveryTaskEnds`, `SlotEventuallyFree`, unless restic hangs; `SkipJustified`: another device's backup is no reason |
| `scheduler_faults` | a cron and an interval schedule, 4 units of time, channel of 1, one each of database error, restart, edit or deletion, manual request | `TypeOK`; `RecordedRunNotRepeated`; `DueTimeAdvancesBySend`; `DatabaseAgrees`; `MissedRunsCounted`: the two functions of `missed_runs.rs` agree with each other and with what the scheduler plans; `TriggerSpec`: implements `PeriodicTrigger` |
| `scheduler_progress` | the same two and a row whose interval is 0, 5 units of time, a tick every 2, 1 database error, 1 restart | `MissedRunCaughtUp`: a due schedule is queued, unless the scheduler has stopped for one of the two reasons it can have; a row that cannot be planned any more does not keep others from it |
| `client` | 1 schedule of 1 job, 2 executions, channel of 1, 2 units of time, one of these: restart, edit or deletion, database error of either component | `SchedulerSpec`, `ExecutorSpec`: each component behaves as in its module; `RecordedRunRequested`: only who ends the process from outside makes it lose the request of a recorded run; `DueRunReachesSlot`: from the due time to `can_execute`, under fairness |
| `main_run` | a service and a test backup on one device of two, a new database and two in use, 4 local files, 1 edit of 4 rows, 32 rows a job may have, 2 rows of `runs` | `TypeOK` (with the foreign keys of jobs and runs); `OwnSettingWins`; `ExitZeroMeansBackup`; `PrintedOwnOrLater`; `CommandMatchesRow`: restic reads the row as it is meant; `HistorySpec`: implements `RunHistory`; `EveryStartDecides`, under fairness |
| `restic_output` | every output of up to 3 lines; 2 snapshot ids, a number that does not fit | `AnswerIsFirstSummary`: unreadable summaries hide nothing, later ones count for nothing |

In the runs below the code contradicts a document or a comment in the schema. (That a request for a
busy device is dropped, where the architecture document has it queued, needs no run: the branch is
the code's design, and `SkipJustified` says when it is taken.)

| Run | What the code does |
|---|---|
| `executor_single` | Two requests both pass `can_execute` before either is marked: two backups of a device with a limit of one. |
| `executor_limit_two` | A limit of two admits a third backup: `running_jobs` has one entry per device. |
| `executor_open_row` | Without a restic binary, the row stays `running`. |
| `scheduler_shared_job` | Recording one schedule overwrites the job's other schedules. |
| `client_lost_run` | A run is recorded when its request is sent; if the process ends before the request is received, no later start executes it. |

Three smaller ones can be read off a line and need no run: every run is recorded as `manual`
(`src/backup.rs:109`); the first load of a schedule writes a `last_run_at` although nothing ran
(`src/scheduler.rs:84`); a row without a next run ends the client for all schedules
(`src/scheduler.rs:78`; `StoppedForCause` names it).

**Bounds.** `executor_*`, `scheduler_*`: Three executions are enough for one to be turned away or admitted while two others
overlap on its device; two, of one device or of two, are enough for the race and for progress. One database error and one
exit can each strike at every step; a second one of the same kind meets a state the first has
already produced for another task. In the scheduler, 4 units of time hold two runs of each
schedule, so that a recorded run, a restart and a second run fit; a channel of capacity 1 makes
`send` wait. Symmetry (executions; jobs of one device) is used in safety runs only. At the horizon
`MaxTime` the clock stands still and ticks go on, so that a run due at the horizon is still sent.
The counters `dbErrors`, `restarts`, `edits` and `manual` only bound behaviours; the proofs hold
for every value of their bounds.

`client`: one schedule that is due at every unit of time, two of these and two executions give two
recorded runs of one process, a request that waits in the full channel, one that is received while
the other backup runs, and a send that waits. The first run can be executed before the second is
sent, so that the loss of the second alone is there to be seen. `MaxDisturbances` bounds edits,
restarts and failing calls together: each single one can strike anywhere; pairs of them are left to
the modules of the components, as is what several schedules or tasks do to each other, and the two
refinements carry it over. When the executions are used up and none has yet to ask for its slot
(`UsedUp`), nothing more is said of a due run: the bound is reached.
`main_run`: two processes are all that may share a device and its rows in different roles; one edit
can fall between any two of their steps, and the databases to begin with hold what more edits would
have made (a second row without a device, one of the device's own, a limit of "0"). Two rows of
`runs` are the test's own and one before or after it.

**Deadlock** is checked in all runs. `Idle` (all tasks over, nothing queued), `Done` in
`ResticOutput` (the parser has answered) and in `Main` (every process has ended), `ProcessEnd` (the
process has exited) and `Finished` in `Client` are steps of their own, so a state without a successor
would be a stuck task.

**Fairness.** Executor: weak fairness of each task, as tokio polls every task that can run and a
database call returns or fails (the pool gives up after 10 seconds). Nothing is assumed of restic:
the properties exempt a task that waits for ever. Scheduler: weak fairness of the scheduler task,
of the executor's receive loop (it spawns and never waits for a backup) and of the clock. No
fairness of restarts: a stopped client may stay down. Client: the same for the scheduler task, the
clock, and for each execution its receipt and its task. Main: weak fairness of each process, none
of restic, of signals, or of administrators.

## 4. What is proved

For all constants that satisfy the named assumptions, by TLAPS:

`ExecutorProofs`
- `TypeCorrect`, by cases over the actions.
- `EntriesAreBacked` (`EntryNamesActiveJob`). With the types it is inductive: `mark_running` makes
  the entry name its own task; a task that leaves its section clears the entry of its device, and
  so cannot leave one behind, whoever wrote it.
- `SkipsAreJustified`: the count that `can_execute` compares is 0 or 1 (`CountOfDevice`), so at a
  limit above 0 a refusal means an entry, and an entry means a marked task.
- `LimitAboveOneNeverBinds` (`NoRequestDropped`): by the same lemma, no limit above 1 ever turns a
  request away.
- `SuccessesAreBackups`, `OpenRowsAreExplained`. Neither is inductive: that a task about to record
  a success has read a summary, and that a row is still open when its task comes to close it,
  follows from where the task stands. `RowOfTask` says so for each value of `pc`.
- `LimitZeroRunsNothing` (`NothingRuns`): at a limit of 0, which the setting "0" parses to, nothing is executed.
- `ImplementsRunHistory`: each step is a step of `RunHistory` or leaves rows and snapshots alone.
  It needs `RowOfTask` too: a snapshot can only come from a child whose row is open or deleted.

`SchedulerProofs`, where all but the first assume `OneSchedulePerJob` (run `scheduler_shared_job`
shows why):
- `TypeCorrect`.
- `RecordedRunsAreNotRepeated`. The invariant `TimeInv` follows the recorded run to the clock: the
  row and its loaded copy are at or past the next time after it (`RecordedRunPlanned`), rows still
  to be planned have no time (`TodoUnplanned`), what is due has come (`DueHasCome`), and a plan that
  in the map yet was made at a moment that has passed, when what it replaces there had come
  (`PlanMade`). When `queue_job` plans again, `NextMonotone` keeps the order: a later run has no
  earlier next time.
- `DueTimesAdvanceBySend`, from `TodoUnplanned` and the fact that an update touches one row.
- `DatabaseAndMapAgree`, from the same.
- `MissedRunsAreCounted`: whatever the rows hold, by the laws of `\div`.

`TriggerProofs`
- `ImplementsPeriodicTrigger`, for one schedule per job. Each step is a step of `PeriodicTrigger` or
  a stutter: a first load is `FirstPlan`, a restart `Forget`, and `WriteRow` is `Run` or, if it was
  applied and reported as failed, `RunUnrecorded`. `PlanNext` and `WriteMap` are stutters, and so is all
  that time does in between. `TimeInv` does not say that the new plan is not earlier than a row that
  is ahead of the map; `PlanInv` does: such a row was planned from a moment that is not later than
  that of the new plan, and `NextMonotone` does the rest.

`ClientProofs`
- `ClientImplementsScheduler`, `ClientImplementsExecutor`: each step of the client is a step of the
  component or leaves its variables alone.
- `SchedulesKeptByClient`, `ClientImplementsTrigger` (both for one schedule per job),
  `BackupsKeptByClient`, `ClientImplementsRunHistory`: the theorems of the two components, stated of
  the client and drawn from the two above. The modules of those theorems are instantiated there as
  `SP` and `EP`; the lemmas `Same...` say that their actions are the ones of the client's `S` and `E`.
- `RecordedRunsAreRequested`, for any number of runs. A run is recorded two steps after its send, so
  `RequestInv` also says that the request sent last is in hand until then (`Unrecorded`). A request
  leaves the channel only into a task, which keeps its number for good, and the channel only loses
  its head (`InHandKept`). A scheduler that returns ends the process too, but only from its load, when
  no run of this start has been recorded (`Early`).

`MainProofs`
- `TypeCorrect`, with the foreign keys: the deletions cascade far enough, and no insert comes late.
- `OwnSettingsWin`, for any set of rows in any order of the query: an order is an injection from
  `1 .. n` onto the rows (`LastIsOwn`), so that the device's own row is somewhere in it, and nothing
  of another device comes after it; it has one at most (`OwnStaysUnique`, the table's UNIQUE).
- `ExitCodeIsTrue`, `PrintsOwnOrLater`. `TestInv` says that the row of a test backup is its own and
  no other process's (ids are not reused), and that whoever has come to `report` has a complete
  restic and a row that says success. `Report` prints the maximum of rows that include its own.
- `CommandsMatchRows` (`CommandMatchesRow`), for rows of any length that satisfy `PlainRow`: only a test
  backup starts restic in `Main` (`ResticOfTest`), and `CommandIsRead` says how its command is read.

`ResticCommandProofs`
- `CommandIsRead`: of the list that `build_backup_command` makes, restic takes for sources, patterns
  and tags those of the row and what `restic_args` give by themselves, no more and no less. The list is
  taken apart where it was put together: what is read of a concatenation is what is read of its
  parts, if the first leaves no option without its value (`ReadConcat`), and a part before
  `restic_args` is either plain (`ReadPlain`) or an option before each value (`ReadEachWith`).

`MainHistoryProofs`
- `TestsImplementRunHistory` (`HistorySpec`), for any number of processes. `HistoryInv` says that
  ids are unique and that the row of a test backup that is still under way is open, and that of one
  whose restic still runs is open or was closed as failed (`OpenRowOf`): only then is the UPDATE of its
  end a closing, and the end of its restic a snapshot that `RunHistory` admits. That no other
  process writes that row is `TestInv`.

`ResticOutputProofs`
- `TypeCorrect`, and `AnswersAreFirstSummaries` for outputs of any length: `ScanInv` says that no
  line before the loop's position is a readable summary, and what the loop has left with.

Only model-checked: the liveness properties (`EveryTaskEnds`, `SlotEventuallyFree`,
`MissedRunCaughtUp`, `DueRunReachesSlot`, `EveryStartDecides`), which are out of TLAPS's reach, and
the counterexamples of the runs that expect one.

## 5. State of the plan

Done: the components in their own modules, their composition (`Client`), the start with the remote
configuration and a second process (`Main`), the missed-run functions; an abstract specification of
the schedules and one of the runs, which all that plans or writes them implements; and a theorem for
every safety property that a passing run checks.

Left for later: rows of `backup_jobs` that are edited while a client runs (in
`Executor` a job exists or not and its device is fixed; `Main` lets a process find any contents of a
row, `Rows`, but not a job that moves to another device); clocks of two machines (`duration_seconds` is the
difference of the client's and the database's).

Not to be modelled: the wording of logs and errors; `database_url`, defaults and the YAML format of
the local file; views and indexes; the connection pool (a call that waits is a call that is late or
fails); functions that nothing calls (`check_repository`, `add_environment`,
`update_device_heartbeat`, `sync_interval_seconds` and others marked `dead_code`); and the parts of
the documents that have no code: periodic sync, HTTP interface, metrics, retention, retries of the
connection.
