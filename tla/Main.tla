-------------------------------- MODULE Main --------------------------------
(***************************************************************************)
(* The start of the client, run() in src/main.rs: the local configuration, *)
(* the database and its migrations, the registration of the device, the    *)
(* remote configuration, and then the scheduler or one test backup.        *)
(*                                                                         *)
(* A process is one start of the binary on one device.  Several may be     *)
(* under way at once: the service, a test backup beside it, the service    *)
(* that was started again.  They meet in the database, which other clients *)
(* and administrators write too.                                           *)
(*                                                                         *)
(* What the scheduler and the executor do is in Client, what a backup does *)
(* in Executor; of the runs of others only the rows count here.            *)
(***************************************************************************)
EXTENDS ResticCommand, FiniteSets

CONSTANTS
  Procs,        \* starts of the binary
  TestBackup,   \* --test-backup of each, None without it
  Files,        \* local configuration files
  Devices, This,
  Jobs, DeviceOf,
  Rows,         \* what the columns of a job's row may hold when it is read
  InitSettings, \* what the table settings may hold in a database in use
  Edits,        \* rows of settings that an administrator may write
  MaxEdits,     \* bound: edits by administrators
  MaxRuns       \* bound: rows of runs

Keys == {"repository_url", "repository_password", "repository_cache_dir",
         "max_concurrent_backups"}

\* migrations/20250101000002_initial_data.sql
Defaults ==
  {[device |-> None, key |-> "repository_url", value |-> ""],
   [device |-> None, key |-> "repository_password", value |-> ""],
   [device |-> None, key |-> "repository_cache_dir", value |-> ""],
   [device |-> None, key |-> "max_concurrent_backups", value |-> "1"]}

Values  == {r.value : r \in Defaults \cup Edits \cup UNION InitSettings}
Setting == [device : Devices \cup {None}, key : Keys, value : Values]
Value   == Values \cup {None}
Configs == [repository_url : Value, repository_password : Value, repository_cache_dir : Value,
            max_concurrent_backups : Value]

\* UNIQUE (device_id, key), for which no two NULLs are the same.
OwnUnique(rows) ==
  \A r, s \in rows : r.device # None /\ r.device = s.device /\ r.key = s.key => r = s

ASSUME MainAssumption ==
  /\ TestBackup \in [Procs -> Jobs \cup {None}]
  /\ This \in Devices /\ DeviceOf \in [Jobs -> Devices]
  /\ None \notin Values \cup Devices \cup Jobs \cup Procs \cup Nat
  /\ Edits \subseteq Setting /\ InitSettings \subseteq SUBSET Setting
  /\ \A rows \in InitSettings : IsFiniteSet(rows) /\ OwnUnique(rows)
  /\ MaxEdits \in Nat /\ MaxRuns \in Nat

VARIABLES
  version,   \* migrations applied
  devices,   \* rows of devices
  settings,  \* rows of settings
  jobs,      \* rows of backup_jobs
  runs,      \* rows of runs
  next_id,   \* the sequence of runs.id
  pc,        \* where each process stands
  config,    \* its RemoteConfig.settings
  limit,     \* its max_concurrent
  restic,    \* the restic child of its test backup
  run_id,    \* the row of its test backup
  printed,   \* the row whose results it has printed
  edits

tables  == <<version, devices, settings, jobs, runs, next_id>>
process == <<pc, config, limit, restic, run_id, printed>>
vars    == <<tables, process, edits>>

Exited  == {"exit_ok", "exit_error", "panicked", "killed"}
Labels  == {"start", "connect", "migrate", "register", "jobs", "schedules", "settings", "gate",
            "lookup", "create", "command", "restic", "record", "report", "running"} \cup Exited
Run     == [id : Nat, job : Jobs, by : Procs \cup {None}, status : {"running", "success", "failed"}]

NoConfig == [repository_url |-> None, repository_password |-> None,
             repository_cache_dir |-> None, max_concurrent_backups |-> None]

-----------------------------------------------------------------------------
\* A new database, or one in use.
Init ==
  /\ \/ version = 0 /\ devices = {} /\ settings = {} /\ jobs = {}
     \/ version = 3 /\ devices = Devices /\ settings \in InitSettings /\ jobs = Jobs
  /\ runs = {} /\ next_id = 0
  /\ pc = [p \in Procs |-> "start"]
  /\ config = [p \in Procs |-> NoConfig]
  /\ limit = [p \in Procs |-> None]
  /\ restic = [p \in Procs |-> "none"]
  /\ run_id = [p \in Procs |-> None] /\ printed = [p \in Procs |-> None]
  /\ edits = 0

Goto(p, label) == pc' = [pc EXCEPT ![p] = label]

\* run() returns an error: main prints it and exits with 1.
Fails(p) == Goto(p, "exit_error")

-----------------------------------------------------------------------------
(* The local configuration *)

\* LocalConfig::validate
Valid(f) == f.id # "" /\ f.host # "" /\ f.user # "" /\ f.log_file # ""

\* LocalConfig::from_file
FromFile(f) == f.text = "yaml" /\ Valid(f)

\* setup_logging: a path without a file name or a parent does not pass expect(),
\* and a directory that cannot be written makes the appender panic.
HasFileName(path) == path \notin {"/", ".."}

ReadLocal(p) ==
  /\ pc[p] = "start"
  /\ \E f \in Files :
       \/ ~FromFile(f) /\ Fails(p)
       \/ FromFile(f) /\ Goto(p, "panicked")
       \/ FromFile(f) /\ HasFileName(f.log_file) /\ Goto(p, "connect")
  /\ UNCHANGED <<tables, config, limit, restic, run_id, printed, edits>>

-----------------------------------------------------------------------------
(* The database.  Any call may fail, and a failing statement may have been *)
(* applied; `?` ends the process.                                          *)

\* create_pool
Connect(p) ==
  /\ pc[p] = "connect"
  /\ Goto(p, "migrate") \/ Fails(p)
  /\ UNCHANGED <<tables, config, limit, restic, run_id, printed, edits>>

\* The statements of the next migration, in a transaction of their own.  The
\* lock of sqlx admits one process at a time.
Apply ==
  /\ version' = version + 1
  /\ settings' = IF version = 1 THEN settings \cup Defaults ELSE settings
  /\ UNCHANGED <<devices, jobs, runs, next_id>>

\* run_migrations
Migrate(p) ==
  /\ pc[p] = "migrate"
  /\ \/ version < 3 /\ Apply /\ (UNCHANGED pc \/ Fails(p))
     \/ version = 3 /\ Goto(p, "register") /\ UNCHANGED tables
     \/ Fails(p) /\ UNCHANGED tables
  /\ UNCHANGED <<config, limit, restic, run_id, printed, edits>>

\* upsert_device.  The other columns of the row are not read again.
Register(p) ==
  /\ pc[p] = "register"
  /\ \/ /\ devices' = devices \cup {This}
        /\ Goto(p, "jobs") \/ Fails(p)
     \/ UNCHANGED devices /\ Fails(p)
  /\ UNCHANGED <<version, settings, jobs, runs, next_id, config, limit, restic, run_id, printed,
                 edits>>

\* load_config_from_db: the first two of its queries.  Nothing reads the jobs
\* and schedules that are loaded here.
LoadJobs(p) ==
  /\ \/ pc[p] = "jobs" /\ (Goto(p, "schedules") \/ Fails(p))
     \/ pc[p] = "schedules" /\ (Goto(p, "settings") \/ Fails(p))
  /\ UNCHANGED <<tables, config, limit, restic, run_id, printed, edits>>

\* Mutant: ORDER BY device_id, whose NULLs come last.
RowBeforeNullsLast(r, s) == s.device # None => r.device # None

\* ORDER BY device_id NULLS FIRST; rows of one device come in any order.
RowBefore(r, s) == s.device = None => r.device = None

\* The rows of a key in the orders that the query may return them in.
Orders(rows) ==
  {q \in [1 .. Cardinality(rows) -> rows] :
     \A i, j \in 1 .. Cardinality(rows) : i < j => q[i] # q[j] /\ RowBefore(q[i], q[j])}

\* get_settings_for_device: WHERE device_id IS NULL OR device_id = $1.
VisibleRows(key) == {r \in settings : r.key = key /\ r.device \in {None, This}}

\* collect() into a HashMap: the last row of a key wins.
Collected(key) ==
  LET rows == VisibleRows(key) IN
  IF rows = {} THEN {None} ELSE {q[Cardinality(rows)].value : q \in Orders(rows)}

\* load_config_from_db: the settings.
LoadSettings(p) ==
  /\ pc[p] = "settings"
  /\ \/ /\ \E url \in Collected("repository_url"), password \in Collected("repository_password"),
             cache_dir \in Collected("repository_cache_dir"),
             max \in Collected("max_concurrent_backups") :
             config' = [config EXCEPT ![p] =
               [repository_url |-> url, repository_password |-> password,
                repository_cache_dir |-> cache_dir, max_concurrent_backups |-> max]]
        /\ Goto(p, "gate")
     \/ Fails(p) /\ UNCHANGED config
  /\ UNCHANGED <<tables, limit, restic, run_id, printed, edits>>

-----------------------------------------------------------------------------
(* One test backup, or the scheduler *)

\* str::parse::<usize>, of the values an administrator may write.
Parse(value) == CASE value = "0" -> 0 [] value = "1" -> 1 [] value = "2" -> 2 [] OTHER -> None

\* get_setting("max_concurrent_backups").and_then(parse).unwrap_or(1)
MaxConcurrent(c) == LET n == Parse(c.max_concurrent_backups) IN IF n = None THEN 1 ELSE n

\* run: the repository URL, and then either mode.
Gate(p) ==
  /\ pc[p] = "gate"
  /\ \/ config[p].repository_url \in {None, ""} /\ Fails(p) /\ UNCHANGED limit
     \/ /\ config[p].repository_url \notin {None, ""}
        /\ \/ TestBackup[p] # None /\ Goto(p, "lookup") /\ UNCHANGED limit
           \/ /\ TestBackup[p] = None /\ Goto(p, "running")
              /\ limit' = [limit EXCEPT ![p] = MaxConcurrent(config[p])]
  /\ UNCHANGED <<tables, config, restic, run_id, printed, edits>>

\* get_job_by_id: any device's job, enabled or not.
Lookup(p) ==
  /\ pc[p] = "lookup"
  /\ \/ TestBackup[p] \in jobs /\ Goto(p, "create")
     \/ Fails(p)
  /\ UNCHANGED <<tables, config, limit, restic, run_id, printed, edits>>

Insert(job, by) ==
  /\ job \in jobs /\ next_id < MaxRuns
  /\ runs' = runs \cup {[id |-> next_id, job |-> job, by |-> by, status |-> "running"]}
  /\ next_id' = next_id + 1

\* execute_backup: create_run, whose foreign key refuses a deleted job.
CreateRun(p) ==
  /\ pc[p] = "create"
  /\ \/ /\ Insert(TestBackup[p], p)
        /\ \/ Goto(p, "command") /\ run_id' = [run_id EXCEPT ![p] = next_id]
           \/ Fails(p) /\ UNCHANGED run_id
     \/ Fails(p) /\ UNCHANGED <<runs, next_id, run_id>>
  /\ UNCHANGED <<version, devices, settings, jobs, config, limit, restic, printed, edits>>

\* execute_backup: ResticCommand::new, and the start of the child.
StartRestic(p) ==
  /\ pc[p] = "command"
  /\ \/ config[p].repository_password = None /\ Fails(p) /\ UNCHANGED restic
     \/ /\ config[p].repository_password # None
        /\ \/ Fails(p) /\ UNCHANGED restic              \* no restic in PATH
           \/ Goto(p, "record") /\ restic' = [restic EXCEPT ![p] = "failed"]
           \/ Goto(p, "restic") /\ restic' = [restic EXCEPT ![p] = "running"]
  /\ UNCHANGED <<tables, config, limit, run_id, printed, edits>>

\* Restic ends, with a snapshot and a summary that names it, or not.
ResticExit(p) ==
  /\ restic[p] = "running"
  /\ \E end \in {"complete", "failed"} : restic' = [restic EXCEPT ![p] = end]
  /\ UNCHANGED <<tables, pc, config, limit, run_id, printed, edits>>

\* execute_backup: command.output() fails though it had started the child, which
\* it drops: a failure is recorded, and restic goes on.
OutputFails(p) ==
  /\ pc[p] = "restic"
  /\ Goto(p, "record")
  /\ UNCHANGED <<tables, config, limit, restic, run_id, printed, edits>>

\* Mutant: WHERE job_id = ..., which is every run of the job.
UpdateJobsRuns(id, status) ==
  LET same == {r.job : r \in {s \in runs : s.id = id}} IN
  runs' = {IF r.job \in same THEN [r EXCEPT !.status = status] ELSE r : r \in runs}

\* update_run
Update(id, status) == runs' = {IF r.id = id THEN [r EXCEPT !.status = status] ELSE r : r \in runs}

\* Mutant: Err(e) is printed, and run() goes on to the results.
RecordAndGoOn(p) ==
  /\ \/ pc[p] = "restic" /\ restic[p] # "running"
     \/ pc[p] = "record"
  /\ Update(run_id[p], IF restic[p] = "complete" THEN "success" ELSE "failed")
  /\ Goto(p, "report")
  /\ UNCHANGED <<version, devices, settings, jobs, next_id, config, limit, restic, run_id,
                 printed, edits>>

\* execute_backup: the outcome is recorded.  An Err is printed and returned.
Record(p) ==
  /\ \/ /\ pc[p] = "restic" /\ restic[p] = "complete"
        /\ \/ Update(run_id[p], "success") /\ (Goto(p, "report") \/ Fails(p))
           \/ Fails(p) /\ UNCHANGED runs
     \/ /\ pc[p] = "record" \/ (pc[p] = "restic" /\ restic[p] = "failed")
        /\ Update(run_id[p], "failed") \/ UNCHANGED runs
        /\ Fails(p)
  /\ UNCHANGED <<version, devices, settings, jobs, next_id, config, limit, restic, run_id,
                 printed, edits>>

RunsOf(device) == {r \in runs : DeviceOf[r.job] = device}

\* Mutant: ORDER BY start_time, oldest first.
OldestFirst(r, s) == r.id <= s.id

\* ORDER BY start_time DESC.  A run that was inserted later started later.
NewestFirst(r, s) == r.id >= s.id

\* Mutant: the row is asked for until there is one.
ReportWhenFound(p) ==
  LET rows == RunsOf(DeviceOf[TestBackup[p]]) IN
  /\ pc[p] = "report"
  /\ \E r \in rows :
       /\ \A s \in rows : NewestFirst(r, s)
       /\ printed' = [printed EXCEPT ![p] = r.id]
  /\ Goto(p, "exit_ok")
  /\ UNCHANGED <<tables, config, limit, restic, run_id, edits>>

\* run: get_recent_runs(device_id, 1), and its first row is printed.
Report(p) ==
  LET rows == RunsOf(DeviceOf[TestBackup[p]]) IN
  /\ pc[p] = "report"
  /\ \/ /\ \E r \in rows :
             /\ \A s \in rows : NewestFirst(r, s)
             /\ printed' = [printed EXCEPT ![p] = r.id]
        /\ Goto(p, "exit_ok")
     \/ Fails(p) /\ UNCHANGED printed
  /\ UNCHANGED <<tables, config, limit, restic, run_id, edits>>

\* One step of run().
Step(p) ==
  \/ ReadLocal(p) \/ Connect(p) \/ Migrate(p) \/ Register(p) \/ LoadJobs(p) \/ LoadSettings(p)
  \/ Gate(p) \/ Lookup(p) \/ CreateRun(p) \/ StartRestic(p) \/ Record(p) \/ Report(p)

-----------------------------------------------------------------------------
(* The environment *)

\* select! in run(): a signal, or the end of the scheduler or the executor.
Shutdown(p) ==
  /\ pc[p] = "running"
  /\ Goto(p, "exit_ok")
  /\ UNCHANGED <<tables, config, limit, restic, run_id, printed, edits>>

Kill(p) ==
  /\ pc[p] \notin Exited
  /\ Goto(p, "killed")
  /\ UNCHANGED <<tables, config, limit, restic, run_id, printed, edits>>

\* The service on this device, or a client on another one, starts a backup.
\* What becomes of its row is not read here.
OtherRun(job) ==
  /\ Insert(job, None)
  /\ UNCHANGED <<version, devices, settings, jobs, process, edits>>

Edit == version = 3 /\ edits < MaxEdits /\ edits' = edits + 1 /\ UNCHANGED process

\* UPDATE or INSERT of a row of settings.  UNIQUE (device_id, key) does not
\* keep a second row without a device from being inserted.
WriteSetting(row) ==
  LET same == {r \in settings : r.device = row.device /\ r.key = row.key} IN
  /\ Edit
  /\ row.device \in devices \cup {None}
  /\ \/ settings' = (settings \ same) \cup {row}
     \/ row.device = None /\ settings' = settings \cup {row}
  /\ UNCHANGED <<version, devices, jobs, runs, next_id>>

DeleteSetting(row) ==
  /\ Edit
  /\ settings' = settings \ {row}
  /\ UNCHANGED <<version, devices, jobs, runs, next_id>>

\* Mutant: without the cascade.
DeleteJobOnly(job) ==
  /\ Edit
  /\ jobs' = jobs \ {job}
  /\ UNCHANGED <<version, devices, settings, runs, next_id>>

\* ON DELETE CASCADE
DeleteJob(job) ==
  /\ Edit
  /\ jobs' = jobs \ {job}
  /\ runs' = {r \in runs : r.job # job}
  /\ UNCHANGED <<version, devices, settings, next_id>>

DeleteDevice(device) ==
  /\ Edit
  /\ devices' = devices \ {device}
  /\ settings' = {r \in settings : r.device # device}
  /\ jobs' = {j \in jobs : DeviceOf[j] # device}
  /\ runs' = {r \in runs : DeviceOf[r.job] # device}
  /\ UNCHANGED <<version, next_id>>

\* Every process has ended.
Done == (\A p \in Procs : pc[p] \in Exited /\ restic[p] # "running") /\ UNCHANGED vars

Next ==
  \/ \E p \in Procs : Step(p) \/ OutputFails(p) \/ ResticExit(p) \/ Shutdown(p) \/ Kill(p)
  \/ \E job \in Jobs : OtherRun(job) \/ DeleteJob(job)
  \/ \E row \in Edits : WriteSetting(row)
  \/ \E row \in settings : DeleteSetting(row)
  \/ \E device \in Devices : DeleteDevice(device)
  \/ Done

Spec == Init /\ [][Next]_vars

\* run() goes on when it can.  Restic may hang, and nobody has to stop the client.
FairSpec == Spec /\ \A p \in Procs : WF_vars(Step(p))

-----------------------------------------------------------------------------
(* Properties *)

\* Types of the variables; every row of backup_jobs and runs has the row that its
\* foreign key names, and ids are not beyond their sequence.
TypeOK ==
  /\ version \in 0 .. 3
  /\ devices \subseteq Devices /\ jobs \subseteq Jobs
  /\ settings \subseteq Setting /\ IsFiniteSet(settings)
  /\ runs \subseteq Run /\ next_id \in Nat
  /\ \A r \in runs : r.id < next_id /\ r.job \in jobs
  /\ \A j \in jobs : DeviceOf[j] \in devices
  /\ pc \in [Procs -> Labels]
  /\ config \in [Procs -> Configs]
  /\ limit \in [Procs -> Nat \cup {None}]
  /\ restic \in [Procs -> {"none", "running", "complete", "failed"}]
  /\ run_id \in [Procs -> Nat \cup {None}] /\ printed \in [Procs -> Nat \cup {None}]
  /\ edits \in Nat

\* What a device has of its own wins over what holds for all: of the rows that
\* exist when the settings are loaded, in whatever order they were written, and
\* also if a key has two rows without a device.
OwnSettingWins ==
  [][\A p \in Procs :
       pc[p] = "settings" /\ pc'[p] = "gate" =>
         \A row \in settings :
           /\ row.device = This => config'[p][row.key] = row.value
           /\ row.device = None => config'[p][row.key] # None]_vars

\* Exit code 0 of --test-backup means a backup: restic has stored its snapshot
\* and the row of this very process says so, if it was not deleted.
ExitZeroMeansBackup ==
  \A p \in Procs :
    TestBackup[p] # None /\ pc[p] = "exit_ok" =>
      /\ restic[p] = "complete"
      /\ \A r \in runs : r.id = run_id[p] => r.status = "success"

\* The results that --test-backup prints are its own, or those of a run that
\* was started later on the device, by the service that runs beside it; older
\* ones only if its own row is gone.
PrintedOwnOrLater ==
  \A p \in Procs :
    printed[p] # None =>
      printed[p] >= run_id[p] \/ \A r \in runs : r.id # run_id[p]

\* Restic is told what the row of the job says, whatever it held when it was
\* read and whichever columns are NULL, and it gets no empty cache directory.
CommandMatchesRow ==
  \A p \in Procs :
    restic[p] = "running" =>
      /\ \A job \in Rows[TestBackup[p]] : ReadAsMeant(job)
      /\ BuildEnv(config[p]).RESTIC_CACHE_DIR # ""

\* The life of the rows of runs.
RunIds == 0 .. MaxRuns - 1
RowStatus(id) ==
  IF \E r \in runs : r.id = id THEN (CHOOSE r \in runs : r.id = id).status
  ELSE IF id < next_id THEN "deleted" ELSE "absent"
Ledger == [id \in RunIds |-> RowStatus(id)]

\* The rows whose backup restic completed, with a snapshot that it named.
Stored == {run_id[p] : p \in {q \in Procs : restic[q] = "complete"}}

\* Test backups keep the history of the runs as the executor does (Executor
\* implements the same module): a row opens once, closes once and for itself
\* alone, as a success only with its snapshot, and no snapshot comes for a row
\* that has closed as a success; beside other clients, deletions, processes that
\* die and a restic that nobody waits for any more.
History == INSTANCE RunHistory WITH Execs <- RunIds, ledger <- Ledger, repository <- Stored
HistorySpec == History!Spec

\* A start comes to a decision: the client runs or ends, whatever fails or is
\* edited under it; it only ever waits for restic.
Decided(p) == pc[p] \in Exited \cup {"running"}
EveryStartDecides ==
  \A p \in Procs : restic[p] # "running" ~> Decided(p) \/ restic[p] = "running"
=============================================================================
