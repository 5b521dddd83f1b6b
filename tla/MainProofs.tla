----------------------------- MODULE MainProofs -----------------------------
(***************************************************************************)
(* The start of the client, for any number of starts, jobs, devices and    *)
(* edits: its types, which settings hold, what restic is told, and what    *)
(* exit code 0 and the printed results of a test backup stand for.         *)
(***************************************************************************)
EXTENDS Main, ResticCommandProofs, FiniteSetTheorems

-----------------------------------------------------------------------------
(* What the actions do, seen from a process *)

\* The steps of run() that start no backup, and the end of a process: they
\* move pc, and leave all of the test backups alone.
Startup(p) ==
  \/ ReadLocal(p) \/ Connect(p) \/ Migrate(p) \/ Register(p) \/ LoadJobs(p) \/ LoadSettings(p)
  \/ Gate(p) \/ Lookup(p) \/ Shutdown(p) \/ Kill(p)

\* Changes of the database by others.
Others ==
  \/ \E job \in Jobs : OtherRun(job) \/ DeleteJob(job)
  \/ \E row \in Edits : WriteSetting(row)
  \/ \E row \in settings : DeleteSetting(row)
  \/ \E device \in Devices : DeleteDevice(device)

LEMMA NextCases ==
  ASSUME [Next]_vars
  PROVE  \/ \E p \in Procs : \/ Startup(p) \/ CreateRun(p) \/ StartRestic(p) \/ Record(p)
                             \/ Report(p) \/ ResticExit(p) \/ OutputFails(p)
         \/ Others
         \/ UNCHANGED vars
BY DEF Next, Step, Startup, Others, Done

-----------------------------------------------------------------------------
(* Types *)

LEMMA DefaultsAreSettings == Defaults \subseteq Setting /\ IsFiniteSet(Defaults)
<1> DEFINE row(k, v) == [device |-> None, key |-> k, value |-> v]
<1>1. Defaults = {row("repository_url", "")} \cup {row("repository_password", "")}
                 \cup {row("repository_cache_dir", "")} \cup {row("max_concurrent_backups", "1")}
  BY DEF Defaults
<1>2. IsFiniteSet(Defaults)
  <2> HIDE DEF row
  <2>. QED
    BY <1>1, FS_Singleton, FS_Union
<1>3. ASSUME NEW k \in Keys, NEW v \in Values PROVE row(k, v) \in Setting
  BY DEF Setting
<1>4. ASSUME NEW k \in Keys, NEW v, row(k, v) \in Defaults PROVE row(k, v) \in Setting
  <2>1. row(k, v).value \in Values
    BY <1>4 DEF Values
  <2>2. row(k, v).value = v
    OBVIOUS
  <2>. QED
    BY <1>3, <2>1, <2>2
<1>5. /\ "repository_url" \in Keys /\ "repository_password" \in Keys
      /\ "repository_cache_dir" \in Keys /\ "max_concurrent_backups" \in Keys
  BY DEF Keys
<1>. QED
  <2> HIDE DEF row
  <2>. QED
    BY <1>1, <1>2, <1>4, <1>5

\* What the query finds for a key is a value or nothing.
LEMMA CollectedIsValue ==
  ASSUME TypeOK, NEW key \in Keys
  PROVE  Collected(key) \subseteq Value
<1> DEFINE rows == VisibleRows(key)
<1>1. rows \subseteq settings /\ IsFiniteSet(rows) /\ rows \subseteq Setting
  BY FS_Subset DEF TypeOK, VisibleRows
<1>2. CASE rows = {}
  BY <1>2 DEF Collected, Value
<1>3. ASSUME rows # {}, NEW q \in Orders(rows) PROVE q[Cardinality(rows)].value \in Values
  <2>1. Cardinality(rows) \in Nat /\ Cardinality(rows) # 0
    BY <1>1, <1>3, FS_CardinalityType, FS_EmptySet
  <2>2. q[Cardinality(rows)] \in rows
    BY <2>1, <1>3 DEF Orders
  <2>. QED
    BY <1>1, <2>2 DEF Setting
<1>. QED
  BY <1>2, <1>3 DEF Collected, Value

\* The tables and the processes, separately.
TablesOK ==
  /\ version \in 0 .. 3
  /\ devices \subseteq Devices /\ jobs \subseteq Jobs
  /\ settings \subseteq Setting /\ IsFiniteSet(settings)
  /\ runs \subseteq Run /\ next_id \in Nat
  /\ \A r \in runs : r.id < next_id /\ r.job \in jobs
  /\ \A j \in jobs : DeviceOf[j] \in devices

ProcessOK ==
  /\ pc \in [Procs -> Labels]
  /\ config \in [Procs -> Configs]
  /\ limit \in [Procs -> Nat \cup {None}]
  /\ restic \in [Procs -> {"none", "running", "complete", "failed"}]
  /\ run_id \in [Procs -> Nat \cup {None}] /\ printed \in [Procs -> Nat \cup {None}]
  /\ edits \in Nat

LEMMA TypeParts == TypeOK <=> TablesOK /\ ProcessOK
BY DEF TypeOK, TablesOK, ProcessOK

LEMMA ParseType == \A c \in Configs : MaxConcurrent(c) \in Nat
BY MainAssumption DEF MaxConcurrent, Parse

LEMMA InsertType ==
  ASSUME TablesOK, NEW job, NEW by \in Procs \cup {None}, Insert(job, by),
         UNCHANGED <<version, devices, settings, jobs>>
  PROVE  TablesOK' /\ next_id' \in Nat
<1> DEFINE new == [id |-> next_id, job |-> job, by |-> by, status |-> "running"]
<1>1. new \in Run /\ job \in jobs
  BY DEF Insert, Run, TablesOK
<1>2. runs' = runs \cup {new} /\ next_id' = next_id + 1
  BY DEF Insert
<1>3. \A r \in runs' : r.id < next_id' /\ r.job \in jobs'
  <2>1. \A r \in runs : r.id \in Nat
    BY DEF TablesOK, Run
  <2>. QED
    BY <1>1, <1>2, <2>1 DEF TablesOK
<1>4. runs' \subseteq Run /\ next_id' \in Nat
  BY <1>1, <1>2 DEF TablesOK
<1>. QED
  BY <1>3, <1>4 DEF TablesOK

LEMMA UpdateType ==
  ASSUME TablesOK, NEW id, NEW status \in {"success", "failed"}, Update(id, status),
         UNCHANGED <<version, devices, settings, jobs, next_id>>
  PROVE  TablesOK'
<1>1. ASSUME NEW r \in runs, NEW s, s = (IF r.id = id THEN [r EXCEPT !.status = status] ELSE r)
      PROVE  s \in Run /\ s.id = r.id /\ s.job = r.job
  BY <1>1 DEF TablesOK, Run
<1>2. \A s \in runs' : \E r \in runs : s \in Run /\ s.id = r.id /\ s.job = r.job
  BY <1>1 DEF Update
<1>. QED
  BY <1>2 DEF TablesOK

LEMMA TablesStep ==
  ASSUME TablesOK, ProcessOK, [Next]_vars
  PROVE  TablesOK'
<1>1. CASE UNCHANGED tables
  BY <1>1 DEF tables, TablesOK
<1>2. ASSUME NEW p \in Procs, Startup(p) PROVE TablesOK'
  <2>1. CASE Migrate(p)
    <3>1. ASSUME version < 3, Apply PROVE TablesOK'
      <4>1. version' \in 0 .. 3
        BY <3>1 DEF Apply, TablesOK
      <4>2. settings' \subseteq Setting /\ IsFiniteSet(settings')
        BY <3>1, DefaultsAreSettings, FS_Union DEF Apply, TablesOK
      <4>. QED
        BY <3>1, <4>1, <4>2 DEF Apply, TablesOK
    <3>. QED
      BY <1>1, <2>1, <3>1 DEF Migrate
  <2>2. CASE Register(p)
    BY <2>2, MainAssumption DEF Register, TablesOK
  <2>3. CASE Lookup(p) \/ Gate(p) \/ LoadSettings(p) \/ LoadJobs(p) \/ Connect(p) \/ ReadLocal(p)
             \/ Shutdown(p) \/ Kill(p)
    BY <1>1, <2>3 DEF Lookup, Gate, LoadSettings, LoadJobs, Connect, ReadLocal, Shutdown, Kill
  <2>. QED
    BY <1>2, <2>1, <2>2, <2>3 DEF Startup
<1>3. ASSUME NEW p \in Procs, CreateRun(p) PROVE TablesOK'
  <2>1. CASE Insert(TestBackup[p], p)
    BY <1>3, <2>1, InsertType DEF CreateRun
  <2>2. CASE UNCHANGED <<runs, next_id>>
    BY <1>1, <1>3, <2>2 DEF CreateRun, tables
  <2>. QED
    BY <1>3, <2>1, <2>2 DEF CreateRun
<1>4. ASSUME NEW p \in Procs, Record(p) PROVE TablesOK'
  <2>1. CASE UNCHANGED runs
    BY <1>1, <1>4, <2>1 DEF Record, tables
  <2>2. ASSUME NEW status \in {"success", "failed"}, Update(run_id[p], status) PROVE TablesOK'
    BY <1>4, <2>2, UpdateType DEF Record
  <2>. QED
    BY <1>4, <2>1, <2>2 DEF Record
<1>5. ASSUME NEW p \in Procs, StartRestic(p) \/ Report(p) \/ ResticExit(p) \/ OutputFails(p)
      PROVE  TablesOK'
  BY <1>1, <1>5 DEF StartRestic, Report, ResticExit, OutputFails
<1>6. CASE Others
  <2>1. ASSUME NEW job \in Jobs, OtherRun(job) PROVE TablesOK'
    BY <2>1, InsertType DEF OtherRun
  <2>2. ASSUME NEW job \in Jobs, DeleteJob(job) PROVE TablesOK'
    BY <2>2 DEF DeleteJob, TablesOK
  <2>3. ASSUME NEW row \in Edits, WriteSetting(row) PROVE TablesOK'
    <3>1. settings' \subseteq settings \cup {row}
      BY <2>3 DEF WriteSetting
    <3>2. IsFiniteSet(settings \cup {row}) /\ row \in Setting
      BY FS_AddElement, MainAssumption DEF TablesOK
    <3>3. settings' \subseteq Setting /\ IsFiniteSet(settings')
      BY <3>1, <3>2, FS_Subset DEF TablesOK
    <3>. QED
      BY <2>3, <3>3 DEF WriteSetting, TablesOK
  <2>4. ASSUME NEW row \in settings, DeleteSetting(row) PROVE TablesOK'
    <3>1. settings' \subseteq settings /\ IsFiniteSet(settings')
      BY <2>4, FS_Subset DEF DeleteSetting, TablesOK
    <3>. QED
      BY <2>4, <3>1 DEF DeleteSetting, TablesOK
  <2>5. ASSUME NEW device \in Devices, DeleteDevice(device) PROVE TablesOK'
    <3>1. settings' \subseteq settings /\ IsFiniteSet(settings')
      BY <2>5, FS_Subset DEF DeleteDevice, TablesOK
    <3>2. \A r \in runs' : r \in runs /\ r.job \in jobs'
      BY <2>5 DEF DeleteDevice, TablesOK
    <3>3. \A j \in jobs' : j \in jobs /\ DeviceOf[j] \in devices'
      BY <2>5 DEF DeleteDevice, TablesOK
    <3>. QED
      BY <2>5, <3>1, <3>2, <3>3 DEF DeleteDevice, TablesOK
  <2>. QED
    BY <1>6, <2>1, <2>2, <2>3, <2>4, <2>5 DEF Others
<1>7. CASE UNCHANGED vars
  BY <1>1, <1>7 DEF vars
<1>. QED
  BY <1>2, <1>3, <1>4, <1>5, <1>6, <1>7, NextCases

LEMMA ProcessStep ==
  ASSUME TypeOK, [Next]_vars
  PROVE  ProcessOK'
<1>1. ProcessOK
  BY TypeParts
<1> DEFINE Rest == UNCHANGED <<config, limit, restic, run_id, printed, edits>>
<1>2. ASSUME NEW p \in Procs, NEW l \in Labels, Goto(p, l) PROVE pc' \in [Procs -> Labels]
  BY <1>1, <1>2 DEF Goto, ProcessOK
<1>3. \A p \in Procs : Fails(p) => pc' \in [Procs -> Labels]
  BY <1>2 DEF Fails, Labels, Exited
<1>4. ASSUME NEW p \in Procs, ReadLocal(p) \/ Connect(p) \/ Migrate(p) \/ Register(p)
             \/ LoadJobs(p) \/ Lookup(p) \/ Shutdown(p) \/ Kill(p)
      PROVE  ProcessOK'
  <2>1. Rest
    BY <1>4 DEF ReadLocal, Connect, Migrate, Register, LoadJobs, Lookup, Shutdown, Kill
  <2>2. pc' \in [Procs -> Labels]
    <3>1. \/ Fails(p) \/ UNCHANGED pc
          \/ \E l \in {"panicked", "connect", "migrate", "register", "jobs", "schedules", "settings",
                       "create", "exit_ok", "killed"} : Goto(p, l)
      BY <1>4 DEF ReadLocal, Connect, Migrate, Register, LoadJobs, Lookup, Shutdown, Kill
    <3>2. CASE UNCHANGED pc
      BY <1>1, <3>2 DEF ProcessOK
    <3>. QED
      BY <1>2, <1>3, <3>1, <3>2 DEF Labels, Exited
  <2>. QED
    BY <1>1, <2>1, <2>2 DEF ProcessOK
<1>5. ASSUME NEW p \in Procs, LoadSettings(p) PROVE ProcessOK'
  <2>1. pc' \in [Procs -> Labels]
    BY <1>2, <1>3, <1>5 DEF LoadSettings, Labels
  <2>2. UNCHANGED <<limit, restic, run_id, printed, edits>>
    BY <1>5 DEF LoadSettings
  <2>3. config' = config \/ \E c \in Configs : config' = [config EXCEPT ![p] = c]
    <3>1. \A key \in Keys : Collected(key) \subseteq Value
      BY CollectedIsValue
    <3>2. ASSUME NEW url \in Collected("repository_url"), NEW password \in Collected("repository_password"),
                 NEW cache_dir \in Collected("repository_cache_dir"),
                 NEW max \in Collected("max_concurrent_backups")
          PROVE  [repository_url |-> url, repository_password |-> password,
                  repository_cache_dir |-> cache_dir, max_concurrent_backups |-> max] \in Configs
      BY <3>1 DEF Keys, Configs
    <3>. QED
      BY <1>5, <3>2 DEF LoadSettings
  <2>4. config' \in [Procs -> Configs]
    BY <1>1, <2>3 DEF ProcessOK
  <2>. QED
    BY <1>1, <2>1, <2>2, <2>4 DEF ProcessOK
<1>6. ASSUME NEW p \in Procs, Gate(p) PROVE ProcessOK'
  <2>1. pc' \in [Procs -> Labels]
    BY <1>2, <1>3, <1>6 DEF Gate, Labels
  <2>2. UNCHANGED <<config, restic, run_id, printed, edits>>
    BY <1>6 DEF Gate
  <2>3. config[p] \in Configs
    BY <1>1 DEF ProcessOK
  <2>4. limit' = limit \/ limit' = [limit EXCEPT ![p] = MaxConcurrent(config[p])]
    BY <1>6 DEF Gate
  <2>5. limit' \in [Procs -> Nat \cup {None}]
    BY <1>1, <2>3, <2>4, ParseType DEF ProcessOK
  <2>. QED
    BY <1>1, <2>1, <2>2, <2>5 DEF ProcessOK
<1>7. ASSUME NEW p \in Procs, CreateRun(p) PROVE ProcessOK'
  <2>1. pc' \in [Procs -> Labels]
    BY <1>2, <1>3, <1>7 DEF CreateRun, Labels
  <2>2. UNCHANGED <<config, limit, restic, printed, edits>>
    BY <1>7 DEF CreateRun
  <2>3. run_id' = run_id \/ run_id' = [run_id EXCEPT ![p] = next_id]
    BY <1>7 DEF CreateRun
  <2>4. run_id' \in [Procs -> Nat \cup {None}]
    BY <1>1, <2>3 DEF ProcessOK, TypeOK
  <2>. QED
    BY <1>1, <2>1, <2>2, <2>4 DEF ProcessOK
<1>8. ASSUME NEW p \in Procs, StartRestic(p) PROVE ProcessOK'
  <2>1. pc' \in [Procs -> Labels]
    BY <1>2, <1>3, <1>8 DEF StartRestic, Labels
  <2>2. UNCHANGED <<config, limit, run_id, printed, edits>>
    BY <1>8 DEF StartRestic
  <2>3. restic' \in [Procs -> {"none", "running", "complete", "failed"}]
    BY <1>1, <1>8 DEF ProcessOK, StartRestic
  <2>. QED
    BY <1>1, <2>1, <2>2, <2>3 DEF ProcessOK
<1>9. ASSUME NEW p \in Procs, Record(p) PROVE ProcessOK'
  <2>1. pc' \in [Procs -> Labels]
    BY <1>2, <1>3, <1>9 DEF Record, Labels
  <2>. QED
    BY <1>1, <1>9, <2>1 DEF ProcessOK, Record
<1>10. ASSUME NEW p \in Procs, Report(p) PROVE ProcessOK'
  <2>1. pc' \in [Procs -> Labels]
    BY <1>2, <1>3, <1>10 DEF Report, Labels, Exited
  <2>2. UNCHANGED <<config, limit, restic, run_id, edits>>
    BY <1>10 DEF Report
  <2>3. printed' = printed \/ \E r \in runs : printed' = [printed EXCEPT ![p] = r.id]
    BY <1>10 DEF Report, RunsOf
  <2>4. \A r \in runs : r.id \in Nat
    BY DEF TypeOK, Run
  <2>5. printed' \in [Procs -> Nat \cup {None}]
    BY <1>1, <2>3, <2>4 DEF ProcessOK
  <2>. QED
    BY <1>1, <2>1, <2>2, <2>5 DEF ProcessOK
<1>11. ASSUME NEW p \in Procs, ResticExit(p) PROVE ProcessOK'
  BY <1>1, <1>11 DEF ResticExit, ProcessOK
<1>12. ASSUME NEW p \in Procs, OutputFails(p) PROVE ProcessOK'
  <2>1. pc' \in [Procs -> Labels]
    BY <1>2, <1>12 DEF OutputFails, Labels
  <2>. QED
    BY <1>1, <1>12, <2>1 DEF ProcessOK, OutputFails
<1>13. CASE Others
  <2>1. UNCHANGED process /\ edits' \in Nat
    BY <1>1, <1>13 DEF Others, OtherRun, WriteSetting, DeleteSetting, DeleteJob, DeleteDevice, Edit,
                       ProcessOK
  <2>. QED
    BY <1>1, <2>1 DEF process, ProcessOK
<1>14. CASE UNCHANGED vars
  BY <1>1, <1>14 DEF vars, process, ProcessOK
<1>. QED
  BY <1>4, <1>5, <1>6, <1>7, <1>8, <1>9, <1>10, <1>11, <1>12, <1>13, <1>14, NextCases
     DEF Startup

LEMMA TypeInit == Init => TypeOK
<1> SUFFICES ASSUME Init PROVE TypeOK
  OBVIOUS
<1>1. ProcessOK
  BY DEF Init, ProcessOK, Labels, NoConfig, Configs, Value
<1>2. TablesOK
  <2>1. settings \subseteq Setting /\ IsFiniteSet(settings)
    BY MainAssumption, FS_EmptySet DEF Init
  <2>2. version \in 0 .. 3 /\ runs = {} /\ next_id = 0
    BY DEF Init
  <2>3. devices \subseteq Devices /\ jobs \subseteq Jobs /\ \A j \in jobs : DeviceOf[j] \in devices
    BY MainAssumption DEF Init
  <2>. QED
    BY <2>1, <2>2, <2>3 DEF TablesOK
<1>. QED
  BY <1>1, <1>2, TypeParts

\* The types of the start of the client; that a run has its job and a job its
\* device is among them.
THEOREM TypeCorrect == Spec => []TypeOK
<1>1. TypeOK /\ [Next]_vars => TypeOK'
  <2>1. ASSUME TypeOK, [Next]_vars PROVE TablesOK' /\ ProcessOK'
    BY <2>1, TypeParts, TablesStep, ProcessStep
  <2>. QED
    BY <2>1 DEF TypeOK, TablesOK, ProcessOK
<1>. QED
  BY <1>1, TypeInit, PTL DEF Spec

-----------------------------------------------------------------------------
(* The settings *)

\* A row of its own device, or of all, among those that the query finds: in
\* each order the query may return, the last row of the key is the device's own.
LEMMA LastIsOwn ==
  ASSUME TypeOK, OwnUnique(settings), NEW row \in settings, row.device \in {None, This},
         NEW v \in Collected(row.key)
  PROVE  (row.device = This => v = row.value) /\ (row.device = None => v # None)
<1> DEFINE rows == VisibleRows(row.key)
           n == Cardinality(rows)
<1>1. row \in rows /\ rows \subseteq settings /\ \A r \in rows : r.key = row.key /\ r.device \in {None, This}
  BY DEF VisibleRows
<1>2. IsFiniteSet(rows) /\ n \in Nat /\ n # 0
  BY <1>1, FS_Subset, FS_CardinalityType, FS_EmptySet DEF TypeOK
<1>3. PICK q \in Orders(rows) : v = q[n].value
  BY <1>1 DEF Collected
<1>4. /\ q \in [1 .. n -> rows]
      /\ \A i, j \in 1 .. n : i < j => q[i] # q[j] /\ RowBefore(q[i], q[j])
  BY DEF Orders
<1>5. q[n] \in rows /\ q[n] \in Setting
  BY <1>1, <1>2, <1>4 DEF TypeOK
<1>6. v \in Values /\ v # None
  BY <1>3, <1>5, MainAssumption DEF Setting
<1>7. ASSUME row.device = This PROVE v = row.value
  <2>1. IsInjective(q)
    <3>1. ASSUME NEW i \in 1 .. n, NEW j \in 1 .. n, q[i] = q[j] PROVE i = j
      BY <1>2, <1>4, <3>1
    <3>. QED
      BY <1>4, <3>1 DEF IsInjective
  <2>2. q \in Injection(1 .. n, rows)
    BY <1>4, <2>1 DEF Injection
  <2>3. Cardinality(1 .. n) = n
    BY <1>2, FS_Interval
  <2>4. q \in Surjection(1 .. n, rows)
    BY <1>2, <2>2, <2>3, FS_Injection
  <2>5. PICK i \in 1 .. n : q[i] = row
    BY <1>1, <2>4 DEF Surjection
  <2>6. q[n].device # None
    <3>1. CASE i = n
      BY <1>7, <2>5, <3>1, MainAssumption
    <3>2. CASE i < n
      BY <1>2, <1>4, <1>7, <2>5, <3>2, MainAssumption DEF RowBefore
    <3>. QED
      BY <1>2, <3>1, <3>2
  <2>7. q[n] = row
    BY <1>1, <1>5, <1>7, <2>6, MainAssumption DEF OwnUnique
  <2>. QED
    BY <1>3, <2>7
<1>. QED
  BY <1>6, <1>7

\* A device has one row for a key of its own, whoever writes.
LEMMA OwnStaysUnique ==
  ASSUME TypeOK, OwnUnique(settings), [Next]_vars
  PROVE  OwnUnique(settings')
<1>1. CASE settings' \subseteq settings
  BY <1>1 DEF OwnUnique
<1>2. ASSUME NEW p \in Procs, Migrate(p) PROVE OwnUnique(settings')
  <2>1. ASSUME NEW r \in Defaults PROVE r.device = None
    <3> DEFINE row(k, v) == [device |-> None, key |-> k, value |-> v]
    <3>1. \/ r = row("repository_url", "") \/ r = row("repository_password", "")
          \/ r = row("repository_cache_dir", "") \/ r = row("max_concurrent_backups", "1")
      BY DEF Defaults
    <3>2. ASSUME NEW k, NEW v, r = row(k, v) PROVE r.device = None
      BY <3>2
    <3>. HIDE DEF row
    <3>. QED
      BY <3>1, <3>2
  <2>2. settings' = settings \/ settings' = settings \cup Defaults
    BY <1>2 DEF Migrate, Apply, tables
  <2>. QED
    BY <2>1, <2>2 DEF OwnUnique
<1>3. ASSUME NEW row \in Edits, WriteSetting(row) PROVE OwnUnique(settings')
  BY <1>3 DEF WriteSetting, OwnUnique
<1>4. CASE UNCHANGED vars
  BY <1>1, <1>4 DEF vars, tables
<1>5. ASSUME \/ \E job \in Jobs : OtherRun(job) \/ DeleteJob(job)
             \/ \E row \in settings : DeleteSetting(row)
             \/ \E device \in Devices : DeleteDevice(device)
      PROVE  OwnUnique(settings')
  BY <1>1, <1>5 DEF OtherRun, DeleteJob, DeleteSetting, DeleteDevice
<1>6. ASSUME NEW p \in Procs,
             \/ ReadLocal(p) \/ Connect(p) \/ Register(p) \/ LoadJobs(p) \/ LoadSettings(p)
             \/ Gate(p) \/ Lookup(p) \/ Shutdown(p) \/ Kill(p) \/ CreateRun(p) \/ StartRestic(p)
             \/ Record(p) \/ Report(p) \/ ResticExit(p) \/ OutputFails(p)
      PROVE  OwnUnique(settings')
  <2>1. settings' = settings
    BY <1>6 DEF ReadLocal, Connect, Register, LoadJobs, LoadSettings, Gate, Lookup, Shutdown, Kill,
                CreateRun, StartRestic, Record, Report, ResticExit, OutputFails, tables
  <2>. QED
    BY <1>1, <2>1
<1>. QED
  BY <1>2, <1>3, <1>4, <1>5, <1>6, NextCases DEF Startup, Others

\* Only LoadSettings takes a process from the settings to the gate.
LEMMA LoadsOnce ==
  ASSUME TypeOK, [Next]_vars, NEW p \in Procs, pc[p] = "settings", pc'[p] = "gate"
  PROVE  LoadSettings(p)
<1>1. pc \in [Procs -> Labels]
  BY DEF TypeOK
<1>2. ASSUME NEW q \in Procs, NEW l, Goto(q, l) PROVE q = p /\ l = "gate"
  BY <1>1, <1>2 DEF Goto
<1>3. pc' # pc
  OBVIOUS
<1>4. ASSUME NEW q \in Procs, Fails(q) PROVE FALSE
  BY <1>2, <1>4 DEF Fails
<1>5. ASSUME NEW q \in Procs, LoadSettings(q) PROVE LoadSettings(p)
  <2>1. q = p
    BY <1>2, <1>4, <1>5 DEF LoadSettings
  <2>. QED
    BY <1>5, <2>1
<1>6. ASSUME NEW q \in Procs,
             \/ ReadLocal(q) \/ Connect(q) \/ Migrate(q) \/ Register(q) \/ LoadJobs(q) \/ Gate(q)
             \/ Lookup(q) \/ Shutdown(q) \/ Kill(q) \/ CreateRun(q) \/ StartRestic(q) \/ Record(q)
             \/ Report(q) \/ ResticExit(q) \/ OutputFails(q)
      PROVE  FALSE
  <2>1. Fails(q) \/ UNCHANGED pc \/ \E l \in Labels \ {"gate"} : Goto(q, l)
    BY <1>6 DEF ReadLocal, Connect, Migrate, Register, LoadJobs, Gate, Lookup, Shutdown, Kill,
                CreateRun, StartRestic, Record, Report, ResticExit, OutputFails, Labels, Exited
  <2>. QED
    BY <1>2, <1>3, <1>4, <2>1
<1>7. ~Others /\ ~UNCHANGED vars
  BY <1>3 DEF Others, OtherRun, WriteSetting, DeleteSetting, DeleteJob, DeleteDevice, Edit, process,
              vars
<1>. QED
  BY <1>5, <1>6, <1>7, NextCases DEF Startup

\* What a device has of its own wins, for any rows, written in any order.
THEOREM OwnSettingsWin == Spec => OwnSettingWins
<1> DEFINE Won(p, row) ==
      /\ row.device = This => config'[p][row.key] = row.value
      /\ row.device = None => config'[p][row.key] # None
<1>1. ASSUME TypeOK, OwnUnique(settings), [Next]_vars,
             NEW p \in Procs, pc[p] = "settings", pc'[p] = "gate", NEW row \in settings
      PROVE  Won(p, row)
  <2>1. LoadSettings(p) /\ config \in [Procs -> Configs] /\ row \in Setting
    BY <1>1, LoadsOnce DEF TypeOK
  <2>2. config'[p][row.key] \in Collected(row.key)
    <3>1. PICK url \in Collected("repository_url"), password \in Collected("repository_password"),
               cache_dir \in Collected("repository_cache_dir"),
               max \in Collected("max_concurrent_backups") :
            config' = [config EXCEPT ![p] =
              [repository_url |-> url, repository_password |-> password,
               repository_cache_dir |-> cache_dir, max_concurrent_backups |-> max]]
      BY <1>1, <2>1 DEF LoadSettings, Fails, Goto, TypeOK
    <3>2. config'[p] = [repository_url |-> url, repository_password |-> password,
                        repository_cache_dir |-> cache_dir, max_concurrent_backups |-> max]
      BY <2>1, <3>1
    <3>3. row.key \in {"repository_url", "repository_password", "repository_cache_dir",
                       "max_concurrent_backups"}
      BY <2>1 DEF Setting, Keys
    <3>. QED
      BY <3>1, <3>2, <3>3
  <2>3. CASE row.device \in {None, This}
    BY <1>1, <2>2, <2>3, LastIsOwn
  <2>. QED
    BY <2>3
<1>2. TypeOK /\ OwnUnique(settings) /\ [Next]_vars =>
        [\A p \in Procs :
           pc[p] = "settings" /\ pc'[p] = "gate" => \A row \in settings : Won(p, row)]_vars
  BY <1>1
<1>3. Init => OwnUnique(settings)
  BY MainAssumption DEF Init, OwnUnique
<1>4. TypeOK /\ OwnUnique(settings) /\ [Next]_vars => OwnUnique(settings)'
  <2>1. ASSUME TypeOK, OwnUnique(settings), [Next]_vars PROVE OwnUnique(settings)'
    BY <2>1, OwnStaysUnique DEF OwnUnique
  <2>. QED
    BY <2>1
<1>. QED
  BY <1>2, <1>3, <1>4, TypeCorrect, PTL DEF Spec, OwnSettingWins

-----------------------------------------------------------------------------
(* The test backup *)

\* Neither property is inductive.  What they rest on: a test backup owns the
\* row that it names, and no other process does; it gets to its results with a
\* complete restic and a row that says so, and prints them as its last step.
Named == {"command", "restic", "record", "report"}
Reported(p) == \/ pc[p] = "report"
               \/ pc[p] = "exit_ok" /\ TestBackup[p] # None

TestOf(p) ==
  /\ pc[p] \in Named \cup {"lookup", "create"} => TestBackup[p] # None
  /\ pc[p] = "running" => TestBackup[p] = None
  /\ pc[p] \in Named => run_id[p] # None
  /\ pc[p] \notin Named \cup Exited => run_id[p] = None
  /\ Reported(p) => restic[p] = "complete" /\ run_id[p] # None
  /\ printed[p] # None => pc[p] = "exit_ok" /\ TestBackup[p] # None

RowOfTest(p) ==
  run_id[p] # None =>
    /\ run_id[p] < next_id
    /\ \A r \in runs : r.id = run_id[p] =>
         r.job = TestBackup[p] /\ (Reported(p) => r.status = "success")

OwnRows == \A p, q \in Procs : p # q /\ run_id[p] # None => run_id[q] # run_id[p]

TestInv ==
  /\ \A p \in Procs : TestOf(p)
  /\ \A p \in Procs : RowOfTest(p)
  /\ OwnRows
  /\ PrintedOwnOrLater

\* A process that moves on without touching a test backup.
LEMMA PcMove ==
  ASSUME TypeOK, TestInv, NEW p \in Procs, NEW l \in Labels, Goto(p, l), pc[p] \notin Exited,
         UNCHANGED <<runs, next_id, restic, run_id, printed>>,
         \/ l \in Exited \ {"exit_ok"}
         \/ l = "exit_ok" /\ TestBackup[p] = None
         \/ /\ pc[p] \notin Named /\ l \notin Named \cup Exited
            /\ l \in {"lookup", "create"} => TestBackup[p] # None
            /\ l = "running" => TestBackup[p] = None
  PROVE  TestInv'
<1>1. pc' = [pc EXCEPT ![p] = l] /\ pc \in [Procs -> Labels]
  BY DEF Goto, TypeOK
<1>2. pc'[p] = l /\ \A q \in Procs : q # p => pc'[q] = pc[q]
  BY <1>1
<1>3. ~Reported(p)'
  BY <1>2 DEF Reported, Named, Exited
<1>4. TestOf(p)'
  <2>1. printed[p] = None
    BY DEF TestInv, TestOf, Exited
  <2>2. TestOf(p)
    BY DEF TestInv
  <2>. QED
    BY <1>2, <1>3, <2>1, <2>2 DEF TestOf, Named, Exited
<1>5. ASSUME NEW q \in Procs, q # p PROVE TestOf(q)' /\ (Reported(q)' <=> Reported(q))
  BY <1>2, <1>5 DEF TestInv, TestOf, Reported
<1>6. \A q \in Procs : RowOfTest(q)'
  BY <1>3, <1>5 DEF TestInv, RowOfTest
<1>. QED
  BY <1>4, <1>5, <1>6 DEF TestInv, OwnRows, PrintedOwnOrLater

\* Rows that come, with a new id, and rows that go.
LEMMA RowsMove ==
  ASSUME TypeOK, TestInv, UNCHANGED <<pc, restic, run_id, printed>>,
         next_id' \in Nat, next_id' >= next_id,
         \A r \in runs' : r \in runs \/ r.id = next_id
  PROVE  TestInv'
<1>1. \A p \in Procs : TestOf(p)' /\ (Reported(p)' <=> Reported(p))
  BY DEF TestInv, TestOf, Reported
<1>2. ASSUME NEW p \in Procs, run_id[p] # None, NEW r \in runs', r.id = run_id[p] PROVE r \in runs
  <2>1. run_id[p] < next_id /\ next_id \in Nat /\ run_id[p] \in Nat
    BY <1>2 DEF TestInv, RowOfTest, TypeOK
  <2>. QED
    BY <1>2, <2>1
<1>3. \A p \in Procs : RowOfTest(p)'
  <2>1. \A p \in Procs : run_id[p] # None => run_id[p] \in Nat /\ run_id[p] < next_id /\ next_id \in Nat
    BY DEF TestInv, RowOfTest, TypeOK
  <2>. QED
    BY <1>1, <1>2, <2>1 DEF TestInv, RowOfTest
<1>4. PrintedOwnOrLater'
  <2>1. \A p \in Procs : printed[p] # None => run_id[p] # None
    BY DEF TestInv, TestOf, Reported
  <2>. QED
    BY <1>2, <2>1 DEF TestInv, PrintedOwnOrLater
<1>. QED
  BY <1>1, <1>3, <1>4 DEF TestInv, OwnRows

LEMMA StartupKeepsTests ==
  ASSUME TypeOK, TestInv, NEW p \in Procs, Startup(p)
  PROVE  TestInv'
<1>1. UNCHANGED <<runs, next_id, restic, run_id, printed>>
  BY DEF Startup, ReadLocal, Connect, Migrate, Apply, Register, LoadJobs, LoadSettings, Gate, Lookup,
         Shutdown, Kill, tables
<1>2. CASE Fails(p) /\ pc[p] \notin Exited
  BY <1>1, <1>2, PcMove DEF Fails, Labels, Exited
<1>3. CASE Kill(p)
  BY <1>1, <1>3, PcMove DEF Kill, Labels, Exited
<1>4. CASE Shutdown(p)
  <2>1. TestBackup[p] = None /\ Goto(p, "exit_ok") /\ pc[p] \notin Exited
    BY <1>4 DEF Shutdown, TestInv, TestOf, Exited
  <2>. QED
    BY <1>1, <2>1, PcMove DEF Labels, Exited
<1>5. CASE pc' = pc
  <2>1. next_id' \in Nat /\ next_id' >= next_id
    BY <1>1 DEF TypeOK
  <2>. QED
    BY <1>1, <1>5, <2>1, RowsMove
<1>6. CASE ReadLocal(p) /\ Goto(p, "panicked")
  BY <1>1, <1>6, PcMove DEF ReadLocal, Labels, Exited
<1>7. ASSUME NEW l \in {"connect", "migrate", "register", "jobs", "schedules", "settings", "gate"},
             Goto(p, l),
             pc[p] \in {"start", "connect", "migrate", "register", "jobs", "schedules", "settings"}
      PROVE  TestInv'
  BY <1>1, <1>7, PcMove DEF Labels, Exited, Named
<1>8. CASE /\ pc[p] = "gate"
           /\ \/ TestBackup[p] # None /\ Goto(p, "lookup")
              \/ TestBackup[p] = None /\ Goto(p, "running")
  BY <1>1, <1>8, PcMove DEF Labels, Exited, Named
<1>9. CASE pc[p] = "lookup" /\ Goto(p, "create")
  <2>1. TestBackup[p] # None
    BY <1>9 DEF TestInv, TestOf
  <2>. QED
    BY <1>1, <1>9, <2>1, PcMove DEF Labels, Exited, Named
<1>10. CASE ReadLocal(p) \/ Connect(p) \/ Migrate(p) \/ Register(p) \/ LoadJobs(p) \/ LoadSettings(p)
  <2>1. CASE ReadLocal(p)
    BY <1>2, <1>6, <1>7, <2>1 DEF ReadLocal, Exited
  <2>2. CASE Connect(p)
    BY <1>2, <1>7, <2>2 DEF Connect, Exited
  <2>3. CASE Migrate(p)
    BY <1>2, <1>5, <1>7, <2>3 DEF Migrate, Exited
  <2>4. CASE Register(p)
    BY <1>2, <1>7, <2>4 DEF Register, Exited
  <2>5. CASE LoadJobs(p)
    BY <1>2, <1>7, <2>5 DEF LoadJobs, Exited
  <2>6. CASE LoadSettings(p)
    BY <1>2, <1>7, <2>6 DEF LoadSettings, Exited
  <2>. QED
    BY <1>10, <2>1, <2>2, <2>3, <2>4, <2>5, <2>6
<1>11. CASE Gate(p) \/ Lookup(p)
  <2>1. CASE Gate(p)
    <3>1. CASE Fails(p)
      BY <1>2, <2>1, <3>1 DEF Gate, Exited
    <3>2. CASE \/ TestBackup[p] # None /\ Goto(p, "lookup")
               \/ TestBackup[p] = None /\ Goto(p, "running")
      BY <1>8, <2>1, <3>2 DEF Gate
    <3>3. \/ Fails(p)
          \/ TestBackup[p] # None /\ Goto(p, "lookup")
          \/ TestBackup[p] = None /\ Goto(p, "running")
      BY <2>1 DEF Gate
    <3>. QED
      BY <3>1, <3>2, <3>3
  <2>2. CASE Lookup(p)
    BY <1>2, <1>9, <2>2 DEF Lookup, Exited
  <2>. QED
    BY <1>11, <2>1, <2>2
<1>. QED
  BY <1>3, <1>4, <1>10, <1>11 DEF Startup

LEMMA OthersKeepTests ==
  ASSUME TypeOK, TestInv, Others
  PROVE  TestInv'
<1>1. UNCHANGED process
  BY DEF Others, OtherRun, WriteSetting, DeleteSetting, DeleteJob, DeleteDevice, Edit
<1>2. next_id \in Nat
  BY DEF TypeOK
<1>3. \/ next_id' = next_id /\ \A r \in runs' : r \in runs
      \/ next_id' = next_id + 1 /\ \A r \in runs' : r \in runs \/ r.id = next_id
  BY DEF Others, OtherRun, Insert, WriteSetting, DeleteSetting, DeleteJob, DeleteDevice
<1>4. next_id' \in Nat /\ next_id' >= next_id
  BY <1>2, <1>3
<1>. QED
  BY <1>1, <1>3, <1>4, RowsMove DEF process

LEMMA CreateRunKeepsTests ==
  ASSUME TypeOK, TestInv, NEW p \in Procs, CreateRun(p)
  PROVE  TestInv'
<1> DEFINE new == [id |-> next_id, job |-> TestBackup[p], by |-> p, status |-> "running"]
<1>1. pc[p] = "create" /\ UNCHANGED <<restic, printed>> /\ pc \in [Procs -> Labels]
  BY DEF CreateRun, TypeOK
<1>2. TestBackup[p] # None /\ run_id[p] = None /\ printed[p] = None
  BY <1>1 DEF TestInv, TestOf, Named, Exited
<1>3. next_id \in Nat /\ next_id # None /\ \A r \in runs : r.id # next_id
  BY MainAssumption DEF TypeOK, Run
<1>4. run_id \in [Procs -> Nat \cup {None}]
  BY DEF TypeOK
<1>5. CASE UNCHANGED <<runs, next_id, run_id>> /\ Fails(p)
  BY <1>1, <1>5, PcMove DEF Fails, Labels, Exited
<1>6. ASSUME Insert(TestBackup[p], p), run_id' = run_id \/ run_id' = [run_id EXCEPT ![p] = next_id],
             \/ Goto(p, "command") /\ run_id' = [run_id EXCEPT ![p] = next_id]
             \/ Fails(p) /\ run_id' = run_id
      PROVE  TestInv'
  <2>1. runs' = runs \cup {new} /\ next_id' = next_id + 1
    BY <1>6 DEF Insert
  <2>2. /\ \/ pc'[p] = "command" /\ run_id'[p] = next_id
           \/ pc'[p] = "exit_error" /\ run_id'[p] = None
        /\ \A q \in Procs : q # p => pc'[q] = pc[q] /\ run_id'[q] = run_id[q]
    <3>1. CASE pc' = [pc EXCEPT ![p] = "command"] /\ run_id' = [run_id EXCEPT ![p] = next_id]
      BY <1>1, <1>4, <3>1
    <3>2. CASE pc' = [pc EXCEPT ![p] = "exit_error"] /\ run_id' = run_id
      <4>1. pc'[p] = "exit_error" /\ \A q \in Procs : q # p => pc'[q] = pc[q]
        BY <1>1, <3>2
      <4>2. run_id'[p] = None /\ \A q \in Procs : run_id'[q] = run_id[q]
        BY <1>2, <3>2
      <4>. QED
        BY <4>1, <4>2
    <3>. QED
      BY <1>6, <3>1, <3>2 DEF Goto, Fails
  <2>3. ~Reported(p)'
    BY <2>2 DEF Reported
  <2>4. TestOf(p)'
    BY <1>1, <1>2, <1>3, <2>2, <2>3 DEF TestOf, Named, Exited
  <2>5. ASSUME NEW q \in Procs, q # p PROVE TestOf(q)' /\ (Reported(q)' <=> Reported(q))
    BY <1>1, <2>2, <2>5 DEF TestInv, TestOf, Reported
  <2>6. \A q \in Procs : run_id[q] # None => run_id[q] \in Nat /\ run_id[q] < next_id
    BY <1>4 DEF TestInv, RowOfTest
  <2>7. RowOfTest(p)'
    <3>1. CASE run_id'[p] = None
      BY <3>1 DEF RowOfTest
    <3>2. CASE run_id'[p] = next_id
      <4>1. \A r \in runs' : r.id = next_id => r = new
        BY <1>3, <2>1
      <4>. QED
        BY <1>3, <2>1, <2>3, <3>2, <4>1 DEF RowOfTest
    <3>. QED
      BY <2>2, <3>1, <3>2
  <2>8. ASSUME NEW q \in Procs, q # p PROVE RowOfTest(q)'
    <3>1. run_id[q] # None => run_id[q] < next_id + 1 /\ run_id[q] # next_id
      BY <1>3, <2>6
    <3>2. \A r \in runs' : r.id = run_id[q] /\ run_id[q] # None => r \in runs
      BY <2>1, <3>1
    <3>. QED
      BY <2>1, <2>2, <2>5, <2>8, <3>1, <3>2 DEF TestInv, RowOfTest
  <2>9. OwnRows'
    BY <1>3, <2>2, <2>6 DEF TestInv, OwnRows
  <2>10. PrintedOwnOrLater'
    <3>1. \A q \in Procs : printed[q] # None => q # p /\ run_id[q] # None
      BY <1>2 DEF TestInv, TestOf, Reported
    <3>2. \A q \in Procs : printed[q] # None => run_id[q] # next_id
      BY <1>3, <2>6, <3>1
    <3>. QED
      BY <1>1, <2>1, <2>2, <3>1, <3>2 DEF TestInv, PrintedOwnOrLater
  <2>. QED
    BY <2>4, <2>5, <2>7, <2>8, <2>9, <2>10 DEF TestInv
<1>. QED
  BY <1>5, <1>6 DEF CreateRun

LEMMA ResticKeepsTests ==
  ASSUME TypeOK, TestInv, NEW p \in Procs, StartRestic(p) \/ ResticExit(p) \/ OutputFails(p)
  PROVE  TestInv'
<1>1. /\ UNCHANGED <<runs, next_id, run_id, printed>>
      /\ pc \in [Procs -> Labels] /\ restic \in [Procs -> {"none", "running", "complete", "failed"}]
  BY DEF StartRestic, ResticExit, OutputFails, TypeOK, tables
<1>2. /\ \A q \in Procs : q # p => pc'[q] = pc[q] /\ restic'[q] = restic[q]
      /\ ~Reported(p) /\ ~Reported(p)'
      /\ TestOf(p)'
  <2>1. CASE StartRestic(p)
    <3>1. pc[p] = "command" /\ \E l \in {"exit_error", "record", "restic"} : pc' = [pc EXCEPT ![p] = l]
      BY <2>1 DEF StartRestic, Goto, Fails
    <3>2. \A q \in Procs : q # p => restic'[q] = restic[q]
      BY <1>1, <2>1 DEF StartRestic
    <3>3. TestBackup[p] # None /\ run_id[p] # None /\ printed[p] = None
      BY <3>1 DEF TestInv, TestOf, Named
    <3>4. ~Reported(p) /\ ~Reported(p)'
      BY <1>1, <3>1 DEF Reported
    <3>5. TestOf(p)'
      BY <1>1, <3>1, <3>3, <3>4 DEF TestOf, Named, Exited
    <3>. QED
      BY <1>1, <3>1, <3>2, <3>4, <3>5
  <2>2. CASE ResticExit(p)
    <3>1. restic[p] = "running" /\ pc' = pc
      BY <2>2 DEF ResticExit
    <3>2. \A q \in Procs : q # p => restic'[q] = restic[q]
      BY <1>1, <2>2 DEF ResticExit
    <3>3. ~Reported(p) /\ ~Reported(p)'
      BY <3>1 DEF TestInv, TestOf, Reported
    <3>4. TestOf(p)'
      BY <1>1, <3>1, <3>3 DEF TestInv, TestOf, Reported
    <3>. QED
      BY <3>1, <3>2, <3>3, <3>4
  <2>3. CASE OutputFails(p)
    <3>1. pc[p] = "restic" /\ pc' = [pc EXCEPT ![p] = "record"] /\ restic' = restic
      BY <2>3 DEF OutputFails, Goto
    <3>2. TestBackup[p] # None /\ run_id[p] # None /\ printed[p] = None
      BY <3>1 DEF TestInv, TestOf, Named
    <3>3. ~Reported(p) /\ ~Reported(p)'
      BY <1>1, <3>1 DEF Reported
    <3>4. TestOf(p)'
      BY <1>1, <3>1, <3>2, <3>3 DEF TestOf, Named, Exited
    <3>. QED
      BY <1>1, <3>1, <3>3, <3>4
  <2>. QED
    BY <2>1, <2>2, <2>3
<1>3. ASSUME NEW q \in Procs, q # p PROVE TestOf(q)' /\ (Reported(q)' <=> Reported(q))
  BY <1>1, <1>2, <1>3 DEF TestInv, TestOf, Reported
<1>4. \A q \in Procs : RowOfTest(q)'
  BY <1>1, <1>2, <1>3 DEF TestInv, RowOfTest
<1>. QED
  BY <1>1, <1>2, <1>3, <1>4 DEF TestInv, OwnRows, PrintedOwnOrLater

\* A row is updated: no other row, and of the row only its status.
LEMMA UpdateKeepsRows ==
  ASSUME TypeOK, NEW id, NEW status, Update(id, status), NEW r \in runs'
  PROVE  /\ \E s \in runs : s.id = r.id /\ s.job = r.job /\ (r.id # id => s = r)
         /\ r.id = id => r.status = status
<1>1. PICK s \in runs : r = IF s.id = id THEN [s EXCEPT !.status = status] ELSE s
  BY DEF Update
<1>2. s \in Run
  BY DEF TypeOK
<1>3. CASE s.id = id
  BY <1>1, <1>2, <1>3 DEF Run
<1>4. CASE s.id # id
  BY <1>1, <1>4
<1>. QED
  BY <1>3, <1>4

LEMMA RecordKeepsTests ==
  ASSUME TypeOK, TestInv, NEW p \in Procs, Record(p)
  PROVE  TestInv'
<1>1. /\ pc[p] \in {"restic", "record"} /\ pc \in [Procs -> Labels]
      /\ UNCHANGED <<next_id, restic, run_id, printed>>
  BY DEF Record, TypeOK
<1>2. TestBackup[p] # None /\ run_id[p] # None /\ printed[p] = None
  BY <1>1 DEF TestInv, TestOf, Named
<1>3. CASE UNCHANGED runs /\ Fails(p)
  BY <1>1, <1>3, PcMove DEF Fails, Labels, Exited
<1>4. ASSUME NEW status, NEW l \in {"report", "exit_error"}, Update(run_id[p], status),
             pc' = [pc EXCEPT ![p] = l],
             l = "report" => status = "success" /\ restic[p] = "complete"
      PROVE  TestInv'
  <2>1. pc'[p] = l /\ \A q \in Procs : q # p => pc'[q] = pc[q]
    BY <1>1, <1>4
  <2>2. TestOf(p)' /\ (Reported(p)' => status = "success")
    BY <1>1, <1>2, <1>4, <2>1 DEF TestOf, Reported, Named, Exited
  <2>3. ASSUME NEW q \in Procs, q # p PROVE TestOf(q)' /\ (Reported(q)' <=> Reported(q))
    BY <1>1, <2>1, <2>3 DEF TestInv, TestOf, Reported
  <2>4. RowOfTest(p)'
    <3>1. ASSUME NEW r \in runs', r.id = run_id[p]
          PROVE  r.job = TestBackup[p] /\ r.status = status
      BY <1>2, <1>4, <3>1, UpdateKeepsRows DEF TestInv, RowOfTest
    <3>. QED
      BY <1>1, <1>2, <2>2, <3>1 DEF TestInv, RowOfTest
  <2>5. ASSUME NEW q \in Procs, q # p, run_id[q] # None PROVE RowOfTest(q)'
    <3>1. run_id[q] # run_id[p]
      BY <2>5 DEF TestInv, OwnRows
    <3>2. ASSUME NEW r \in runs', r.id = run_id[q] PROVE r \in runs
      BY <1>4, <3>1, <3>2, UpdateKeepsRows
    <3>. QED
      BY <1>1, <2>3, <2>5, <3>2 DEF TestInv, RowOfTest
  <2>6. \A q \in Procs : RowOfTest(q)'
    BY <1>1, <2>4, <2>5 DEF RowOfTest
  <2>7. PrintedOwnOrLater'
    <3>1. \A r \in runs' : \E s \in runs : s.id = r.id
      BY <1>4, UpdateKeepsRows
    <3>. QED
      BY <1>1, <3>1 DEF TestInv, PrintedOwnOrLater
  <2>. QED
    BY <1>1, <2>2, <2>3, <2>6, <2>7 DEF TestInv, OwnRows
<1>5. \/ UNCHANGED runs /\ Fails(p)
      \/ \E status \in {"success", "failed"}, l \in {"report", "exit_error"} :
           /\ Update(run_id[p], status) /\ pc' = [pc EXCEPT ![p] = l]
           /\ l = "report" => status = "success" /\ restic[p] = "complete"
  BY DEF Record, Fails, Goto
<1>. QED
  BY <1>3, <1>4, <1>5

LEMMA ReportKeepsTests ==
  ASSUME TypeOK, TestInv, NEW p \in Procs, Report(p)
  PROVE  TestInv'
<1> DEFINE rows == RunsOf(DeviceOf[TestBackup[p]])
<1>1. pc[p] = "report" /\ UNCHANGED <<runs, next_id, restic, run_id>>
  BY DEF Report, tables
<1>2. /\ pc \in [Procs -> Labels] /\ run_id \in [Procs -> Nat \cup {None}]
      /\ printed \in [Procs -> Nat \cup {None}]
  BY DEF TypeOK
<1>3. CASE Fails(p) /\ UNCHANGED printed
  BY <1>1, <1>3, PcMove DEF Fails, Labels, Exited
<1>4. ASSUME NEW r \in rows, \A s \in rows : NewestFirst(r, s),
             printed' = [printed EXCEPT ![p] = r.id], pc' = [pc EXCEPT ![p] = "exit_ok"]
      PROVE  TestInv'
  <2>1. /\ pc'[p] = "exit_ok" /\ printed'[p] = r.id
        /\ \A q \in Procs : q # p => pc'[q] = pc[q] /\ printed'[q] = printed[q]
    BY <1>2, <1>4
  <2>2. /\ TestBackup[p] # None /\ run_id[p] # None /\ restic[p] = "complete"
        /\ Reported(p) /\ Reported(p)'
    BY <1>1, <2>1 DEF TestInv, TestOf, Reported, Named
  <2>3. TestOf(p)'
    BY <1>1, <2>1, <2>2 DEF TestOf, Named, Exited
  <2>4. ASSUME NEW q \in Procs, q # p PROVE TestOf(q)' /\ (Reported(q)' <=> Reported(q))
    BY <1>1, <2>1, <2>4 DEF TestInv, TestOf, Reported
  <2>5. \A q \in Procs : RowOfTest(q)'
    BY <1>1, <2>2, <2>4 DEF TestInv, RowOfTest
  <2>6. ASSUME NEW s \in runs, s.id = run_id[p] PROVE r.id >= run_id[p]
    <3>1. s \in rows
      BY <2>2, <2>6 DEF TestInv, RowOfTest, RunsOf
    <3>. QED
      BY <1>4, <2>6, <3>1 DEF NewestFirst
  <2>7. PrintedOwnOrLater'
    BY <1>1, <2>1, <2>6 DEF TestInv, PrintedOwnOrLater
  <2>. QED
    BY <1>1, <2>3, <2>4, <2>5, <2>7 DEF TestInv, OwnRows
<1>. QED
  BY <1>1, <1>3, <1>4 DEF Report, Goto

LEMMA TestInvStep ==
  ASSUME TypeOK, TestInv, [Next]_vars
  PROVE  TestInv'
<1>1. CASE UNCHANGED vars
  <2>1. UNCHANGED <<pc, restic, run_id, printed, runs, next_id>>
    BY <1>1 DEF vars, process, tables
  <2>2. next_id' \in Nat /\ next_id' >= next_id
    BY <2>1 DEF TypeOK
  <2>. QED
    BY <2>1, <2>2, RowsMove
<1>. QED
  BY <1>1, NextCases, StartupKeepsTests, OthersKeepTests, CreateRunKeepsTests, ResticKeepsTests,
     RecordKeepsTests, ReportKeepsTests

LEMMA TestsCorrect == Spec => []TestInv
<1>1. Init => TestInv
  BY DEF Init, TestInv, TestOf, RowOfTest, OwnRows, PrintedOwnOrLater, Reported, Named, Exited
<1>2. TypeOK /\ TestInv /\ [Next]_vars => TestInv'
  BY TestInvStep
<1>. QED
  BY <1>1, <1>2, TypeCorrect, PTL DEF Spec

\* Exit code 0 of a test backup stands for a complete backup and for a row of
\* its own that says so.
THEOREM ExitCodeIsTrue == Spec => []ExitZeroMeansBackup
<1>1. TypeOK /\ TestInv => ExitZeroMeansBackup
  BY DEF TestInv, TestOf, RowOfTest, Reported, ExitZeroMeansBackup
<1>. QED
  BY <1>1, TypeCorrect, TestsCorrect, PTL

\* What a test backup prints is its own run, or one that was started later on
\* the device, unless its own row was deleted.
THEOREM PrintsOwnOrLater == Spec => []PrintedOwnOrLater
<1>1. TestInv => PrintedOwnOrLater
  BY DEF TestInv
<1>. QED
  BY <1>1, TestsCorrect, PTL

-----------------------------------------------------------------------------
(* What restic is told *)

\* Restic is only ever the child of a test backup.
ResticOfTest == \A p \in Procs : restic[p] # "none" => TestBackup[p] # None

LEMMA ResticOfTestStep ==
  ASSUME TypeOK, TestInv, ResticOfTest, [Next]_vars
  PROVE  ResticOfTest'
<1>1. restic \in [Procs -> {"none", "running", "complete", "failed"}]
  BY DEF TypeOK
<1>2. CASE restic' = restic
  BY <1>2 DEF ResticOfTest
<1>3. ASSUME NEW p \in Procs, StartRestic(p) PROVE ResticOfTest'
  <2>1. TestBackup[p] # None
    BY <1>3 DEF StartRestic, TestInv, TestOf, Named
  <2>2. restic' = restic \/ \E x : restic' = [restic EXCEPT ![p] = x]
    BY <1>3 DEF StartRestic
  <2>3. \A q \in Procs : q # p => restic'[q] = restic[q]
    BY <1>1, <2>2
  <2>. QED
    BY <2>1, <2>3 DEF ResticOfTest
<1>4. ASSUME NEW p \in Procs, ResticExit(p) PROVE ResticOfTest'
  <2>1. TestBackup[p] # None
    BY <1>4 DEF ResticExit, ResticOfTest
  <2>2. \A q \in Procs : q # p => restic'[q] = restic[q]
    BY <1>1, <1>4 DEF ResticExit
  <2>. QED
    BY <2>1, <2>2 DEF ResticOfTest
<1>5. ASSUME NEW p \in Procs, Startup(p) \/ CreateRun(p) \/ Record(p) \/ Report(p) \/ OutputFails(p)
      PROVE  restic' = restic
  BY <1>5 DEF Startup, ReadLocal, Connect, Migrate, Register, LoadJobs, LoadSettings, Gate, Lookup,
              Shutdown, Kill, CreateRun, Record, Report, OutputFails
<1>6. Others \/ UNCHANGED vars => restic' = restic
  BY DEF Others, OtherRun, WriteSetting, DeleteSetting, DeleteJob, DeleteDevice, Edit, process, vars
<1>. QED
  BY <1>2, <1>3, <1>4, <1>5, <1>6, NextCases

LEMMA ResticIsOfTest == Spec => []ResticOfTest
<1>1. Init => ResticOfTest
  BY DEF Init, ResticOfTest
<1>2. TypeOK /\ TestInv /\ ResticOfTest /\ [Next]_vars => ResticOfTest'
  BY ResticOfTestStep
<1>. QED
  BY <1>1, <1>2, TypeCorrect, TestsCorrect, PTL DEF Spec

\* Restic reads from the command what the row of the job says, for every row
\* whose paths, patterns and tags are not spelled like an option of restic, and
\* with any additional arguments: however long its lists are, whatever is NULL
\* in it, and whatever it held when the process read it.
THEOREM CommandsMatchRows ==
  ASSUME \A j \in Jobs : \A row \in Rows[j] : PlainRow(row)
  PROVE  Spec => []CommandMatchesRow
<1>1. TypeOK /\ ResticOfTest => CommandMatchesRow
  <2> SUFFICES ASSUME TypeOK, ResticOfTest, NEW p \in Procs, restic[p] = "running"
               PROVE  /\ \A job \in Rows[TestBackup[p]] : ReadAsMeant(job)
                      /\ BuildEnv(config[p]).RESTIC_CACHE_DIR # ""
    BY DEF CommandMatchesRow
  <2>1. TestBackup[p] \in Jobs
    BY MainAssumption DEF ResticOfTest
  <2>2. \A job \in Rows[TestBackup[p]] : ReadAsMeant(job)
    BY <2>1, CommandIsRead
  <2>3. None # ""
    <3>1. [device |-> None, key |-> "repository_url", value |-> ""] \in Defaults
      BY DEF Defaults
    <3>2. "" \in Values
      <4>1. \E r \in Defaults : r.value = ""
        BY <3>1
      <4>. QED
        BY <4>1 DEF Values
    <3>. QED
      BY <3>2, MainAssumption
  <2>4. BuildEnv(config[p]).RESTIC_CACHE_DIR # ""
    BY <2>3 DEF BuildEnv
  <2>. QED
    BY <2>2, <2>4
<1>. QED
  BY <1>1, TypeCorrect, ResticIsOfTest, PTL
=============================================================================
