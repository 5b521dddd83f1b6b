--------------------------- MODULE ExecutorProofs ---------------------------
(***************************************************************************)
(* Safety of Executor for every number of executions, jobs and devices,    *)
(* every limit, and any number of database errors and restarts.            *)
(***************************************************************************)
EXTENDS Executor, FiniteSetTheorems, SequenceTheorems, TLAPS

\* Each kind of step, so that the case analysis is written once.
LEMMA NextCases ==
  ASSUME Next
  PROVE  \/ EnqueueRequest
         \/ \E e \in Execs : \/ Recv(e) \/ Lookup(e) \/ CheckLimit(e) \/ MarkRunning(e)
                             \/ CreateRun(e) \/ StartRestic(e) \/ ResticExit(e)
                             \/ CollectOutput(e) \/ RecordFailure(e) \/ RecordSuccess(e)
                             \/ MarkCompleted(e) \/ OutputFails(e)
         \/ \E j \in Jobs : DeleteJob(j)
         \/ ProcessExit
         \/ UNCHANGED vars
BY DEF Next, Task, Idle

-----------------------------------------------------------------------------
LEMMA InitTypeOK == Init => TypeOK
<1> SUFFICES ASSUME Init PROVE TypeOK
  OBVIOUS
<1>1. queue \in Seq(JobExecution)
  BY DEF Init
<1>. QED
  BY <1>1, ConstantsAssumption DEF Init, TypeOK, Live, Marked, Final, RunStatus, ResticStatus, Results

\* A task that is under way and stays known.
LEMMA MoveTyped ==
  ASSUME TypeOK, NEW e \in Execs, pc[e] # "free", NEW l \in Live \cup Final,
         pc' = [pc EXCEPT ![e] = l], request' = request
  PROVE  /\ pc' \in [Execs -> {"free"} \cup Live \cup Final]
         /\ \A x \in Execs : pc'[x] = "free" <=> request'[x] = None
BY DEF TypeOK, Live, Marked, Final

\* The conjuncts of TypeOK, step by step: the control state first.
LEMMA StepTypeOK == TypeOK /\ [Next]_vars => TypeOK'
<1> SUFFICES ASSUME TypeOK, [Next]_vars PROVE TypeOK'
  OBVIOUS
<1> USE ConstantsAssumption
<1> USE DEF TypeOK, Live, Marked, Final, RunStatus, ResticStatus, Results
<1>1. CASE EnqueueRequest
  <2>1. PICK r \in JobExecution : queue' = Append(queue, r)
    BY <1>1 DEF EnqueueRequest
  <2>2. queue' \in Seq(JobExecution)
    BY <2>1
  <2>. QED
    BY <1>1, <2>2 DEF EnqueueRequest, tables, external, bounds
<1>2. ASSUME NEW e \in Execs, Recv(e) PROVE TypeOK'
  <2>1. Head(queue) \in JobExecution /\ Tail(queue) \in Seq(JobExecution)
    BY <1>2 DEF Recv
  <2>2. Head(queue) # None
    BY <2>1
  <2>. QED
    BY <1>2, <2>1, <2>2 DEF Recv, Goto, tables, external, bounds
<1>3. ASSUME NEW e \in Execs, Lookup(e) PROVE TypeOK'
  <2>1. PICK l \in {"check", "ended"} : pc' = [pc EXCEPT ![e] = l]
    BY <1>3 DEF Lookup, Goto
  <2>2. result' \in [Execs -> Results]
    BY <1>3 DEF Lookup, Return
  <2>3. dbErrors' \in Nat /\ restarts' \in Nat
    BY <1>3 DEF Lookup, DbError, bounds
  <2>4. pc[e] = "lookup" /\ UNCHANGED <<queue, request, running_jobs, tables, external>>
    BY <1>3 DEF Lookup
  <2>5. /\ pc' \in [Execs -> {"free"} \cup Live \cup Final]
        /\ \A x \in Execs : pc'[x] = "free" <=> request'[x] = None
    BY <2>1, <2>4, MoveTyped
  <2>. QED
    BY <2>2, <2>3, <2>4, <2>5 DEF tables, external
<1>4. ASSUME NEW e \in Execs, CheckLimit(e) PROVE TypeOK'
  BY <1>4 DEF CheckLimit, Goto, Return, tables, external, bounds
<1>5. ASSUME NEW e \in Execs, MarkRunning(e) PROVE TypeOK'
  <2>1. Job(e) \in Jobs /\ Device(e) \in Devices
    BY <1>5 DEF MarkRunning, Job, Device, JobExecution
  <2>. QED
    BY <1>5, <2>1 DEF MarkRunning, Goto, tables, external, bounds
<1>6. ASSUME NEW e \in Execs, CreateRun(e) PROVE TypeOK'
  <2>1. PICK l \in {"start", "unmark"} : pc' = [pc EXCEPT ![e] = l]
    BY <1>6 DEF CreateRun, Goto
  <2>2. result' \in [Execs -> Results]
    BY <1>6 DEF CreateRun, Return
  <2>3. /\ status' \in [Execs -> RunStatus]
        /\ triggered_by' \in [Execs -> {"schedule", "manual", None}]
        /\ jobs' \subseteq Jobs
    BY <1>6 DEF CreateRun, InsertRun, tables
  <2>4. dbErrors' \in Nat /\ restarts' \in Nat
    BY <1>6 DEF CreateRun, DbError, bounds
  <2>5. pc[e] = "create" /\ UNCHANGED <<queue, request, running_jobs, restic, repository>>
    BY <1>6 DEF CreateRun, external
  <2>6. /\ pc' \in [Execs -> {"free"} \cup Live \cup Final]
        /\ \A x \in Execs : pc'[x] = "free" <=> request'[x] = None
    BY <2>1, <2>5, MoveTyped
  <2>. QED
    BY <2>2, <2>3, <2>4, <2>5, <2>6
<1>7. ASSUME NEW e \in Execs, StartRestic(e) PROVE TypeOK'
  BY <1>7 DEF StartRestic, Goto, Return, tables, external, bounds
<1>8. ASSUME NEW e \in Execs, ResticExit(e) PROVE TypeOK'
  <2>1. restic' \in [Execs -> ResticStatus]
    BY <1>8 DEF ResticExit
  <2>2. repository' \subseteq Execs
    BY <1>8 DEF ResticExit
  <2>3. UNCHANGED <<queue, pc, request, result, running_jobs, tables, bounds>>
    BY <1>8 DEF ResticExit
  <2>. QED
    BY <2>1, <2>2, <2>3 DEF tables, bounds
<1>9. ASSUME NEW e \in Execs, CollectOutput(e) PROVE TypeOK'
  <2>1. PICK l \in {"record_failed", "record_success"} : pc' = [pc EXCEPT ![e] = l]
    BY <1>9 DEF CollectOutput, Goto
  <2>2. result' \in [Execs -> Results]
    BY <1>9 DEF CollectOutput, Return
  <2>3. pc[e] = "wait" /\ UNCHANGED <<queue, request, running_jobs, tables, external, bounds>>
    BY <1>9 DEF CollectOutput
  <2>4. /\ pc' \in [Execs -> {"free"} \cup Live \cup Final]
        /\ \A x \in Execs : pc'[x] = "free" <=> request'[x] = None
    BY <2>1, <2>3, MoveTyped
  <2>. QED
    BY <2>2, <2>3, <2>4 DEF tables, external, bounds
<1>10. ASSUME NEW e \in Execs, RecordFailure(e) PROVE TypeOK'
  <2>1. PICK l \in {"unmark"} : pc' = [pc EXCEPT ![e] = l]
    BY <1>10 DEF RecordFailure, Goto
  <2>2. result' \in [Execs -> Results]
    BY <1>10 DEF RecordFailure, Return
  <2>3. status' \in [Execs -> RunStatus] /\ UNCHANGED <<jobs, triggered_by>>
    BY <1>10 DEF RecordFailure, UpdateRun, tables
  <2>4. dbErrors' \in Nat /\ restarts' \in Nat
    BY <1>10 DEF RecordFailure, DbError, bounds
  <2>5. pc[e] = "record_failed" /\ UNCHANGED <<queue, request, running_jobs, restic, repository>>
    BY <1>10 DEF RecordFailure, external
  <2>6. /\ pc' \in [Execs -> {"free"} \cup Live \cup Final]
        /\ \A x \in Execs : pc'[x] = "free" <=> request'[x] = None
    BY <2>1, <2>5, MoveTyped
  <2>. QED
    BY <2>2, <2>3, <2>4, <2>5, <2>6
<1>11. ASSUME NEW e \in Execs, RecordSuccess(e) PROVE TypeOK'
  <2>1. PICK l \in {"unmark"} : pc' = [pc EXCEPT ![e] = l]
    BY <1>11 DEF RecordSuccess, Goto
  <2>2. result' \in [Execs -> Results]
    BY <1>11 DEF RecordSuccess, Return
  <2>3. status' \in [Execs -> RunStatus] /\ UNCHANGED <<jobs, triggered_by>>
    BY <1>11 DEF RecordSuccess, UpdateRun, tables
  <2>4. dbErrors' \in Nat /\ restarts' \in Nat
    BY <1>11 DEF RecordSuccess, DbError, bounds
  <2>5. pc[e] = "record_success" /\ UNCHANGED <<queue, request, running_jobs, restic, repository>>
    BY <1>11 DEF RecordSuccess, external
  <2>6. /\ pc' \in [Execs -> {"free"} \cup Live \cup Final]
        /\ \A x \in Execs : pc'[x] = "free" <=> request'[x] = None
    BY <2>1, <2>5, MoveTyped
  <2>. QED
    BY <2>2, <2>3, <2>4, <2>5, <2>6
<1>12. ASSUME NEW e \in Execs, MarkCompleted(e) PROVE TypeOK'
  <2>1. Device(e) \in Devices
    BY <1>12 DEF MarkCompleted, Job, Device, JobExecution
  <2>. QED
    BY <1>12, <2>1 DEF MarkCompleted, Goto, tables, external, bounds
<1>13. ASSUME NEW j \in Jobs, DeleteJob(j) PROVE TypeOK'
  BY <1>13 DEF DeleteJob, external, bounds
<1>14. CASE ProcessExit
  <2>1. queue' \in Seq(JobExecution)
    BY <1>14 DEF ProcessExit
  <2>. QED
    BY <1>14, <2>1 DEF ProcessExit, tables, external
<1>15. CASE UNCHANGED vars
  BY <1>15 DEF vars, tables, external, bounds
<1>16. ASSUME NEW e \in Execs, OutputFails(e) PROVE TypeOK'
  BY <1>16 DEF OutputFails, Goto, Return, tables, external, bounds
<1>. QED
  BY <1>1, <1>2, <1>3, <1>4, <1>5, <1>6, <1>7, <1>8, <1>9, <1>10, <1>11,
     <1>12, <1>13, <1>14, <1>15, <1>16, NextCases

\* Every variable keeps its type (type correctness of the executor model).
THEOREM TypeCorrect == Spec => []TypeOK
  BY InitTypeOK, StepTypeOK, PTL DEF Spec

-----------------------------------------------------------------------------
(* running_jobs and the tasks *)

\* A step that keeps the map, and lets no marked task leave its section.
LEMMA EntryKept ==
  ASSUME EntryNamesActiveJob,
         UNCHANGED running_jobs,
         \A f \in Execs : pc[f] \in Marked => pc'[f] \in Marked /\ request'[f] = request[f]
  PROVE  EntryNamesActiveJob'
BY DEF EntryNamesActiveJob, Device, Job

LEMMA StepEntryNamesActiveJob ==
  TypeOK /\ EntryNamesActiveJob /\ [Next]_vars => EntryNamesActiveJob'
<1> SUFFICES ASSUME TypeOK, EntryNamesActiveJob, [Next]_vars PROVE EntryNamesActiveJob'
  OBVIOUS
<1>1. CASE EnqueueRequest
  BY <1>1, EntryKept DEF EnqueueRequest
<1>2. ASSUME NEW e \in Execs, Recv(e) PROVE EntryNamesActiveJob'
  BY <1>2, EntryKept DEF Recv, Goto, TypeOK, Marked
<1>3. ASSUME NEW e \in Execs, Lookup(e) PROVE EntryNamesActiveJob'
  BY <1>3, EntryKept DEF Lookup, Goto, TypeOK, Marked
<1>4. ASSUME NEW e \in Execs, CheckLimit(e) PROVE EntryNamesActiveJob'
  BY <1>4, EntryKept DEF CheckLimit, Goto, TypeOK, Marked
<1>5. ASSUME NEW e \in Execs, MarkRunning(e) PROVE EntryNamesActiveJob'
  <2>1. pc'[e] \in Marked /\ request' = request
    BY <1>5 DEF MarkRunning, Goto, TypeOK, Marked
  <2>2. \A f \in Execs : pc[f] \in Marked => pc'[f] \in Marked
    BY <1>5 DEF MarkRunning, Goto, TypeOK, Marked
  <2>3. running_jobs' = [running_jobs EXCEPT ![Device(e)] = Job(e)]
    BY <1>5 DEF MarkRunning
  <2> SUFFICES ASSUME NEW d \in Devices, running_jobs'[d] # None
               PROVE  \E f \in Execs : pc'[f] \in Marked /\ Device(f)' = d
                                       /\ Job(f)' = running_jobs'[d]
    BY DEF EntryNamesActiveJob
  <2>4. CASE d = Device(e)
    BY <2>1, <2>3, <2>4 DEF Device, Job, TypeOK
  <2>5. CASE d # Device(e)
    BY <2>1, <2>2, <2>3, <2>5 DEF EntryNamesActiveJob, Device, Job, TypeOK
  <2>. QED
    BY <2>4, <2>5
<1>6. ASSUME NEW e \in Execs, CreateRun(e) PROVE EntryNamesActiveJob'
  BY <1>6, EntryKept DEF CreateRun, Goto, TypeOK, Marked
<1>7. ASSUME NEW e \in Execs, StartRestic(e) PROVE EntryNamesActiveJob'
  BY <1>7, EntryKept DEF StartRestic, Goto, TypeOK, Marked
<1>8. ASSUME NEW e \in Execs, ResticExit(e) PROVE EntryNamesActiveJob'
  BY <1>8, EntryKept DEF ResticExit
<1>9. ASSUME NEW e \in Execs, CollectOutput(e) PROVE EntryNamesActiveJob'
  BY <1>9, EntryKept DEF CollectOutput, Goto, TypeOK, Marked
<1>10. ASSUME NEW e \in Execs, RecordFailure(e) PROVE EntryNamesActiveJob'
  BY <1>10, EntryKept DEF RecordFailure, Goto, TypeOK, Marked
<1>11. ASSUME NEW e \in Execs, RecordSuccess(e) PROVE EntryNamesActiveJob'
  BY <1>11, EntryKept DEF RecordSuccess, Goto, TypeOK, Marked
<1>12. ASSUME NEW e \in Execs, MarkCompleted(e) PROVE EntryNamesActiveJob'
  <2>1. request' = request /\ running_jobs' = [running_jobs EXCEPT ![Device(e)] = None]
    BY <1>12 DEF MarkCompleted
  <2>2. \A f \in Execs \ {e} : pc'[f] = pc[f]
    BY <1>12 DEF MarkCompleted, Goto, TypeOK
  <2> SUFFICES ASSUME NEW d \in Devices, running_jobs'[d] # None
               PROVE  \E f \in Execs : pc'[f] \in Marked /\ Device(f)' = d
                                       /\ Job(f)' = running_jobs'[d]
    BY DEF EntryNamesActiveJob
  <2>3. d # Device(e) /\ running_jobs'[d] = running_jobs[d]
    BY <2>1 DEF TypeOK
  <2>4. PICK f \in Execs : pc[f] \in Marked /\ Device(f) = d /\ Job(f) = running_jobs[d]
    BY <2>3 DEF EntryNamesActiveJob
  <2>. QED
    BY <2>1, <2>2, <2>3, <2>4 DEF Device, Job
<1>13. ASSUME NEW j \in Jobs, DeleteJob(j) PROVE EntryNamesActiveJob'
  BY <1>13, EntryKept DEF DeleteJob
<1>14. CASE ProcessExit
  BY <1>14 DEF ProcessExit, EntryNamesActiveJob
<1>15. CASE UNCHANGED vars
  BY <1>15, EntryKept DEF vars
<1>16. ASSUME NEW e \in Execs, OutputFails(e) PROVE EntryNamesActiveJob'
  BY <1>16, EntryKept DEF OutputFails, Goto, TypeOK, Marked
<1>. QED
  BY <1>1, <1>2, <1>3, <1>4, <1>5, <1>6, <1>7, <1>8, <1>9, <1>10, <1>11,
     <1>12, <1>13, <1>14, <1>15, <1>16, NextCases

\* No device is marked busy by a task that is gone, whatever tasks interleave
\* at can_execute, mark_running and mark_completed, and wherever they fail.
THEOREM EntriesAreBacked == Spec => []EntryNamesActiveJob
<1>1. Init => EntryNamesActiveJob
  BY DEF Init, EntryNamesActiveJob
<1>. QED
  BY <1>1, StepEntryNamesActiveJob, TypeCorrect, PTL DEF Spec

-----------------------------------------------------------------------------
(* can_execute *)

\* The map holds at most one entry under a key, and can_execute counts it.
LEMMA CountOfDevice ==
  ASSUME NEW d \in Devices
  PROVE  Cardinality(RunningOn(d)) = IF running_jobs[d] = None THEN 0 ELSE 1
<1>1. CASE running_jobs[d] = None
  <2>1. RunningOn(d) = {}
    BY <1>1 DEF RunningOn
  <2>. QED
    BY <1>1, <2>1, FS_EmptySet
<1>2. CASE running_jobs[d] # None
  <2>1. RunningOn(d) = {d}
    BY <1>2 DEF RunningOn
  <2>. QED
    BY <1>2, <2>1, FS_Singleton
<1>. QED
  BY <1>1, <1>2

\* The only step that skips a request is CheckLimit at the limit.
LEMMA SkipStep ==
  ASSUME TypeOK, [Next]_vars, NEW e \in Execs, pc[e] # "skipped", pc'[e] = "skipped"
  PROVE  pc[e] = "check" /\ ~CanExecute(Device(e)) /\ Device(e) \in Devices
<1> USE ConstantsAssumption DEF TypeOK
<1>1. ~EnqueueRequest
  BY DEF EnqueueRequest
<1>2. ASSUME NEW f \in Execs,
             Recv(f) \/ Lookup(f) \/ MarkRunning(f) \/ CreateRun(f) \/ StartRestic(f)
               \/ ResticExit(f) \/ CollectOutput(f) \/ RecordFailure(f)
               \/ RecordSuccess(f) \/ MarkCompleted(f) \/ OutputFails(f)
      PROVE  FALSE
  BY <1>2 DEF Recv, Lookup, MarkRunning, CreateRun, StartRestic, ResticExit, CollectOutput,
              OutputFails, RecordFailure, RecordSuccess, MarkCompleted, Goto
<1>3. ASSUME NEW f \in Execs, CheckLimit(f)
      PROVE  f = e /\ pc[e] = "check" /\ ~CanExecute(Device(e))
  BY <1>3 DEF CheckLimit, Goto
<1>4. \A j \in Jobs : ~DeleteJob(j)
  BY DEF DeleteJob
<1>5. ~ProcessExit
  BY DEF ProcessExit
<1>6. ~UNCHANGED vars
  BY DEF vars
<1>7. pc[e] = "check" /\ ~CanExecute(Device(e))
  BY <1>1, <1>2, <1>3, <1>4, <1>5, <1>6, NextCases
<1>8. Device(e) \in Devices
  BY <1>7 DEF Device, Job, JobExecution
<1>. QED
  BY <1>7, <1>8

\* A request is only turned away while another backup of its device is under
\* way (for a limit that is not zero).
THEOREM SkipsAreJustified == Spec => SkipJustified
<1>1. ASSUME TypeOK, EntryNamesActiveJob, [Next]_vars,
             NEW e \in Execs, MaxConcurrent > 0, pc[e] = "check", pc'[e] = "skipped"
      PROVE  \E f \in Execs \ {e} : pc[f] \in Marked /\ Device(f) = Device(e)
  <2>1. ~CanExecute(Device(e)) /\ Device(e) \in Devices
    BY <1>1, SkipStep
  <2>2. running_jobs[Device(e)] # None
    BY <1>1, <2>1, CountOfDevice, ConstantsAssumption DEF CanExecute
  <2>3. PICK f \in Execs : pc[f] \in Marked /\ Device(f) = Device(e)
    BY <1>1, <2>1, <2>2 DEF EntryNamesActiveJob
  <2>4. f # e
    BY <1>1, <2>3 DEF Marked
  <2>. QED
    BY <2>3, <2>4
<1>2. TypeOK /\ EntryNamesActiveJob /\ [Next]_vars =>
        [\A e \in Execs :
           MaxConcurrent > 0 /\ pc[e] = "check" /\ pc'[e] = "skipped" =>
             \E f \in Execs \ {e} : pc[f] \in Marked /\ Device(f) = Device(e)]_vars
  BY <1>1
<1>. QED
  BY <1>2, TypeCorrect, EntriesAreBacked, PTL DEF Spec, SkipJustified

\* A limit above one never takes effect: the map is keyed by device, so that
\* can_execute never counts more than one backup of a device.
THEOREM LimitAboveOneNeverBinds ==
  ASSUME MaxConcurrent > 1
  PROVE  Spec => []NoRequestDropped
<1>1. Init => NoRequestDropped
  BY DEF Init, NoRequestDropped
<1>2. TypeOK /\ NoRequestDropped /\ [Next]_vars => NoRequestDropped'
  <2> SUFFICES ASSUME TypeOK, NoRequestDropped, [Next]_vars,
                      NEW e \in Execs, pc'[e] = "skipped"
               PROVE  FALSE
    BY DEF NoRequestDropped
  <2>1. ~CanExecute(Device(e)) /\ Device(e) \in Devices
    BY SkipStep DEF NoRequestDropped
  <2>. QED
    BY <2>1, CountOfDevice, ConstantsAssumption DEF CanExecute
<1>. QED
  BY <1>1, <1>2, TypeCorrect, PTL DEF Spec

\* A limit of zero lets no task past can_execute: no row, and no restic.  The
\* setting is read once, so this lasts until the client is started again.
THEOREM LimitZeroRunsNothing ==
  ASSUME MaxConcurrent = 0
  PROVE  Spec => []NothingRuns
<1> DEFINE Outside == \A e \in Execs : pc[e] \notin Marked \cup {"mark"}
           Inv     == Outside /\ NothingRuns
<1>1. Init => Inv
  BY DEF Init, NothingRuns, Marked
<1>2. TypeOK /\ Inv /\ [Next]_vars => Inv'
  <2> SUFFICES ASSUME TypeOK, Outside, NothingRuns, [Next]_vars PROVE Inv'
    OBVIOUS
  <2> USE DEF NothingRuns, Marked
  <2>1. CASE EnqueueRequest
    BY <2>1 DEF EnqueueRequest, tables, external
  <2>2. ASSUME NEW e \in Execs, Recv(e) \/ Lookup(e) PROVE Inv'
    BY <2>2 DEF Recv, Lookup, Goto, tables, external, TypeOK
  <2>3. ASSUME NEW e \in Execs, CheckLimit(e) PROVE Inv'
    <3>1. Device(e) \in Devices
      BY <2>3, ConstantsAssumption DEF CheckLimit, Device, Job, JobExecution, TypeOK
    <3>2. ~CanExecute(Device(e))
      BY <3>1, CountOfDevice DEF CanExecute
    <3>. QED
      BY <2>3, <3>2 DEF CheckLimit, Goto, tables, external, TypeOK
  <2>4. ASSUME NEW e \in Execs,
               \/ MarkRunning(e) \/ CreateRun(e) \/ StartRestic(e) \/ ResticExit(e)
               \/ CollectOutput(e) \/ RecordFailure(e) \/ RecordSuccess(e) \/ MarkCompleted(e)
               \/ OutputFails(e)
        PROVE  FALSE
    BY <2>4 DEF OutputFails, MarkRunning, CreateRun, StartRestic, ResticExit, CollectOutput, RecordFailure,
                RecordSuccess, MarkCompleted
  <2>5. ASSUME NEW j \in Jobs, DeleteJob(j) PROVE Inv'
    BY <2>5 DEF DeleteJob, external
  <2>6. CASE ProcessExit
    BY <2>6 DEF ProcessExit, tables, external, TypeOK
  <2>7. CASE UNCHANGED vars
    BY <2>7 DEF vars, tables, external
  <2>. QED
    BY <2>1, <2>2, <2>3, <2>4, <2>5, <2>6, <2>7, NextCases
<1>. QED
  BY <1>1, <1>2, TypeCorrect, PTL DEF Spec

-----------------------------------------------------------------------------
(* The rows of runs *)

\* What a task's place in the code says of its row, its restic and its result.
\* SuccessHasSnapshot and OpenRowExplained are not inductive without it: they
\* do not say that a row is still open when its task comes to close it, nor
\* that the summary a task has read stands for a snapshot.  For RunHistory, it
\* says that no restic is left running beside a row that was closed as a success.
RowOfTask ==
  \A e \in Execs :
    /\ pc[e] \in {"free", "lookup", "check", "mark", "create", "skipped"} =>
         status[e] = "absent" /\ restic[e] = "none"
    /\ pc[e] \in {"start", "wait", "record_failed", "record_success"} =>
         status[e] \in {"running", "deleted"}
    /\ pc[e] = "start" => restic[e] = "none"
    /\ pc[e] = "record_success" => restic[e] = "complete"
    /\ restic[e] = "running" =>
         /\ pc[e] \in {"wait", "lost", "record_failed", "unmark", "ended"}
         /\ status[e] \in {"running", "failed", "deleted"}
    /\ restic[e] = "complete" => e \in repository
    /\ pc[e] = "unmark" /\ status[e] = "running" => result[e] \in {"db", "config"}

RowInv == RowOfTask /\ SuccessHasSnapshot /\ OpenRowExplained

LEMMA StepRowInv == TypeOK /\ RowInv /\ [Next]_vars => RowInv'
<1> SUFFICES ASSUME TypeOK, RowInv, [Next]_vars PROVE RowInv'
  OBVIOUS
<1> USE DEF RowInv, RowOfTask, SuccessHasSnapshot, OpenRowExplained, TypeOK, Final
<1>1. CASE EnqueueRequest
  BY <1>1 DEF EnqueueRequest, tables, external
<1>2. ASSUME NEW e \in Execs, Recv(e) PROVE RowInv'
  BY <1>2 DEF Recv, Goto, tables, external
<1>3. ASSUME NEW e \in Execs, Lookup(e) PROVE RowInv'
  BY <1>3 DEF Lookup, Goto, Return, tables, external
<1>4. ASSUME NEW e \in Execs, CheckLimit(e) PROVE RowInv'
  BY <1>4 DEF CheckLimit, Goto, Return, tables, external
<1>5. ASSUME NEW e \in Execs, MarkRunning(e) PROVE RowInv'
  BY <1>5 DEF MarkRunning, Goto, tables, external
<1>6. ASSUME NEW e \in Execs, CreateRun(e) PROVE RowInv'
  BY <1>6 DEF CreateRun, InsertRun, Goto, Return, tables, external
<1>7. ASSUME NEW e \in Execs, StartRestic(e) PROVE RowInv'
  BY <1>7 DEF StartRestic, Goto, Return, tables
<1>8. ASSUME NEW e \in Execs, ResticExit(e) PROVE RowInv'
  BY <1>8 DEF ResticExit, tables
<1>9. ASSUME NEW e \in Execs, CollectOutput(e) PROVE RowInv'
  BY <1>9 DEF CollectOutput, Goto, Return, tables, external
<1>10. ASSUME NEW e \in Execs, RecordFailure(e) PROVE RowInv'
  BY <1>10 DEF RecordFailure, UpdateRun, Goto, Return, tables, external
<1>11. ASSUME NEW e \in Execs, RecordSuccess(e) PROVE RowInv'
  BY <1>11 DEF RecordSuccess, UpdateRun, Goto, Return, tables, external
<1>12. ASSUME NEW e \in Execs, MarkCompleted(e) PROVE RowInv'
  BY <1>12 DEF MarkCompleted, Goto, tables, external
<1>13. ASSUME NEW j \in Jobs, DeleteJob(j) PROVE RowInv'
  BY <1>13 DEF DeleteJob, external
<1>14. CASE ProcessExit
  BY <1>14 DEF ProcessExit, Live, Marked, tables, external
<1>15. CASE UNCHANGED vars
  BY <1>15 DEF vars, tables, external
<1>16. ASSUME NEW e \in Execs, OutputFails(e) PROVE RowInv'
  BY <1>16 DEF OutputFails, Goto, Return, tables, external
<1>. QED
  BY <1>1, <1>2, <1>3, <1>4, <1>5, <1>6, <1>7, <1>8, <1>9, <1>10, <1>11,
     <1>12, <1>13, <1>14, <1>15, <1>16, NextCases

LEMMA RowInvariant == Spec => []RowInv
<1>1. Init => RowInv
  BY DEF Init, RowInv, RowOfTask, SuccessHasSnapshot, OpenRowExplained, Final
<1>. QED
  BY <1>1, StepRowInv, TypeCorrect, PTL DEF Spec

\* A run recorded as a success has its snapshot in the repository.
THEOREM SuccessesAreBackups == Spec => []SuccessHasSnapshot
  BY RowInvariant, PTL DEF RowInv

\* A row left open has one of the three explanations OpenRowExplained lists.
THEOREM OpenRowsAreExplained == Spec => []OpenRowExplained
  BY RowInvariant, PTL DEF RowInv

-----------------------------------------------------------------------------
(* Executor implements RunHistory *)

LEMMA StepHistory ==
  ASSUME TypeOK, RowInv, [Next]_vars
  PROVE  [History!Next]_History!vars
<1> USE DEF TypeOK, RowInv, RowOfTask
<1>0. ASSUME UNCHANGED <<status, repository>> PROVE [History!Next]_History!vars
  BY <1>0 DEF History!vars
<1>1. ASSUME NEW e \in Execs, UNCHANGED repository,
             \/ History!Move(e, "absent", "running")
             \/ History!Move(e, "running", "failed")
             \/ e \in repository /\ History!Move(e, "running", "success")
      PROVE  [History!Next]_History!vars
  BY <1>1 DEF History!Next, History!Open, History!Fail, History!Succeed
<1>2. CASE EnqueueRequest
  BY <1>2, <1>0 DEF EnqueueRequest, tables, external
<1>3. ASSUME NEW e \in Execs,
             Recv(e) \/ Lookup(e) \/ CheckLimit(e) \/ MarkRunning(e) \/ StartRestic(e)
               \/ CollectOutput(e) \/ OutputFails(e) \/ MarkCompleted(e)
      PROVE  [History!Next]_History!vars
  BY <1>3, <1>0 DEF Recv, Lookup, CheckLimit, MarkRunning, StartRestic, CollectOutput,
                    OutputFails, MarkCompleted, tables, external
<1>4. ASSUME NEW e \in Execs, CreateRun(e) PROVE [History!Next]_History!vars
  <2>1. UNCHANGED repository /\ status[e] = "absent"
    BY <1>4 DEF CreateRun, external
  <2>2. CASE InsertRun(e)
    BY <2>1, <2>2, <1>1 DEF InsertRun, History!Move
  <2>3. CASE UNCHANGED status
    BY <2>1, <2>3, <1>0
  <2>. QED
    BY <1>4, <2>2, <2>3 DEF CreateRun, tables
<1>5. ASSUME NEW e \in Execs, RecordFailure(e) PROVE [History!Next]_History!vars
  <2>1. UNCHANGED repository /\ status[e] \in {"running", "deleted"}
    BY <1>5 DEF RecordFailure, external
  <2>2. CASE UpdateRun(e, "failed")
    BY <2>1, <2>2, <1>0, <1>1 DEF UpdateRun, History!Move
  <2>3. CASE UNCHANGED status
    BY <2>1, <2>3, <1>0
  <2>. QED
    BY <1>5, <2>2, <2>3 DEF RecordFailure, tables
<1>6. ASSUME NEW e \in Execs, RecordSuccess(e) PROVE [History!Next]_History!vars
  <2>1. UNCHANGED repository /\ status[e] \in {"running", "deleted"} /\ e \in repository
    BY <1>6 DEF RecordSuccess, external
  <2>2. CASE UpdateRun(e, "success")
    BY <2>1, <2>2, <1>0, <1>1 DEF UpdateRun, History!Move
  <2>3. CASE UNCHANGED status
    BY <2>1, <2>3, <1>0
  <2>. QED
    BY <1>6, <2>2, <2>3 DEF RecordSuccess, tables
<1>7. ASSUME NEW e \in Execs, ResticExit(e) PROVE [History!Next]_History!vars
  <2>1. status[e] \in {"running", "failed", "deleted"} /\ UNCHANGED status
    BY <1>7 DEF ResticExit, tables
  <2>2. repository' \in {repository, repository \cup {e}}
    BY <1>7 DEF ResticExit
  <2>3. CASE repository' = repository
    BY <2>1, <2>3, <1>0
  <2>4. CASE repository' = repository \cup {e}
    BY <2>1, <2>4 DEF History!Next, History!Snapshot
  <2>. QED
    BY <2>2, <2>3, <2>4
<1>8. ASSUME NEW j \in Jobs, DeleteJob(j) PROVE [History!Next]_History!vars
  <2> DEFINE E == {e \in Execs : status[e] # "absent" /\ Job(e) = j}
  <2>1. E \in SUBSET Execs /\ \A e \in E : status[e] # "absent"
    OBVIOUS
  <2>2. status' = [e \in Execs |-> IF e \in E THEN "deleted" ELSE status[e]]
    BY <1>8 DEF DeleteJob
  <2>3. UNCHANGED repository
    BY <1>8 DEF DeleteJob, external
  <2>4. History!Purge(E)
    BY <2>1, <2>2, <2>3 DEF History!Purge
  <2>. QED
    BY <2>1, <2>4 DEF History!Next
<1>9. CASE ProcessExit
  BY <1>9, <1>0 DEF ProcessExit, tables, external
<1>10. CASE UNCHANGED vars
  BY <1>10, <1>0 DEF vars, tables, external
<1>. QED
  BY <1>2, <1>3, <1>4, <1>5, <1>6, <1>7, <1>8, <1>9, <1>10, NextCases

\* The rows that the executor writes, and the snapshots its children take, live
\* as RunHistory says, through crashes, failing calls and deleted jobs.
THEOREM ImplementsRunHistory == Spec => HistorySpec
<1>1. Init => History!Init
  BY DEF Init, History!Init
<1>. QED
  BY <1>1, StepHistory, TypeCorrect, RowInvariant, PTL DEF Spec, HistorySpec, History!Spec
=============================================================================
