------------------------------- MODULE Client -------------------------------
(***************************************************************************)
(* The running client, src/main.rs after startup: the scheduler and the    *)
(* executor as two tasks of one process, joined by one channel, on one     *)
(* database.                                                               *)
(*                                                                         *)
(* A step of one component leaves the variables of the other alone.  They  *)
(* meet in the channel: what the scheduler sends, the executor finds in    *)
(* its queue, and what a task receives is gone from the scheduler's        *)
(* channel.  The end of the process strikes both, and the deletion of a    *)
(* job removes its schedules and its runs together.                        *)
(*                                                                         *)
(* Requests do not say which run of their job they stand for.  Four history*)
(* variables, which no guard reads, number them and remember for which of  *)
(* them the run was recorded and which task was spawned.                   *)
(***************************************************************************)
EXTENDS Integers, Sequences, FiniteSets

CONSTANTS
  Schedules, Jobs, JobOf, Def, InitRows, Occurrences, CheckInterval,
  Execs, Devices, DeviceOf, MaxConcurrent,
  QueueCapacity,
  MaxTime, MaxRestarts, MaxEdits,            \* bounds, as in Scheduler
  MaxSchedulerErrors, MaxExecutorErrors,     \* bounds: failing database calls of each
  MaxDisturbances,                           \* bound: edits, restarts and failing calls together
  None

\* A row of backup_jobs names one device, and a row of schedules one job.
ASSUME ClientAssumption ==
  /\ JobOf \in [Schedules -> Jobs] /\ DeviceOf \in [Jobs -> Devices]
  /\ None \notin Int /\ None \notin Schedules \cup Jobs \cup {"schedule", "manual"}
  /\ None \notin [job_id : Jobs, triggered_by : {"schedule", "manual"}]
  /\ \A e \in DOMAIN Occurrences : Occurrences[e] \subseteq Nat
  /\ InitRows \subseteq [last : Nat \cup {None}, next : Nat \cup {None}]
  /\ MaxConcurrent \in Nat
  /\ QueueCapacity \in Nat \ {0} /\ CheckInterval \in Nat \ {0}
  /\ MaxTime \in Nat /\ MaxRestarts \in Nat /\ MaxEdits \in Nat
  /\ MaxSchedulerErrors \in Nat /\ MaxExecutorErrors \in Nat /\ MaxDisturbances \in Nat

VARIABLES
  queue,         \* the channel, of both
  now, tick, spc, loaded, schedules, todo, due, cur, plan, table, enabled, recorded,
  sDbErrors, sRestarts, edits, manual,                  \* of Scheduler
  epc, request, result, running_jobs, jobs, status, triggered_by, restic, repository,
  eDbErrors, eRestarts,                                 \* of Executor
  sends,         \* history: requests sent
  tags,          \* history: the number of each request in the channel
  spawned,       \* history: the number of the request each task was spawned with
  confirmed      \* history: the requests whose run was recorded, and in which start

svars == <<now, tick, spc, loaded, schedules, todo, due, cur, plan, table, enabled, recorded,
           sDbErrors, sRestarts, edits, manual>>
evars == <<epc, request, result, running_jobs, jobs, status, triggered_by, restic, repository,
           eDbErrors, eRestarts>>
hvars == <<sends, tags, spawned, confirmed>>
vars  == <<queue, svars, evars, hvars>>

\* Each start may end from outside and by itself (a bound).
MaxExits == 2 * MaxRestarts + 1

S == INSTANCE Scheduler WITH pc <- spc, dbErrors <- sDbErrors, restarts <- sRestarts,
                             MaxDbErrors <- MaxSchedulerErrors, MaxManual <- 0
E == INSTANCE Executor WITH pc <- epc, dbErrors <- eDbErrors, restarts <- eRestarts,
                            MaxDbErrors <- MaxExecutorErrors, MaxRestarts <- MaxExits,
                            Triggers <- {"schedule", "manual"}

-----------------------------------------------------------------------------
Init ==
  /\ S!Init /\ E!Init
  /\ sends = 0 /\ tags = <<>> /\ spawned = [e \in Execs |-> None] /\ confirmed = {}

\* queue_job: send; the room is that for the executions of the model.
Send(s) ==
  /\ E!Room
  /\ S!Send(s)
  /\ sends' = sends + 1 /\ tags' = Append(tags, sends + 1)
  /\ UNCHANGED <<spawned, confirmed>>

\* queue_job: the UPDATE.  The run that was sent last is recorded if it succeeds.
WriteRow ==
  /\ S!WriteRow
  /\ \/ /\ spc' = "written"
        /\ confirmed' = confirmed \cup {[run |-> sends, job |-> JobOf[cur], start |-> sRestarts]}
     \/ spc' # "written" /\ UNCHANGED confirmed
  /\ UNCHANGED <<sends, tags, spawned>>

\* The scheduler task.
SchedulerTask ==
  /\ \/ /\ \/ S!Load \/ S!FinishLoad \/ S!CheckSchedules \/ S!PlanNext \/ S!WriteMap \/ S!EndCheck
           \/ \E s \in Schedules : S!LoadRow(s)
        /\ UNCHANGED hvars
     \/ WriteRow
     \/ \E s \in Schedules : Send(s)
  /\ UNCHANGED evars

\* Recv: the request leaves the channel, and its task is spawned.
Spawn(e) ==
  /\ E!Recv(e) /\ S!Consume
  /\ tags' = Tail(tags) /\ spawned' = [spawned EXCEPT ![e] = Head(tags)]
  /\ UNCHANGED <<sends, confirmed>>

\* Mutant: the loop awaits execute_job instead of spawning it.
ReceiveWhenDone(e) == (\A f \in Execs : epc[f] \notin E!Live) /\ Spawn(e)

\* Mutant: the loop looks the job up itself, and drops the request if it is gone.
ReceiveOrDrop(e) ==
  \/ queue # <<>> /\ Head(queue).job_id \in jobs /\ Spawn(e)
  \/ /\ queue # <<>> /\ Head(queue).job_id \notin jobs
     /\ S!Consume /\ tags' = Tail(tags)
     /\ UNCHANGED <<evars, sends, spawned, confirmed>>

\* The executor's loop takes a request off the channel and spawns a task for
\* it: any free execution, since they differ in name only.
Receive(e) ==
  /\ e \in E!Free
  /\ e = CHOOSE f \in E!Free : TRUE
  /\ Spawn(e)

\* Mutant: a request that is turned away goes back to the end of the channel.
WorkOrRequeue(e) ==
  /\ \/ /\ \/ E!Lookup(e) \/ E!MarkRunning(e) \/ E!CreateRun(e) \/ E!StartRestic(e)
           \/ E!CollectOutput(e) \/ E!RecordFailure(e) \/ E!RecordSuccess(e) \/ E!MarkCompleted(e)
           \/ E!CheckLimit(e) /\ E!CanExecute(E!Device(e))
        /\ UNCHANGED tags
     \/ /\ epc[e] = "check" /\ ~E!CanExecute(E!Device(e))
        /\ queue' = Append(queue, request[e]) /\ tags' = Append(tags, spawned[e])
        /\ epc' = [epc EXCEPT ![e] = "skipped"] /\ result' = [result EXCEPT ![e] = "ok"]
        /\ UNCHANGED <<request, running_jobs, jobs, status, triggered_by, restic, repository,
                       eDbErrors, eRestarts>>
  /\ UNCHANGED <<svars, sends, spawned, confirmed>>

\* A spawned task goes on.
Work(e) ==
  /\ \/ E!Lookup(e) \/ E!CheckLimit(e) \/ E!MarkRunning(e) \/ E!CreateRun(e) \/ E!StartRestic(e)
     \/ E!CollectOutput(e) \/ E!RecordFailure(e) \/ E!RecordSuccess(e) \/ E!MarkCompleted(e)
  /\ UNCHANGED <<svars, hvars>>

\* What the executor does for one execution.
Task(e) == Receive(e) \/ Work(e)

ResticExit(e)  == E!ResticExit(e) /\ UNCHANGED <<svars, hvars>>
OutputFails(e) == E!OutputFails(e) /\ UNCHANGED <<svars, hvars>>

-----------------------------------------------------------------------------
(* What strikes both *)

AdvanceClock == S!AdvanceClock /\ UNCHANGED <<evars, hvars>>

\* An administrator switches a schedule of a job that exists on or off.
SetEnabled(s) == JobOf[s] \in jobs /\ S!SetEnabled(s) /\ UNCHANGED <<evars, hvars>>

\* ON DELETE CASCADE, in both tables that refer to the job.
DeleteJob(job) ==
  /\ E!DeleteJob(job)
  /\ \/ S!DeleteSchedulesOf(job)
     \/ enabled \cap S!SchedulesOf(job) = {} /\ UNCHANGED svars
  /\ UNCHANGED hvars

\* The channel is gone with the process.
Drop == tags' = <<>> /\ UNCHANGED <<sends, spawned, confirmed>>

\* Mutant: only the scheduler is started again.
RestartSchedulerOnly == S!Restart /\ Drop /\ UNCHANGED evars

\* The process is killed or interrupted (select! on ctrl_c), and started again.
Restart == S!Restart /\ E!ProcessExit /\ Drop

\* main: select! sees that the scheduler has returned, and the process ends.
ProcessEnd == S!ProcessEnd /\ E!ProcessExit /\ Drop

\* Nothing is left to do: the process is down, or the executions are used up
\* (a bound).  With this step, a state without a successor has a stuck task.
Finished ==
  /\ spc = "stopped" \/ E!Free = {}
  /\ E!Idle
  /\ UNCHANGED <<svars, hvars>>

\* What may keep a run from its slot.
Faults == sDbErrors + eDbErrors + sRestarts

Next ==
  /\ \/ SchedulerTask \/ AdvanceClock \/ Restart \/ ProcessEnd \/ Finished
     \/ \E e \in Execs : Task(e) \/ ResticExit(e) \/ OutputFails(e)
     \/ \E job \in Jobs : DeleteJob(job)
     \/ \E s \in Schedules : SetEnabled(s)
  /\ Faults' + edits' <= MaxDisturbances

Spec == Init /\ [][Next]_vars

\* Every task runs when it can, the executor's loop receives, and time passes.
\* Restic may hang.
FairSpec ==
  /\ Spec
  /\ WF_vars(SchedulerTask) /\ WF_vars(AdvanceClock)
  /\ \A e \in Execs : WF_vars(Task(e))

-----------------------------------------------------------------------------
(* Properties *)

\* Each component, seen through its own variables, behaves as in its module:
\* the other one does nothing to it that the module does not foresee.  What is
\* proved of the components therefore holds of the client.
SchedulerSpec == S!Spec
ExecutorSpec == E!Spec

\* The request that was sent for this run of the job is in the channel, or a
\* task of its own was spawned with it.
InHand(run, job) ==
  \/ \E i \in 1 .. Len(queue) : tags[i] = run /\ queue[i].job_id = job
  \/ \E e \in Execs : spawned[e] = run /\ request[e] # None /\ request[e].job_id = job

\* Only who ends the process from outside can lose a run that was recorded:
\* of each that was recorded since, the very request is in the channel or has a
\* task of its own, whatever calls failed, whichever schedules and jobs were
\* switched off or deleted, and also when the scheduler returns and takes the
\* process with it.
RecordedRunRequested ==
  \A r \in confirmed : r.start = sRestarts => InHand(r.run, r.job)

\* A task asks for the slot of its device.
AsksForSlot(job) == \E e \in Execs : epc[e] = "check" /\ E!Job(e) = job

\* A bound: no execution is left, and none has yet to ask.
UsedUp == E!Free = {} /\ \A e \in Execs : epc[e] # "lookup"

\* README.md:22, from the due time to the slot: when the time of an enabled
\* schedule has come and no request was sent for it yet, a task for its job
\* reaches can_execute, however long other backups take and however full the
\* channel is, unless a call fails, the process ends, the schedule is switched
\* off or deleted, or the executions of the model are used up.
DueRunReachesSlot ==
  \A s \in Schedules, n \in 0 .. MaxDisturbances :
    /\ s \in enabled /\ table[s].next # None /\ table[s].next <= now
    /\ cur # s /\ Faults = n
    ~> \/ AsksForSlot(JobOf[s])
       \/ Faults > n \/ S!StoppedForCause \/ s \notin enabled \/ UsedUp

-----------------------------------------------------------------------------
(* What the documents say of the client, and the code does not do. *)

\* doc/00-architecture-overview.md:94, "Detects and executes missed runs": when
\* the scheduler has loaded its rows and finds none due, every run that it has
\* recorded, in this start or before it, is in the channel or was taken up by a
\* task.
RecordedRunExecuted ==
  spc = "idle" /\ (\A s \in loaded : ~S!IsDue(schedules[s].next, now)) =>
    \A r \in confirmed : InHand(r.run, r.job)
=============================================================================
