---------------------------- MODULE ClientProofs ----------------------------
(***************************************************************************)
(* The client implements its two components, for every instance: each step *)
(* of it is, through the variables of a component, a step of that          *)
(* component or none.  So the theorems about each hold of the whole, which *)
(* the last two sections state.  And a recorded run is lost with the       *)
(* process only.                                                           *)
(***************************************************************************)
EXTENDS Client, SequenceTheorems, TLAPS

-----------------------------------------------------------------------------
(* The scheduler *)

\* Neither the channel nor a variable of the scheduler changes.
LEMMA SchedulerIdle ==
  ASSUME UNCHANGED <<queue, svars>>
  PROVE  UNCHANGED S!vars
BY DEF svars, S!vars, S!memory, S!check, S!bounds

\* A step of a component's own tasks leaves the channel alone.
LEMMA WorkKeepsQueue ==
  ASSUME NEW e \in Execs, Work(e) \/ ResticExit(e) \/ OutputFails(e)
  PROVE  UNCHANGED <<queue, svars, hvars>>
BY DEF Work, ResticExit, OutputFails, E!Lookup, E!CheckLimit, E!MarkRunning, E!CreateRun,
       E!StartRestic, E!CollectOutput, E!RecordFailure, E!RecordSuccess, E!MarkCompleted,
       E!ResticExit, E!OutputFails

LEMMA StepIsSchedulerStep ==
  ASSUME [Next]_vars
  PROVE  [S!Next]_(S!vars)
<1>1. CASE SchedulerTask
  BY <1>1 DEF SchedulerTask, WriteRow, Send, S!Next, S!SchedulerStep
<1>2. CASE AdvanceClock
  BY <1>2 DEF AdvanceClock, S!Next
<1>3. CASE Restart
  BY <1>3 DEF Restart, S!Next
<1>4. CASE ProcessEnd
  BY <1>4 DEF ProcessEnd, S!Next
<1>5. CASE Finished
  BY <1>5, SchedulerIdle DEF Finished, E!Idle, E!vars
<1>6. ASSUME NEW e \in Execs, Receive(e) PROVE S!Next
  BY <1>6 DEF Receive, Spawn, S!Next
<1>7. ASSUME NEW e \in Execs, Work(e) \/ ResticExit(e) \/ OutputFails(e) PROVE UNCHANGED S!vars
  BY <1>7, WorkKeepsQueue, SchedulerIdle
<1>8. ASSUME NEW job \in Jobs, DeleteJob(job) PROVE S!Next \/ UNCHANGED S!vars
  <2>1. CASE S!DeleteSchedulesOf(job)
    BY <2>1 DEF S!Next
  <2>2. CASE UNCHANGED svars
    BY <1>8, <2>2, SchedulerIdle DEF DeleteJob, E!DeleteJob
  <2>. QED
    BY <1>8, <2>1, <2>2 DEF DeleteJob
<1>9. ASSUME NEW s \in Schedules, SetEnabled(s) PROVE S!Next
  BY <1>9 DEF SetEnabled, S!Next
<1>10. CASE UNCHANGED vars
  BY <1>10, SchedulerIdle DEF vars
<1>. QED
  BY <1>1, <1>2, <1>3, <1>4, <1>5, <1>6, <1>7, <1>8, <1>9, <1>10 DEF Next, Task

\* The client implements Scheduler: the executor, the crashes and the edits of
\* the whole do nothing to the scheduler that its module does not foresee.
THEOREM ClientImplementsScheduler == Spec => SchedulerSpec
<1>1. Init => S!Init
  BY DEF Init
<1>2. [Next]_vars => [S!Next]_(S!vars)
  BY StepIsSchedulerStep
<1>. QED
  BY <1>1, <1>2, PTL DEF Spec, SchedulerSpec, S!Spec

-----------------------------------------------------------------------------
(* The executor *)

LEMMA ExecutorIdle ==
  ASSUME UNCHANGED <<queue, evars>>
  PROVE  UNCHANGED E!vars
BY DEF evars, E!vars, E!tables, E!external, E!bounds

\* What the scheduler sends is a request that the executor foresees.
LEMMA SendIsEnqueue ==
  ASSUME NEW s \in Schedules, E!Room, S!Send(s), UNCHANGED evars
  PROVE  E!EnqueueRequest
<1>1. [job_id |-> JobOf[s], triggered_by |-> "schedule"] \in E!JobExecution
  BY ClientAssumption DEF E!JobExecution
<1>2. queue' = Append(queue, [job_id |-> JobOf[s], triggered_by |-> "schedule"])
  BY DEF S!Send
<1>3. Len(queue) < QueueCapacity
  BY DEF S!Send
<1>4. UNCHANGED <<epc, request, result, running_jobs, E!tables, E!external, E!bounds>>
  BY DEF evars, E!tables, E!external, E!bounds
<1>. QED
  BY <1>1, <1>2, <1>3, <1>4 DEF E!EnqueueRequest

LEMMA StepIsExecutorStep ==
  ASSUME [Next]_vars
  PROVE  [E!Next]_(E!vars)
<1>1. CASE SchedulerTask
  <2>1. ASSUME NEW s \in Schedules, Send(s) PROVE E!Next
    BY <1>1, <2>1, SendIsEnqueue DEF SchedulerTask, Send, E!Next
  <2>2. CASE \/ S!Load \/ S!FinishLoad \/ S!CheckSchedules \/ S!PlanNext \/ WriteRow \/ S!WriteMap
             \/ S!EndCheck \/ \E s \in Schedules : S!LoadRow(s)
    <3>1. UNCHANGED queue
      BY <2>2 DEF S!Load, S!FinishLoad, S!CheckSchedules, S!PlanNext, WriteRow, S!WriteRow, S!WriteMap,
                  S!EndCheck, S!LoadRow
    <3>. QED
      BY <1>1, <3>1, ExecutorIdle DEF SchedulerTask
  <2>. QED
    BY <1>1, <2>1, <2>2 DEF SchedulerTask
<1>2. CASE AdvanceClock
  BY <1>2, ExecutorIdle DEF AdvanceClock, S!AdvanceClock
<1>3. CASE Restart
  BY <1>3 DEF Restart, E!Next
<1>4. CASE ProcessEnd
  BY <1>4 DEF ProcessEnd, E!Next
<1>5. CASE Finished
  BY <1>5 DEF Finished, E!Next
<1>6. ASSUME NEW e \in Execs, Receive(e) PROVE E!Next
  BY <1>6 DEF Receive, Spawn, E!Next, E!Task
<1>7. ASSUME NEW e \in Execs, Work(e) PROVE E!Next
  BY <1>7 DEF Work, E!Next, E!Task
<1>8. ASSUME NEW e \in Execs, ResticExit(e) \/ OutputFails(e) PROVE E!Next
  BY <1>8 DEF ResticExit, OutputFails, E!Next
<1>9. ASSUME NEW job \in Jobs, DeleteJob(job) PROVE E!Next
  BY <1>9 DEF DeleteJob, E!Next
<1>10. ASSUME NEW s \in Schedules, SetEnabled(s) PROVE UNCHANGED E!vars
  BY <1>10, ExecutorIdle DEF SetEnabled, S!SetEnabled
<1>11. CASE UNCHANGED vars
  BY <1>11, ExecutorIdle DEF vars
<1>. QED
  BY <1>1, <1>2, <1>3, <1>4, <1>5, <1>6, <1>7, <1>8, <1>9, <1>10, <1>11 DEF Next, Task

\* The client implements Executor: the scheduler is one of the callers that the
\* executor foresees, and the end of the process takes the channel and the
\* tasks together.
THEOREM ClientImplementsExecutor == Spec => ExecutorSpec
<1>1. Init => E!Init
  BY DEF Init
<1>2. [Next]_vars => [E!Next]_(E!vars)
  BY StepIsExecutorStep
<1>. QED
  BY <1>1, <1>2, PTL DEF Spec, ExecutorSpec, E!Spec
-----------------------------------------------------------------------------
(* Recorded runs and their requests *)

Labels == {"lookup", "check", "mark", "create", "start", "wait", "record_failed",
           "record_success", "unmark", "ended", "skipped", "lost"}

\* The types that matter here, that the channel has a number for each request,
\* and that a task has a request exactly once it was spawned: to receive does
\* not overwrite one.
RequestTypes ==
  /\ queue \in Seq(E!JobExecution)
  /\ tags \in Seq(Nat) /\ Len(tags) = Len(queue) /\ sends \in Nat
  /\ epc \in [Execs -> Labels \cup {"free"}]
  /\ request \in [Execs -> E!JobExecution \cup {None}]
  /\ spawned \in [Execs -> Nat \cup {None}]
  /\ \A e \in Execs : epc[e] = "free" => request[e] = None
  /\ sRestarts \in Nat
  /\ spc \in S!Queueing => cur \in Schedules

\* RecordedRunRequested is not inductive: between send and the record of the
\* run, its request must be known not to be lost already; and a scheduler that
\* may still return must be known to have recorded nothing since its start.
Unrecorded == {"sent", "planned"}
Early == {"start", "loading", "stopped"}

RequestInv ==
  /\ RecordedRunRequested
  /\ spc \in Unrecorded => InHand(sends, JobOf[cur])
  /\ \A r \in confirmed : r.start \in Nat /\ r.start <= sRestarts /\ r.job \in Jobs
  /\ spc \in Early => \A r \in confirmed : r.start # sRestarts

\* The channel, the requests and their numbers, step by step.
ChannelKept == queue' = queue /\ request' = request /\ tags' = tags /\ spawned' = spawned

LEMMA ChannelStep ==
  ASSUME RequestTypes, [Next]_vars
  PROVE  \/ ChannelKept
         \/ \E s \in Schedules :
              /\ S!Send(s) /\ request' = request /\ spawned' = spawned
              /\ queue' = Append(queue, [job_id |-> JobOf[s], triggered_by |-> "schedule"])
              /\ tags' = Append(tags, sends + 1)
         \/ \E e \in Execs :
              /\ epc[e] = "free" /\ queue # <<>>
              /\ queue' = Tail(queue) /\ tags' = Tail(tags)
              /\ request' = [request EXCEPT ![e] = Head(queue)]
              /\ spawned' = [spawned EXCEPT ![e] = Head(tags)]
         \/ /\ queue' = <<>> /\ tags' = <<>> /\ request' = request /\ spawned' = spawned
            /\ sRestarts' = sRestarts + 1 \/ (spc = "stopped" /\ sRestarts' = sRestarts)
<1>1. CASE SchedulerTask
  <2>1. ASSUME NEW s \in Schedules, Send(s)
        PROVE  /\ S!Send(s) /\ spawned' = spawned
               /\ queue' = Append(queue, [job_id |-> JobOf[s], triggered_by |-> "schedule"])
               /\ tags' = Append(tags, sends + 1)
    BY <2>1 DEF Send, S!Send
  <2>2. ASSUME \/ S!Load \/ S!FinishLoad \/ S!CheckSchedules \/ S!PlanNext \/ S!WriteMap \/ S!EndCheck
               \/ \E s \in Schedules : S!LoadRow(s)
        PROVE  queue' = queue
    BY <2>2 DEF S!Load, S!FinishLoad, S!CheckSchedules, S!PlanNext, S!WriteMap, S!EndCheck, S!LoadRow
  <2>3. ASSUME WriteRow PROVE queue' = queue /\ tags' = tags /\ spawned' = spawned
    BY <2>3 DEF WriteRow, S!WriteRow
  <2>4. request' = request
    BY <1>1 DEF SchedulerTask, evars
  <2>. QED
    BY <1>1, <2>1, <2>2, <2>3, <2>4 DEF SchedulerTask, ChannelKept, hvars
<1>2. CASE AdvanceClock
  BY <1>2 DEF AdvanceClock, S!AdvanceClock, evars, hvars, ChannelKept
<1>3. CASE Restart \/ ProcessEnd
  BY <1>3 DEF Restart, ProcessEnd, Drop, E!ProcessExit, S!Restart, S!ProcessEnd, S!bounds
<1>4. CASE Finished
  BY <1>4 DEF Finished, E!Idle, E!vars, hvars, ChannelKept
<1>5. ASSUME NEW e \in Execs, Receive(e)
      PROVE  /\ epc[e] = "free" /\ queue # <<>>
             /\ queue' = Tail(queue) /\ tags' = Tail(tags)
             /\ request' = [request EXCEPT ![e] = Head(queue)]
             /\ spawned' = [spawned EXCEPT ![e] = Head(tags)]
  BY <1>5 DEF Receive, Spawn, E!Recv
<1>6. ASSUME NEW e \in Execs, Work(e) \/ ResticExit(e) \/ OutputFails(e) PROVE ChannelKept
  <2>1. request' = request
    BY <1>6 DEF Work, ResticExit, OutputFails, E!Lookup, E!CheckLimit, E!MarkRunning, E!CreateRun,
                E!StartRestic, E!CollectOutput, E!RecordFailure, E!RecordSuccess,
                E!MarkCompleted, E!ResticExit, E!OutputFails
  <2>. QED
    BY <1>6, <2>1, WorkKeepsQueue DEF hvars, ChannelKept
<1>7. ASSUME NEW job \in Jobs, DeleteJob(job) PROVE ChannelKept
  BY <1>7 DEF DeleteJob, E!DeleteJob, hvars, ChannelKept
<1>8. ASSUME NEW s \in Schedules, SetEnabled(s) PROVE ChannelKept
  BY <1>8 DEF SetEnabled, S!SetEnabled, evars, hvars, ChannelKept
<1>9. CASE UNCHANGED vars
  BY <1>9 DEF vars, evars, hvars, ChannelKept
<1>. QED
  BY <1>1, <1>2, <1>3, <1>4, <1>5, <1>6, <1>7, <1>8, <1>9 DEF Next, Task

\* What the scheduler records and where it stands, step by step.
RecordKept == confirmed' = confirmed /\ sends' = sends

LEMMA RecordStep ==
  ASSUME RequestTypes, [Next]_vars
  PROVE  /\ sRestarts' = sRestarts \/ (sRestarts' = sRestarts + 1 /\ RecordKept /\ spc' = "start")
         /\ \/ RecordKept
            \/ \E s \in Schedules : S!Send(s) /\ confirmed' = confirmed /\ sends' = sends + 1
            \/ /\ spc = "planned" /\ spc' = "written" /\ sends' = sends /\ sRestarts' = sRestarts
               /\ confirmed' = confirmed
                    \cup {[run |-> sends, job |-> JobOf[cur], start |-> sRestarts]}
         /\ spc' \in S!Queueing =>
              \/ \E s \in Schedules : S!Send(s) /\ cur' = s /\ sends' = sends + 1
              \/ /\ spc \in S!Queueing /\ cur' = cur /\ sends' = sends
                 /\ spc' \in Unrecorded => spc \in Unrecorded
         /\ sRestarts' = sRestarts /\ spc' \in Early => spc \in Early
         /\ sRestarts' = sRestarts /\ spc = "stopped" => spc' = "stopped" /\ RecordKept
<1> DEFINE Goal == /\ sRestarts' = sRestarts \/ (sRestarts' = sRestarts + 1 /\ RecordKept /\ spc' = "start")
                   /\ \/ RecordKept
                      \/ \E s \in Schedules : S!Send(s) /\ confirmed' = confirmed /\ sends' = sends + 1
                      \/ /\ spc = "planned" /\ spc' = "written" /\ sends' = sends
                         /\ sRestarts' = sRestarts
                         /\ confirmed' = confirmed
                              \cup {[run |-> sends, job |-> JobOf[cur], start |-> sRestarts]}
                   /\ spc' \in S!Queueing =>
                        \/ \E s \in Schedules : S!Send(s) /\ cur' = s /\ sends' = sends + 1
                        \/ /\ spc \in S!Queueing /\ cur' = cur /\ sends' = sends
                           /\ spc' \in Unrecorded => spc \in Unrecorded
                   /\ sRestarts' = sRestarts /\ spc' \in Early => spc \in Early
                   /\ sRestarts' = sRestarts /\ spc = "stopped" => spc' = "stopped" /\ RecordKept
           Same == sRestarts' = sRestarts /\ spc' = spc /\ cur' = cur /\ RecordKept
<1>1. Same => Goal
  BY DEF RecordKept
<1>2. CASE SchedulerTask
  <2>1. ASSUME NEW s \in Schedules, Send(s) PROVE Goal
    BY <2>1 DEF Send, S!Send, S!bounds, Early
  <2>2. ASSUME WriteRow PROVE Goal
    BY <2>2 DEF WriteRow, S!WriteRow, S!DbError, S!EndQueueing, S!bounds, S!check, S!Queueing,
                Unrecorded, Early, RecordKept
  <2>3. ASSUME UNCHANGED hvars,
               S!Load \/ S!FinishLoad \/ S!CheckSchedules \/ \E s \in Schedules : S!LoadRow(s)
        PROVE  Goal
    BY <2>3 DEF S!Load, S!FinishLoad, S!CheckSchedules, S!LoadRow, S!DbError, S!bounds,
                S!Queueing, Early, RecordKept, hvars
  <2>4. ASSUME UNCHANGED hvars, S!PlanNext \/ S!WriteMap \/ S!EndCheck PROVE Goal
    BY <2>4 DEF S!PlanNext, S!WriteMap, S!EndCheck, S!EndQueueing, S!bounds, S!Queueing,
                Unrecorded, Early, RecordKept, hvars
  <2>. QED
    BY <1>2, <2>1, <2>2, <2>3, <2>4 DEF SchedulerTask
<1>3. CASE Restart
  BY <1>3 DEF Restart, Drop, S!Restart, S!Queueing, RequestTypes, RecordKept
<1>4. CASE ProcessEnd
  BY <1>1, <1>4 DEF ProcessEnd, Drop, S!ProcessEnd, S!check, S!bounds, RecordKept
<1>5. CASE AdvanceClock \/ \E s \in Schedules : SetEnabled(s)
  BY <1>1, <1>5 DEF AdvanceClock, SetEnabled, S!AdvanceClock, S!SetEnabled, S!check, S!bounds, hvars,
                    RecordKept
<1>6. CASE Finished \/ UNCHANGED vars
  BY <1>1, <1>6 DEF Finished, vars, svars, hvars, RecordKept
<1>7. ASSUME NEW e \in Execs, Receive(e) PROVE Goal
  BY <1>1, <1>7 DEF Receive, Spawn, S!Consume, S!check, S!bounds, RecordKept
<1>8. ASSUME NEW e \in Execs, Work(e) \/ ResticExit(e) \/ OutputFails(e) PROVE Goal
  BY <1>1, <1>8, WorkKeepsQueue DEF svars, hvars, RecordKept
<1>9. ASSUME NEW job \in Jobs, DeleteJob(job) PROVE Goal
  BY <1>1, <1>9 DEF DeleteJob, S!DeleteSchedulesOf, S!check, S!bounds, svars, hvars, RecordKept
<1>. QED
  BY <1>2, <1>3, <1>4, <1>5, <1>6, <1>7, <1>8, <1>9 DEF Next, Task

\* A request that is in hand stays so, until the channel is gone.
LEMMA InHandKept ==
  ASSUME RequestTypes, [Next]_vars, NEW run, NEW job, InHand(run, job)
  PROVE  InHand(run, job)' \/ sRestarts' = sRestarts + 1 \/ spc = "stopped"
<1>1. CASE ChannelKept
  BY <1>1 DEF ChannelKept, InHand
<1>2. ASSUME NEW s \in Schedules, request' = request, spawned' = spawned,
             queue' = Append(queue, [job_id |-> JobOf[s], triggered_by |-> "schedule"]),
             tags' = Append(tags, sends + 1)
      PROVE  InHand(run, job)'
  <2>1. \A i \in 1 .. Len(queue) : /\ i \in 1 .. Len(queue')
                                   /\ queue'[i] = queue[i] /\ tags'[i] = tags[i]
    BY <1>2, AppendProperties DEF RequestTypes
  <2>. QED
    BY <1>2, <2>1 DEF InHand
<1>3. ASSUME NEW e \in Execs, epc[e] = "free", queue # <<>>,
             queue' = Tail(queue), tags' = Tail(tags),
             request' = [request EXCEPT ![e] = Head(queue)],
             spawned' = [spawned EXCEPT ![e] = Head(tags)]
      PROVE  InHand(run, job)'
  <2>1. Head(queue) = queue[1] /\ Head(queue) \in E!JobExecution /\ Head(tags) = tags[1]
    BY <1>3 DEF RequestTypes
  <2>2. Head(queue) # None
    BY <2>1, ClientAssumption DEF E!JobExecution
  <2>3. request[e] = None /\ request'[e] = Head(queue) /\ spawned'[e] = Head(tags)
    BY <1>3 DEF RequestTypes
  <2>4. ASSUME NEW f \in Execs, spawned[f] = run, request[f] # None, request[f].job_id = job
        PROVE  InHand(run, job)'
    <3>1. f # e /\ request'[f] = request[f] /\ spawned'[f] = spawned[f]
      BY <1>3, <2>3, <2>4 DEF RequestTypes
    <3>. QED
      BY <2>4, <3>1 DEF InHand
  <2>5. ASSUME NEW i \in 1 .. Len(queue), tags[i] = run, queue[i].job_id = job
        PROVE  InHand(run, job)'
    <3>1. CASE i = 1
      BY <2>1, <2>2, <2>3, <2>5, <3>1 DEF InHand
    <3>2. CASE i # 1
      <4>1. /\ i - 1 \in 1 .. Len(queue')
            /\ queue'[i - 1] = queue[i] /\ tags'[i - 1] = tags[i]
        BY <1>3, <3>2 DEF RequestTypes
      <4>. QED
        BY <2>5, <4>1 DEF InHand
    <3>. QED
      BY <3>1, <3>2
  <2>. QED
    BY <2>4, <2>5 DEF InHand
<1>. QED
  BY <1>1, <1>2, <1>3, ChannelStep

\* A request that was just sent is in the channel.
LEMMA SentIsInHand ==
  ASSUME RequestTypes, [Next]_vars, NEW s \in Schedules, S!Send(s), sends' = sends + 1
  PROVE  InHand(sends, JobOf[s])'
<1> DEFINE r == [job_id |-> JobOf[s], triggered_by |-> "schedule"]
<1>1. r \in E!JobExecution /\ queue' = Append(queue, r)
  BY ClientAssumption DEF S!Send, E!JobExecution
<1>2. Len(queue') = Len(queue) + 1 /\ Len(queue) \in Nat /\ queue'[Len(queue) + 1] = r
  BY <1>1 DEF RequestTypes
<1>3. Len(queue) + 1 \in 1 .. Len(queue')
  BY <1>2
<1>4. queue' # queue /\ queue' # <<>> /\ ~(queue # <<>> /\ queue' = Tail(queue))
  <2>1. queue # <<>> => Len(Tail(queue)) = Len(queue) - 1
    BY HeadTailProperties DEF RequestTypes
  <2>2. queue' = <<>> => Len(queue') = 0
    OBVIOUS
  <2>. QED
    BY <1>2, <2>1, <2>2
<1>5. tags' = Append(tags, sends + 1)
  BY <1>4, ChannelStep DEF ChannelKept
<1>6. tags'[Len(queue) + 1] = sends + 1
  BY <1>5 DEF RequestTypes
<1>. QED
  BY <1>2, <1>3, <1>6 DEF InHand

\* A task never becomes free again.
LEMMA TasksStayTaken ==
  ASSUME RequestTypes, [Next]_vars
  PROVE  /\ epc' \in [Execs -> Labels \cup {"free"}]
         /\ \A e \in Execs : epc'[e] = "free" => epc[e] = "free"
         /\ \A e \in Execs : epc[e] = "free" /\ request'[e] # request[e] => epc'[e] # "free"
<1> DEFINE Kept == epc' = epc /\ request' = request
<1>1. CASE Kept
  BY <1>1 DEF RequestTypes
<1>2. CASE SchedulerTask \/ AdvanceClock \/ \E s \in Schedules : SetEnabled(s)
  BY <1>1, <1>2 DEF SchedulerTask, AdvanceClock, SetEnabled, evars
<1>3. CASE Restart \/ ProcessEnd
  <2>1. epc' = [e \in Execs |-> IF epc[e] \in E!Live THEN "lost" ELSE epc[e]]
    BY <1>3 DEF Restart, ProcessEnd, E!ProcessExit
  <2>2. request' = request
    BY <1>3 DEF Restart, ProcessEnd, E!ProcessExit
  <2>3. \A e \in Execs : epc'[e] = "lost" \/ epc'[e] = epc[e]
    BY <2>1
  <2>4. epc' \in [Execs -> Labels \cup {"free"}]
    BY <2>1 DEF RequestTypes, Labels
  <2>. QED
    BY <2>2, <2>3, <2>4
<1>4. CASE Finished \/ UNCHANGED vars
  BY <1>1, <1>4 DEF Finished, E!Idle, E!vars, vars, evars
<1>5. ASSUME NEW e \in Execs, NEW l \in Labels,
             epc' = [epc EXCEPT ![e] = l],
             request' = request \/ \E r : request' = [request EXCEPT ![e] = r]
      PROVE  /\ epc' \in [Execs -> Labels \cup {"free"}]
             /\ \A f \in Execs : epc'[f] = "free" => epc[f] = "free"
             /\ \A f \in Execs : epc[f] = "free" /\ request'[f] # request[f] => epc'[f] # "free"
  BY <1>5 DEF RequestTypes, Labels
<1>6. ASSUME NEW e \in Execs, Receive(e)
      PROVE  epc' = [epc EXCEPT ![e] = "lookup"] /\ request' = [request EXCEPT ![e] = Head(queue)]
  BY <1>6 DEF Receive, Spawn, E!Recv, E!Goto
<1>7. ASSUME NEW e \in Execs, Work(e)
      PROVE  request' = request /\ \E l \in Labels : epc' = [epc EXCEPT ![e] = l]
  <2>1. request' = request
    BY <1>7 DEF Work, E!Lookup, E!CheckLimit, E!MarkRunning, E!CreateRun, E!StartRestic,
                E!CollectOutput, E!RecordFailure, E!RecordSuccess, E!MarkCompleted
  <2>2. \/ E!Goto(e, "check") \/ E!Goto(e, "ended") \/ E!Goto(e, "mark") \/ E!Goto(e, "skipped")
        \/ E!Goto(e, "create") \/ E!Goto(e, "start") \/ E!Goto(e, "unmark")
        \/ E!Goto(e, "record_failed") \/ E!Goto(e, "wait") \/ E!Goto(e, "record_success")
    BY <1>7 DEF Work, E!Lookup, E!CheckLimit, E!MarkRunning, E!CreateRun, E!StartRestic,
                E!CollectOutput, E!RecordFailure, E!RecordSuccess, E!MarkCompleted
  <2>. QED
    BY <2>1, <2>2 DEF E!Goto, Labels
<1>8. ASSUME NEW e \in Execs, ResticExit(e) PROVE Kept
  BY <1>8 DEF ResticExit, E!ResticExit
<1>12. ASSUME NEW e \in Execs, OutputFails(e)
       PROVE  request' = request /\ epc' = [epc EXCEPT ![e] = "record_failed"]
  BY <1>12 DEF OutputFails, E!OutputFails, E!Goto
<1>13. ASSUME NEW e \in Execs, OutputFails(e)
       PROVE  /\ epc' \in [Execs -> Labels \cup {"free"}]
              /\ \A f \in Execs : epc'[f] = "free" => epc[f] = "free"
              /\ \A f \in Execs : epc[f] = "free" /\ request'[f] # request[f] => epc'[f] # "free"
  <2>1. "record_failed" \in Labels
    BY DEF Labels
  <2>. QED
    BY <1>5, <1>12, <1>13, <2>1
<1>9. ASSUME NEW job \in Jobs, DeleteJob(job) PROVE Kept
  BY <1>9 DEF DeleteJob, E!DeleteJob
<1>10. ASSUME NEW e \in Execs, Receive(e)
       PROVE  /\ epc' \in [Execs -> Labels \cup {"free"}]
              /\ \A f \in Execs : epc'[f] = "free" => epc[f] = "free"
              /\ \A f \in Execs : epc[f] = "free" /\ request'[f] # request[f] => epc'[f] # "free"
  <2>1. epc' = [epc EXCEPT ![e] = "lookup"] /\ request' = [request EXCEPT ![e] = Head(queue)]
    BY <1>6, <1>10
  <2>2. "lookup" \in Labels
    BY DEF Labels
  <2>. QED
    BY <1>5, <2>1, <2>2
<1>11. ASSUME NEW e \in Execs, Work(e)
       PROVE  /\ epc' \in [Execs -> Labels \cup {"free"}]
              /\ \A f \in Execs : epc'[f] = "free" => epc[f] = "free"
              /\ \A f \in Execs : epc[f] = "free" /\ request'[f] # request[f] => epc'[f] # "free"
  BY <1>5, <1>7, <1>11
<1>. QED
  BY <1>1, <1>2, <1>3, <1>4, <1>8, <1>9, <1>10, <1>11, <1>13 DEF Next, Task

LEMMA RequestTypesStep ==
  ASSUME RequestTypes, [Next]_vars
  PROVE  RequestTypes'
<1> DEFINE Goal == /\ queue' \in Seq(E!JobExecution)
                   /\ tags' \in Seq(Nat) /\ Len(tags') = Len(queue')
                   /\ request' \in [Execs -> E!JobExecution \cup {None}]
                   /\ spawned' \in [Execs -> Nat \cup {None}]
<1>1. Goal
  <2>1. CASE ChannelKept
    BY <2>1 DEF ChannelKept, RequestTypes
  <2>2. ASSUME NEW s \in Schedules, request' = request, spawned' = spawned,
               queue' = Append(queue, [job_id |-> JobOf[s], triggered_by |-> "schedule"]),
               tags' = Append(tags, sends + 1)
        PROVE  Goal
    <3>1. [job_id |-> JobOf[s], triggered_by |-> "schedule"] \in E!JobExecution
      BY ClientAssumption DEF E!JobExecution
    <3>. QED
      BY <2>2, <3>1, AppendProperties DEF RequestTypes
  <2>3. ASSUME NEW e \in Execs, queue # <<>>, queue' = Tail(queue), tags' = Tail(tags),
               request' = [request EXCEPT ![e] = Head(queue)],
               spawned' = [spawned EXCEPT ![e] = Head(tags)]
        PROVE  Goal
    <3>1. tags # <<>>
      BY <2>3 DEF RequestTypes
    <3>2. /\ Head(queue) \in E!JobExecution /\ queue' \in Seq(E!JobExecution)
          /\ Head(tags) \in Nat /\ tags' \in Seq(Nat) /\ Len(tags') = Len(queue')
      BY <2>3, <3>1, HeadTailProperties DEF RequestTypes
    <3>. QED
      BY <2>3, <3>2 DEF RequestTypes
  <2>4. CASE queue' = <<>> /\ tags' = <<>> /\ request' = request /\ spawned' = spawned
    BY <2>4 DEF RequestTypes
  <2>. QED
    BY <2>1, <2>2, <2>3, <2>4, ChannelStep
<1>2. \A e \in Execs : epc'[e] = "free" => request'[e] = None
  BY TasksStayTaken DEF RequestTypes
<1>3. sends' \in Nat /\ sRestarts' \in Nat
  BY RecordStep DEF RequestTypes, RecordKept
<1>4. spc' \in S!Queueing => cur' \in Schedules
  BY RecordStep DEF RequestTypes
<1>. QED
  BY <1>1, <1>2, <1>3, <1>4, TasksStayTaken DEF RequestTypes

LEMMA RequestInvStep ==
  ASSUME RequestTypes, RequestTypes', RequestInv, [Next]_vars
  PROVE  RequestInv'
<1>1. CASE sRestarts' # sRestarts
  <2>1. sRestarts' = sRestarts + 1 /\ confirmed' = confirmed /\ spc' = "start"
    BY <1>1, RecordStep DEF RecordKept
  <2>2. \A r \in confirmed' : r.start \in Nat /\ r.start < sRestarts' /\ r.job \in Jobs
    BY <2>1 DEF RequestInv, RequestTypes
  <2>3. \A r \in confirmed' : r.start # sRestarts' /\ r.start <= sRestarts'
    BY <2>1, <2>2 DEF RequestTypes
  <2>. QED
    BY <2>1, <2>2, <2>3 DEF RequestInv, RecordedRunRequested, Unrecorded
<1>2. CASE sRestarts' = sRestarts /\ spc = "stopped"
  <2>1. spc' = "stopped" /\ confirmed' = confirmed
    BY <1>2, RecordStep DEF RecordKept
  <2>2. \A r \in confirmed : r.start # sRestarts
    BY <1>2 DEF RequestInv, Early
  <2>. QED
    BY <1>2, <2>1, <2>2 DEF RequestInv, RecordedRunRequested, Unrecorded
<1>3. CASE sRestarts' = sRestarts /\ spc # "stopped"
  <2>1. ASSUME NEW run, NEW job, InHand(run, job) PROVE InHand(run, job)'
    BY <1>3, <2>1, InHandKept DEF RequestTypes
  <2>2. ASSUME NEW run, NEW job, spc \in Unrecorded, run = sends, job = JobOf[cur]
        PROVE  InHand(run, job)'
    BY <2>1, <2>2 DEF RequestInv
  <2>3. ASSUME NEW r \in confirmed'
        PROVE  /\ r.start \in Nat /\ r.start <= sRestarts' /\ r.job \in Jobs
               /\ r.start = sRestarts' => InHand(r.run, r.job)'
    <3>1. CASE r \in confirmed
      BY <1>3, <2>1, <3>1 DEF RequestInv, RecordedRunRequested
    <3>2. CASE /\ spc = "planned"
               /\ r = [run |-> sends, job |-> JobOf[cur], start |-> sRestarts]
      <4>1. r.run = sends /\ r.job = JobOf[cur] /\ r.start = sRestarts
        BY <3>2
      <4>2. cur \in Schedules /\ JobOf[cur] \in Jobs
        BY <3>2, ClientAssumption DEF RequestTypes, S!Queueing
      <4>3. InHand(r.run, r.job)'
        BY <2>2, <3>2, <4>1 DEF Unrecorded
      <4>. QED
        BY <1>3, <4>1, <4>2, <4>3 DEF RequestTypes
    <3>. QED
      BY <3>1, <3>2, RecordStep DEF RecordKept
  <2>4. ASSUME spc' \in Unrecorded PROVE InHand(sends, JobOf[cur])'
    <3>1. spc' \in S!Queueing
      BY <2>4 DEF Unrecorded, S!Queueing
    <3>2. ASSUME NEW s \in Schedules, S!Send(s), cur' = s, sends' = sends + 1
          PROVE  InHand(sends, JobOf[cur])'
      BY <3>2, SentIsInHand DEF InHand
    <3>3. CASE spc \in Unrecorded /\ cur' = cur /\ sends' = sends
      <4>1. ASSUME NEW run, NEW job, run = sends', job = JobOf[cur'] PROVE InHand(run, job)'
        BY <2>2, <3>3, <4>1
      <4>. QED
        BY <4>1 DEF InHand
    <3>. QED
      BY <2>4, <3>1, <3>2, <3>3, RecordStep
  <2>5. ASSUME spc' \in Early PROVE \A r \in confirmed' : r.start # sRestarts'
    <3>1. spc \in Early /\ spc # "planned"
      BY <1>3, <2>5, RecordStep DEF Early
    <3>2. confirmed' = confirmed
      BY <3>1, RecordStep DEF RecordKept
    <3>. QED
      BY <1>3, <3>1, <3>2 DEF RequestInv
  <2>. QED
    BY <2>3, <2>4, <2>5 DEF RequestInv, RecordedRunRequested
<1>. QED
  BY <1>1, <1>2, <1>3

\* Of every run that was recorded since the process was started last, the very
\* request is in the channel or has its own task: for any number of schedules,
\* jobs, executions, runs and failures.
THEOREM RecordedRunsAreRequested == Spec => []RecordedRunRequested
<1>1. Init => RequestTypes /\ RequestInv
  <2>1. ASSUME Init PROVE RequestTypes
    <3>1. /\ queue = <<>> /\ epc = [e \in Execs |-> "free"] /\ request = [e \in Execs |-> None]
          /\ tags = <<>> /\ spawned = [e \in Execs |-> None] /\ sends = 0
          /\ sRestarts = 0 /\ spc = "start"
      BY <2>1 DEF Init, S!Init, E!Init
    <3>. QED
      BY <3>1 DEF RequestTypes, S!Queueing
  <2>2. ASSUME Init PROVE RequestInv
    BY <2>2 DEF Init, S!Init, RequestInv, RecordedRunRequested, Unrecorded
  <2>. QED
    BY <2>1, <2>2
<1>2. RequestTypes /\ RequestInv /\ [Next]_vars => RequestTypes' /\ RequestInv'
  BY RequestTypesStep, RequestInvStep
<1>3. RequestTypes /\ RequestInv => RecordedRunRequested
  BY DEF RequestInv
<1>. QED
  BY <1>1, <1>2, <1>3, PTL DEF Spec

-----------------------------------------------------------------------------
(* What is proved of the scheduler holds of the client *)

\* The theorems about Scheduler, for the scheduler of the client.  Their module
\* has definitions of its own, which have to be recognised as those of S.
SP == INSTANCE TriggerProofs WITH pc <- spc, dbErrors <- sDbErrors, restarts <- sRestarts,
                                  MaxDbErrors <- MaxSchedulerErrors, MaxManual <- 0

LEMMA SchedulerConstants == SP!SchedulerAssumption /\ SP!ScheduleCalcAssumption
BY ClientAssumption
   DEF SP!SchedulerAssumption, SP!ScheduleCalcAssumption, SP!Row, SP!OptTime, SP!Time

LEMMA SameNext ==
  ASSUME NEW s, NEW last, NEW t
  PROVE  SP!NextOf(s, last, t) = S!NextOf(s, last, t)
<1>1. ASSUME NEW d PROVE SP!NextCronRun(d, t) = S!NextCronRun(d, t)
  BY DEF SP!NextCronRun, S!NextCronRun, SP!IsNextOccurrence, S!IsNextOccurrence
<1>2. ASSUME NEW d PROVE SP!NextIntervalRun(d, last, t) = S!NextIntervalRun(d, last, t)
  BY DEF SP!NextIntervalRun, S!NextIntervalRun
<1>. QED
  BY <1>1, <1>2 DEF SP!NextOf, S!NextOf, SP!CalculateNextRun, S!CalculateNextRun,
     SP!IsCron, S!IsCron, SP!IsInterval, S!IsInterval

LEMMA SameSchedulerStep == SP!SchedulerStep <=> S!SchedulerStep
<1> USE DEF SP!memory, S!memory, SP!check, S!check, SP!bounds, S!bounds, SP!DbError, S!DbError,
            SP!UpdateScheduleLastRun, S!UpdateScheduleLastRun
<1>1. \A s : SP!LoadRow(s) <=> S!LoadRow(s)
  BY SameNext DEF SP!LoadRow, S!LoadRow
<1>2. SP!PlanNext <=> S!PlanNext
  <2>1. SP!NextAfterQueueing(cur) = S!NextAfterQueueing(cur)
    BY SameNext DEF SP!NextAfterQueueing, S!NextAfterQueueing
  <2>. QED
    BY <2>1 DEF SP!PlanNext, S!PlanNext, SP!EndQueueing, S!EndQueueing, SP!NoRow, S!NoRow
<1>3. \A s : SP!Send(s) <=> S!Send(s)
  BY DEF SP!Send, S!Send
<1>4. SP!CheckSchedules <=> S!CheckSchedules
  BY DEF SP!CheckSchedules, S!CheckSchedules, SP!IsDue, S!IsDue, SP!NextTick, S!NextTick
<1>5. (SP!WriteRow <=> S!WriteRow) /\ (SP!WriteMap <=> S!WriteMap)
  BY DEF SP!WriteRow, S!WriteRow, SP!WriteMap, S!WriteMap, SP!EndQueueing, S!EndQueueing,
         SP!NoRow, S!NoRow
<1>6. /\ SP!Load <=> S!Load
      /\ SP!FinishLoad <=> S!FinishLoad
      /\ SP!EndCheck <=> S!EndCheck
  BY DEF SP!Load, S!Load, SP!FinishLoad, S!FinishLoad, SP!EndCheck, S!EndCheck
<1>. QED
  BY <1>1, <1>2, <1>3, <1>4, <1>5, <1>6 DEF SP!SchedulerStep, S!SchedulerStep

LEMMA SameSchedulerEnvironment ==
  /\ SP!ProcessEnd <=> S!ProcessEnd
  /\ \A job : SP!TriggerManualBackup(job) <=> S!TriggerManualBackup(job)
  /\ \A job : SP!DeleteSchedulesOf(job) <=> S!DeleteSchedulesOf(job)
  /\ SP!AdvanceClock <=> S!AdvanceClock
  /\ SP!Consume <=> S!Consume
  /\ SP!Restart <=> S!Restart
  /\ \A s : SP!SetEnabled(s) <=> S!SetEnabled(s)
BY DEF SP!ProcessEnd, S!ProcessEnd, SP!TriggerManualBackup, S!TriggerManualBackup,
       SP!DeleteSchedulesOf, S!DeleteSchedulesOf, SP!SchedulesOf, S!SchedulesOf,
       SP!AdvanceClock, S!AdvanceClock, SP!Consume, S!Consume, SP!Restart, S!Restart,
       SP!NoRow, S!NoRow, SP!SetEnabled, S!SetEnabled,
       SP!memory, S!memory, SP!check, S!check, SP!bounds, S!bounds

LEMMA SchedulerTransfer == Spec => SP!Spec
<1>1. S!Init => SP!Init
  BY DEF SP!Init, S!Init, SP!NoRow, S!NoRow
<1>2. S!Next => SP!Next
  BY SameSchedulerStep, SameSchedulerEnvironment DEF SP!Next, S!Next
<1>3. [S!Next]_(S!vars) => [SP!Next]_(SP!vars)
  BY <1>2 DEF SP!vars, S!vars, SP!memory, S!memory, SP!check, S!check, SP!bounds, S!bounds
<1>. QED
  BY <1>1, <1>3, ClientImplementsScheduler, PTL DEF SchedulerSpec, SP!Spec, S!Spec

\* The schedules of a running client, beside the executor, the crashes and the
\* deletions: no recorded run is repeated before its next time, no due time is
\* passed over, and while no call fails the database and the map agree.
THEOREM SchedulesKeptByClient ==
  ASSUME S!OneSchedulePerJob
  PROVE  Spec => /\ []S!RecordedRunNotRepeated
                 /\ S!DueTimeAdvancesBySend
                 /\ []S!DatabaseAgrees
<1>0. SP!OneSchedulePerJob
  BY DEF SP!OneSchedulePerJob, S!OneSchedulePerJob
<1>1. SP!Spec => []SP!RecordedRunNotRepeated
  BY <1>0, SchedulerConstants, SP!RecordedRunsAreNotRepeated
<1>2. SP!RecordedRunNotRepeated => S!RecordedRunNotRepeated
  BY SameNext DEF SP!RecordedRunNotRepeated, S!RecordedRunNotRepeated
<1>3. SP!Spec => SP!DueTimeAdvancesBySend
  BY <1>0, SchedulerConstants, SP!DueTimesAdvanceBySend
<1>4. [\A s \in Schedules :
         table[s].next # None /\ table'[s].next # table[s].next => spc = "planned" /\ cur = s]_(SP!vars)
      => [\A s \in Schedules :
            table[s].next # None /\ table'[s].next # table[s].next => spc = "planned" /\ cur = s]_(S!vars)
  BY DEF SP!vars, S!vars, SP!memory, S!memory, SP!check, S!check, SP!bounds, S!bounds
<1>5. SP!DueTimeAdvancesBySend => S!DueTimeAdvancesBySend
  BY <1>4, PTL DEF SP!DueTimeAdvancesBySend, S!DueTimeAdvancesBySend
<1>6. SP!Spec => []SP!DatabaseAgrees
  BY <1>0, SchedulerConstants, SP!DatabaseAndMapAgree
<1>7. SP!DatabaseAgrees => S!DatabaseAgrees
  BY DEF SP!DatabaseAgrees, S!DatabaseAgrees
<1>. QED
  BY <1>1, <1>2, <1>3, <1>5, <1>6, <1>7, SchedulerTransfer, PTL

\* Each schedule of a running client is a periodic trigger.
THEOREM ClientImplementsTrigger ==
  ASSUME S!OneSchedulePerJob
  PROVE  Spec => S!TriggerSpec
<1>0. SP!OneSchedulePerJob
  BY DEF SP!OneSchedulePerJob, S!OneSchedulePerJob
<1>1. SP!Spec => SP!TriggerSpec
  BY <1>0, SchedulerConstants, SP!ImplementsPeriodicTrigger
<1>2. /\ SP!NextRuns = S!NextRuns /\ SP!NextRuns' = S!NextRuns'
      /\ SP!Unconfirmed = S!Unconfirmed /\ SP!Unconfirmed' = S!Unconfirmed'
      /\ SP!EarliestRuns = S!EarliestRuns /\ SP!EarliestRuns' = S!EarliestRuns'
  BY SameNext DEF SP!NextRuns, S!NextRuns, SP!Unconfirmed, S!Unconfirmed,
     SP!EarliestRuns, S!EarliestRuns, SP!NextRecorded, S!NextRecorded
<1>3. SP!Trigger!Init => S!Trigger!Init
  BY <1>2 DEF SP!Trigger!Init, S!Trigger!Init
<1>4. [SP!Trigger!Next]_(SP!Trigger!vars) => [S!Trigger!Next]_(S!Trigger!vars)
  BY <1>2 DEF SP!Trigger!vars, S!Trigger!vars, SP!Trigger!Next, S!Trigger!Next,
     SP!Trigger!Tick, S!Trigger!Tick, SP!Trigger!Forget, S!Trigger!Forget,
     SP!Trigger!FirstPlan, S!Trigger!FirstPlan, SP!Trigger!Run, S!Trigger!Run,
     SP!Trigger!RunUnrecorded, S!Trigger!RunUnrecorded, SP!Trigger!Replace, S!Trigger!Replace,
     SP!Trigger!Set, S!Trigger!Set
<1>5. SP!TriggerSpec => S!TriggerSpec
  BY <1>3, <1>4, PTL DEF SP!TriggerSpec, S!TriggerSpec, SP!Trigger!Spec, S!Trigger!Spec
<1>. QED
  BY <1>1, <1>5, SchedulerTransfer, PTL

-----------------------------------------------------------------------------
(* What is proved of the executor holds of the client *)

\* The theorems about Executor, for the executor of the client.
EP == INSTANCE ExecutorProofs WITH pc <- epc, dbErrors <- eDbErrors, restarts <- eRestarts,
                                   MaxDbErrors <- MaxExecutorErrors, MaxRestarts <- MaxExits,
                                   Triggers <- {"schedule", "manual"}

LEMMA ExecutorConstants == EP!ConstantsAssumption
BY ClientAssumption DEF EP!ConstantsAssumption, EP!JobExecution, MaxExits

LEMMA SameTask ==
  ASSUME NEW e
  PROVE  EP!Task(e) <=> E!Task(e)
<1>1. EP!RunningOn(EP!Device(e)) = E!RunningOn(E!Device(e))
  BY DEF EP!RunningOn, E!RunningOn, EP!Device, E!Device, EP!Job, E!Job
<1>2. EP!CanExecute(EP!Device(e)) <=> E!CanExecute(E!Device(e))
  BY <1>1 DEF EP!CanExecute, E!CanExecute, EP!Cardinality, E!Cardinality
<1> USE DEF EP!Goto, E!Goto, EP!Return, E!Return, EP!DbError, E!DbError, EP!tables, E!tables,
            EP!external, E!external, EP!bounds, E!bounds
<1>3. EP!CheckLimit(e) <=> E!CheckLimit(e)
  BY <1>2 DEF EP!CheckLimit, E!CheckLimit
<1>4. EP!Recv(e) <=> E!Recv(e)
  BY DEF EP!Recv, E!Recv
<1>5. (EP!Lookup(e) <=> E!Lookup(e)) /\ (EP!MarkRunning(e) <=> E!MarkRunning(e))
  BY DEF EP!Lookup, E!Lookup, EP!MarkRunning, E!MarkRunning, EP!Job, E!Job, EP!Device, E!Device
<1>6. (EP!CreateRun(e) <=> E!CreateRun(e)) /\ (EP!StartRestic(e) <=> E!StartRestic(e))
  BY DEF EP!CreateRun, E!CreateRun, EP!InsertRun, E!InsertRun, EP!Job, E!Job,
     EP!StartRestic, E!StartRestic
<1>7. (EP!CollectOutput(e) <=> E!CollectOutput(e)) /\ (EP!MarkCompleted(e) <=> E!MarkCompleted(e))
  BY DEF EP!CollectOutput, E!CollectOutput, EP!MarkCompleted, E!MarkCompleted,
     EP!Job, E!Job, EP!Device, E!Device
<1>8. (EP!RecordFailure(e) <=> E!RecordFailure(e)) /\ (EP!RecordSuccess(e) <=> E!RecordSuccess(e))
  BY DEF EP!RecordFailure, E!RecordFailure, EP!RecordSuccess, E!RecordSuccess,
     EP!UpdateRun, E!UpdateRun
<1>. QED
  BY <1>3, <1>4, <1>5, <1>6, <1>7, <1>8 DEF EP!Task, E!Task

LEMMA SameExecutorEnvironment ==
  /\ EP!EnqueueRequest <=> E!EnqueueRequest
  /\ \A e : EP!ResticExit(e) <=> E!ResticExit(e)
  /\ \A e : EP!OutputFails(e) <=> E!OutputFails(e)
  /\ \A j : EP!DeleteJob(j) <=> E!DeleteJob(j)
  /\ EP!ProcessExit <=> E!ProcessExit
  /\ EP!Idle <=> E!Idle
<1> USE DEF EP!tables, E!tables, EP!external, E!external, EP!bounds, E!bounds
<1>1. EP!Room <=> E!Room
  <2>1. EP!Free = E!Free
    BY DEF EP!Free, E!Free
  <2>. QED
    BY <2>1 DEF EP!Room, E!Room, EP!Cardinality, E!Cardinality
<1>2. EP!EnqueueRequest <=> E!EnqueueRequest
  BY <1>1 DEF EP!EnqueueRequest, E!EnqueueRequest, EP!JobExecution, E!JobExecution
<1>3. \A e : (EP!ResticExit(e) <=> E!ResticExit(e)) /\ (EP!OutputFails(e) <=> E!OutputFails(e))
  BY DEF EP!ResticExit, E!ResticExit, EP!OutputFails, E!OutputFails, EP!Goto, E!Goto,
         EP!Return, E!Return
<1>4. \A j : EP!DeleteJob(j) <=> E!DeleteJob(j)
  BY DEF EP!DeleteJob, E!DeleteJob, EP!Job, E!Job
<1>5. EP!ProcessExit <=> E!ProcessExit
  BY DEF EP!ProcessExit, E!ProcessExit, EP!Live, E!Live, EP!Marked, E!Marked
<1>6. EP!Idle <=> E!Idle
  BY DEF EP!Idle, E!Idle, EP!Final, E!Final, EP!vars, E!vars
<1>. QED
  BY <1>2, <1>3, <1>4, <1>5, <1>6

LEMMA ExecutorTransfer == Spec => EP!Spec
<1>1. E!Init => EP!Init
  BY DEF EP!Init, E!Init
<1>2. E!Next => EP!Next
  BY SameTask, SameExecutorEnvironment DEF EP!Next, E!Next
<1>3. [E!Next]_(E!vars) => [EP!Next]_(EP!vars)
  BY <1>2 DEF EP!vars, E!vars, EP!tables, E!tables, EP!external, E!external, EP!bounds, E!bounds
<1>. QED
  BY <1>1, <1>3, ClientImplementsExecutor, PTL DEF ExecutorSpec, EP!Spec, E!Spec

\* The backups of a running client, beside the scheduler and its errors: no
\* slot outlives its task, a success has its snapshot and an open row its reason,
\* and a request is turned away for a backup of its device only.
THEOREM BackupsKeptByClient ==
  Spec => /\ []E!EntryNamesActiveJob
          /\ []E!SuccessHasSnapshot
          /\ []E!OpenRowExplained
          /\ E!SkipJustified
<1>1. EP!Spec => []EP!EntryNamesActiveJob
  BY ExecutorConstants, EP!EntriesAreBacked
<1>2. EP!EntryNamesActiveJob => E!EntryNamesActiveJob
  BY DEF EP!EntryNamesActiveJob, E!EntryNamesActiveJob, EP!Marked, E!Marked,
     EP!Device, E!Device, EP!Job, E!Job
<1>3. EP!Spec => []EP!SuccessHasSnapshot
  BY ExecutorConstants, EP!SuccessesAreBackups
<1>4. EP!SuccessHasSnapshot => E!SuccessHasSnapshot
  BY DEF EP!SuccessHasSnapshot, E!SuccessHasSnapshot
<1>5. EP!Spec => []EP!OpenRowExplained
  BY ExecutorConstants, EP!OpenRowsAreExplained
<1>6. EP!OpenRowExplained => E!OpenRowExplained
  BY DEF EP!OpenRowExplained, E!OpenRowExplained, EP!Final, E!Final
<1>7. EP!Spec => EP!SkipJustified
  BY ExecutorConstants, EP!SkipsAreJustified
<1>8. [\A e \in Execs :
         MaxConcurrent > 0 /\ epc[e] = "check" /\ epc'[e] = "skipped" =>
           \E f \in Execs \ {e} : epc[f] \in EP!Marked /\ EP!Device(f) = EP!Device(e)]_(EP!vars)
      => [\A e \in Execs :
            MaxConcurrent > 0 /\ epc[e] = "check" /\ epc'[e] = "skipped" =>
              \E f \in Execs \ {e} : epc[f] \in E!Marked /\ E!Device(f) = E!Device(e)]_(E!vars)
  BY DEF EP!Marked, E!Marked, EP!Device, E!Device, EP!Job, E!Job, EP!vars, E!vars,
     EP!tables, E!tables, EP!external, E!external, EP!bounds, E!bounds
<1>9. EP!SkipJustified => E!SkipJustified
  BY <1>8, PTL DEF EP!SkipJustified, E!SkipJustified
<1>. QED
  BY <1>1, <1>2, <1>3, <1>4, <1>5, <1>6, <1>7, <1>9, ExecutorTransfer, PTL

\* The rows of runs that a running client writes tell of its snapshots.
THEOREM ClientImplementsRunHistory == Spec => E!HistorySpec
<1>1. EP!Spec => EP!HistorySpec
  BY ExecutorConstants, EP!ImplementsRunHistory
<1>2. EP!HistorySpec => E!HistorySpec
  <2>1. EP!History!Init => E!History!Init
    BY DEF EP!History!Init, E!History!Init
  <2>2. [EP!History!Next]_(EP!History!vars) => [E!History!Next]_(E!History!vars)
    BY DEF EP!History!vars, E!History!vars, EP!History!Next, E!History!Next,
       EP!History!Open, E!History!Open, EP!History!Fail, E!History!Fail,
       EP!History!Succeed, E!History!Succeed, EP!History!Snapshot, E!History!Snapshot,
       EP!History!Purge, E!History!Purge, EP!History!Move, E!History!Move
  <2>. QED
    BY <2>1, <2>2, PTL DEF EP!HistorySpec, E!HistorySpec, EP!History!Spec, E!History!Spec
<1>. QED
  BY <1>1, <1>2, ExecutorTransfer, PTL
=============================================================================
