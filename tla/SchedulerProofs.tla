-------------------------- MODULE SchedulerProofs --------------------------
(***************************************************************************)
(* Safety of Scheduler for all schedules, times, horizons, queue sizes,    *)
(* and any number of restarts, database errors and edits.                  *)
(***************************************************************************)
EXTENDS Scheduler, SequenceTheorems, TLAPS

-----------------------------------------------------------------------------
(* calculate_next_run *)

\* What calculate_next_run returns is a time, or an error.
LEMMA NextTyped ==
  ASSUME NEW s \in Schedules, NEW last \in OptTime, NEW t \in Time
  PROVE  NextOf(s, last, t) \in OptTime
<1> USE ScheduleCalcAssumption DEF OptTime, Time
<1> DEFINE d == Def[s]
<1>1. NextCronRun(d, t) \in OptTime
  <2>1. CASE /\ d.cron_expression \in DOMAIN Occurrences
             /\ \E u \in Occurrences[d.cron_expression] : IsNextOccurrence(d.cron_expression, t, u)
    BY <2>1 DEF NextCronRun
  <2>. QED
    BY <2>1 DEF NextCronRun
<1>2. NextIntervalRun(d, last, t) \in OptTime
  BY DEF NextIntervalRun
<1>. QED
  BY <1>1, <1>2 DEF NextOf, CalculateNextRun

\* The occurrence that NextCronRun returns.
LEMMA NextCronRunIsNext ==
  ASSUME NEW d, NEW t \in Time, NextCronRun(d, t) # None
  PROVE  IsNextOccurrence(d.cron_expression, t, NextCronRun(d, t))
BY DEF NextCronRun

\* The next run after a run at t is not moved forward by running later: of two
\* times at which queue_job calculates it, the later gives the later result.
LEMMA NextMonotone ==
  ASSUME NEW s \in Schedules, NEW t \in Time, NEW u \in Time, t <= u,
         NextOf(s, t, t) # None, NextOf(s, u, u) # None
  PROVE  NextOf(s, t, t) <= NextOf(s, u, u)
<1> USE ScheduleCalcAssumption DEF Time
<1> DEFINE d == Def[s]
<1>1. CASE IsCron(d)
  <2>1. NextOf(s, t, t) = NextCronRun(d, t) /\ NextOf(s, u, u) = NextCronRun(d, u)
    BY <1>1 DEF NextOf, CalculateNextRun
  <2>2. d.cron_expression \in DOMAIN Occurrences
    BY <2>1 DEF NextCronRun
  <2>3. /\ IsNextOccurrence(d.cron_expression, t, NextCronRun(d, t))
        /\ IsNextOccurrence(d.cron_expression, u, NextCronRun(d, u))
    BY <2>1, NextCronRunIsNext
  <2>4. NextCronRun(d, u) \in Occurrences[d.cron_expression] /\ NextCronRun(d, u) > t
    BY <2>2, <2>3 DEF IsNextOccurrence
  <2>. QED
    BY <2>1, <2>3, <2>4 DEF IsNextOccurrence
<1>2. CASE ~IsCron(d)
  BY <1>2 DEF NextOf, CalculateNextRun, NextIntervalRun
<1>. QED
  BY <1>1, <1>2

\* The next run after a run at t lies after t.
LEMMA NextAhead ==
  ASSUME NEW s \in Schedules, NEW t \in Time, NextOf(s, t, t) # None
  PROVE  NextOf(s, t, t) \in Nat /\ NextOf(s, t, t) > t
<1> USE ScheduleCalcAssumption DEF Time
<1> DEFINE d == Def[s]
<1>1. CASE IsCron(d)
  <2>1. NextOf(s, t, t) = NextCronRun(d, t)
    BY <1>1 DEF NextOf, CalculateNextRun
  <2>2. d.cron_expression \in DOMAIN Occurrences
    BY <2>1 DEF NextCronRun
  <2>. QED
    BY <2>1, <2>2, NextCronRunIsNext DEF IsNextOccurrence
<1>2. CASE ~IsCron(d)
  BY <1>2 DEF NextOf, CalculateNextRun, NextIntervalRun
<1>. QED
  BY <1>1, <1>2

-----------------------------------------------------------------------------
(* Types *)

LEMMA InitTypeOK == Init => TypeOK
BY SchedulerAssumption, ScheduleCalcAssumption DEF Init, TypeOK, Pc, Queueing, Row, NoRow, OptTime, Time

\* What UpdateScheduleLastRun does to the types of the table.
LEMMA UpdateTyped ==
  ASSUME TypeOK, NEW job, NEW last \in OptTime, NEW next \in OptTime,
         UpdateScheduleLastRun(job, last, next)
  PROVE  table' \in [Schedules -> Row]
BY DEF TypeOK, UpdateScheduleLastRun, Row

LEMMA StepTypeOK == TypeOK /\ [Next]_vars => TypeOK'
<1> SUFFICES ASSUME TypeOK, [Next]_vars PROVE TypeOK'
  OBVIOUS
<1> USE SchedulerAssumption, ScheduleCalcAssumption DEF TypeOK, Pc, Queueing
<1>1. CASE Load
  <2>1. /\ loaded' \subseteq Schedules /\ todo' \subseteq loaded'
        /\ schedules' \in [Schedules -> Row]
    BY <1>1 DEF Load, memory, check
  <2>2. pc' \in {"loading", "stopped"} /\ pc = "start"
    BY <1>1 DEF Load
  <2>3. dbErrors' \in Nat /\ restarts' \in Nat /\ edits' \in Nat /\ manual' \in Nat
    BY <1>1 DEF Load, DbError, bounds
  <2>4. UNCHANGED <<now, tick, due, cur, plan, queue, table, enabled, recorded>>
    BY <1>1 DEF Load, check
  <2>. QED
    BY <2>1, <2>2, <2>3, <2>4
<1>2. ASSUME NEW s \in Schedules, LoadRow(s) PROVE TypeOK'
  <2> DEFINE next == NextOf(s, schedules[s].last, now)
             last == IF schedules[s].last = None THEN now ELSE schedules[s].last
  <2>1. schedules[s].last \in OptTime /\ last \in OptTime
    BY DEF Row, OptTime, Time
  <2>2. next \in OptTime
    BY <2>1, NextTyped DEF Time
  <2>3. table' \in [Schedules -> Row]
    BY <1>2, <2>1, <2>2, UpdateTyped DEF LoadRow
  <2>4. schedules' \in [Schedules -> Row]
    BY SMTT(30), <1>2, <2>2 DEF LoadRow, memory, Row
  <2>5. loaded' = loaded /\ todo' \subseteq loaded
    BY <1>2 DEF LoadRow, memory
  <2>6. pc' \in {"loading", "stopped"} /\ pc = "loading"
    BY <1>2 DEF LoadRow
  <2>7. dbErrors' \in Nat /\ restarts' \in Nat /\ edits' \in Nat /\ manual' \in Nat
    BY SMTT(30), <1>2 DEF LoadRow, DbError, bounds
  <2>8. UNCHANGED <<now, tick, due, cur, plan, queue, enabled, recorded>>
    BY <1>2 DEF LoadRow, check
  <2>. QED
    BY <2>3, <2>4, <2>5, <2>6, <2>7, <2>8
<1>3. CASE FinishLoad
  BY <1>3 DEF FinishLoad, memory, check, bounds
<1>4. CASE CheckSchedules
  <2>1. tick' \in Nat
    BY <1>4 DEF CheckSchedules, NextTick
  <2>. QED
    BY <1>4, <2>1 DEF CheckSchedules, memory, bounds
<1>5. ASSUME NEW s \in Schedules, Send(s) PROVE TypeOK'
  <2>1. [job_id |-> JobOf[s], triggered_by |-> "schedule"] \in JobExecution
    BY DEF JobExecution
  <2>2. queue' \in Seq(JobExecution)
    BY <1>5, <2>1 DEF Send
  <2>. QED
    BY <1>5, <2>2 DEF Send, memory, bounds
<1>6. CASE PlanNext
  <2> DEFINE next == NextOf(cur, now, now)
  <2>1. cur \in Schedules /\ next \in OptTime /\ now \in OptTime
    BY <1>6, NextTyped DEF PlanNext, OptTime, Time
  <2>2. UNCHANGED <<now, tick, memory, queue, table, enabled, recorded, bounds>>
    BY <1>6 DEF PlanNext
  <2>3. CASE EndQueueing
    BY <2>2, <2>3 DEF EndQueueing, memory, bounds, NoRow, Row, OptTime
  <2>4. CASE pc' = "planned" /\ plan' = [last |-> now, next |-> next] /\ UNCHANGED <<due, cur>>
    <3>1. plan' \in Row /\ plan'.last # None
      BY <2>1, <2>4 DEF Row
    <3>2. plan' # NoRow
      BY <3>1 DEF NoRow
    <3>. QED
      BY <1>6, <2>2, <2>4, <3>1, <3>2 DEF PlanNext, memory, bounds
  <2>. QED
    BY <1>6, <2>3, <2>4 DEF PlanNext, NextAfterQueueing
<1>16. CASE WriteRow
  <2>1. cur \in Schedules /\ plan.last \in OptTime /\ plan.next \in OptTime
    BY <1>16 DEF WriteRow, Row
  <2>2. table' \in [Schedules -> Row] /\ recorded' \in [Schedules -> OptTime]
    BY <1>16, <2>1, UpdateTyped DEF WriteRow
  <2>3. dbErrors' \in Nat /\ restarts' \in Nat /\ edits' \in Nat /\ manual' \in Nat
    BY <1>16 DEF WriteRow, DbError, bounds
  <2>4. UNCHANGED <<now, tick, memory, queue, enabled>> /\ pc = "planned"
        /\ ((pc' = "written" /\ UNCHANGED check) \/ EndQueueing)
    BY <1>16 DEF WriteRow
  <2>5. NoRow \in Row
    BY DEF NoRow, Row, OptTime
  <2>6. CASE pc' = "written" /\ UNCHANGED check
    BY <2>2, <2>3, <2>4, <2>6 DEF memory, check
  <2>7. CASE EndQueueing
    BY <2>2, <2>3, <2>4, <2>5, <2>7 DEF EndQueueing, memory
  <2>. QED
    BY <2>4, <2>6, <2>7
<1>17. CASE WriteMap
  <2>1. schedules' \in [Schedules -> Row] /\ NoRow \in Row
    BY <1>17 DEF WriteMap, NoRow, Row, OptTime
  <2>. QED
    BY <1>17, <2>1 DEF WriteMap, EndQueueing, bounds
<1>7. CASE EndCheck
  BY <1>7 DEF EndCheck, memory, check, bounds
<1>8. ASSUME NEW job \in Jobs, TriggerManualBackup(job) PROVE TypeOK'
  <2>1. [job_id |-> job, triggered_by |-> "manual"] \in JobExecution
    BY DEF JobExecution
  <2>2. queue' \in Seq(JobExecution)
    BY <1>8, <2>1 DEF TriggerManualBackup
  <2>. QED
    BY <1>8, <2>2 DEF TriggerManualBackup, memory, check
<1>9. CASE AdvanceClock
  BY <1>9 DEF AdvanceClock, memory, check, bounds
<1>10. CASE Consume
  <2>1. queue' \in Seq(JobExecution)
    BY <1>10 DEF Consume
  <2>. QED
    BY <1>10, <2>1 DEF Consume, memory, check, bounds
<1>11. CASE Restart
  <2>1. NoRow \in Row
    BY DEF NoRow, Row, OptTime
  <2>. QED
    BY <1>11, <2>1 DEF Restart
<1>12. ASSUME NEW s \in Schedules, SetEnabled(s) PROVE TypeOK'
  BY <1>12 DEF SetEnabled, memory, check
<1>13. CASE UNCHANGED vars
  BY <1>13 DEF vars, memory, check, bounds
<1>14. CASE ProcessEnd
  <2>1. queue' \in Seq(JobExecution)
    BY <1>14 DEF ProcessEnd
  <2>. QED
    BY <1>14, <2>1 DEF ProcessEnd, memory, check, bounds
<1>15. ASSUME NEW job \in Jobs, DeleteSchedulesOf(job) PROVE TypeOK'
  BY <1>15 DEF DeleteSchedulesOf, memory, check
<1>. QED
  BY <1>1, <1>2, <1>3, <1>4, <1>5, <1>6, <1>7, <1>8, <1>9, <1>10, <1>11, <1>12, <1>13,
     <1>14, <1>15, <1>16, <1>17 DEF Next, SchedulerStep

\* Every variable keeps its type (type correctness of the scheduler model).
THEOREM TypeCorrect == Spec => []TypeOK
  BY InitTypeOK, StepTypeOK, PTL DEF Spec

-----------------------------------------------------------------------------
(* Recorded runs and due times, for jobs with one schedule each *)

\* A recorded run has moved the row to its next time or beyond, and so any copy
\* of it that is loaded, unless queue_job has still to write it.
RecordedRunPlanned ==
  \A s \in Schedules : recorded[s] # None =>
    /\ recorded[s] <= now
    /\ NextRecorded(s) # None
    /\ table[s].next # None /\ NextRecorded(s) <= table[s].next
    /\ s \in loaded /\ ~(pc = "written" /\ cur = s) =>
         schedules[s].next # None /\ NextRecorded(s) <= schedules[s].next

\* Rows still to be planned have no time yet; all other loaded rows have one.
TodoUnplanned ==
  /\ \A s \in todo : table[s].next = None
  /\ \A s \in loaded \ todo : schedules[s].next # None
  /\ pc \in {"idle", "checking"} \cup Queueing => todo = {}

\* What check_schedules found due, and what was sent, is due.
DueHasCome ==
  /\ \A s \in due : schedules[s].next <= now
  /\ pc \in Queueing => cur \in loaded /\ cur \notin due
  /\ pc = "sent" => schedules[cur].next <= now

\* The plan was made when the schedule was due, and is the row's once written.
PlanMade ==
  /\ pc \in {"planned", "written"} =>
       /\ plan.last \in Nat /\ plan.last <= now /\ schedules[cur].next <= plan.last
       /\ plan.next # None /\ plan.next = NextOf(cur, plan.last, plan.last)
  /\ pc = "written" => table[cur] = plan /\ recorded[cur] = plan.last

\* RecordedRunNotRepeated compares now with the recorded run; what links them
\* is the time in the row, its copy in the map, the plan on its way from one to
\* the other, and the set of due schedules.
TimeInv == RecordedRunPlanned /\ TodoUnplanned /\ DueHasCome /\ PlanMade

\* UPDATE ... WHERE job_id touches one row if no other schedule has the job.
LEMMA UpdateOwnRow ==
  ASSUME OneSchedulePerJob, NEW s \in Schedules, NEW last, NEW next,
         table \in [Schedules -> Row],
         UpdateScheduleLastRun(JobOf[s], last, next)
  PROVE  /\ table'[s] = [last |-> last, next |-> next]
         /\ \A t \in Schedules \ {s} : table'[t] = table[t]
BY DEF UpdateScheduleLastRun, OneSchedulePerJob

\* The step that reload_schedules makes for a row.
LEMMA LoadRowStep ==
  ASSUME OneSchedulePerJob, TypeOK, TodoUnplanned, NEW s \in Schedules, LoadRow(s)
  PROVE  /\ s \in todo /\ pc = "loading"
         /\ \/ pc' = "stopped" /\ UNCHANGED <<memory, table>>
            \/ /\ pc' = "loading" /\ UNCHANGED loaded /\ todo' = todo \ {s}
               /\ NextOf(s, schedules[s].last, now) # None
               /\ schedules' = [schedules EXCEPT ![s].next = NextOf(s, schedules[s].last, now)]
               /\ \/ table' = table
                  \/ table'[s].next = NextOf(s, schedules[s].last, now)
               /\ \A t \in Schedules \ {s} : table'[t] = table[t]
         /\ UNCHANGED <<now, due, cur, recorded, enabled>>
<1> DEFINE next == NextOf(s, schedules[s].last, now)
           last == IF schedules[s].last = None THEN now ELSE schedules[s].last
<1>1. s \in todo /\ pc = "loading" /\ UNCHANGED <<now, due, cur, recorded, enabled>>
  BY DEF LoadRow, check
<1>2. \/ next = None /\ pc' = "stopped" /\ UNCHANGED <<memory, table>>
      \/ /\ next # None /\ pc' = pc /\ UNCHANGED loaded /\ todo' = todo \ {s}
         /\ schedules' = [schedules EXCEPT ![s].next = next]
         /\ UpdateScheduleLastRun(JobOf[s], last, next) \/ UNCHANGED table
  BY DEF LoadRow
<1>3. UpdateScheduleLastRun(JobOf[s], last, next) =>
        table'[s].next = next /\ \A t \in Schedules \ {s} : table'[t] = table[t]
  <2> SUFFICES ASSUME UpdateScheduleLastRun(JobOf[s], last, next)
               PROVE  table'[s].next = next /\ \A t \in Schedules \ {s} : table'[t] = table[t]
    OBVIOUS
  <2>1. table'[s] = [last |-> last, next |-> next] /\ \A t \in Schedules \ {s} : table'[t] = table[t]
    BY UpdateOwnRow DEF TypeOK
  <2>. QED
    BY <2>1
<1>. QED
  BY <1>1, <1>2, <1>3

\* The three steps that queue_job makes after a send.
LEMMA PlanNextStep ==
  ASSUME TypeOK, PlanNext
  PROVE  /\ pc = "sent" /\ cur \in Schedules
         /\ UNCHANGED <<now, loaded, schedules, todo, due, table, recorded, enabled, dbErrors>>
         /\ \/ pc' = "checking" /\ cur' = None /\ plan' = NoRow
            \/ /\ pc' = "planned" /\ cur' = cur
               /\ NextOf(cur, now, now) # None
               /\ plan' = [last |-> now, next |-> NextOf(cur, now, now)]
BY DEF PlanNext, NextAfterQueueing, EndQueueing, TypeOK, Queueing, memory, bounds

LEMMA WriteRowStep ==
  ASSUME OneSchedulePerJob, TypeOK, WriteRow
  PROVE  /\ pc = "planned" /\ cur \in Schedules
         /\ UNCHANGED <<now, loaded, schedules, todo, due, enabled>>
         /\ \A t \in Schedules \ {cur} : table'[t] = table[t] /\ recorded'[t] = recorded[t]
         /\ \/ /\ pc' = "written" /\ UNCHANGED <<cur, plan, dbErrors>>
               /\ table'[cur] = plan /\ recorded'[cur] = plan.last
            \/ /\ pc' = "checking" /\ cur' = None /\ plan' = NoRow
               /\ table' = table \/ table'[cur] = plan
               /\ recorded' = recorded /\ dbErrors' > 0
<1>1. /\ pc = "planned" /\ cur \in Schedules
      /\ UNCHANGED <<now, loaded, schedules, todo, enabled>>
  BY DEF WriteRow, TypeOK, Queueing, memory
<1>2. plan = [last |-> plan.last, next |-> plan.next]
  BY DEF TypeOK, Row
<1>3. UpdateScheduleLastRun(JobOf[cur], plan.last, plan.next) =>
        /\ table'[cur] = plan
        /\ \A t \in Schedules \ {cur} : table'[t] = table[t]
  BY <1>1, <1>2, UpdateOwnRow DEF TypeOK
<1>4. \/ /\ UpdateScheduleLastRun(JobOf[cur], plan.last, plan.next)
         /\ recorded' = [recorded EXCEPT ![cur] = plan.last]
         /\ pc' = "written" /\ UNCHANGED <<due, cur, plan, dbErrors>>
      \/ /\ UpdateScheduleLastRun(JobOf[cur], plan.last, plan.next) \/ UNCHANGED table
         /\ pc' = "checking" /\ cur' = None /\ plan' = NoRow
         /\ UNCHANGED <<due, recorded>> /\ dbErrors' = dbErrors + 1
  BY DEF WriteRow, DbError, EndQueueing, check, bounds
<1>5. dbErrors' = dbErrors + 1 => dbErrors' > 0
  BY DEF TypeOK
<1>. QED
  BY <1>1, <1>3, <1>4, <1>5 DEF TypeOK

LEMMA WriteMapStep ==
  ASSUME TypeOK, WriteMap
  PROVE  /\ pc = "written" /\ cur \in Schedules
         /\ pc' = "checking" /\ cur' = None /\ plan' = NoRow
         /\ UNCHANGED <<now, loaded, todo, due, table, recorded, enabled, dbErrors>>
         /\ schedules'[cur] = plan
         /\ \A t \in Schedules \ {cur} : schedules'[t] = schedules[t]
BY DEF WriteMap, EndQueueing, TypeOK, Queueing, bounds

LEMMA StepTimeInv ==
  ASSUME OneSchedulePerJob, TypeOK, TimeInv, [Next]_vars
  PROVE  TimeInv'
<1> USE SchedulerAssumption, ScheduleCalcAssumption
    DEF TimeInv, RecordedRunPlanned, TodoUnplanned, DueHasCome, PlanMade, NextRecorded, Queueing
<1>0. TypeOK'
  BY StepTypeOK
<1>t. \A s \in Schedules : /\ recorded[s] # None => recorded[s] \in Nat /\ NextRecorded(s) \in OptTime
                           /\ table[s].next \in OptTime /\ schedules[s].next \in OptTime
  BY NextTyped DEF TypeOK, Row, OptTime, Time
<1>1. CASE Load
  BY <1>1 DEF Load, memory, check, TypeOK
<1>2. ASSUME NEW s \in Schedules, LoadRow(s) PROVE TimeInv'
  <2>1. recorded[s] = None
    BY <1>2, LoadRowStep
  <2>2. \A t \in due : FALSE
    BY <1>2, LoadRowStep DEF TypeOK
  <2>3. \A t \in Schedules \ {s} : table'[t] = table[t] /\ schedules'[t] = schedules[t]
    BY SMTT(30), <1>2, LoadRowStep DEF TypeOK, memory
  <2>4. RecordedRunPlanned'
    BY <1>2, LoadRowStep, <2>1, <2>3 DEF memory
  <2>5. TodoUnplanned'
    <3>1. CASE pc' = "stopped" /\ UNCHANGED <<memory, table>>
      BY <3>1 DEF memory
    <3>2. CASE /\ pc' = "loading" /\ UNCHANGED loaded /\ todo' = todo \ {s}
               /\ schedules'[s].next # None
      BY <2>3, <3>2 DEF TypeOK
    <3>3. NextOf(s, schedules[s].last, now) # None
             /\ schedules' = [schedules EXCEPT ![s].next = NextOf(s, schedules[s].last, now)]
          => schedules'[s].next # None
      BY DEF TypeOK, Row
    <3>. QED
      BY <1>2, LoadRowStep, <3>1, <3>2, <3>3
  <2>6. pc' \in {"loading", "stopped"} /\ due' = due
    BY <1>2, LoadRowStep
  <2>7. DueHasCome' /\ PlanMade'
    BY <2>2, <2>6
  <2>. QED
    BY <2>4, <2>5, <2>7
<1>3. CASE FinishLoad
  BY <1>3 DEF FinishLoad, memory, check, TypeOK
<1>4. CASE CheckSchedules
  BY <1>4 DEF CheckSchedules, memory, IsDue, TypeOK
<1>5. ASSUME NEW s \in Schedules, Send(s) PROVE TimeInv'
  BY <1>5 DEF Send, memory, TypeOK
<1>6. CASE PlanNext
  <2>1. now \in Nat /\ schedules[cur].next <= now
    BY <1>6, PlanNextStep DEF TypeOK
  <2>2. RecordedRunPlanned' /\ TodoUnplanned' /\ DueHasCome'
    BY <1>6, PlanNextStep
  <2>3. PlanMade'
    BY <1>6, <2>1, PlanNextStep
  <2>. QED
    BY <2>2, <2>3
<1>16. CASE WriteRow
  <2>1. /\ plan.last \in Nat /\ schedules[cur].next \in Nat /\ cur \in Schedules
        /\ plan.next = NextOf(cur, plan.last, plan.last) /\ plan.next # None
        /\ schedules[cur].next <= plan.last /\ plan.last <= now
    <3>1. pc = "planned" /\ cur \in Schedules
      BY <1>16, WriteRowStep
    <3>. QED
      BY <3>1, <1>t DEF OptTime, Time
  <2>2. plan.next \in Nat /\ schedules[cur].next < plan.next
    BY <2>1, NextAhead DEF Time
  <2>3. recorded[cur] # None => NextRecorded(cur) \in Nat /\ NextRecorded(cur) < plan.next
    BY <1>16, <1>t, <2>1, <2>2, WriteRowStep DEF OptTime, Time
  <2>4. RecordedRunPlanned'
    <3>1. ASSUME NEW t \in Schedules \ {cur}, recorded'[t] # None
          PROVE  /\ recorded'[t] <= now' /\ NextRecorded(t)' # None
                 /\ table'[t].next # None /\ NextRecorded(t)' <= table'[t].next
                 /\ t \in loaded' =>
                      schedules'[t].next # None /\ NextRecorded(t)' <= schedules'[t].next
      BY <1>16, <3>1, WriteRowStep
    <3>2. CASE pc' = "written" /\ cur' = cur /\ table'[cur] = plan /\ recorded'[cur] = plan.last
      <4>1. now' = now
        BY <1>16, WriteRowStep
      <4>2. \A t \in Schedules : t = cur =>
              /\ recorded'[t] <= now' /\ NextRecorded(t)' # None
              /\ table'[t].next # None /\ NextRecorded(t)' <= table'[t].next
        BY <2>1, <2>2, <3>2, <4>1
      <4>. QED
        BY <3>1, <3>2, <4>2
    <3>3. CASE /\ pc' = "checking" /\ recorded' = recorded
               /\ table' = table \/ table'[cur] = plan
      <4>1. UNCHANGED <<now, loaded, schedules>> /\ pc = "planned"
        BY <1>16, WriteRowStep
      <4>. QED
        BY <2>1, <2>2, <2>3, <3>1, <3>3, <4>1
    <3>. QED
      BY <1>16, <3>2, <3>3, WriteRowStep
  <2>5. TodoUnplanned' /\ DueHasCome'
    BY <1>16, WriteRowStep
  <2>6. PlanMade'
    BY <1>16, <2>1, WriteRowStep
  <2>. QED
    BY <2>4, <2>5, <2>6
<1>17. CASE WriteMap
  <2>1. /\ table[cur] = plan /\ recorded[cur] = plan.last /\ plan.next # None
        /\ plan.next = NextRecorded(cur)
    BY <1>17, WriteMapStep
  <2>2. plan.next \in Nat
    BY <1>17, <1>t, <2>1, WriteMapStep DEF OptTime, Time
  <2>3. RecordedRunPlanned'
    BY <1>17, <2>1, <2>2, WriteMapStep
  <2>4. TodoUnplanned' /\ DueHasCome' /\ PlanMade'
    BY <1>17, <2>1, WriteMapStep DEF TypeOK
  <2>. QED
    BY <2>3, <2>4
<1>7. CASE EndCheck
  BY <1>7 DEF EndCheck, memory, check
<1>8. ASSUME NEW job \in Jobs, TriggerManualBackup(job) PROVE TimeInv'
  BY <1>8 DEF TriggerManualBackup, memory, check
<1>9. CASE AdvanceClock
  <2>1. now' = now + 1 /\ UNCHANGED <<pc, memory, check, table, recorded>>
    BY <1>9 DEF AdvanceClock
  <2>2. now \in Nat /\ \A s \in due : schedules[s].next \in OptTime /\ schedules[s].next # None
    BY <1>t DEF TypeOK
  <2>3. pc = "sent" => schedules[cur].next \in OptTime /\ schedules[cur].next # None
    BY <1>t DEF TypeOK
  <2>. QED
    BY <2>1, <2>2, <2>3, <1>t DEF memory, check, OptTime, Time, TypeOK
<1>10. CASE Consume
  BY <1>10 DEF Consume, memory, check
<1>11. CASE Restart
  BY <1>11 DEF Restart
<1>12. ASSUME NEW s \in Schedules, SetEnabled(s) PROVE TimeInv'
  BY <1>12 DEF SetEnabled, memory, check
<1>13. CASE UNCHANGED vars
  BY <1>13 DEF vars, memory, check
<1>14. CASE ProcessEnd
  BY <1>14 DEF ProcessEnd, memory, check
<1>15. ASSUME NEW job \in Jobs, DeleteSchedulesOf(job) PROVE TimeInv'
  BY <1>15 DEF DeleteSchedulesOf, memory, check
<1>. QED
  BY <1>1, <1>2, <1>3, <1>4, <1>5, <1>6, <1>7, <1>8, <1>9, <1>10, <1>11, <1>12, <1>13,
     <1>14, <1>15, <1>16, <1>17 DEF Next, SchedulerStep

LEMMA TimeInvariant ==
  ASSUME OneSchedulePerJob
  PROVE  Spec => []TimeInv
<1>1. Init => TimeInv
  BY DEF Init, TimeInv, RecordedRunPlanned, TodoUnplanned, DueHasCome, PlanMade, Queueing
<1>2. TypeOK /\ TimeInv /\ [Next]_vars => TimeInv'
  BY StepTimeInv
<1>. QED
  BY <1>1, <1>2, TypeCorrect, PTL DEF Spec

\* With one schedule per job, a run that queue_job recorded is not repeated
\* before its next time, through any restarts, edits and failing calls.
THEOREM RecordedRunsAreNotRepeated ==
  ASSUME OneSchedulePerJob
  PROVE  Spec => []RecordedRunNotRepeated
<1>1. TypeOK /\ TimeInv => RecordedRunNotRepeated
  <2> SUFFICES ASSUME TypeOK, TimeInv, pc = "sent", recorded[cur] # None
               PROVE  NextOf(cur, recorded[cur], recorded[cur]) <= now
    BY DEF RecordedRunNotRepeated
  <2>1. cur \in Schedules /\ cur \in loaded /\ schedules[cur].next <= now
    BY DEF TypeOK, TimeInv, DueHasCome, Queueing
  <2>2. NextRecorded(cur) # None /\ NextRecorded(cur) <= schedules[cur].next
        /\ schedules[cur].next # None
    BY <2>1 DEF TimeInv, RecordedRunPlanned
  <2>3. NextRecorded(cur) \in Nat /\ schedules[cur].next \in Nat /\ now \in Nat
    BY <2>1, <2>2, NextTyped DEF TypeOK, Row, OptTime, Time, NextRecorded
  <2>. QED
    BY <2>1, <2>2, <2>3 DEF NextRecorded
<1>. QED
  BY <1>1, TypeCorrect, TimeInvariant, PTL

\* With one schedule per job, no due time in the database is passed over: only
\* a send for the schedule moves it.
THEOREM DueTimesAdvanceBySend ==
  ASSUME OneSchedulePerJob
  PROVE  Spec => DueTimeAdvancesBySend
<1>1. ASSUME TypeOK, TimeInv, [Next]_vars, NEW s \in Schedules,
             table[s].next # None, table'[s].next # table[s].next
      PROVE  pc = "planned" /\ cur = s
  <2> USE <1>1
  <2>1. ASSUME NEW t \in Schedules, LoadRow(t) PROVE FALSE
    <3>1. table[t].next = None
      BY <2>1, LoadRowStep DEF TimeInv, TodoUnplanned
    <3>2. table'[s] = table[s]
      BY <2>1, <3>1, LoadRowStep DEF TimeInv
    <3>. QED
      BY <3>2
  <2>2. CASE WriteRow
    BY <2>2, WriteRowStep
  <2>3. CASE UNCHANGED table
    BY <2>3
  <2>4. \/ WriteRow \/ (\E t \in Schedules : LoadRow(t)) \/ UNCHANGED table
    BY DEF Next, SchedulerStep, PlanNext, WriteMap, ProcessEnd, DeleteSchedulesOf, Load, FinishLoad, CheckSchedules, Send, EndCheck,
           TriggerManualBackup, AdvanceClock, Consume, Restart, SetEnabled, vars
  <2>. QED
    BY <2>1, <2>2, <2>3, <2>4
<1>2. TypeOK /\ TimeInv /\ [Next]_vars =>
        [\A s \in Schedules :
           table[s].next # None /\ table'[s].next # table[s].next =>
             pc = "planned" /\ cur = s]_vars
  BY <1>1
<1>. QED
  BY <1>2, TypeCorrect, TimeInvariant, PTL DEF Spec, DueTimeAdvancesBySend

-----------------------------------------------------------------------------
(* The database and the map *)

\* DatabaseAgrees, extended to the moments between which it has to be kept.
\* While queue_job has written the row and not the map, its schedule is apart.
MapAgrees ==
  pc \in {"loading", "idle", "checking"} \cup Queueing /\ dbErrors = 0 =>
    \A s \in loaded : table[s].next = schedules[s].next \/ (pc = "written" /\ cur = s)

LEMMA StepMapAgrees ==
  ASSUME OneSchedulePerJob, TypeOK, TimeInv, MapAgrees, [Next]_vars
  PROVE  MapAgrees'
<1> USE DEF MapAgrees, Queueing
<1>1. CASE Load
  BY <1>1 DEF Load
<1>2. ASSUME NEW s \in Schedules, LoadRow(s) PROVE MapAgrees'
  <2> DEFINE next == NextOf(s, schedules[s].last, now)
             last == IF schedules[s].last = None THEN now ELSE schedules[s].last
  <2> SUFFICES ASSUME pc' # "stopped", dbErrors' = 0
               PROVE  \A t \in loaded' : table'[t].next = schedules'[t].next
    OBVIOUS
  <2>1. pc = "loading" /\ UNCHANGED loaded /\ schedules' = [schedules EXCEPT ![s].next = next]
    BY <1>2 DEF LoadRow
  <2>2. dbErrors = 0 /\ UpdateScheduleLastRun(JobOf[s], last, next)
    BY <1>2 DEF LoadRow, DbError, bounds, TypeOK
  <2>3. table'[s] = [last |-> last, next |-> next] /\ \A t \in Schedules \ {s} : table'[t] = table[t]
    BY <2>2, UpdateOwnRow DEF TypeOK
  <2>. QED
    BY <2>1, <2>2, <2>3 DEF TypeOK, Row
<1>3. CASE FinishLoad
  BY <1>3 DEF FinishLoad, memory, bounds
<1>4. CASE CheckSchedules
  BY <1>4 DEF CheckSchedules, memory, bounds
<1>5. ASSUME NEW s \in Schedules, Send(s) PROVE MapAgrees'
  BY <1>5 DEF Send, memory, check, bounds
<1>6. CASE PlanNext
  BY <1>6, PlanNextStep
<1>16. CASE WriteRow
  BY <1>16, WriteRowStep DEF TypeOK
<1>17. CASE WriteMap
  BY <1>17, WriteMapStep DEF TimeInv, PlanMade, TypeOK
<1>7. CASE EndCheck
  BY <1>7 DEF EndCheck, memory, check, bounds
<1>8. ASSUME NEW job \in Jobs, TriggerManualBackup(job) PROVE MapAgrees'
  BY <1>8 DEF TriggerManualBackup, memory, check
<1>9. CASE AdvanceClock
  BY <1>9 DEF AdvanceClock, memory, check, bounds
<1>10. CASE Consume
  BY <1>10 DEF Consume, memory, check, bounds
<1>11. CASE Restart
  BY <1>11 DEF Restart
<1>12. ASSUME NEW s \in Schedules, SetEnabled(s) PROVE MapAgrees'
  BY <1>12 DEF SetEnabled, memory, check
<1>13. CASE UNCHANGED vars
  BY <1>13 DEF vars, memory, check, bounds
<1>14. CASE ProcessEnd
  BY <1>14 DEF ProcessEnd, memory, check, bounds
<1>15. ASSUME NEW job \in Jobs, DeleteSchedulesOf(job) PROVE MapAgrees'
  BY <1>15 DEF DeleteSchedulesOf, memory, check
<1>. QED
  BY <1>1, <1>2, <1>3, <1>4, <1>5, <1>6, <1>7, <1>8, <1>9, <1>10, <1>11, <1>12, <1>13,
     <1>14, <1>15, <1>16, <1>17 DEF Next, SchedulerStep

\* With one schedule per job and no failing call, a restart between two calls
\* of queue_job changes no plan: database and map agree.
THEOREM DatabaseAndMapAgree ==
  ASSUME OneSchedulePerJob
  PROVE  Spec => []DatabaseAgrees
<1>1. Init => MapAgrees
  BY DEF Init, MapAgrees
<1>2. TypeOK /\ TimeInv /\ MapAgrees /\ [Next]_vars => MapAgrees'
  BY StepMapAgrees
<1>3. MapAgrees => DatabaseAgrees
  BY DEF MapAgrees, DatabaseAgrees, Queueing
<1>. QED
  BY <1>1, <1>2, <1>3, TypeCorrect, TimeInvariant, PTL DEF Spec
-----------------------------------------------------------------------------
(* Missed runs *)

\* The quotient of two whole numbers.
LEMMA Quotient ==
  ASSUME NEW n \in Nat, NEW i \in Nat, i > 0
  PROVE  /\ n \div i \in Int
         /\ (n \div i) * i <= n /\ n < (n \div i) * i + i
BY Z3

\* A sum of i: one more, and one less.
LEMMA Multiples ==
  ASSUME NEW q \in Int, NEW i \in Nat
  PROVE  (q - 1) * i = q * i - i /\ (q - 1 + 1) * i = q * i
BY Z3

\* For every schedule and at every time, the two functions of missed_runs.rs
\* agree with the row and with each other.
THEOREM MissedRunsAreCounted == Spec => []MissedRunsCounted
<1>1. TypeOK => MissedRunsCounted
  <2> SUFFICES ASSUME TypeOK, NEW s \in Schedules,
                      IsInterval(Def[s]),
                      Def[s].interval_seconds \in Int, Def[s].interval_seconds > 0,
                      table[s].last # None,
                      table[s].next = table[s].last + Def[s].interval_seconds,
                      table[s].next <= now,
                      NEW c, c = CountMissedIntervalRuns(Def[s], None, table[s].last, now)
               PROVE  /\ table[s].next + c * Def[s].interval_seconds <= now
                      /\ now < table[s].next + (c + 1) * Def[s].interval_seconds
                      /\ c > 0 => \A grace \in 0 .. Def[s].interval_seconds - 1 :
                                    IsRunMissed(table[s].next, now, grace)
    BY DEF MissedRunsCounted
  <2> DEFINE i == Def[s].interval_seconds
             L == table[s].last
             q == (now - L) \div i
  <2>1. L \in Nat /\ now \in Nat /\ i \in Nat /\ now - L \in Nat /\ now - L >= i
    BY DEF TypeOK, Row, OptTime, Time
  <2>2. c = q - 1
    BY <2>1 DEF CountMissedIntervalRuns, LastRunOr
  <2>3. q \in Int /\ q * i <= now - L /\ now - L < q * i + i
    BY <2>1, Quotient
  <2>4. c * i = q * i - i /\ (c + 1) * i = q * i /\ q * i \in Int
    BY <2>1, <2>2, <2>3, Multiples
  <2>5. table[s].next + c * i <= now /\ now < table[s].next + (c + 1) * i
    BY <2>1, <2>3, <2>4
  <2>6. ASSUME c > 0, NEW grace \in 0 .. i - 1
        PROVE  IsRunMissed(table[s].next, now, grace)
    <3>1. q >= 2
      BY <2>2, <2>3, <2>6
    <3>2. q * i >= 2 * i
      BY <2>1, <2>3, <3>1, Z3
    <3>3. table[s].next + grace < now /\ table[s].next # None
      BY <2>1, <2>3, <2>6, <3>2, ScheduleCalcAssumption
    <3>. QED
      BY <3>3 DEF IsRunMissed
  <2>. QED
    BY <2>5, <2>6
<1>. QED
  BY <1>1, TypeCorrect, PTL
=============================================================================
