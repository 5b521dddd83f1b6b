--------------------------- MODULE TriggerProofs ---------------------------
(***************************************************************************)
(* Scheduler implements PeriodicTrigger, for jobs with one schedule each:  *)
(* for all schedules, times and horizons, and any number of restarts,      *)
(* failing calls and edits.                                                *)
(***************************************************************************)
EXTENDS SchedulerProofs

-----------------------------------------------------------------------------
(* Plans *)

\* Until when a schedule may have been planned: queue_job reads the clock
\* before it writes.
PlannedBy(s) == IF pc = "planned" /\ cur = s THEN plan.last ELSE now

\* Where the database and the map differ, the database was moved on by a run
\* that was sent before now.  TimeInv does not say so; without it, the next
\* write could move the plan back.
PlanOfPast(s) == \E u \in Nat : u <= PlannedBy(s) /\ table[s].next = NextOf(s, u, u)
PlanInv == \A s \in Unconfirmed : PlanOfPast(s)

\* Steps that load no row and write nothing back.
QuietStep ==
  /\ UNCHANGED <<table, recorded>>
  /\ \/ now' \in {now, now + 1} /\ UNCHANGED <<loaded, todo, schedules, pc, cur, plan>>
     \/ /\ now' = now
        /\ \/ /\ UNCHANGED <<loaded, todo, schedules>>
              /\ \/ pc \notin {"planned", "written"} /\ pc' \notin {"planned", "written"}
                 \/ pc = "sent" /\ pc' = "planned" /\ cur' = cur /\ plan'.last = now
           \/ loaded' = {} /\ pc' = "start"
           \/ schedules' = table /\ pc = "start" /\ pc' = "loading"

LEMMA QuietPlans ==
  ASSUME TypeOK, TimeInv, PlanInv, QuietStep
  PROVE  PlanInv' /\ Unconfirmed' \subseteq Unconfirmed
<1> USE DEF QuietStep
<1>1. Unconfirmed' \subseteq Unconfirmed
  BY DEF Unconfirmed, TypeOK
<1>2. now \in Nat /\ now' \in Nat /\ now <= now'
  BY DEF TypeOK
<1>3. ASSUME NEW s \in Unconfirmed' PROVE PlanOfPast(s)'
  <2>1. pc = "planned" => plan.last \in Nat /\ plan.last <= now
    BY DEF TimeInv, PlanMade
  <2>2. PlannedBy(s) \in Nat /\ PlannedBy(s)' \in Nat /\ PlannedBy(s) <= PlannedBy(s)'
    BY <1>2, <2>1 DEF PlannedBy
  <2>3. PICK u \in Nat : u <= PlannedBy(s) /\ table[s].next = NextOf(s, u, u)
    BY <1>1, <1>3 DEF PlanInv, PlanOfPast
  <2>. QED
    BY <2>2, <2>3 DEF PlanOfPast
<1>. QED
  BY <1>1, <1>3 DEF PlanInv

\* The steps of the scheduler, as the plans see them.
LEMMA PlanCases ==
  ASSUME TypeOK, [Next]_vars
  PROVE  \/ \E s \in Schedules : LoadRow(s)
         \/ WriteRow \/ WriteMap \/ QuietStep
<1> USE DEF TypeOK, QuietStep
<1>1. CASE Load
  BY <1>1 DEF Load, memory, check
<1>2. CASE FinishLoad \/ CheckSchedules \/ EndCheck
  BY <1>2 DEF FinishLoad, CheckSchedules, EndCheck, memory, check
<1>3. CASE Consume \/ ProcessEnd \/ AdvanceClock
  BY <1>3 DEF Consume, ProcessEnd, AdvanceClock, memory, check
<1>4. ASSUME NEW s \in Schedules, Send(s) \/ SetEnabled(s)
      PROVE  QuietStep
  BY <1>4 DEF Send, SetEnabled, memory, check
<1>5. ASSUME NEW job \in Jobs, TriggerManualBackup(job) \/ DeleteSchedulesOf(job)
      PROVE  QuietStep
  BY <1>5 DEF TriggerManualBackup, DeleteSchedulesOf, memory, check
<1>6. CASE PlanNext
  BY <1>6, PlanNextStep
<1>7. CASE Restart
  BY <1>7 DEF Restart
<1>8. CASE UNCHANGED vars
  BY <1>8 DEF vars, memory, check
<1>. QED
  BY <1>1, <1>2, <1>3, <1>4, <1>5, <1>6, <1>7, <1>8 DEF Next, SchedulerStep

\* A row that is planned for the first time, or was planned in vain.
LEMMA LoadRowPlans ==
  ASSUME OneSchedulePerJob, TypeOK, TimeInv, NEW s \in Schedules, LoadRow(s)
  PROVE  /\ UNCHANGED <<now, recorded>> /\ Unconfirmed' = Unconfirmed
         /\ pc = "loading" /\ pc' \in {"loading", "stopped"}
         /\ table[s].next = None
         /\ \A t \in Schedules \ {s} : table'[t] = table[t]
         /\ table' = table \/ table'[s].next # None
<1>1. /\ s \in todo /\ table[s].next = None /\ UNCHANGED <<now, recorded>>
      /\ pc = "loading" /\ pc' \in {"loading", "stopped"}
      /\ \A t \in Schedules \ {s} : table'[t] = table[t]
      /\ table' = table \/ table'[s].next # None
      /\ UNCHANGED <<loaded, todo, schedules, table>>
           \/ /\ UNCHANGED loaded /\ todo' = todo \ {s}
              /\ schedules' = [schedules EXCEPT ![s].next = NextOf(s, schedules[s].last, now)]
              /\ table' = table \/ table'[s].next = NextOf(s, schedules[s].last, now)
  BY LoadRowStep DEF TimeInv, TodoUnplanned, memory
<1>2. CASE UNCHANGED <<loaded, todo, schedules, table>>
  BY <1>1, <1>2 DEF Unconfirmed
<1>3. CASE /\ UNCHANGED loaded /\ todo' = todo \ {s}
           /\ schedules' = [schedules EXCEPT ![s].next = NextOf(s, schedules[s].last, now)]
           /\ table' = table \/ table'[s].next = NextOf(s, schedules[s].last, now)
  <2>1. schedules'[s].next = NextOf(s, schedules[s].last, now)
        /\ \A t \in Schedules \ {s} : schedules'[t] = schedules[t]
    BY <1>3 DEF TypeOK, Row
  <2>2. s \notin Unconfirmed /\ s \notin Unconfirmed'
    BY <1>1, <1>3, <2>1 DEF Unconfirmed
  <2>3. ASSUME NEW t \in Schedules \ {s} PROVE t \in Unconfirmed' <=> t \in Unconfirmed
    BY <1>1, <1>3, <2>1, <2>3 DEF Unconfirmed
  <2>4. Unconfirmed \subseteq Schedules /\ Unconfirmed' \subseteq Schedules
    BY <1>3 DEF Unconfirmed, TypeOK
  <2>. QED
    BY <1>1, <2>2, <2>3, <2>4
<1>. QED
  BY <1>1, <1>2, <1>3

\* The plan that queue_job has made for the schedule it is about to write.
LEMMA PlanAhead ==
  ASSUME TypeOK, TimeInv, pc = "planned"
  PROVE  /\ cur \in loaded \ todo /\ cur \in Schedules
         /\ plan.last \in Nat /\ plan.last <= now /\ now \in Nat
         /\ schedules[cur].next \in Nat /\ schedules[cur].next <= plan.last
         /\ plan.next \in Nat /\ plan.next > plan.last
         /\ NextOf(cur, plan.last, plan.last) = plan.next /\ plan.next # None
<1>1. /\ cur \in loaded \ todo /\ cur \in Schedules
      /\ plan.last \in Nat /\ plan.last <= now /\ now \in Nat
      /\ schedules[cur].next <= plan.last
      /\ NextOf(cur, plan.last, plan.last) = plan.next /\ plan.next # None
  BY DEF TimeInv, TodoUnplanned, DueHasCome, PlanMade, TypeOK, Queueing
<1>2. schedules[cur].next \in Nat
  BY <1>1 DEF TimeInv, TodoUnplanned, TypeOK, Row, OptTime, Time
<1>. QED
  BY <1>1, <1>2, NextAhead DEF Time

\* A run: recorded, or moved on in the row without the map's learning of it.
LEMMA WriteRowPlans ==
  ASSUME OneSchedulePerJob, TypeOK, TimeInv, WriteRow
  PROVE  /\ pc' # "planned"
         /\ \A t \in Schedules \ {cur} : table'[t] = table[t] /\ recorded'[t] = recorded[t]
         /\ \/ table' = table /\ recorded' = recorded /\ Unconfirmed' = Unconfirmed
            \/ /\ table'[cur] = plan
               /\ \/ recorded' = recorded /\ Unconfirmed' = Unconfirmed \cup {cur}
                  \/ recorded'[cur] = plan.last /\ Unconfirmed' = Unconfirmed \ {cur}
<1>1. /\ pc = "planned" /\ UNCHANGED <<now, loaded, todo, schedules>>
      /\ \A t \in Schedules \ {cur} : table'[t] = table[t] /\ recorded'[t] = recorded[t]
      /\ \/ /\ pc' = "written" /\ cur' = cur
            /\ table'[cur] = plan /\ recorded'[cur] = plan.last
         \/ /\ pc' = "checking" /\ recorded' = recorded
            /\ table' = table \/ table'[cur] = plan
  BY WriteRowStep
<1>2. ASSUME NEW t \in Schedules \ {cur} PROVE t \in Unconfirmed' <=> t \in Unconfirmed
  BY <1>1, <1>2 DEF Unconfirmed
<1>3. Unconfirmed \subseteq Schedules /\ Unconfirmed' \subseteq Schedules
  BY <1>1 DEF Unconfirmed, TypeOK
<1>4. CASE table' = table /\ recorded' = recorded /\ pc' = "checking"
  BY <1>1, <1>4 DEF Unconfirmed
<1>5. CASE pc' = "checking" /\ table'[cur] = plan /\ recorded' = recorded
  <2>1. cur \in Unconfirmed'
    BY <1>1, <1>5, PlanAhead DEF Unconfirmed
  <2>. QED
    BY <1>1, <1>2, <1>3, <1>5, <2>1
<1>6. CASE pc' = "written" /\ cur' = cur /\ table'[cur] = plan /\ recorded'[cur] = plan.last
  <2>1. cur \notin Unconfirmed'
    BY <1>6 DEF Unconfirmed
  <2>. QED
    BY <1>1, <1>2, <1>3, <1>6, <2>1
<1>. QED
  BY <1>1, <1>4, <1>5, <1>6

\* The map follows the row: no plan changes.
LEMMA WriteMapPlans ==
  ASSUME TypeOK, TimeInv, WriteMap
  PROVE  UNCHANGED <<now, table, recorded>> /\ Unconfirmed' = Unconfirmed
         /\ pc # "planned" /\ pc' # "planned"
<1>1. /\ pc = "written" /\ pc' = "checking" /\ table[cur] = plan
      /\ UNCHANGED <<now, loaded, todo, table, recorded>>
      /\ schedules'[cur] = plan
      /\ \A t \in Schedules \ {cur} : schedules'[t] = schedules[t]
  BY WriteMapStep DEF TimeInv, PlanMade
<1>2. Unconfirmed \subseteq Schedules /\ Unconfirmed' \subseteq Schedules
  BY <1>1 DEF Unconfirmed, TypeOK
<1>3. cur \notin Unconfirmed /\ cur \notin Unconfirmed'
  BY <1>1 DEF Unconfirmed
<1>4. ASSUME NEW t \in Schedules \ {cur} PROVE t \in Unconfirmed' <=> t \in Unconfirmed
  BY <1>1, <1>4 DEF Unconfirmed
<1>. QED
  BY <1>1, <1>2, <1>3, <1>4

LEMMA StepPlanInv ==
  ASSUME OneSchedulePerJob, TypeOK, TimeInv, PlanInv, [Next]_vars
  PROVE  PlanInv'
<1>1. now \in Nat
  BY DEF TypeOK
<1>2. ASSUME NEW s \in Schedules, LoadRow(s) PROVE PlanInv'
  <2>1. s \notin Unconfirmed /\ Unconfirmed \subseteq Schedules
    BY <1>2, LoadRowPlans DEF Unconfirmed, TypeOK
  <2>2. \A t \in Unconfirmed : PlanOfPast(t)'
    BY <1>2, <2>1, LoadRowPlans DEF PlanInv, PlanOfPast, PlannedBy
  <2>. QED
    BY <1>2, <2>2, LoadRowPlans DEF PlanInv
<1>3. CASE WriteRow
  <2>1. pc = "planned" /\ now' = now
    BY <1>3, WriteRowStep
  <2>2. \A t : PlannedBy(t) \in Nat /\ PlannedBy(t) <= now
    BY <1>1, <2>1, PlanAhead DEF PlannedBy
  <2>3. \A t : PlannedBy(t)' = now
    BY <1>3, <2>1, WriteRowPlans DEF PlannedBy
  <2>4. \A t \in Unconfirmed : table'[t] = table[t] => PlanOfPast(t)'
    <3>1. ASSUME NEW t \in Unconfirmed, table'[t] = table[t] PROVE PlanOfPast(t)'
      <4>1. PICK u \in Nat : u <= PlannedBy(t) /\ table[t].next = NextOf(t, u, u)
        BY DEF PlanInv, PlanOfPast
      <4>2. u <= now /\ PlannedBy(t)' = now
        BY <1>1, <2>2, <2>3, <4>1
      <4>. QED
        BY <3>1, <4>1, <4>2 DEF PlanOfPast
    <3>. QED
      BY <3>1
  <2>5. table'[cur] = plan => \A t : t = cur => PlanOfPast(t)'
    BY <2>1, <2>3, PlanAhead DEF PlanOfPast
  <2>6. Unconfirmed \subseteq Schedules
    BY DEF Unconfirmed, TypeOK
  <2>. QED
    BY <1>3, <2>4, <2>5, <2>6, WriteRowPlans DEF PlanInv
<1>4. CASE WriteMap
  BY <1>4, WriteMapPlans DEF PlanInv, PlanOfPast, PlannedBy
<1>5. CASE QuietStep
  BY <1>5, QuietPlans
<1>. QED
  BY <1>2, <1>3, <1>4, <1>5, PlanCases

LEMMA PlanInvariant ==
  ASSUME OneSchedulePerJob
  PROVE  Spec => []PlanInv
<1>1. Init => PlanInv
  BY DEF Init, PlanInv, Unconfirmed
<1>2. TypeOK /\ TimeInv /\ PlanInv /\ [Next]_vars => PlanInv'
  BY StepPlanInv
<1>. QED
  BY <1>1, <1>2, TypeCorrect, TimeInvariant, PTL DEF Spec

-----------------------------------------------------------------------------
(* The steps of PeriodicTrigger *)

LEMMA QuietTrigger ==
  ASSUME TypeOK, TimeInv, PlanInv, QuietStep
  PROVE  [Trigger!Next]_Trigger!vars
<1>1. NextRuns' = NextRuns /\ EarliestRuns' = EarliestRuns
  BY DEF QuietStep, NextRuns, EarliestRuns, NextRecorded
<1>2. Unconfirmed' \subseteq Unconfirmed
  BY QuietPlans
<1>3. now' # now => now' = now + 1 /\ Unconfirmed' = Unconfirmed
  BY DEF QuietStep, Unconfirmed
<1>. QED
  BY <1>1, <1>2, <1>3 DEF Trigger!Next, Trigger!vars, Trigger!Tick, Trigger!Forget

LEMMA LoadRowTrigger ==
  ASSUME OneSchedulePerJob, TypeOK, TypeOK', TimeInv, NEW s \in Schedules, LoadRow(s)
  PROVE  [Trigger!Next]_Trigger!vars
<1>1. EarliestRuns' = EarliestRuns /\ Unconfirmed' = Unconfirmed /\ now' = now
  BY LoadRowPlans DEF EarliestRuns, NextRecorded
<1>2. CASE table' = table
  <2>1. NextRuns' = NextRuns
    BY <1>2 DEF NextRuns
  <2>. QED
    BY <1>1, <2>1 DEF Trigger!vars
<1>3. CASE table'[s].next # None
  <2>1. NextRuns[s] = None /\ NextRuns'[s] \in Nat
    BY <1>3, LoadRowPlans DEF NextRuns, TypeOK, Row, OptTime, Time
  <2>2. NextRuns' = [NextRuns EXCEPT ![s] = NextRuns'[s]]
    BY LoadRowPlans DEF NextRuns
  <2>3. Trigger!FirstPlan(s)
    BY <1>1, <2>1, <2>2 DEF Trigger!FirstPlan, Trigger!Set
  <2>. QED
    BY <2>3 DEF Trigger!Next
<1>. QED
  BY <1>2, <1>3, LoadRowPlans

LEMMA WriteMapTrigger ==
  ASSUME TypeOK, TimeInv, WriteMap
  PROVE  [Trigger!Next]_Trigger!vars
BY WriteMapPlans DEF NextRuns, EarliestRuns, NextRecorded, Trigger!vars

LEMMA WriteRowTrigger ==
  ASSUME OneSchedulePerJob, TypeOK, TypeOK', TimeInv, PlanInv, WriteRow
  PROVE  [Trigger!Next]_Trigger!vars
<1>1. /\ UNCHANGED now /\ cur \in Schedules /\ now \in Nat /\ pc = "planned"
      /\ \A t \in Schedules \ {cur} : table'[t] = table[t] /\ recorded'[t] = recorded[t]
  BY WriteRowStep DEF TypeOK
<1>2. CASE table' = table /\ recorded' = recorded /\ Unconfirmed' = Unconfirmed
  <2>1. NextRuns' = NextRuns /\ EarliestRuns' = EarliestRuns
    BY <1>2 DEF NextRuns, EarliestRuns, NextRecorded
  <2>. QED
    BY <1>1, <1>2, <2>1 DEF Trigger!vars
<1>3. ASSUME table'[cur] = plan PROVE Trigger!Replace(cur)
  <2>1. NextRuns' = [NextRuns EXCEPT ![cur] = NextRuns'[cur]] /\ NextRuns'[cur] = plan.next
        /\ NextRuns[cur] = table[cur].next
    BY <1>1, <1>3 DEF NextRuns
  <2>2. \/ table[cur].next = None
        \/ table[cur].next <= now /\ table[cur].next < plan.next
        \/ cur \in Unconfirmed /\ table[cur].next <= plan.next
    <3>1. CASE table[cur].next = schedules[cur].next
      BY <1>1, <3>1, PlanAhead
    <3>2. CASE table[cur].next \notin {None, schedules[cur].next}
      <4>1. cur \in Unconfirmed
        BY <1>1, <3>2, PlanAhead DEF Unconfirmed
      <4>2. PICK u \in Nat : u <= plan.last /\ table[cur].next = NextOf(cur, u, u)
        BY <1>1, <4>1 DEF PlanInv, PlanOfPast, PlannedBy
      <4>3. NextOf(cur, u, u) <= plan.next
        BY <1>1, <3>2, <4>2, PlanAhead, NextMonotone DEF Time
      <4>. QED
        BY <4>1, <4>2, <4>3
    <3>. QED
      BY <3>1, <3>2
  <2>3. plan.next \in Nat
    BY <1>1, PlanAhead
  <2>. QED
    BY <1>1, <2>1, <2>2, <2>3 DEF Trigger!Replace, Trigger!Set
<1>4. CASE /\ table'[cur] = plan
           /\ recorded' = recorded /\ Unconfirmed' = Unconfirmed \cup {cur}
  <2>1. EarliestRuns' = EarliestRuns
    BY <1>4 DEF EarliestRuns, NextRecorded
  <2>2. Trigger!RunUnrecorded(cur)
    BY <1>3, <1>4, <2>1 DEF Trigger!RunUnrecorded
  <2>. QED
    BY <1>1, <2>2 DEF Trigger!Next
<1>5. CASE /\ table'[cur] = plan
           /\ recorded'[cur] = plan.last /\ Unconfirmed' = Unconfirmed \ {cur}
  <2>1. EarliestRuns' = [EarliestRuns EXCEPT ![cur] = plan.next] /\ NextRuns'[cur] = plan.next
    <3>1. \A t \in Schedules : t = cur => NextRecorded(t)' = plan.next /\ recorded'[t] # None
      BY <1>1, <1>5, PlanAhead, ScheduleCalcAssumption DEF NextRecorded
    <3>2. \A t \in Schedules \ {cur} : NextRecorded(t)' = NextRecorded(t)
      BY <1>1 DEF NextRecorded
    <3>. QED
      BY <1>1, <1>5, <3>1, <3>2 DEF EarliestRuns, NextRuns
  <2>2. EarliestRuns[cur] = None \/ EarliestRuns[cur] <= now
    <3>1. recorded[cur] # None => NextRecorded(cur) # None /\ NextRecorded(cur) <= schedules[cur].next
      BY <1>1, PlanAhead DEF TimeInv, RecordedRunPlanned
    <3>2. recorded[cur] # None => NextRecorded(cur) \in OptTime
      BY <1>1, NextTyped DEF TypeOK, OptTime, NextRecorded
    <3>. QED
      BY <1>1, <3>1, <3>2, PlanAhead DEF EarliestRuns, OptTime, Time
  <2>3. Trigger!Run(cur)
    BY <1>3, <1>5, <2>1, <2>2 DEF Trigger!Run
  <2>. QED
    BY <1>1, <2>3 DEF Trigger!Next
<1>. QED
  BY <1>2, <1>4, <1>5, WriteRowPlans

\* With one schedule per job, each schedule is a periodic trigger: its plan is
\* never moved back, nor replaced before it is due unless a write was lost, and
\* a recorded run is not repeated; through restarts, edits, failing calls, and
\* UPDATEs that last beyond the time they write.
THEOREM ImplementsPeriodicTrigger ==
  ASSUME OneSchedulePerJob
  PROVE  Spec => TriggerSpec
<1>1. Init => Trigger!Init
  BY SchedulerAssumption
     DEF Init, Trigger!Init, NextRuns, EarliestRuns, Unconfirmed, Row, OptTime, Time
<1>2. TypeOK /\ TypeOK' /\ TimeInv /\ PlanInv /\ [Next]_vars
        => [Trigger!Next]_Trigger!vars
  BY QuietTrigger, LoadRowTrigger, WriteMapTrigger, WriteRowTrigger, PlanCases
<1>. QED
  BY <1>1, <1>2, TypeCorrect, TimeInvariant, PlanInvariant, PTL
     DEF Spec, TriggerSpec, Trigger!Spec
=============================================================================
