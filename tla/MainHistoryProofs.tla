------------------------- MODULE MainHistoryProofs -------------------------
(***************************************************************************)
(* Test backups implement RunHistory: for any number of starts, of runs of *)
(* other clients and of deletions.                                         *)
(***************************************************************************)
EXTENDS MainProofs

\* What a test backup has under way, it has for a row that is open until it has
\* been recorded.  Its restic may run longer, if the process dies or no longer
\* waits for it, and then the row may be closed, as a failure.
Open == {"command", "restic", "record"}
Pending(p) == pc[p] \in Open \/ restic[p] = "running"

OpenRowOf(p) ==
  /\ restic[p] # "none" => run_id[p] # None
  /\ pc[p] = "command" => restic[p] = "none"
  /\ pc[p] \in Open => \A r \in runs : r.id = run_id[p] => r.status = "running"
  /\ restic[p] = "running" =>
       \A r \in runs : r.id = run_id[p] => r.status \in {"running", "failed"}

UniqueIds == \A r, s \in runs : r.id = s.id => r = s

HistoryInv ==
  /\ next_id <= MaxRuns
  /\ UniqueIds
  /\ \A p \in Procs : OpenRowOf(p)

\* Every test backup that is pending has a row of its own.
LEMMA PendingIsNamed ==
  ASSUME TypeOK, TestInv, HistoryInv, NEW p \in Procs, Pending(p)
  PROVE  run_id[p] # None /\ run_id[p] \in Nat /\ run_id[p] < next_id
<1>1. run_id[p] # None
  BY DEF HistoryInv, OpenRowOf, Pending, TestInv, TestOf, Open, Named
<1>. QED
  BY <1>1 DEF TypeOK, TestInv, RowOfTest

-----------------------------------------------------------------------------
(* The invariant *)

\* Nothing starts, and no row that was there is changed.
LEMMA QuietKeepsHistory ==
  ASSUME TypeOK, TestInv, HistoryInv, UNCHANGED <<restic, run_id>>,
         \A p \in Procs : pc'[p] = pc[p] \/ pc'[p] \notin Open,
         \/ next_id' = next_id /\ runs' \subseteq runs
         \/ \E job \in Jobs, by \in Procs \cup {None} : Insert(job, by)
  PROVE  HistoryInv'
<1>1. \/ next_id' = next_id /\ runs' \subseteq runs
      \/ /\ next_id' = next_id + 1 /\ next_id < MaxRuns
         /\ \E new : new.id = next_id /\ runs' = runs \cup {new}
  BY DEF Insert
<1>2. next_id \in Nat /\ MaxRuns \in Nat /\ \A r \in runs : r.id \in Nat /\ r.id < next_id
  BY MainAssumption DEF TypeOK, Run
<1>3. next_id' <= MaxRuns /\ UniqueIds'
  BY <1>1, <1>2 DEF HistoryInv, UniqueIds
<1>4. ASSUME NEW p \in Procs PROVE OpenRowOf(p)'
  <2>1. /\ pc'[p] \in Open => pc'[p] = pc[p] /\ Pending(p)
        /\ restic'[p] = "running" => Pending(p)
    BY DEF Pending
  <2>2. pc'[p] = "command" => pc[p] = "command"
    BY DEF Open
  <2>3. ASSUME Pending(p), NEW r \in runs', r.id = run_id[p] PROVE r \in runs
    <3>1. run_id[p] \in Nat /\ run_id[p] < next_id
      BY <2>3, PendingIsNamed
    <3>. QED
      BY <1>1, <1>2, <2>3, <3>1
  <2>. QED
    BY <2>1, <2>2, <2>3 DEF HistoryInv, OpenRowOf
<1>. QED
  BY <1>3, <1>4 DEF HistoryInv

LEMMA StartupKeepsHistory ==
  ASSUME TypeOK, TestInv, HistoryInv, NEW p \in Procs, Startup(p) \/ Report(p)
  PROVE  HistoryInv' /\ UNCHANGED <<runs, next_id, restic, run_id>>
<1>1. UNCHANGED <<runs, next_id, restic, run_id>>
  BY DEF Startup, ReadLocal, Connect, Migrate, Apply, Register, LoadJobs, LoadSettings, Gate, Lookup,
         Shutdown, Kill, Report, tables
<1>2. Fails(p) \/ UNCHANGED pc \/ \E l \in Labels \ Open : Goto(p, l)
  <2>1. CASE ReadLocal(p) \/ Connect(p) \/ Migrate(p) \/ Register(p) \/ LoadJobs(p) \/ LoadSettings(p)
    BY <2>1 DEF ReadLocal, Connect, Migrate, Register, LoadJobs, LoadSettings, Labels, Open, Exited
  <2>2. CASE Gate(p) \/ Lookup(p) \/ Shutdown(p) \/ Kill(p) \/ Report(p)
    BY <2>2 DEF Gate, Lookup, Shutdown, Kill, Report, Labels, Open, Exited
  <2>. QED
    BY <2>1, <2>2 DEF Startup
<1>3. \A q \in Procs : pc'[q] = pc[q] \/ pc'[q] \notin Open
  BY <1>2 DEF Fails, Goto, Open, TypeOK
<1>. QED
  BY <1>1, <1>3, QuietKeepsHistory

LEMMA OthersKeepHistory ==
  ASSUME TypeOK, TestInv, HistoryInv, Others
  PROVE  HistoryInv'
<1>1. UNCHANGED process
  BY DEF Others, OtherRun, WriteSetting, DeleteSetting, DeleteJob, DeleteDevice, Edit
<1>2. \/ next_id' = next_id /\ runs' \subseteq runs
      \/ \E job \in Jobs : Insert(job, None)
  BY DEF Others, OtherRun, WriteSetting, DeleteSetting, DeleteJob, DeleteDevice
<1>. QED
  BY <1>1, <1>2, QuietKeepsHistory DEF process

LEMMA CreateRunKeepsHistory ==
  ASSUME TypeOK, TestInv, HistoryInv, NEW p \in Procs, CreateRun(p)
  PROVE  HistoryInv' /\ restic[p] = "none" /\ UNCHANGED restic
<1>1. pc[p] = "create" /\ UNCHANGED restic
  BY DEF CreateRun
<1>2. TestBackup[p] \in Jobs /\ run_id[p] = None /\ restic[p] = "none"
  BY <1>1, MainAssumption DEF TestInv, TestOf, HistoryInv, OpenRowOf, Named, Exited
<1>3. CASE Fails(p) /\ UNCHANGED run_id
  <2>1. \A q \in Procs : pc'[q] = pc[q] \/ pc'[q] \notin Open
    BY <1>3 DEF Fails, Goto, Open, TypeOK
  <2>2. \/ next_id' = next_id /\ runs' \subseteq runs
        \/ Insert(TestBackup[p], p)
    BY DEF CreateRun
  <2>. QED
    BY <1>1, <1>2, <1>3, <2>1, <2>2, QuietKeepsHistory
<1>4. CASE /\ Insert(TestBackup[p], p)
           /\ Goto(p, "command") /\ run_id' = [run_id EXCEPT ![p] = next_id]
  <2> DEFINE new == [id |-> next_id, job |-> TestBackup[p], by |-> p, status |-> "running"]
  <2>1. /\ runs' = runs \cup {new} /\ next_id' = next_id + 1 /\ next_id < MaxRuns
        /\ new.id = next_id /\ new.status = "running"
    BY <1>4 DEF Insert
  <2> HIDE DEF new
  <2>2. /\ next_id \in Nat /\ MaxRuns \in Nat /\ next_id # None
        /\ \A r \in runs : r.id \in Nat /\ r.id < next_id
    BY MainAssumption DEF TypeOK, Run
  <2>3. /\ pc'[p] = "command" /\ run_id'[p] = next_id
        /\ \A q \in Procs : q # p => pc'[q] = pc[q] /\ run_id'[q] = run_id[q]
    BY <1>4 DEF Goto, TypeOK
  <2>4. next_id' <= MaxRuns /\ UniqueIds'
    BY <2>1, <2>2 DEF HistoryInv, UniqueIds
  <2>5. OpenRowOf(p)'
    BY <1>1, <1>2, <2>1, <2>2, <2>3 DEF OpenRowOf
  <2>6. ASSUME NEW q \in Procs, q # p PROVE OpenRowOf(q)'
    <3>1. Pending(q)' <=> Pending(q)
      BY <1>1, <2>3, <2>6 DEF Pending
    <3>2. Pending(q) => run_id[q] # next_id
      BY <2>2, PendingIsNamed
    <3>. QED
      BY <1>1, <2>1, <2>3, <2>6, <3>1, <3>2 DEF HistoryInv, OpenRowOf
  <2>. QED
    BY <1>1, <1>2, <2>4, <2>5, <2>6 DEF HistoryInv
<1>. QED
  BY <1>1, <1>2, <1>3, <1>4 DEF CreateRun

LEMMA ResticKeepsHistory ==
  ASSUME TypeOK, TestInv, HistoryInv, NEW p \in Procs, StartRestic(p) \/ ResticExit(p) \/ OutputFails(p)
  PROVE  HistoryInv'
<1>1. UNCHANGED <<runs, next_id, run_id>>
  BY DEF StartRestic, ResticExit, OutputFails, tables
<1>2. \A q \in Procs : q # p => pc'[q] = pc[q] /\ restic'[q] = restic[q]
  BY DEF StartRestic, ResticExit, OutputFails, Goto, Fails, TypeOK
<1>3. Pending(p) /\ run_id[p] # None
  <2>1. Pending(p)
    BY DEF StartRestic, ResticExit, OutputFails, Pending, Open
  <2>. QED
    BY <2>1, PendingIsNamed
<1>4. pc'[p] # "command" \/ restic'[p] = "none"
  BY DEF StartRestic, ResticExit, OutputFails, HistoryInv, OpenRowOf, Goto, Fails, TypeOK
<1>5. OpenRowOf(p)'
  <2>1. /\ pc'[p] \in Open => pc[p] \in Open
        /\ restic'[p] = "running" => restic[p] = "running" \/ pc[p] \in Open
    BY DEF StartRestic, ResticExit, OutputFails, Goto, Fails, Open, TypeOK
  <2>. QED
    BY <1>1, <1>3, <1>4, <2>1 DEF HistoryInv, OpenRowOf
<1>6. ASSUME NEW q \in Procs, q # p PROVE OpenRowOf(q)'
  BY <1>1, <1>2, <1>6 DEF HistoryInv, OpenRowOf, Pending
<1>. QED
  BY <1>1, <1>5, <1>6 DEF HistoryInv, UniqueIds

\* An update keeps the ids apart.
LEMMA UpdateIsUnique ==
  ASSUME TypeOK, UniqueIds, NEW id, NEW status, Update(id, status)
  PROVE  UniqueIds'
<1> DEFINE new(r) == IF r.id = id THEN [r EXCEPT !.status = status] ELSE r
<1>1. \A r \in runs : new(r).id = r.id
  BY DEF TypeOK, Run
<1>2. runs' = {new(r) : r \in runs}
  BY DEF Update
<1> HIDE DEF new
<1>. QED
  BY <1>1, <1>2 DEF UniqueIds

LEMMA RecordKeepsHistory ==
  ASSUME TypeOK, TestInv, HistoryInv, NEW p \in Procs, Record(p)
  PROVE  HistoryInv'
<1>1. /\ UNCHANGED <<next_id, restic, run_id>> /\ pc[p] \in Open
      /\ \/ UNCHANGED runs \/ Update(run_id[p], "failed")
         \/ restic[p] = "complete" /\ Update(run_id[p], "success")
      /\ Goto(p, "report") \/ Fails(p)
  BY DEF Record, Open
<1>2. pc'[p] \notin Open /\ \A q \in Procs : q # p => pc'[q] = pc[q]
  BY <1>1 DEF Goto, Fails, Open, TypeOK
<1>3. CASE UNCHANGED runs
  <2>1. \A q \in Procs : pc'[q] = pc[q] \/ pc'[q] \notin Open
    BY <1>2
  <2>. QED
    BY <1>1, <1>3, <2>1, QuietKeepsHistory
<1>4. ASSUME NEW status, Update(run_id[p], status), status = "failed" \/ restic[p] = "complete"
      PROVE  HistoryInv'
  <2>1. UniqueIds'
    BY <1>4, UpdateIsUnique DEF HistoryInv
  <2>2. OpenRowOf(p)'
    <3>1. ASSUME NEW r \in runs', r.id = run_id[p] PROVE r.status = status
      BY <1>4, <3>1, UpdateKeepsRows
    <3>. QED
      BY <1>1, <1>2, <1>4, <3>1 DEF HistoryInv, OpenRowOf, Open
  <2>3. ASSUME NEW q \in Procs, q # p PROVE OpenRowOf(q)'
    <3>1. Pending(q)' <=> Pending(q)
      BY <1>1, <1>2, <2>3 DEF Pending
    <3>2. ASSUME Pending(q), NEW r \in runs', r.id = run_id[q] PROVE r \in runs
      <4>1. run_id[p] # run_id[q]
        BY <2>3, <3>2, PendingIsNamed DEF TestInv, OwnRows
      <4>. QED
        BY <1>4, <3>2, <4>1, UpdateKeepsRows
    <3>. QED
      BY <1>1, <1>2, <2>3, <3>1, <3>2 DEF HistoryInv, OpenRowOf, Pending
  <2>. QED
    BY <1>1, <2>1, <2>2, <2>3 DEF HistoryInv
<1>. QED
  BY <1>1, <1>3, <1>4

LEMMA HistoryInvStep ==
  ASSUME TypeOK, TestInv, HistoryInv, [Next]_vars
  PROVE  HistoryInv'
<1>1. CASE UNCHANGED vars
  <2>1. UNCHANGED <<pc, restic, run_id, runs, next_id>>
    BY <1>1 DEF vars, process, tables
  <2>. QED
    BY <2>1, QuietKeepsHistory
<1>. QED
  BY <1>1, NextCases, StartupKeepsHistory, OthersKeepHistory, CreateRunKeepsHistory,
     ResticKeepsHistory, RecordKeepsHistory

LEMMA HistoryInvariant == Spec => []HistoryInv
<1>1. Init => HistoryInv
  BY MainAssumption DEF Init, HistoryInv, OpenRowOf, Pending, Open, UniqueIds
<1>2. TypeOK /\ TestInv /\ HistoryInv /\ [Next]_vars => HistoryInv'
  BY HistoryInvStep
<1>. QED
  BY <1>1, <1>2, TypeCorrect, TestsCorrect, PTL DEF Spec

-----------------------------------------------------------------------------
(* The steps of RunHistory *)

LEMMA StatusOfRow ==
  ASSUME TypeOK, UniqueIds
  PROVE  /\ \A r \in runs : RowStatus(r.id) = r.status
         /\ \A id : (\A r \in runs : r.id # id) =>
              RowStatus(id) = IF id < next_id THEN "deleted" ELSE "absent"
<1>1. ASSUME NEW r \in runs PROVE RowStatus(r.id) = r.status
  <2>1. (CHOOSE s \in runs : s.id = r.id) = r
    BY DEF UniqueIds
  <2>. QED
    BY <2>1 DEF RowStatus
<1>2. ASSUME NEW id, \A r \in runs : r.id # id
      PROVE  RowStatus(id) = IF id < next_id THEN "deleted" ELSE "absent"
  BY <1>2 DEF RowStatus
<1>. QED
  BY <1>1, <1>2

\* A row that a step leaves as it was has the state that it had.
LEMMA StatusKept ==
  ASSUME TypeOK, TypeOK', UniqueIds, UniqueIds', NEW id \in RunIds, next_id' >= next_id,
         \A r \in runs' : r.id = id => \E s \in runs : s.id = id /\ s.status = r.status,
         \A r \in runs : r.id = id => \E s \in runs' : s.id = id,
         id < next_id' => id < next_id
  PROVE  RowStatus(id)' = RowStatus(id)
<1>1. /\ \A r \in runs' : RowStatus(r.id)' = r.status
      /\ (\A r \in runs' : r.id # id) =>
           RowStatus(id)' = IF id < next_id' THEN "deleted" ELSE "absent"
  <2>1. ASSUME NEW r \in runs' PROVE RowStatus(r.id)' = r.status
    <3>1. (CHOOSE s \in runs' : s.id = r.id) = r
      BY DEF UniqueIds
    <3>. QED
      BY <3>1 DEF RowStatus
  <2>. QED
    BY <2>1 DEF RowStatus
<1>2. CASE \E r \in runs' : r.id = id
  BY <1>1, <1>2, StatusOfRow
<1>3. CASE \A r \in runs' : r.id # id
  <2>1. \A r \in runs : r.id # id
    BY <1>3
  <2>2. next_id \in Nat /\ next_id' \in Nat /\ id \in Int
    BY MainAssumption DEF TypeOK, RunIds
  <2>. QED
    BY <1>1, <1>3, <2>1, <2>2, StatusOfRow
<1>. QED
  BY <1>2, <1>3

LEMMA NothingHappens ==
  ASSUME UNCHANGED <<runs, next_id, restic, run_id>>
  PROVE  [History!Next]_History!vars
<1>1. Ledger' = Ledger /\ Stored' = Stored
  BY DEF Ledger, RowStatus, Stored
<1>. QED
  BY <1>1 DEF History!vars

\* A row that is inserted, for whichever client, opens.
LEMMA RowOpens ==
  ASSUME TypeOK, TypeOK', HistoryInv, HistoryInv', UNCHANGED Stored,
         NEW job, NEW by, Insert(job, by)
  PROVE  [History!Next]_History!vars
<1> DEFINE new == [id |-> next_id, job |-> job, by |-> by, status |-> "running"]
<1>1. /\ next_id \in RunIds /\ next_id' = next_id + 1 /\ next_id \in Nat
      /\ runs' = runs \cup {new} /\ new.id = next_id /\ new.status = "running"
      /\ \A r \in runs : r.id < next_id /\ r.id \in Nat
  BY MainAssumption DEF Insert, RunIds, TypeOK, Run
<1> HIDE DEF new
<1>2. RowStatus(next_id) = "absent"
  BY <1>1, StatusOfRow DEF HistoryInv
<1>3. \A id : id = next_id => RowStatus(id)' = "running"
  <2>1. \A r \in runs' : r.id = next_id => r = new
    BY <1>1
  <2>2. (CHOOSE r \in runs' : r.id = next_id) = new
    BY <1>1, <2>1
  <2>. QED
    BY <1>1, <2>2 DEF RowStatus
<1>4. ASSUME NEW id \in RunIds, id # next_id PROVE RowStatus(id)' = RowStatus(id)
  <2>1. id \in Int
    BY MainAssumption DEF RunIds
  <2>. QED
    BY <1>1, <1>4, <2>1, StatusKept DEF HistoryInv
<1>5. Ledger' = [Ledger EXCEPT ![next_id] = "running"] /\ Ledger[next_id] = "absent"
  BY <1>1, <1>2, <1>3, <1>4 DEF Ledger
<1>6. History!Open(next_id)
  BY <1>5 DEF History!Open, History!Move
<1>. QED
  BY <1>1, <1>6 DEF History!Next

\* An update loses no row, and changes no other one.
LEMMA UpdateLosesNone ==
  ASSUME TypeOK, NEW id, NEW status, Update(id, status), NEW r \in runs
  PROVE  \E s \in runs' : s.id = r.id /\ (r.id # id => s = r)
<1> DEFINE new(x) == IF x.id = id THEN [x EXCEPT !.status = status] ELSE x
<1>1. new(r).id = r.id /\ (r.id # id => new(r) = r)
  BY DEF TypeOK, Run
<1>2. new(r) \in runs'
  BY DEF Update
<1> HIDE DEF new
<1>. QED
  BY <1>1, <1>2

\* An update closes the row of its own process, or finds none.
LEMMA RowCloses ==
  ASSUME TypeOK, TypeOK', TestInv, HistoryInv, HistoryInv', UNCHANGED <<Stored, next_id>>,
         NEW p \in Procs, pc[p] \in Open, NEW status \in {"success", "failed"},
         status = "success" => restic[p] = "complete", Update(run_id[p], status)
  PROVE  [History!Next]_History!vars
<1>1. PICK id \in RunIds : id = run_id[p]
  <2>1. run_id[p] \in Nat /\ run_id[p] < next_id /\ next_id <= MaxRuns
    BY PendingIsNamed DEF HistoryInv, Pending
  <2>. QED
    BY <2>1, MainAssumption DEF TypeOK, RunIds
<1>2. ASSUME NEW other \in RunIds, other # id PROVE RowStatus(other)' = RowStatus(other)
  <2>1. \A r \in runs' : r.id = other => r \in runs
    BY <1>1, <1>2, UpdateKeepsRows
  <2>2. \A r \in runs : r.id = other => r \in runs'
    BY <1>1, <1>2, UpdateLosesNone
  <2>3. next_id' >= next_id
    BY DEF TypeOK
  <2>. QED
    BY <2>1, <2>2, <2>3, StatusKept DEF HistoryInv
<1>3. CASE \A r \in runs : r.id # id
  <2>1. \A r \in runs' : r.id # id
    BY <1>1, <1>3, UpdateKeepsRows
  <2>2. RowStatus(id)' = RowStatus(id)
    BY <1>3, <2>1 DEF RowStatus
  <2>3. Ledger' = Ledger
    BY <1>2, <2>2 DEF Ledger
  <2>. QED
    BY <2>3 DEF History!vars
<1>4. ASSUME NEW r \in runs, r.id = id PROVE [History!Next]_History!vars
  <2>1. Ledger[id] = "running"
    BY <1>1, <1>4, StatusOfRow DEF HistoryInv, OpenRowOf, Ledger
  <2>2. RowStatus(id)' = status
    <3>1. \E s \in runs' : s.id = id
      BY <1>1, <1>4, UpdateLosesNone
    <3>2. (CHOOSE s \in runs' : s.id = id).status = status
      BY <1>1, <3>1, UpdateKeepsRows
    <3>. QED
      BY <3>1, <3>2 DEF RowStatus
  <2>3. Ledger' = [Ledger EXCEPT ![id] = status]
    BY <1>2, <2>2 DEF Ledger
  <2>4. status = "success" => id \in Stored
    BY <1>1 DEF Stored
  <2>5. History!Fail(id) \/ History!Succeed(id)
    BY <2>1, <2>3, <2>4 DEF History!Fail, History!Succeed, History!Move
  <2>. QED
    BY <2>5 DEF History!Next
<1>. QED
  BY <1>3, <1>4

\* Rows that are deleted, for whatever reason, go together.
LEMMA RowsGo ==
  ASSUME TypeOK, TypeOK', HistoryInv, HistoryInv', UNCHANGED <<Stored, next_id>>, runs' \subseteq runs
  PROVE  [History!Next]_History!vars
<1> DEFINE E == {id \in RunIds : \E r \in runs \ runs' : r.id = id}
<1>1. next_id \in Nat /\ \A r \in runs : r.id < next_id /\ r.id \in Nat
  BY DEF TypeOK, Run
<1>2. ASSUME NEW id \in E PROVE RowStatus(id) # "absent" /\ RowStatus(id)' = "deleted"
  <2>1. PICK r \in runs \ runs' : r.id = id
    OBVIOUS
  <2>2. RowStatus(id) = r.status
    BY <2>1, StatusOfRow DEF HistoryInv
  <2>3. r.status # "absent"
    BY DEF TypeOK, Run
  <2>4. \A s \in runs' : s.id # id
    BY <2>1 DEF HistoryInv, UniqueIds
  <2>5. id < next_id'
    BY <1>1, <2>1
  <2>. QED
    BY <2>2, <2>3, <2>4, <2>5 DEF RowStatus
<1>3. ASSUME NEW id \in RunIds \ E PROVE RowStatus(id)' = RowStatus(id)
  <2>1. \A r \in runs : r.id = id => r \in runs'
    BY <1>3
  <2>2. next_id' >= next_id
    BY <1>1
  <2>. QED
    BY <1>3, <2>1, <2>2, StatusKept DEF HistoryInv
<1>4. Ledger' = [id \in RunIds |-> IF id \in E THEN "deleted" ELSE Ledger[id]]
  BY <1>2, <1>3 DEF Ledger
<1>5. \A id \in E : Ledger[id] # "absent"
  BY <1>2 DEF Ledger
<1>6. History!Purge(E)
  BY <1>4, <1>5 DEF History!Purge
<1>. QED
  BY <1>6 DEF History!Next

\* Restic ends: with a snapshot for the row of its process, or without one.
LEMMA ResticStores ==
  ASSUME TypeOK, TestInv, HistoryInv, NEW p \in Procs, ResticExit(p)
  PROVE  [History!Next]_History!vars
<1>1. /\ UNCHANGED <<runs, next_id, run_id>> /\ restic[p] = "running"
      /\ \A q \in Procs : q # p => restic'[q] = restic[q]
      /\ restic'[p] \in {"complete", "failed"}
  BY DEF ResticExit, tables, TypeOK
<1>2. Ledger' = Ledger
  BY <1>1 DEF Ledger, RowStatus
<1>3. CASE restic'[p] = "failed"
  <2>1. \A q \in Procs : restic'[q] = "complete" <=> restic[q] = "complete"
    BY <1>1, <1>3
  <2>2. Stored' = Stored
    BY <1>1, <2>1 DEF Stored
  <2>. QED
    BY <1>2, <2>2 DEF History!vars
<1>4. CASE restic'[p] = "complete"
  <2>1. PICK id \in RunIds : id = run_id[p]
    <3>1. run_id[p] \in Nat /\ run_id[p] < next_id /\ next_id <= MaxRuns
      BY <1>1, PendingIsNamed DEF HistoryInv, Pending
    <3>. QED
      BY <3>1, MainAssumption DEF TypeOK, RunIds
  <2>2. Stored' = Stored \cup {id}
    <3>1. \A q \in Procs : restic'[q] = "complete" <=> restic[q] = "complete" \/ q = p
      BY <1>1, <1>4
    <3>. QED
      BY <1>1, <2>1, <3>1 DEF Stored
  <2>3. Ledger[id] \in {"running", "failed", "deleted"}
    <3>1. id < next_id
      BY <1>1, <2>1, PendingIsNamed DEF Pending
    <3>2. \A r \in runs : r.id = id => r.status \in {"running", "failed"}
      BY <1>1, <2>1 DEF HistoryInv, OpenRowOf
    <3>3. RowStatus(id) \in {"running", "failed", "deleted"}
      <4>1. CASE \E r \in runs : r.id = id
        BY <3>2, <4>1, StatusOfRow DEF HistoryInv
      <4>2. CASE \A r \in runs : r.id # id
        BY <3>1, <4>2, StatusOfRow DEF HistoryInv
      <4>. QED
        BY <4>1, <4>2
    <3>. QED
      BY <3>3 DEF Ledger
  <2>4. History!Snapshot(id)
    BY <1>2, <2>2, <2>3 DEF History!Snapshot
  <2>. QED
    BY <2>4 DEF History!Next
<1>. QED
  BY <1>1, <1>3, <1>4

\* Until restic has ended well, what it does stores nothing.
LEMMA StoredKept ==
  ASSUME TypeOK, NEW p \in Procs, restic[p] # "complete", restic'[p] # "complete",
         \A q \in Procs : q # p => restic'[q] = restic[q] /\ run_id'[q] = run_id[q]
  PROVE  Stored' = Stored
<1>1. \A q \in Procs : restic'[q] = "complete" <=> restic[q] = "complete"
  OBVIOUS
<1>2. \A q \in Procs : restic[q] = "complete" => run_id'[q] = run_id[q]
  OBVIOUS
<1>. QED
  BY <1>1, <1>2 DEF Stored

LEMMA StepHistory ==
  ASSUME TypeOK, TypeOK', TestInv, HistoryInv, HistoryInv', [Next]_vars
  PROVE  [History!Next]_History!vars
<1>1. ASSUME NEW p \in Procs, Startup(p) \/ Report(p) PROVE [History!Next]_History!vars
  BY <1>1, StartupKeepsHistory, NothingHappens
<1>2. ASSUME NEW p \in Procs, CreateRun(p) PROVE [History!Next]_History!vars
  <2>1. restic[p] = "none" /\ restic' = restic
    BY <1>2, CreateRunKeepsHistory
  <2>2. \A q \in Procs : q # p => run_id'[q] = run_id[q]
    BY <1>2 DEF CreateRun, TypeOK
  <2>3. Stored' = Stored
    BY <2>1, <2>2, StoredKept
  <2>4. CASE Insert(TestBackup[p], p)
    BY <2>3, <2>4, RowOpens
  <2>5. CASE UNCHANGED <<runs, next_id, run_id>>
    BY <2>1, <2>5, NothingHappens
  <2>. QED
    BY <1>2, <2>4, <2>5 DEF CreateRun
<1>3. ASSUME NEW p \in Procs, StartRestic(p) PROVE [History!Next]_History!vars
  <2>1. /\ UNCHANGED <<runs, next_id, run_id>> /\ restic[p] = "none" /\ restic'[p] # "complete"
        /\ \A q \in Procs : q # p => restic'[q] = restic[q]
    BY <1>3 DEF StartRestic, tables, TypeOK, HistoryInv, OpenRowOf
  <2>2. Stored' = Stored
    BY <2>1, StoredKept
  <2>3. Ledger' = Ledger
    BY <2>1 DEF Ledger, RowStatus
  <2>. QED
    BY <2>2, <2>3 DEF History!vars
<1>4. ASSUME NEW p \in Procs, Record(p) PROVE [History!Next]_History!vars
  <2>1. UNCHANGED <<next_id, restic, run_id>> /\ pc[p] \in Open
    BY <1>4 DEF Record, Open
  <2>2. Stored' = Stored
    BY <2>1 DEF Stored
  <2>3. CASE UNCHANGED runs
    BY <2>1, <2>3, NothingHappens
  <2>4. ASSUME NEW status \in {"success", "failed"}, Update(run_id[p], status),
               status = "success" => restic[p] = "complete"
        PROVE  [History!Next]_History!vars
    BY <2>1, <2>2, <2>4, RowCloses
  <2>. QED
    BY <1>4, <2>3, <2>4 DEF Record
<1>5. ASSUME NEW p \in Procs, ResticExit(p) PROVE [History!Next]_History!vars
  BY <1>5, ResticStores
<1>6. ASSUME NEW p \in Procs, OutputFails(p) PROVE [History!Next]_History!vars
  BY <1>6, NothingHappens DEF OutputFails, tables
<1>7. CASE Others
  <2>1. UNCHANGED process
    BY <1>7 DEF Others, OtherRun, WriteSetting, DeleteSetting, DeleteJob, DeleteDevice, Edit
  <2>2. Stored' = Stored
    BY <2>1 DEF Stored, process
  <2>3. \/ next_id' = next_id /\ runs' \subseteq runs
        \/ \E job \in Jobs : Insert(job, None)
    BY <1>7 DEF Others, OtherRun, WriteSetting, DeleteSetting, DeleteJob, DeleteDevice
  <2>. QED
    BY <2>2, <2>3, RowOpens, RowsGo
<1>8. CASE UNCHANGED vars
  BY <1>8, NothingHappens DEF vars, process, tables
<1>. QED
  BY <1>1, <1>2, <1>3, <1>4, <1>5, <1>6, <1>7, <1>8, NextCases

\* The rows of all clients, and the snapshots of the test backups, live as
\* RunHistory says: however many processes start and die, and whatever others
\* insert and delete meanwhile.
THEOREM TestsImplementRunHistory == Spec => HistorySpec
<1>1. Init => History!Init
  BY DEF Init, History!Init, Ledger, RowStatus, Stored, RunIds
<1>. QED
  BY <1>1, StepHistory, TypeCorrect, TestsCorrect, HistoryInvariant, PTL
     DEF Spec, HistorySpec, History!Spec
=============================================================================
