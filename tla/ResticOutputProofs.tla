------------------------ MODULE ResticOutputProofs ----
(***************************************************************************)
(* The parser's answer, for every output of any length.                    *)
(***************************************************************************)
EXTENDS ResticOutput, SequenceTheorems, TLAPS

LEMMA InitTypeOK == Init => TypeOK
<1> SUFFICES ASSUME Init PROVE TypeOK
  OBVIOUS
<1>1. stdout \in Seq(Line) /\ Len(stdout) \in Nat
  BY ResticOutputAssumption DEF Init
<1>. QED
  BY <1>1 DEF Init, TypeOK

\* What TakeSummary stores is a summary.
LEMMA LineIsSummary ==
  ASSUME NEW line \in Line, Parses(line)
  PROVE  /\ line.snapshot_id \in OptId
         /\ line.count \in OptCount
BY DEF Line, Parses

LEMMA ReportedAnswer ==
  ASSUME TypeOK, Report
  PROVE  answer' \in Answer
<1>1. CASE summary = None
  BY <1>1 DEF Report, Answer
<1>2. CASE summary # None /\ summary.snapshot_id = None
  BY <1>2 DEF Report, Answer
<1>3. CASE summary # None /\ summary.snapshot_id # None
  <2>1. summary.snapshot_id \in SnapshotIds /\ summary.count \in OptCount
    BY <1>3 DEF TypeOK, ResticSummary, OptId
  <2>2. (IF summary.count = None THEN 0 ELSE summary.count) \in Nat
    BY <2>1, ResticOutputAssumption DEF OptCount
  <2>3. answer' = ToStats(summary)
    BY <1>3 DEF Report
  <2>. QED
    BY <2>1, <2>2, <2>3 DEF ToStats, Answer
<1>. QED
  BY <1>1, <1>2, <1>3

LEMMA StepTypeOK == TypeOK /\ [Next]_vars => TypeOK'
<1> SUFFICES ASSUME TypeOK, [Next]_vars PROVE TypeOK'
  OBVIOUS
<1>0. Len(stdout) \in Nat /\ \A k \in 1 .. Len(stdout) : stdout[k] \in Line
  BY DEF TypeOK
<1>1. CASE SkipLine
  BY <1>0, <1>1 DEF TypeOK, SkipLine
<1>2. CASE TakeSummary
  <2>1. stdout[i] \in Line /\ Parses(stdout[i])
    BY <1>0, <1>2 DEF TypeOK, TakeSummary
  <2>2. summary' \in ResticSummary
    BY <1>2, <2>1, LineIsSummary DEF TakeSummary, ResticSummary
  <2>. QED
    BY <1>2, <2>2 DEF TypeOK, TakeSummary
<1>3. CASE EndOfOutput
  BY <1>3 DEF TypeOK, EndOfOutput
<1>4. CASE Report
  <2>1. answer' \in Answer /\ answer' # None
    BY <1>4, ReportedAnswer, ResticOutputAssumption
  <2>2. UNCHANGED <<stdout, i, summary>> /\ pc' = "done"
    BY <1>4 DEF Report
  <2>. QED
    BY <2>1, <2>2 DEF TypeOK
<1>5. CASE UNCHANGED vars
  BY <1>5 DEF TypeOK, vars
<1>. QED
  BY <1>1, <1>2, <1>3, <1>4, <1>5 DEF Next, Done

\* Every variable keeps its type.
THEOREM TypeCorrect == Spec => []TypeOK
BY InitTypeOK, StepTypeOK, PTL DEF Spec

-----------------------------------------------------------------------------
\* No line before the loop's position can be read as a summary; what the loop
\* has left with is the line it stands at, or nothing at the end.
ScanInv ==
  /\ \A m \in 1 .. i - 1 : ~Parses(stdout[m])
  /\ pc = "scan" => summary = None
  /\ pc # "scan" =>
       \/ summary = None /\ i = Len(stdout) + 1
       \/ /\ IsFirstSummary(i)
          /\ summary = [snapshot_id |-> stdout[i].snapshot_id, count |-> stdout[i].count]

LEMMA InitScanInv == Init => ScanInv /\ AnswerIsFirstSummary
BY DEF Init, ScanInv, AnswerIsFirstSummary

LEMMA StepScanInv == TypeOK /\ ScanInv /\ [Next]_vars => ScanInv'
<1> SUFFICES ASSUME TypeOK, ScanInv, [Next]_vars PROVE ScanInv'
  OBVIOUS
<1>0. Len(stdout) \in Nat /\ i \in 1 .. Len(stdout) + 1
  BY DEF TypeOK
<1>1. CASE SkipLine
  BY <1>0, <1>1 DEF ScanInv, SkipLine
<1>2. CASE TakeSummary
  <2>1. IsFirstSummary(i)
    BY <1>0, <1>2 DEF ScanInv, TakeSummary, IsFirstSummary
  <2>2. UNCHANGED <<stdout, i>>
    BY <1>2 DEF TakeSummary
  <2>3. IsFirstSummary(i)'
    BY <2>1, <2>2 DEF IsFirstSummary
  <2>. QED
    BY <1>2, <2>2, <2>3 DEF ScanInv, TakeSummary
<1>3. CASE EndOfOutput
  BY <1>0, <1>3 DEF ScanInv, EndOfOutput
<1>4. CASE Report \/ UNCHANGED vars
  <2>1. UNCHANGED <<stdout, i, summary>> /\ (pc = "scan" <=> pc' = "scan")
    BY <1>4 DEF Report, vars
  <2>. QED
    BY <2>1 DEF ScanInv, IsFirstSummary
<1>. QED
  BY <1>1, <1>2, <1>3, <1>4 DEF Next, Done

\* What Report answers, by the three ways the loop can have ended.
LEMMA ReportIsFirstSummary ==
  ASSUME TypeOK, ScanInv, Report
  PROVE  AnswerIsFirstSummary'
<1>1. Len(stdout) \in Nat
  BY DEF TypeOK
<1>2. UNCHANGED <<stdout, i, summary>>
  BY DEF Report
<1>3. Len(stdout) \in Nat /\ UNCHANGED <<stdout, i, summary>>
  BY <1>1, <1>2
<1>4. CASE summary = None /\ i = Len(stdout) + 1
  <2>1. answer' = [ok |-> FALSE, error |-> "no summary"]
    BY <1>4 DEF Report
  <2>2. \A k \in 1 .. Len(stdout) : ~Parses(stdout[k])
    BY <1>3, <1>4 DEF ScanInv
  <2>. QED
    BY <1>3, <2>1, <2>2 DEF AnswerIsFirstSummary
<1>5. CASE /\ IsFirstSummary(i)
           /\ summary = [snapshot_id |-> stdout[i].snapshot_id, count |-> stdout[i].count]
  <2>1. i \in 1 .. Len(stdout) /\ stdout[i] \in Line /\ Parses(stdout[i])
    BY <1>5 DEF IsFirstSummary, TypeOK
  <2>2. summary # None /\ IsFirstSummary(i)'
    BY <1>3, <1>5, <2>1, LineIsSummary, ResticOutputAssumption DEF ResticSummary, IsFirstSummary
  <2>3. CASE stdout[i].snapshot_id = None
    <3>1. answer' = [ok |-> FALSE, error |-> "no snapshot_id"]
      BY <1>5, <2>2, <2>3 DEF Report
    <3>. QED
      BY <1>3, <2>1, <2>2, <2>3, <3>1 DEF AnswerIsFirstSummary
  <2>4. CASE stdout[i].snapshot_id # None
    <3>1. answer' = ToStats(summary)
      BY <1>5, <2>2, <2>4 DEF Report
    <3>2. /\ answer'.ok
          /\ stdout[i].snapshot_id = answer'.snapshot_id
          /\ stdout[i].count = None => answer'.count = 0
          /\ stdout[i].count # None => answer'.count = stdout[i].count
      BY <1>5, <3>1 DEF ToStats
    <3>. QED
      BY <1>3, <2>1, <2>2, <3>2 DEF AnswerIsFirstSummary
  <2>. QED
    BY <2>3, <2>4
<1>. QED
  BY <1>4, <1>5 DEF ScanInv, Report

\* For every output, the answer is made of its first readable summary.
THEOREM AnswersAreFirstSummaries == Spec => []AnswerIsFirstSummary
<1>1. TypeOK /\ ScanInv /\ AnswerIsFirstSummary /\ [Next]_vars => AnswerIsFirstSummary'
  <2> SUFFICES ASSUME TypeOK, ScanInv, AnswerIsFirstSummary, [Next]_vars
               PROVE  AnswerIsFirstSummary'
    OBVIOUS
  <2>1. CASE Report
    BY <2>1, ReportIsFirstSummary
  <2>2. CASE UNCHANGED vars
    BY <2>2 DEF vars, AnswerIsFirstSummary, IsFirstSummary
  <2>3. CASE SkipLine \/ TakeSummary \/ EndOfOutput
    BY <2>3 DEF SkipLine, TakeSummary, EndOfOutput, AnswerIsFirstSummary
  <2>. QED
    BY <2>1, <2>2, <2>3 DEF Next, Done
<1>. QED
  BY TypeCorrect, InitScanInv, StepScanInv, <1>1, PTL DEF Spec
=============================================================================
