---------------------------- MODULE ResticOutput ----------------------------
(***************************************************************************)
(* parse_restic_json_output, src/backup/output.rs: it walks over the lines *)
(* restic printed and decides whether a restic that ended with code 0 has  *)
(* reported a snapshot.  Its Ok is what Executor calls "complete", its Err *)
(* "no_summary".                                                           *)
(*                                                                         *)
(* count stands for each of the numbers of a summary: absent, or a number  *)
(* that may be too large for the field's i32 or i64.                       *)
(***************************************************************************)
EXTENDS Integers, Sequences

CONSTANTS
  SnapshotIds,
  Counts,     \* numbers restic prints
  MaxCount,   \* the largest number the field holds
  Outputs,    \* the outputs to parse
  None

OptId    == SnapshotIds \cup {None}
OptCount == Counts \cup {None}

\* "not_message": no JSON object with a message_type; "other": a message of
\* another type, such as status.
Line ==
  [kind : {"blank", "not_message", "other"}, snapshot_id : {None}, count : {None}]
    \cup [kind : {"summary"}, snapshot_id : OptId, count : OptCount]

ResticSummary == [snapshot_id : OptId, count : OptCount]
Answer ==
  [ok : {TRUE}, snapshot_id : SnapshotIds, count : Nat]
    \cup [ok : {FALSE}, error : {"no summary", "no snapshot_id"}]

ASSUME ResticOutputAssumption ==
  /\ Counts \subseteq Nat /\ MaxCount \in Nat
  /\ None \notin SnapshotIds \cup Counts \cup ResticSummary \cup Answer
  /\ Outputs \subseteq Seq(Line)

VARIABLES
  stdout,   \* the lines
  i,        \* the line the loop is at
  pc,       \* "scan", "report" (after the loop), "done"
  summary,  \* Option<ResticSummary>
  answer    \* the Result; None: not there yet

vars == <<stdout, i, pc, summary, answer>>

Init ==
  /\ stdout \in Outputs
  /\ i = 1
  /\ pc = "scan"
  /\ summary = None
  /\ answer = None

-----------------------------------------------------------------------------
\* serde reads the line as a ResticSummary: all fields are optional, but one
\* that does not fit its type fails the whole line.
Parses(line) ==
  line.kind = "summary" /\ (line.count # None => line.count <= MaxCount)

\* The loop's body, for a line that is skipped: blank, no message, another
\* message, or a summary that cannot be read (which is logged).
SkipLine ==
  /\ pc = "scan"
  /\ i <= Len(stdout)
  /\ ~Parses(stdout[i])
  /\ i' = i + 1
  /\ UNCHANGED <<stdout, pc, summary, answer>>

\* Mutant: the break is missing, so that the last summary wins.
TakeSummaryAndGoOn ==
  /\ pc = "scan"
  /\ i <= Len(stdout)
  /\ Parses(stdout[i])
  /\ summary' = [snapshot_id |-> stdout[i].snapshot_id, count |-> stdout[i].count]
  /\ i' = i + 1
  /\ UNCHANGED <<stdout, pc, answer>>

\* The loop's body, for the first summary: break.
TakeSummary ==
  /\ pc = "scan"
  /\ i <= Len(stdout)
  /\ Parses(stdout[i])
  /\ summary' = [snapshot_id |-> stdout[i].snapshot_id, count |-> stdout[i].count]
  /\ pc' = "report"
  /\ UNCHANGED <<stdout, i, answer>>

EndOfOutput ==
  /\ pc = "scan"
  /\ i > Len(stdout)
  /\ pc' = "report"
  /\ UNCHANGED <<stdout, i, summary, answer>>

\* Mutant: an absent number becomes -1 (unwrap_or(-1)), which is no count.
ToStatsMinusOne(s) ==
  [ok |-> TRUE, snapshot_id |-> s.snapshot_id,
   count |-> IF s.count = None THEN -1 ELSE s.count]

\* BackupStats: an absent number is 0.
ToStats(s) ==
  [ok |-> TRUE, snapshot_id |-> s.snapshot_id,
   count |-> IF s.count = None THEN 0 ELSE s.count]

\* After the loop.
Report ==
  /\ pc = "report"
  /\ pc' = "done"
  /\ answer' = IF summary = None THEN [ok |-> FALSE, error |-> "no summary"]
               ELSE IF summary.snapshot_id = None THEN [ok |-> FALSE, error |-> "no snapshot_id"]
               ELSE ToStats(summary)
  /\ UNCHANGED <<stdout, i, summary>>

Done == pc = "done" /\ UNCHANGED vars

Next == SkipLine \/ TakeSummary \/ EndOfOutput \/ Report \/ Done

Spec == Init /\ [][Next]_vars

-----------------------------------------------------------------------------
(* Properties *)

\* Types of the parser's variables; the answer is there when the function has
\* returned, and an Ok counts with numbers that are not negative.
TypeOK ==
  /\ stdout \in Seq(Line)
  /\ i \in 1 .. Len(stdout) + 1
  /\ pc \in {"scan", "report", "done"}
  /\ summary \in ResticSummary \cup {None}
  /\ answer \in Answer \cup {None}
  /\ pc = "done" <=> answer # None

\* Where the first line stands that is a readable summary.
IsFirstSummary(k) ==
  /\ k \in 1 .. Len(stdout)
  /\ Parses(stdout[k])
  /\ \A m \in 1 .. k - 1 : ~Parses(stdout[m])

\* The answer is made of the first summary that can be read, wherever it stands
\* and whatever surrounds it: an Ok carries its snapshot, an Err says that it
\* names none or that there is no such line.  A summary that cannot be read
\* does not hide a later one; one that names no snapshot does.
AnswerIsFirstSummary ==
  pc = "done" =>
    \/ /\ answer.ok
       /\ \E k \in 1 .. Len(stdout) :
            /\ IsFirstSummary(k)
            /\ stdout[k].snapshot_id = answer.snapshot_id
            /\ stdout[k].count \in {None, answer.count}
            /\ stdout[k].count = None => answer.count = 0
    \/ /\ ~answer.ok /\ answer.error = "no snapshot_id"
       /\ \E k \in 1 .. Len(stdout) : IsFirstSummary(k) /\ stdout[k].snapshot_id = None
    \/ /\ ~answer.ok /\ answer.error = "no summary"
       /\ \A k \in 1 .. Len(stdout) : ~Parses(stdout[k])
=============================================================================
