----------------------------- MODULE RunHistory -----------------------------
(***************************************************************************)
(* What the table runs promises about the backups of this client, whoever  *)
(* writes it and whatever is lost on the way: the life of a row, and how   *)
(* it relates to the snapshots in the repository.                          *)
(*                                                                         *)
(*   - a snapshot is only ever taken for a run that was recorded first, and*)
(*     never for one that was closed as a success: a restic that nobody    *)
(*     waits for any more may still store one;                             *)
(*   - a run closes once, as success only if its snapshot is there, and    *)
(*     never changes after that except by being deleted;                   *)
(*   - a deleted run stays deleted.                                        *)
(*                                                                         *)
(* A run need not ever close: the module makes no progress promise, since  *)
(* the client leaves a row open when it is killed.                         *)
(***************************************************************************)
CONSTANT Execs

VARIABLES
  ledger,      \* the state of the row of each execution
  repository   \* the executions with a snapshot

vars == <<ledger, repository>>

Init ==
  /\ ledger = [e \in Execs |-> "absent"]
  /\ repository = {}

Move(e, from, to) ==
  /\ ledger[e] = from
  /\ ledger' = [ledger EXCEPT ![e] = to]
  /\ UNCHANGED repository

Open(e)    == Move(e, "absent", "running")
Fail(e)    == Move(e, "running", "failed")
Succeed(e) == e \in repository /\ Move(e, "running", "success")

Snapshot(e) ==
  /\ ledger[e] \in {"running", "failed", "deleted"}
  /\ repository' = repository \cup {e}
  /\ UNCHANGED ledger

\* The runs of a deleted job disappear together.
Purge(E) ==
  /\ \A e \in E : ledger[e] # "absent"
  /\ ledger' = [e \in Execs |-> IF e \in E THEN "deleted" ELSE ledger[e]]
  /\ UNCHANGED repository

Next ==
  \/ \E e \in Execs : Open(e) \/ Fail(e) \/ Succeed(e) \/ Snapshot(e)
  \/ \E E \in SUBSET Execs : Purge(E)

Spec == Init /\ [][Next]_vars
=============================================================================
