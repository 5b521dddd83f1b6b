-------------------------- MODULE PeriodicTrigger --------------------------
(***************************************************************************)
(* What the scheduler promises of each schedule, whatever is restarted or  *)
(* lost on the way: a time is planned for it, and                          *)
(*                                                                         *)
(*   - a plan is only replaced when its time has come, and by a later one; *)
(*   - a run that was recorded is not repeated before the plan made then;  *)
(*   - a plan that was replaced without its run being recorded is          *)
(*     unconfirmed, and may be replaced again, ahead of its time, by one   *)
(*     that is not earlier, until the process forgets of it.               *)
(*                                                                         *)
(* A plan need not lie ahead of the clock: it is written some time after   *)
(* it was made.  There is no progress promise: a schedule may be switched  *)
(* off.                                                                    *)
(***************************************************************************)
EXTENDS Integers

CONSTANTS Triggers, None

VARIABLES
  clock,
  planned,      \* when each trigger runs next; None: not known yet
  earliest,     \* when the run recorded last may be followed by another
  unconfirmed   \* triggers with a plan whose run was not recorded

vars == <<clock, planned, earliest, unconfirmed>>

Init ==
  /\ clock = 0
  /\ planned \in [Triggers -> Nat \cup {None}]
  /\ earliest = [s \in Triggers |-> None]
  /\ unconfirmed = {}

\* Time passes.
Tick == clock' = clock + 1 /\ UNCHANGED <<planned, earliest, unconfirmed>>

\* A plan for one trigger.
Set(s) ==
  /\ planned'[s] \in Nat
  /\ planned' = [planned EXCEPT ![s] = planned'[s]]
  /\ UNCHANGED clock

\* A trigger without a plan gets its first one, from the run before it.
FirstPlan(s) == planned[s] = None /\ Set(s) /\ UNCHANGED <<earliest, unconfirmed>>

\* A plan whose time has come gives way to a later one; so does one that is
\* unconfirmed, though its time may not have come.
Replace(s) ==
  /\ \/ planned[s] = None
     \/ planned[s] <= clock /\ planned[s] < planned'[s]
     \/ s \in unconfirmed /\ planned[s] <= planned'[s]
  /\ Set(s)

\* A run, recorded with its plan.
Run(s) ==
  /\ earliest[s] = None \/ earliest[s] <= clock
  /\ Replace(s)
  /\ earliest' = [earliest EXCEPT ![s] = planned'[s]]
  /\ unconfirmed' = unconfirmed \ {s}

\* A run whose plan was written, though the process was told otherwise.
RunUnrecorded(s) ==
  /\ Replace(s)
  /\ unconfirmed' = unconfirmed \cup {s}
  /\ UNCHANGED earliest

\* A restart reads the plans anew.
Forget == unconfirmed' \subseteq unconfirmed /\ UNCHANGED <<clock, planned, earliest>>

Next ==
  \/ Tick \/ Forget
  \/ \E s \in Triggers : FirstPlan(s) \/ Run(s) \/ RunUnrecorded(s)

Spec == Init /\ [][Next]_vars
=============================================================================
