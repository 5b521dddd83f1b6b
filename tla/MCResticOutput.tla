--------------------------- MODULE MCResticOutput ---------------------------
(* Small instances of ResticOutput for TLC. *)
EXTENDS ResticOutput, SequencesExt

CONSTANTS
  MaxLines,   \* bound: the length of an output
  id1, id2

\* Every output of at most MaxLines lines, in every order.
ShortOutputs == BoundedSeq(Line, MaxLines)
=============================================================================
