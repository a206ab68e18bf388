---------------------------- MODULE MCProcessRuns ----------------------------
(* Instances of ProcessRuns for TLC.                                       *)
EXTENDS ProcessRuns, TLC

\* Rows are interchangeable: nothing in the table orders them.
RowSymmetry == Permutations(Idx)
=============================================================================
