---------------------------- MODULE MCWorkflows -----------------------------
(* Instances of Workflows for TLC.                                         *)
EXTENDS Workflows

SomeGraphs == {[drawing |-> "first", plugins |-> {"mail"}],
               [drawing |-> "second", plugins |-> {}],
               [drawing |-> "garbled", plugins |-> {}]}

\* Fewer operations where they overlap.
TwoOrThree == [overlap \in BOOLEAN |-> IF overlap THEN 2 ELSE 3]
=============================================================================
