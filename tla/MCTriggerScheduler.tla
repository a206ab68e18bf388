-------------------------- MODULE MCTriggerScheduler --------------------------
(* Instances of TriggerScheduler for TLC.                                  *)
EXTENDS TriggerScheduler

\* A cron schedule and an interval, with periods that do not divide.
TwoSpecs == {[every |-> FALSE, period |-> 2], [every |-> TRUE, period |-> 3]}
=============================================================================
