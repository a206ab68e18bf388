-------------------------- MODULE MCSwitchableStore ---------------------------
(* Instances of SwitchableStore for TLC.                                   *)
EXTENDS SwitchableStore
=============================================================================
