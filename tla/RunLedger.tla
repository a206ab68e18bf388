------------------------------ MODULE RunLedger ------------------------------
(***************************************************************************)
(* What recording and dispatching runs promises, with no table, engine or  *)
(* goroutine in sight: every run is in one phase, moves only forwards, and *)
(* is sent to the engine at most once, after it was claimed.               *)
(***************************************************************************)
CONSTANT Idx

VARIABLE phase

LedgerInit == phase = [i \in Idx |-> "none"]

Move(i, from, to) ==
  /\ phase[i] = from
  /\ phase' = [phase EXCEPT ![i] = to]

\* A run asked for later waits in the queue; one asked for now is claimed by
\* whoever asked.
Book(i) == Move(i, "none", "queued")
Take(i) == Move(i, "none", "claimed")

Claim(i) == Move(i, "queued", "claimed")
Send(i) == Move(i, "claimed", "sent")

\* The run is given up before it reached the engine.
Drop(i) == Move(i, "queued", "dropped") \/ Move(i, "claimed", "dropped")

LedgerNext ==
  \E i \in Idx : Book(i) \/ Take(i) \/ Claim(i) \/ Send(i) \/ Drop(i)

LedgerSpec == LedgerInit /\ [][LedgerNext]_phase

=============================================================================
