--------------------------- MODULE TriggerScheduler ---------------------------
(***************************************************************************)
(* The recurring scheduler: the schedule rows of the triggers table, the   *)
(* REST and MCP operations that edit them, and the loop that arms each     *)
(* enabled schedule, sleeps until the nearest fire and starts a run.       *)
(*                                                                         *)
(* One action is one statement on the table or one launch, with the local  *)
(* work up to the next; what a launch does is ProcessRuns' subject.  Time  *)
(* is a counter that stops at MaxTime, where every timer goes off.         *)
(***************************************************************************)
EXTENDS Naturals, FiniteSets

CONSTANTS
  Trigger,     \* trigger ids the table can hand out
  Flow,        \* workflows
  Clients,     \* goroutines that may be inside a save
  Specs,       \* effective cron specs a save may ask for
  EditsSpec,   \* may a save give a trigger another spec
  StoreFails,  \* may listing the schedules fail
  Fallback,    \* triggerSchedulerFallback
  MaxTime,     \* bound on the clock
  MaxSaves,    \* bound on saves
  MaxRestarts  \* bound on restarts of the API

ASSUME TriggersOK ==
  /\ Flow # {}
  /\ Specs \subseteq [every : BOOLEAN, period : Nat \ {0}]
  /\ EditsSpec \in BOOLEAN /\ StoreFails \in BOOLEAN
  /\ Fallback \in Nat \ {0}
  /\ MaxTime \in Nat /\ MaxSaves \in Nat /\ MaxRestarts \in Nat

VARIABLES
  now,      \* the clock
  rows,     \* the triggers table
  saves,    \* a save between its check and its write, per client
  saved,    \* how many saves have begun
  wake,     \* the wake channel holds a signal
  sched,    \* the loop
  armed,    \* its map from triggers to their next fire, 0 for none
  restarts, \* restarts so far
  booted,   \* history: when the API last started
  last,     \* history: pass and spec of each trigger's last fire
  late      \* history: fires since a trigger was last disabled or deleted

vars == <<now, rows, saves, saved, wake, sched, armed, restarts, booted, last,
          late>>

-----------------------------------------------------------------------------
\* A period of cron starts at its multiples; an @every one where it is asked.
NoSpec == [every |-> TRUE, period |-> 0]

SameFire(spec, at) ==
  IF spec.every THEN at + spec.period
                ELSE ((at + spec.period - 1) \div spec.period) * spec.period

\* NextFire: strictly after `at`.
NextFire(spec, at) ==
  IF spec.every THEN at + spec.period
                ELSE (at \div spec.period + 1) * spec.period

Minus(i, j) == IF i > j THEN i - j ELSE 0

\* on and off are a schedule's; a webhook is none of the loop's business.
\* A row that is deleted ("gone") or made a webhook loses its spec; the model
\* remembers it.
Row == [state : {"none", "on", "off", "webhook", "gone"},
        flow : Flow, spec : Specs \cup {NoSpec}]

Exists(t) == rows[t].state \notin {"none", "gone"}
Enabled(t) == rows[t].state = "on"

NoRow == [state |-> "none", spec |-> NoSpec, flow |-> CHOOSE f \in Flow : TRUE]
NoSave == [trigger |-> "none", row |-> NoRow]
Save == [trigger : Trigger, row : Row]

\* at: the pass's idea of now; list: the rows still to visit, with the spec
\* they were listed with; seen: all the rows listed; wait: the sleep so far;
\* took: how long the last pass took, and listed: did it get its list; until:
\* when the sleep is over.
Sched == [pc : {"asleep", "loop", "down"}, at : 0..MaxTime,
          list : [Trigger -> Specs \cup {NoSpec}], seen : SUBSET Trigger,
          wait : 0..Fallback, took : 0..MaxTime, until : Nat, listed : BOOLEAN]

NoList == [t \in Trigger |-> NoSpec]

Started == [pc |-> "asleep", at |-> 0, list |-> NoList, seen |-> {},
            wait |-> 0, took |-> 0, until |-> 0, listed |-> FALSE]

TTypeOK ==
  /\ now \in 0..MaxTime
  /\ rows \in [Trigger -> Row]
  /\ saves \in [Clients -> Save \cup {NoSave}]
  /\ saved \in 0..MaxSaves
  /\ wake \in BOOLEAN
  /\ sched \in Sched
  /\ armed \in [Trigger -> Nat]
  /\ restarts \in 0..MaxRestarts
  /\ booted \in 0..MaxTime
  /\ last \in [Trigger -> [at : 0..MaxTime, spec : Specs \cup {NoSpec}]]
  /\ late \in [Trigger -> Nat]

Init ==
  /\ now = 0
  /\ rows = [t \in Trigger |-> NoRow]
  /\ saves = [c \in Clients |-> NoSave]
  /\ saved = 0
  /\ wake = FALSE
  /\ sched = Started
  /\ armed = [t \in Trigger |-> 0]
  /\ restarts = 0
  /\ booted = 0
  /\ last = [t \in Trigger |-> [at |-> 0, spec |-> NoSpec]]
  /\ late = [t \in Trigger |-> 0]

Tick ==
  /\ now < MaxTime
  /\ now' = now + 1
  /\ UNCHANGED <<rows, saves, saved, wake, sched, armed, restarts, booted,
                 last, late>>

-----------------------------------------------------------------------------
(* Saves and deletes                                                       *)

\* ensureSingleTrigger: no other trigger of the flow is listed.
AnyTrigger(t, flow) == TRUE
Single(t, flow) == \A s \in Trigger \ {t} : Exists(s) => rows[s].flow # flow

\* Is the spec the one the trigger has, or is to have, if it has one?
SameSpec(t, spec) ==
  /\ rows[t].spec \in {NoSpec, spec}
  /\ \A c \in Clients : saves[c].trigger = t => saves[c].row.spec = spec

\* normalize has passed and so has the check; a fresh id is one of "none".
BeginSave(c, t, row) ==
  /\ sched.pc # "down"
  /\ saves[c] = NoSave
  /\ saved < MaxSaves
  /\ \/ row.state \in {"on", "off"} /\ row.spec # NoSpec
     \/ row.state = "webhook" /\ row.spec = rows[t].spec
  /\ EditsSpec \/ SameSpec(t, row.spec)
  /\ Single(t, row.flow)
  /\ saves' = [saves EXCEPT ![c] = [trigger |-> t, row |-> row]]
  /\ saved' = saved + 1
  /\ UNCHANGED <<now, rows, wake, sched, armed, restarts, booted, last, late>>

NotifiesNothing(row) == FALSE
Notifies(row) == row.state # "webhook"

\* Upsert, and a saved schedule wakes the loop.
WriteSave(c) ==
  LET t == saves[c].trigger
      row == saves[c].row
  IN /\ saves[c] # NoSave
     /\ rows' = [rows EXCEPT ![t] = row]
     /\ saves' = [saves EXCEPT ![c] = NoSave]
     /\ wake' = (wake \/ Notifies(row))
     /\ late' = [late EXCEPT ![t] = 0]
     /\ UNCHANGED <<now, saved, sched, armed, restarts, booted, last>>

\* deleteByID.
DeleteTrigger(t) ==
  /\ sched.pc # "down"
  /\ Exists(t)
  /\ rows' = [rows EXCEPT ![t].state = "gone"]
  /\ wake' = TRUE
  /\ late' = [late EXCEPT ![t] = 0]
  /\ UNCHANGED <<now, saves, saved, sched, armed, restarts, booted, last>>

-----------------------------------------------------------------------------
(* The loop                                                                *)

AllSchedules == {t \in Trigger : rows[t].state \in {"on", "off"}}
EnabledSchedules == {t \in Trigger : Enabled(t)}

\* The timer or the wake channel: ListEnabledSchedules and the pass's now.
BeginPass ==
  /\ sched.pc = "asleep"
  /\ wake \/ now >= sched.until \/ now = MaxTime
  /\ wake' = FALSE
  /\ sched' = [sched EXCEPT
       !.pc = "loop", !.at = now, !.wait = Fallback, !.seen = EnabledSchedules,
       !.until = 0, !.took = 0, !.listed = FALSE,
       !.list = [t \in Trigger |-> IF t \in EnabledSchedules THEN rows[t].spec
                                                             ELSE NoSpec]]
  /\ UNCHANGED <<now, rows, saves, saved, armed, restarts, booted, last, late>>

\* The list failed: sleep for the fallback, the signal is used up.
PassFails ==
  /\ StoreFails
  /\ sched.pc = "asleep"
  /\ wake \/ now >= sched.until \/ now = MaxTime
  /\ wake' = FALSE
  /\ sched' = [Started EXCEPT !.until = now + Fallback]
  /\ UNCHANGED <<now, rows, saves, saved, armed, restarts, booted, last, late>>

\* How a trigger is armed the first time the loop sees it.
FirstFire(spec, at) == NextFire(spec, at)

DueBefore(t) == armed[t] # 0 /\ armed[t] < sched.at
Due(t) == armed[t] # 0 /\ armed[t] <= sched.at

FallbackWait(wait, d) == wait
ShortestWait(wait, d) == IF d < wait THEN d ELSE wait

Visited(t, next) ==
  sched' = [sched EXCEPT !.list[t] = NoSpec,
                         !.wait = ShortestWait(@, Minus(next, now))]

\* Not due: armed if it was not, else as it is.
Skip(t) ==
  LET spec == sched.list[t]
      next == IF armed[t] = 0 THEN FirstFire(spec, sched.at) ELSE armed[t]
  IN /\ sched.pc = "loop"
     /\ spec # NoSpec
     /\ ~Due(t)
     /\ armed' = [armed EXCEPT ![t] = next]
     /\ Visited(t, next)
     /\ UNCHANGED <<now, rows, saves, saved, wake, restarts, booted, last, late>>

\* Due: the run is started (or its launch fails and is reported), and the
\* trigger is armed again from the pass's now.
Fire(t) ==
  LET spec == sched.list[t]
      next == NextFire(spec, sched.at)
  IN /\ sched.pc = "loop"
     /\ spec # NoSpec
     /\ Due(t)
     /\ armed' = [armed EXCEPT ![t] = next]
     /\ Visited(t, next)
     /\ \/ /\ last' = [last EXCEPT ![t] = [at |-> sched.at, spec |-> spec]]
           /\ late' = [late EXCEPT ![t] = IF Enabled(t) THEN 0 ELSE @ + 1]
        \/ UNCHANGED <<last, late>>
     /\ UNCHANGED <<now, rows, saves, saved, wake, restarts, booted>>

\* Forget what was not listed and sleep for the shortest wait.
EndPass ==
  /\ sched.pc = "loop"
  /\ sched.list = NoList
  /\ armed' = [t \in Trigger |-> IF t \in sched.seen THEN armed[t] ELSE 0]
  /\ sched' = [Started EXCEPT !.listed = TRUE, !.took = now - sched.at,
                              !.until = now + sched.wait]
  /\ UNCHANGED <<now, rows, saves, saved, wake, restarts, booted, last, late>>

-----------------------------------------------------------------------------
(* The API goes down, with its timers and its map, and comes back.         *)
GoDown ==
  /\ restarts < MaxRestarts
  /\ sched.pc # "down"
  /\ restarts' = restarts + 1
  /\ saves' = [c \in Clients |-> NoSave]
  /\ wake' = FALSE
  /\ sched' = [Started EXCEPT !.pc = "down"]
  /\ armed' = [t \in Trigger |-> 0]
  /\ UNCHANGED <<now, rows, saved, booted, last, late>>

\* StartTriggerScheduler: the loop starts with a pass.
Boot ==
  /\ sched.pc = "down"
  /\ sched' = Started
  /\ booted' = now
  /\ UNCHANGED <<now, rows, saves, saved, wake, armed, restarts, last, late>>

LoopNext ==
  \/ BeginPass
  \/ PassFails
  \/ \E t \in Trigger : Skip(t) \/ Fire(t)
  \/ EndPass

Next ==
  \/ Tick
  \/ \E c \in Clients, t \in Trigger, row \in Row : BeginSave(c, t, row)
  \/ \E c \in Clients : WriteSave(c)
  \/ \E t \in Trigger : DeleteTrigger(t)
  \/ LoopNext
  \/ GoDown
  \/ Boot

Spec == Init /\ [][Next]_vars

\* Time passes, the loop runs on and gets its list again and again, and what
\* went down comes back.
Fairness ==
  /\ WF_vars(Tick)
  /\ WF_vars(LoopNext)
  /\ SF_vars(BeginPass)
  /\ WF_vars(Boot)
  /\ \A c \in Clients : WF_vars(WriteSave(c))

FairSpec == Spec /\ Fairness

-----------------------------------------------------------------------------
(* Properties                                                              *)

Resting == sched.pc = "asleep" /\ sched.listed /\ ~wake

\* While the loop sleeps, every enabled schedule is armed no later than its
\* stored spec fires next: a save re-arms the loop ("a saved/changed schedule
\* may now be the nearest fire").
ArmedBySpec ==
  Resting => \A t \in Trigger :
    Enabled(t) => armed[t] # 0 /\ armed[t] <= NextFire(rows[t].spec, now)

\* The loop oversleeps a fire by no more than the time its own pass took;
\* occurrences missed while the API was down are skipped: nothing is armed for
\* a time before it came back.
SkipsMissed == \A t \in Trigger : armed[t] # 0 => armed[t] > booted
NotOverslept ==
  /\ SkipsMissed
  /\ Resting => \A t \in Trigger :
       armed[t] # 0 => sched.until <= armed[t] + sched.took

\* An occurrence of spec after i and no later than j, counted from i.
Occurs(spec, i, j) ==
  IF spec.every THEN j >= i + spec.period
                ELSE \E k \in (i + 1)..j : k % spec.period = 0

FiredAgain(t) == last'[t] # last[t] /\ last'[t].spec = last[t].spec
Apart == \A t \in Trigger : FiredAgain(t) => Occurs(last[t].spec, last[t].at, last'[t].at)

\* A schedule is never fired ahead of itself: between two fires with the same
\* spec lies an occurrence, whatever is saved, deleted or restarted.
OnSchedule == [][Apart]_vars

\* A trigger that was disabled or deleted fires at most once more, from the
\* pass that was under way.
LateAtMostOnce == \A t \in Trigger : late[t] <= 1

\* A workflow has at most one trigger: ensureSingleTrigger.
OneTriggerPerFlow ==
  /\ TTypeOK
  /\ \A s, t \in Trigger :
       Exists(s) /\ Exists(t) /\ rows[s].flow = rows[t].flow => s = t

\* Whatever is overdue is fired, or forgotten: the loop catches up.
Overdue == {t \in Trigger : armed[t] # 0 /\ armed[t] <= now}
CatchesUp == Overdue # {} ~> Overdue = {}

=============================================================================
