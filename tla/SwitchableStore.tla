--------------------------- MODULE SwitchableStore ---------------------------
(***************************************************************************)
(* The store every controller, scheduler and handler is given: a facade    *)
(* that resolves the live database on each call, so that the panel can     *)
(* move the instance to another database while it runs.  Modelled are the  *)
(* steps of a switch and of a reset, the saved selection a restart reads,  *)
(* the schedulers the switch wakes, and operations that call the store     *)
(* more than once.                                                         *)
(*                                                                         *)
(* The grace the replaced database is kept open for is taken to outlast    *)
(* every single call.                                                      *)
(***************************************************************************)
CONSTANTS
  Db,          \* the databases there are
  Env,         \* the one DB_DRIVER and DB_SOURCE name
  None,        \* no database, no saved file, no row
  Torn,        \* a saved file that does not parse
  Panel,       \* requests the panel may have under way
  Schedulers,  \* loops that sleep on what they read, which main's hook wakes
  Ops,         \* operations that read a row and write it back
  RowIds       \* keys a row may have, in any database

ASSUME ConstantsOK ==
  /\ Env \in Db
  /\ None \notin Db /\ Torn \notin Db \cup {None}
  /\ None \notin Panel

VARIABLES
  up,      \* the instance runs
  live,    \* the database calls go to
  cfg,     \* the database Config() reports
  file,    \* the saved selection
  lock,    \* the request that holds the switch mutex
  panel,   \* each request of the panel
  sched,   \* each scheduler, with the database its sleep was computed from
  wake,    \* the 1-buffered wake channel of each scheduler
  op,      \* each operation, with the row it read
  rows,    \* rows of each database, as the database whose data they hold
  ran,     \* history: databases an instance has run on
  crowd,   \* history: the requests of late have overlapped
  trust    \* history: the last request ran alone and every step of it worked

vars == <<up, live, cfg, file, lock, panel, sched, wake, op, rows, ran, crowd,
          trust>>

-----------------------------------------------------------------------------
Request == [pc : {"idle", "asked", "locked", "pointed", "set", "save",
                  "writing", "adrift"},
            target : Db, reset : BOOLEAN]
NoRequest == [pc |-> "idle", target |-> Env, reset |-> FALSE]

Loop == [pc : {"off", "pass", "read", "asleep"}, db : Db \cup {None}]
Off == [pc |-> "off", db |-> None]

Operation == [pc : {"idle", "held"}, row : RowIds \cup {None},
              data : Db \cup {None}]
NoOp == [pc |-> "idle", row |-> None, data |-> None]

SwTypeOK ==
  /\ up \in BOOLEAN
  /\ live \in Db /\ cfg \in Db
  /\ file \in Db \cup {None, Torn}
  /\ lock \in Panel \cup {None}
  /\ panel \in [Panel -> Request]
  /\ sched \in [Schedulers -> Loop]
  /\ wake \in [Schedulers -> BOOLEAN]
  /\ op \in [Ops -> Operation]
  /\ rows \in [Db -> [RowIds -> Db \cup {None}]]
  /\ ran \in SUBSET Db
  /\ crowd \in BOOLEAN /\ trust \in BOOLEAN

\* resolveDBConfig: the saved selection wins over the environment, and a file
\* that does not parse stops the boot.
Resolved == IF file = None THEN Env ELSE file

\* An instance booted from what was saved, its runtime not connected yet.
Init ==
  /\ up = TRUE
  /\ file \in Db \cup {None}
  /\ live = Resolved /\ cfg = Resolved
  /\ lock = None
  /\ panel = [c \in Panel |-> NoRequest]
  /\ sched = [s \in Schedulers |-> Off]
  /\ wake = [s \in Schedulers |-> FALSE]
  /\ op = [o \in Ops |-> NoOp]
  /\ rows \in [Db -> [RowIds -> Db \cup {None}]]
  /\ \A d \in Db, r \in RowIds : rows[d][r] \in {d, None}
  /\ ran = {live}
  /\ crowd = FALSE /\ trust = TRUE

runtime == <<sched, wake, op, rows>>

-----------------------------------------------------------------------------
(* A switch: POST /database/switch and /database/reset                     *)

Others(c) == Panel \ {c}
Alone(c) == \A o \in Others(c) : panel[o].pc = "idle"

Step(c, pc) == panel' = [panel EXCEPT ![c].pc = pc]

\* A request ends.  What it leaves is to be trusted if all of it worked.
Ends(c, worked) ==
  /\ panel' = [panel EXCEPT ![c] = NoRequest]
  /\ trust' = (worked /\ ~crowd)

\* switchTo, after the candidate validated and its probe found it writable.
AskSwitch(c, d) ==
  /\ up
  /\ panel[c].pc = "idle"
  /\ panel' = [panel EXCEPT ![c] = [pc |-> "asked", target |-> d, reset |-> FALSE]]
  /\ crowd' = ~Alone(c)
  /\ UNCHANGED <<up, live, cfg, file, lock, runtime, ran, trust>>

AskResetKeeping(c) ==
  /\ up
  /\ panel[c].pc = "idle"
  /\ panel' = [panel EXCEPT ![c] = [pc |-> "asked", target |-> Env, reset |-> TRUE]]
  /\ crowd' = ~Alone(c)
  /\ UNCHANGED <<up, live, cfg, file, lock, runtime, ran, trust>>

\* reset: RemoveConfig comes first.  Another request's write to the removed
\* file goes nowhere.
AskReset(c) ==
  /\ up
  /\ panel[c].pc = "idle"
  /\ file' = None
  /\ panel' = [o \in Panel |->
                 IF o = c THEN [pc |-> "asked", target |-> Env, reset |-> TRUE]
                 ELSE IF panel[o].pc = "writing" THEN [panel[o] EXCEPT !.pc = "adrift"]
                 ELSE panel[o]]
  /\ crowd' = ~Alone(c)
  /\ UNCHANGED <<up, live, cfg, lock, runtime, ran, trust>>

NoMutex == TRUE

\* Switch serializes from here to the last hook.
MutexFree == lock = None

Lock(c) ==
  /\ panel[c].pc = "asked"
  /\ MutexFree
  /\ lock' = c
  /\ Step(c, "locked")
  /\ UNCHANGED <<up, live, cfg, file, runtime, ran, crowd, trust>>

SavesAnyway(c) == Step(c, "save") /\ UNCHANGED trust

\* Open or Ping failed: the request ends there, and a switch has changed
\* nothing.
AfterFailure(c) == IF panel[c].reset THEN Ends(c, FALSE)
                   ELSE panel' = [panel EXCEPT ![c] = NoRequest] /\ UNCHANGED trust

OpenFailsLocked(c) ==
  /\ panel[c].pc = "locked"
  /\ AfterFailure(c)
  /\ UNCHANGED <<up, live, cfg, file, lock, runtime, ran, crowd>>

OpenFails(c) ==
  /\ panel[c].pc = "locked"
  /\ lock' = None
  /\ AfterFailure(c)
  /\ UNCHANGED <<up, live, cfg, file, runtime, ran, crowd>>

\* The opened database becomes the live one ...
Repoint(c) ==
  /\ panel[c].pc = "locked"
  /\ live' = panel[c].target
  /\ ran' = ran \cup {panel[c].target}
  /\ Step(c, "pointed")
  /\ UNCHANGED <<up, cfg, file, lock, runtime, crowd, trust>>

\* ... then the reported one ...
SetConfig(c) ==
  /\ panel[c].pc = "pointed"
  /\ cfg' = panel[c].target
  /\ Step(c, "set")
  /\ UNCHANGED <<up, live, file, lock, runtime, ran, crowd, trust>>

\* Notify: a token in the 1-buffered channel of every loop that was started.
Notified == [s \in Schedulers |-> wake[s] \/ sched[s].pc # "off"]

\* ... and the hooks run, synchronously.  A reset has nothing to save.
RunHooks(c) ==
  /\ panel[c].pc = "set"
  /\ wake' = Notified
  /\ lock' = None
  /\ IF panel[c].reset THEN Ends(c, TRUE)
                       ELSE Step(c, "save") /\ UNCHANGED trust
  /\ UNCHANGED <<up, live, cfg, file, sched, op, rows, ran, crowd>>

-----------------------------------------------------------------------------
(* SaveConfig, after the mutex has been released: WriteFile truncates the  *)
(* file and writes it.                                                     *)

SaveBegins(c) ==
  /\ panel[c].pc = "save"
  /\ file' = Torn
  /\ Step(c, "writing")
  /\ UNCHANGED <<up, live, cfg, lock, runtime, ran, crowd, trust>>

\* Over another request's longer text the rest of it remains.
SaveEnds(c) ==
  /\ panel[c].pc \in {"writing", "adrift"}
  /\ file' \in IF panel[c].pc = "adrift" THEN {file}
               ELSE IF file \in {Torn, panel[c].target} THEN {panel[c].target}
               ELSE {panel[c].target, Torn}
  /\ Ends(c, TRUE)
  /\ UNCHANGED <<up, live, cfg, lock, runtime, ran, crowd>>

\* The directory, the file or the disk refused: the switch stands, and the
\* answer carries a warning.
SaveFails(c) ==
  /\ panel[c].pc \in {"save", "writing", "adrift"}
  /\ Ends(c, FALSE)
  /\ UNCHANGED <<up, live, cfg, file, lock, runtime, ran, crowd>>

-----------------------------------------------------------------------------
(* The schedulers, as far as they depend on which database is live         *)

SetLoop(s, rec) == sched' = [sched EXCEPT ![s] = rec]
store == <<up, live, cfg, file, lock, panel, op, rows, ran, crowd, trust>>

\* connectInflowWithRetry got through; the loop begins with a pass.
StartScheduler(s) ==
  /\ up
  /\ sched[s].pc = "off"
  /\ SetLoop(s, [pc |-> "pass", db |-> None])
  /\ UNCHANGED <<wake, store>>

\* The read the next sleep is computed from; if it fails, the fallback is.
PassReads(s) ==
  /\ sched[s].pc = "pass"
  /\ \/ SetLoop(s, [pc |-> "read", db |-> live])
     \/ SetLoop(s, [pc |-> "read", db |-> None])
  /\ UNCHANGED <<wake, store>>

SleepDraining(s) ==
  /\ sched[s].pc = "read"
  /\ SetLoop(s, [sched[s] EXCEPT !.pc = "asleep"])
  /\ wake' = [wake EXCEPT ![s] = FALSE]
  /\ UNCHANGED store

\* The timer is armed and the loop sleeps.
Sleep(s) ==
  /\ sched[s].pc = "read"
  /\ SetLoop(s, [sched[s] EXCEPT !.pc = "asleep"])
  /\ UNCHANGED <<wake, store>>

\* The wake channel or the timer ends the sleep; only the former empties it.
Wakes(s) ==
  /\ sched[s].pc = "asleep"
  /\ SetLoop(s, [pc |-> "pass", db |-> None])
  /\ \/ wake[s] /\ wake' = [wake EXCEPT ![s] = FALSE]
     \/ UNCHANGED wake
  /\ UNCHANGED store

-----------------------------------------------------------------------------
(* Operations that call the store twice: StopWorkflow, handleProcFinish,   *)
(* storeRunOutcome, Scheduler.launch, WriteHumanTaskContext and their like *)

\* The first call reads a row of the database live now ...
OpReads(o, r) ==
  /\ up
  /\ op[o].pc = "idle"
  /\ rows[live][r] # None
  /\ op' = [op EXCEPT ![o] = [pc |-> "held", row |-> r, data |-> rows[live][r]]]
  /\ UNCHANGED <<up, live, cfg, file, lock, panel, sched, wake, rows, ran,
                 crowd, trust>>

\* ... the second writes it to the database live by then, if that has a row
\* with the same key.
OpWrites(o) ==
  /\ op[o].pc = "held"
  /\ rows' = IF rows[live][op[o].row] = None THEN rows
             ELSE [rows EXCEPT ![live][op[o].row] = op[o].data]
  /\ op' = [op EXCEPT ![o] = NoOp]
  /\ UNCHANGED <<up, live, cfg, file, lock, panel, sched, wake, ran, crowd,
                 trust>>

-----------------------------------------------------------------------------
\* The instance goes down, wherever its goroutines are.
Crash ==
  /\ up
  /\ up' = FALSE
  /\ lock' = None
  /\ panel' = [c \in Panel |-> NoRequest]
  /\ sched' = [s \in Schedulers |-> Off]
  /\ wake' = [s \in Schedulers |-> FALSE]
  /\ op' = [o \in Ops |-> NoOp]
  /\ UNCHANGED <<live, cfg, file, rows, ran, crowd, trust>>

\* main: a file that does not parse is fatal.
Boot ==
  /\ ~up
  /\ file # Torn
  /\ up' = TRUE
  /\ live' = Resolved /\ cfg' = Resolved
  /\ ran' = ran \cup {Resolved}
  /\ trust' = TRUE
  /\ UNCHANGED <<file, lock, panel, runtime, crowd>>

-----------------------------------------------------------------------------
RequestNext(c) ==
  \/ OpenFails(c)
  \/ Repoint(c)
  \/ SetConfig(c)
  \/ RunHooks(c)
  \/ SaveBegins(c)
  \/ SaveEnds(c)
  \/ SaveFails(c)

LoopNext(s) ==
  \/ StartScheduler(s)
  \/ PassReads(s)
  \/ Sleep(s)
  \/ Wakes(s)

Next ==
  \/ \E c \in Panel, d \in Db : AskSwitch(c, d)
  \/ \E c \in Panel : AskReset(c)
  \/ \E c \in Panel : Lock(c)
  \/ \E c \in Panel : RequestNext(c)
  \/ \E s \in Schedulers : LoopNext(s)
  \/ \E o \in Ops, r \in RowIds : OpReads(o, r)
  \/ \E o \in Ops : OpWrites(o)
  \/ Crash
  \/ Boot

Spec == Init /\ [][Next]_vars

\* Requests and loops that have begun run on, the fallback ends every sleep,
\* and Go's mutex lets every waiting request in.
Fairness ==
  /\ \A c \in Panel : WF_vars(RequestNext(c)) /\ SF_vars(Lock(c))
  /\ \A s \in Schedulers : WF_vars(LoopNext(s))

FairSpec == Spec /\ Fairness

-----------------------------------------------------------------------------
(* Properties                                                              *)

\* Outside a switch, the database Config() reports is the one calls go to.
ConfigIsLive == up /\ lock = None => cfg = live

\* A selection is saved only after the instance has run on it ("so a saved
\* selection is always one this instance has actually run on").
SavedHasRun == file \in Db => file \in ran

\* Once a request that ran alone has ended well, a restart comes back on the
\* database that is live ("so a restart comes back on the same database").
SelectionSurvives ==
  up /\ trust /\ (\A c \in Panel : panel[c].pc = "idle") => Resolved = live

\* Outside a switch, no loop sleeps on a time it computed from a database that
\* is no longer the live one: the hooks woke it, whatever it was doing.
FreshTimers ==
  lock = None => \A s \in Schedulers :
    sched[s].pc = "asleep" /\ ~wake[s] => sched[s].db \in {live, None}

\* Every request of the panel is answered.
RequestsEnd == \A c \in Panel : panel[c].pc # "idle" ~> panel[c].pc = "idle"

\* Data read from one database is not written to another: a request already
\* running on the replaced database finishes there.
RowsStayHome == \A d \in Db : \A r \in RowIds : rows[d][r] \in {d, None}

=============================================================================
