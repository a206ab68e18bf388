----------------------------- MODULE ProcessRuns -----------------------------
(***************************************************************************)
(* The processes table and everything that writes it: StartWorkflow,       *)
(* StopWorkflow, the run scheduler, the proc.finish handler and the wire   *)
(* handler that keeps a run's outcome, against an abstract inflow engine.  *)
(*                                                                         *)
(* Every write of a row is repository Update: the whole row, keyed by its  *)
(* index id, with no condition on what the row holds by then.  A handler   *)
(* reads a row, keeps the copy across calls to the engine or to another    *)
(* table, and writes the copy back.  One action is one database statement  *)
(* or one engine call, together with the local work up to the next one, so *)
(* the interleavings are those of the goroutines.                          *)
(***************************************************************************)
EXTENDS Naturals, FiniteSets

CONSTANTS
  Idx,          \* index ids the table can hand out: the bound on rows
  None,         \* "no row", as in an empty sourcePid
  Replicas,     \* API processes sharing the database; each runs a scheduler
  Callers,      \* goroutines that may be inside StartWorkflow
  Stoppers,     \* goroutines that may be inside StopWorkflow
  Launches,     \* launches asked for: "now", "at", "continue"
  Deletable,    \* rows a client may DELETE
  ComesDue,     \* how late a schedule is: "any", "booked", "parked"
  IndexHeader,  \* does a proc.finish event carry the indexId header
  LossyEvents,  \* may a proc.finish event go undelivered
  LostReplies,  \* may Exec fail though the engine took the run
  MaxExec,      \* bound on requests sent to the engine for one row
  MaxRestarts   \* bound on restarts of the API

ASSUME ConstantsOK ==
  /\ None \notin Idx
  /\ Launches \subseteq {"now", "at", "continue"}
  /\ Deletable \subseteq Idx
  /\ ComesDue \in {"any", "booked", "parked"}
  /\ {IndexHeader, LossyEvents, LostReplies} \subseteq BOOLEAN
  /\ MaxExec \in Nat \ {0}
  /\ MaxRestarts \in Nat

VARIABLES
  rows,      \* the processes table
  source,    \* meta sourcePid of a row: the parked run it continues
  due,       \* rows whose scheduled_at has been reached
  start,     \* StartWorkflow in each caller
  stop,      \* StopWorkflow in each stopper
  sched,     \* the scheduler goroutine of each replica
  engine,    \* what the engine knows of each row's run
  execs,     \* requests the engine took for each row
  wire,      \* the final set.context request of each run
  events,    \* proc.finish events not handled yet, per replica
  finish,    \* handleProcFinish in each replica
  restarts,  \* restarts so far
  stored,    \* history: rows whose outcome storeRunOutcome has written
  closed,    \* history: rows handleProcFinish has closed
  seeded     \* history: what a dispatch from the queue seeded the engine with

vars == <<rows, source, due, start, stop, sched, engine, execs, wire, events,
          finish, restarts, stored, closed, seeded>>

history == <<stored, closed, seeded>>

-----------------------------------------------------------------------------
(* Rows                                                                    *)

Terminal == {"finished", "stopped", "failed"}
Live == {"scheduled", "running"}
Gone == {"absent", "deleted"}

Row == [status : Terminal \cup Live \cup Gone,
        pid    : BOOLEAN,    \* the pid column is filled in
        snap   : BOOLEAN]    \* the snapshot and errors columns are filled in

NoRow == [status |-> "absent", pid |-> FALSE, snap |-> FALSE]

Exists(i) == rows[i].status \notin Gone

\* Update: overwrite the row; zero rows affected is ErrNotFound.
Update(i, rec) ==
  rows' = IF Exists(i) THEN [rows EXCEPT ![i] = rec] ELSE rows

WithStatus(rec, s) == [rec EXCEPT !.status = s]

\* GetRunningByPID: the engine's pid for row i finds row i while it runs.
RunningByPid(i) == rows[i].pid /\ rows[i].status = "running"

\* processByPID: the same, whatever the status.
ByPid(i) == rows[i].pid /\ Exists(i)

\* What loadResumeSnapshot finds for the source run of row i.
HasOwnOutcome(i) == ByPid(i) /\ rows[i].snap
HasResume(i) == source[i] # None /\ ByPid(source[i]) /\ rows[source[i]].snap

-----------------------------------------------------------------------------
(* Operations in flight: where each is, its row and the copy it holds      *)

Idle == [pc |-> "idle", idx |-> None, rec |-> NoRow, from |-> None]

StartOp == {Idle} \cup [pc : {"created", "recorded", "unsent"},
                        idx : Idx, rec : Row, from : Idx \cup {None}]
StopOp == {Idle} \cup [pc : {"read", "write"},
                       idx : Idx, rec : Row, from : {None}]
FinishOp == {Idle} \cup [pc : {"read"},
                         idx : Idx, rec : Row, from : {None}]
WireOp == [pc : {"idle", "sent", "read", "dropped"}, rec : Row]
SchedOp == [pc : {"idle", "next", "claimed", "ready", "sent", "failing"},
            idx : Idx \cup {None},
            copy : [Idx -> Row],   \* the due list, absent where not on it
            resume : BOOLEAN]      \* a snapshot is on the rebuilt request

NoWire == [pc |-> "idle", rec |-> NoRow]
SchedIdle == [pc |-> "idle", idx |-> None,
              copy |-> [i \in Idx |-> NoRow], resume |-> FALSE]

Results == {"finished", "failed", "stopped"}
Event == [idx : Idx, result : Results]

TypeOK ==
  /\ rows \in [Idx -> Row]
  /\ source \in [Idx -> Idx \cup {None}]
  /\ due \in SUBSET Idx
  /\ start \in [Callers -> StartOp]
  /\ stop \in [Stoppers -> StopOp]
  /\ sched \in [Replicas -> SchedOp]
  /\ engine \in [Idx -> {"unknown", "live", "stopping"} \cup Results]
  /\ execs \in [Idx -> 0..MaxExec]
  /\ wire \in [Idx -> WireOp]
  /\ events \in [Replicas -> SUBSET Event]
  /\ finish \in [Replicas -> FinishOp]
  /\ restarts \in 0..MaxRestarts
  /\ stored \in SUBSET Idx
  /\ closed \in SUBSET Idx
  /\ seeded \in [Idx -> {"no", "blank", "snapshot"}]

Init ==
  /\ rows = [i \in Idx |-> NoRow]
  /\ source = [i \in Idx |-> None]
  /\ due = {}
  /\ start = [c \in Callers |-> Idle]
  /\ stop = [p \in Stoppers |-> Idle]
  /\ sched = [r \in Replicas |-> SchedIdle]
  /\ engine = [i \in Idx |-> "unknown"]
  /\ execs = [i \in Idx |-> 0]
  /\ wire = [i \in Idx |-> NoWire]
  /\ events = [r \in Replicas |-> {}]
  /\ finish = [r \in Replicas |-> Idle]
  /\ restarts = 0
  /\ stored = {}
  /\ closed = {}
  /\ seeded = [i \in Idx |-> "no"]

-----------------------------------------------------------------------------
(* The engine's side of a dispatch: Exec is one request and its reply.     *)

EngineTakes(i) ==
  /\ execs[i] < MaxExec
  /\ execs' = [execs EXCEPT ![i] = @ + 1]
  /\ engine' = [engine EXCEPT ![i] = "live"]

EngineRefuses == UNCHANGED <<execs, engine>>

-----------------------------------------------------------------------------
(* StartWorkflow                                                           *)

\* The caller's arguments passed the checks made before a row exists; Create
\* assigns the index id.  A "continue" launch is HandleContinueAfter: it runs
\* on behalf of a live run, which waits for the reply.
StartCreate(c, i) ==
  /\ start[c].pc = "idle"
  /\ rows[i].status = "absent"
  /\ \E launch \in Launches, from \in Idx \cup {None} :
       /\ IF launch = "continue"
            THEN from # None /\ engine[from] = "live"
            ELSE from = None
       /\ LET rec == [status |-> IF launch = "now" THEN "running"
                                                   ELSE "scheduled",
                      pid |-> FALSE, snap |-> FALSE]
          IN /\ rows' = [rows EXCEPT ![i] = rec]
             /\ start' = [start EXCEPT ![c] = [pc |-> "created", idx |-> i,
                                               rec |-> rec, from |-> from]]
       /\ source' = [source EXCEPT ![i] = from]
  /\ UNCHANGED <<due, stop, sched, engine, execs, wire, events, finish,
                 restarts, history>>

\* SeedEntry or NewProcess failed: the row is recorded as failed.
StartFails(c) ==
  /\ start[c].pc = "created"
  /\ Update(start[c].idx, WithStatus(start[c].rec, "failed"))
  /\ start' = [start EXCEPT ![c] = Idle]
  /\ UNCHANGED <<source, due, stop, sched, engine, execs, wire, events,
                 finish, restarts, history>>

\* The pid is minted up front and goes on the row before Exec.
RecordedLate(rec) == rec
Recorded(rec) == [rec EXCEPT !.pid = TRUE]

\* Update with the minted pid and the built request.  A scheduled row ends
\* here; so does a row deleted meanwhile, with an error.
StartRecord(c) ==
  LET op == start[c]
      rec == Recorded(op.rec)
  IN /\ op.pc = "created"
     /\ Update(op.idx, rec)
     /\ start' = [start EXCEPT ![c] =
                    IF Exists(op.idx) /\ rec.status = "running"
                      THEN [op EXCEPT !.pc = "recorded", !.rec = rec]
                      ELSE Idle]
     /\ UNCHANGED <<source, due, stop, sched, engine, execs, wire, events,
                    finish, restarts, history>>

\* Exec: the engine takes the run and says so; or the caller gets an error,
\* which a lost or late reply also is, from a run the engine did take.
StartExec(c) ==
  /\ start[c].pc = "recorded"
  /\ \/ /\ EngineTakes(start[c].idx)
        /\ start' = [start EXCEPT ![c] = Idle]
     \/ /\ \/ EngineRefuses
           \/ LostReplies /\ EngineTakes(start[c].idx)
        /\ start' = [start EXCEPT ![c].pc = "unsent"]
  /\ UNCHANGED <<rows, source, due, stop, sched, wire, events, finish,
                 restarts, history>>

StartUnsentSilently(c) ==
  /\ start[c].pc = "unsent"
  /\ start' = [start EXCEPT ![c] = Idle]
  /\ UNCHANGED <<rows, source, due, stop, sched, engine, execs, wire, events,
                 finish, restarts, history>>

\* Exec returned an error: the copy is written back as failed.
StartUnsent(c) ==
  /\ start[c].pc = "unsent"
  /\ Update(start[c].idx, WithStatus(start[c].rec, "failed"))
  /\ start' = [start EXCEPT ![c] = Idle]
  /\ UNCHANGED <<source, due, stop, sched, engine, execs, wire, events,
                 finish, restarts, history>>

-----------------------------------------------------------------------------
(* Scheduler                                                               *)

\* scheduled_at is reached.  ComesDue says what has happened by then at the
\* earliest: nothing; the booking StartWorkflow call has returned; and, for a
\* continuation, the parked run has ended too.
TimeReaches(i) ==
  /\ i \notin due
  /\ rows[i].status = "scheduled"
  /\ ComesDue # "any" =>
       \A c \in Callers : start[c].pc = "created" => start[c].idx # i
  /\ ComesDue = "parked" =>
       (source[i] # None => engine[source[i]] \in Results)
  /\ due' = due \cup {i}
  /\ UNCHANGED <<rows, source, start, stop, sched, engine, execs, wire,
                 events, finish, restarts, history>>

\* ListDueScheduled.
DueAnyStatus == due
DueScheduled == {i \in due : rows[i].status = "scheduled"}

\* dispatchDue: the due rows are listed once, before the loop over them.
SchedList(r) ==
  LET hits == DueScheduled
  IN /\ sched[r].pc = "idle"
     /\ hits # {}
     /\ sched' = [sched EXCEPT ![r] =
                    [SchedIdle EXCEPT !.pc = "next",
                       !.copy = [i \in Idx |->
                                   IF i \in hits THEN rows[i] ELSE NoRow]]]
     /\ UNCHANGED <<rows, source, due, start, stop, engine, execs, wire,
                    events, finish, restarts, history>>

\* On to the next row of the list, or back to the timer.
SchedDrop(op, i) ==
  LET copy == [op.copy EXCEPT ![i] = NoRow]
  IN IF copy = SchedIdle.copy THEN SchedIdle
     ELSE [SchedIdle EXCEPT !.pc = "next", !.copy = copy]

\* launch, the claim: Update of the listed copy to running.
ClaimedLate(rec) == rec
Claimed(rec) == WithStatus(rec, "running")

SchedClaim(r, i) ==
  LET op == sched[r]
      rec == Claimed(op.copy[i])
  IN /\ op.pc = "next"
     /\ op.copy[i] # NoRow
     /\ Update(i, rec)
     /\ sched' = [sched EXCEPT ![r] =
                    IF Exists(i)
                      THEN [op EXCEPT !.pc = "claimed", !.idx = i,
                                      !.copy = [@ EXCEPT ![i] = rec]]
                      ELSE SchedDrop(op, i)]
     /\ UNCHANGED <<source, due, start, stop, engine, execs, wire, events,
                    finish, restarts, history>>

\* seedScheduledEntry may fail; then loadResumeSnapshot reads the source row
\* and NewProcess rebuilds the request, which may fail too.
SchedPrepare(r) ==
  LET op == sched[r]
  IN /\ op.pc = "claimed"
     /\ \/ sched' = [sched EXCEPT ![r].pc = "failing"]
        \/ sched' = [sched EXCEPT ![r] = [op EXCEPT
                       !.pc = "ready", !.resume = HasResume(op.idx)]]
     /\ UNCHANGED <<rows, source, due, start, stop, engine, execs, wire,
                    events, finish, restarts, history>>

\* Exec, with the three outcomes of StartExec.
SchedExec(r) ==
  LET op == sched[r]
  IN /\ op.pc = "ready"
     /\ \/ /\ EngineTakes(op.idx)
           /\ sched' = [sched EXCEPT ![r] = [op EXCEPT
                          !.pc = "sent",
                          !.copy = [@ EXCEPT ![op.idx].pid = TRUE]]]
           /\ seeded' = [seeded EXCEPT ![op.idx] =
                           IF op.resume THEN "snapshot" ELSE "blank"]
        \/ /\ LostReplies
           /\ EngineTakes(op.idx)
           /\ sched' = [sched EXCEPT ![r].pc = "failing"]
           /\ seeded' = [seeded EXCEPT ![op.idx] =
                           IF op.resume THEN "snapshot" ELSE "blank"]
        \/ /\ EngineRefuses
           /\ sched' = [sched EXCEPT ![r].pc = "failing"]
           /\ UNCHANGED seeded
     /\ UNCHANGED <<rows, source, due, start, stop, wire, events, finish,
                    restarts, stored, closed>>

\* "record launch": the listed copy, now running and with its pid, goes back
\* over whatever the row holds; if the row is gone the error path finds the
\* same and nothing else changes.
SchedRecord(r) ==
  LET op == sched[r]
  IN /\ op.pc = "sent"
     /\ Update(op.idx, op.copy[op.idx])
     /\ sched' = [sched EXCEPT ![r] = SchedDrop(op, op.idx)]
     /\ UNCHANGED <<source, due, start, stop, engine, execs, wire, events,
                    finish, restarts, history>>

SchedFailsSilently(r) ==
  /\ sched[r].pc = "failing"
  /\ sched' = [sched EXCEPT ![r] = SchedDrop(sched[r], sched[r].idx)]
  /\ UNCHANGED <<rows, source, due, start, stop, engine, execs, wire, events,
                 finish, restarts, history>>

\* dispatchDue's error branch.
SchedFails(r) ==
  LET op == sched[r]
  IN /\ op.pc = "failing"
     /\ Update(op.idx, WithStatus(op.copy[op.idx], "failed"))
     /\ sched' = [sched EXCEPT ![r] = SchedDrop(op, op.idx)]
     /\ UNCHANGED <<source, due, start, stop, engine, execs, wire, events,
                    finish, restarts, history>>

-----------------------------------------------------------------------------
(* StopWorkflow                                                            *)

\* GetByIndex; a terminal row is returned as it is.
StopRead(p, i) ==
  /\ stop[p].pc = "idle"
  /\ rows[i].status \in Live
  /\ stop' = [stop EXCEPT ![p] = [Idle EXCEPT !.pc = "read", !.idx = i,
                                              !.rec = rows[i]]]
  /\ UNCHANGED <<rows, source, due, start, sched, engine, execs, wire,
                 events, finish, restarts, history>>

\* The copy says scheduled: flip it and wake the scheduler.
StopScheduled(p) ==
  LET op == stop[p]
  IN /\ op.pc = "read"
     /\ op.rec.status = "scheduled"
     /\ Update(op.idx, WithStatus(op.rec, "stopped"))
     /\ stop' = [stop EXCEPT ![p] = Idle]
     /\ UNCHANGED <<source, due, start, sched, engine, execs, wire, events,
                    finish, restarts, history>>

StopWrites(p, s) ==
  stop' = [stop EXCEPT ![p] = [Idle EXCEPT !.pc = "write", !.idx = stop[p].idx,
                                           !.rec = WithStatus(stop[p].rec, s)]]

\* The copy says running: ask the engine.  It stops a run it knows.  Of one
\* it does not know, infra's trace may say how it ended or have no record.
\* Without a pid, with no answer from infra, or with a trace that still shows
\* the run live, the stop gives up with an error.
StopAsk(p) ==
  LET op == stop[p]
      e == engine[op.idx]
  IN /\ op.pc = "read"
     /\ op.rec.status = "running"
     /\ \/ /\ op.rec.pid /\ e \in {"live", "stopping"}
           /\ engine' = [engine EXCEPT ![op.idx] = "stopping"]
           /\ StopWrites(p, "stopped")
        \/ /\ op.rec.pid /\ e \notin {"live", "stopping"}
           /\ \/ e \in Results /\ StopWrites(p, e)
              \/ StopWrites(p, "stopped")
           /\ UNCHANGED engine
        \/ /\ stop' = [stop EXCEPT ![p] = Idle]
           /\ UNCHANGED engine
     /\ UNCHANGED <<rows, source, due, start, sched, execs, wire, events,
                    finish, restarts, history>>

StopWrite(p) ==
  /\ stop[p].pc = "write"
  /\ Update(stop[p].idx, stop[p].rec)
  /\ stop' = [stop EXCEPT ![p] = Idle]
  /\ UNCHANGED <<source, due, start, sched, engine, execs, wire, events,
                 finish, restarts, history>>

\* DELETE /process/id/:id.
DeleteRow(i) ==
  /\ i \in Deletable
  /\ Exists(i)
  /\ rows' = [rows EXCEPT ![i] = [NoRow EXCEPT !.status = "deleted"]]
  /\ UNCHANGED <<source, due, start, stop, sched, engine, execs, wire,
                 events, finish, restarts, history>>

-----------------------------------------------------------------------------
(* The end of a run                                                        *)

\* A run waits for the services it calls, Continue After among them.
Waiting(i) == \E c \in Callers : start[c].from = i

\* The run is over as `result` and every subscriber hears of it.
EngineEnds(i, result) ==
  /\ engine' = [engine EXCEPT ![i] = result]
  /\ events' = [r \in Replicas |->
                  events[r] \cup {[idx |-> i, result |-> result]}]

\* finishStatus of the engine's word for how the run ended.
RawResultOf(i) ==
  IF engine[i] = "stopping" THEN {"stopped"} ELSE {"completed", "failed"}
ResultOf(i) ==
  IF engine[i] = "stopping" THEN {"stopped"} ELSE {"finished", "failed"}

\* The engine pushes the run's final context and waits for the answer.
PushContext(i) ==
  /\ engine[i] \in {"live", "stopping"}
  /\ wire[i].pc = "idle"
  /\ ~Waiting(i)
  /\ wire' = [wire EXCEPT ![i].pc = "sent"]
  /\ UNCHANGED <<rows, source, due, start, stop, sched, engine, execs,
                 events, finish, restarts, history>>

\* UpdateContext without a row to keep the outcome on, or with no outcome in
\* the document, or which returned early and left the engine to time out; or
\* a restart took the handler and the engine times out.
WireSkips(i) ==
  /\ wire[i].pc \in {"sent", "dropped"}
  /\ wire' = [wire EXCEPT ![i] = NoWire]
  /\ \E result \in ResultOf(i) : EngineEnds(i, result)
  /\ UNCHANGED <<rows, source, due, start, stop, sched, execs, finish,
                 restarts, history>>

WireReadReplying(i) ==
  /\ wire[i].pc = "sent"
  /\ ByPid(i)
  /\ wire' = [wire EXCEPT ![i] = [pc |-> "read", rec |-> rows[i]]]
  /\ EngineEnds(i, "finished")
  /\ UNCHANGED <<rows, source, due, start, stop, sched, execs, finish,
                 restarts, history>>

\* storeRunOutcome: processByPID ...
WireRead(i) ==
  /\ wire[i].pc = "sent"
  /\ ByPid(i)
  /\ wire' = [wire EXCEPT ![i] = [pc |-> "read", rec |-> rows[i]]]
  /\ UNCHANGED <<rows, source, due, start, stop, sched, engine, execs,
                 events, finish, restarts, history>>

\* ... and Update, before the reply the engine waits for.
WireStore(i) ==
  /\ wire[i].pc = "read"
  /\ Update(i, [wire[i].rec EXCEPT !.snap = TRUE])
  /\ stored' = stored \cup {i}
  /\ wire' = [wire EXCEPT ![i] = NoWire]
  /\ \E result \in ResultOf(i) : EngineEnds(i, result)
  /\ UNCHANGED <<source, due, start, stop, sched, execs, finish, restarts,
                 closed, seeded>>

\* handleProcFinish, resolveFinishedRecord: the row of the indexId header if
\* there is one, else the running row for the pid; without a row the event is
\* dropped.
FinishRead(r, e) ==
  /\ finish[r].pc = "idle"
  /\ e \in events[r]
  /\ events' = [events EXCEPT ![r] = @ \ {e}]
  /\ finish' = IF (IndexHeader /\ Exists(e.idx)) \/ RunningByPid(e.idx)
                 THEN [finish EXCEPT ![r] =
                         [Idle EXCEPT !.pc = "read", !.idx = e.idx,
                            !.rec = WithStatus(rows[e.idx], e.result)]]
                 ELSE finish
  /\ UNCHANGED <<rows, source, due, start, stop, sched, engine, execs, wire,
                 restarts, history>>

FinishWrite(r) ==
  /\ finish[r].pc = "read"
  /\ Update(finish[r].idx, finish[r].rec)
  /\ closed' = closed \cup {finish[r].idx}
  /\ finish' = [finish EXCEPT ![r] = Idle]
  /\ UNCHANGED <<source, due, start, stop, sched, engine, execs, wire,
                 events, restarts, stored, seeded>>

\* The event log is fire-and-forget.
LoseEvent(r, e) ==
  /\ LossyEvents
  /\ e \in events[r]
  /\ events' = [events EXCEPT ![r] = @ \ {e}]
  /\ UNCHANGED <<rows, source, due, start, stop, sched, engine, execs, wire,
                 finish, restarts, history>>

-----------------------------------------------------------------------------
(* The API stops and comes back: goroutines and undelivered events are     *)
(* gone, the table stays, and the engine's unanswered requests time out.   *)
Restart ==
  /\ restarts < MaxRestarts
  /\ restarts' = restarts + 1
  /\ start' = [c \in Callers |-> Idle]
  /\ stop' = [p \in Stoppers |-> Idle]
  /\ sched' = [r \in Replicas |-> SchedIdle]
  /\ finish' = [r \in Replicas |-> Idle]
  /\ events' = [r \in Replicas |-> {}]
  /\ wire' = [i \in Idx |-> IF wire[i].pc = "idle" THEN NoWire
                              ELSE [NoWire EXCEPT !.pc = "dropped"]]
  /\ UNCHANGED <<rows, source, due, engine, execs, history>>

-----------------------------------------------------------------------------
StartNext(c) ==
  \/ \E i \in Idx : StartCreate(c, i)
  \/ StartFails(c)
  \/ StartRecord(c)
  \/ StartExec(c)
  \/ StartUnsent(c)

SchedNext(r) ==
  \/ SchedList(r)
  \/ \E i \in Idx : SchedClaim(r, i)
  \/ SchedPrepare(r)
  \/ SchedExec(r)
  \/ SchedRecord(r)
  \/ SchedFails(r)

StopNext(p) ==
  \/ \E i \in Idx : StopRead(p, i)
  \/ StopScheduled(p)
  \/ StopAsk(p)
  \/ StopWrite(p)

FinishNext(r) ==
  \/ \E e \in events[r] : FinishRead(r, e)
  \/ FinishWrite(r)

WireNext(i) ==
  \/ PushContext(i)
  \/ WireSkips(i)
  \/ WireRead(i)
  \/ WireStore(i)

Next ==
  \/ \E c \in Callers : StartNext(c)
  \/ \E r \in Replicas : SchedNext(r)
  \/ \E p \in Stoppers : StopNext(p)
  \/ \E r \in Replicas : FinishNext(r)
  \/ \E i \in Idx : WireNext(i)
  \/ \E i \in Idx : TimeReaches(i)
  \/ \E i \in Idx : DeleteRow(i)
  \/ \E r \in Replicas : \E e \in events[r] : LoseEvent(r, e)
  \/ Restart

Spec == Init /\ [][Next]_vars

\* Handlers that have begun run on, time passes and every run ends (the
\* engine's proc_timeout).  Nothing obliges a client to call, a message to be
\* lost, or the API to restart.
Fairness ==
  /\ \A c \in Callers : WF_vars(StartNext(c) /\ start[c].pc # "idle")
  /\ \A p \in Stoppers : WF_vars(StopNext(p) /\ stop[p].pc # "idle")
  /\ \A r \in Replicas : WF_vars(SchedNext(r)) /\ WF_vars(FinishNext(r))
  /\ \A i \in Idx : WF_vars(WireNext(i)) /\ WF_vars(TimeReaches(i))

FairSpec == Spec /\ Fairness

-----------------------------------------------------------------------------
(* Properties                                                              *)

\* A row's run is sent to the engine at most once, whatever is stopped,
\* deleted or restarted meanwhile: the claim before Exec in Scheduler.launch
\* ("a re-entrant dispatch pass can never double-fire it"), with the booking
\* in StartWorkflow.
AtMostOneDispatch == \A i \in Idx : execs[i] <= 1

\* A proc.finish that is on its way finds a row to close: the row of its run
\* exists, with the pid, and is running unless it has already been given a
\* final status.  StartWorkflow records the pid before Exec for this.  (The
\* scheduler records it before Exec too, unless the API restarted while the
\* row was being booked.)
FinishFindsItsRow ==
  \A r \in Replicas : \A e \in events[r] :
    Exists(e.idx) /\ (restarts = 0 \/ e.idx \notin due)
      => RunningByPid(e.idx) \/ rows[e.idx].status \in Terminal

\* A row handleProcFinish has closed does not go back to being live.
ClosedIsFinal ==
  \A i \in closed : Exists(i) => rows[i].status \in Terminal

\* The outcome of a parked run StartWorkflow launched directly is on its row
\* by the time its continuation is dispatched, which is then seeded with it.
ResumeSeesOutcome ==
  \A i \in Idx :
    /\ seeded[i] = "blank"
    /\ source[i] # None
    /\ seeded[source[i]] = "no"
    => source[i] \notin stored

\* An operation in flight holds a copy of row i.
Held(i) ==
  \/ \E c \in Callers : start[c].idx = i
  \/ \E p \in Stoppers : stop[p].idx = i
  \/ \E r \in Replicas : finish[r].idx = i \/ sched[r].copy[i] # NoRow
  \/ wire[i].pc = "read"

\* Once a row has a final status and nobody works on a copy of it, it is over
\* for good: no list, stop, event or outcome revives or dispatches it again.
OverIsOver ==
  \A i \in Idx : \A n \in 0..MaxExec :
    [](rows[i].status \in Terminal /\ ~Held(i) /\ execs[i] = n =>
         [](rows[i].status \in Terminal \cup {"deleted"} /\ execs[i] = n))

\* A row that was launched directly and has been closed stays closed, and
\* keeps the outcome storeRunOutcome wrote: nobody holds a copy from before.
\* (The scheduler does, for a row it has launched.)
DirectIsKept ==
  \A i \in Idx : Exists(i) /\ i \notin due =>
    /\ i \in closed => rows[i].status \in Terminal
    /\ i \in stored => rows[i].snap

\* Every directly launched row that is running is eventually given a final
\* status (or deleted).
EveryRunCloses ==
  \A i \in Idx :
    rows[i].status = "running" /\ i \notin due ~> rows[i].status # "running"

\* Every row that has come due is dispatched, or ends without having been,
\* unless the API restarts before.
EveryDueRowResolves ==
  \A i \in Idx : \A n \in 0..MaxRestarts :
    i \in due /\ rows[i].status = "scheduled" /\ restarts = n ~>
      execs[i] > 0 \/ rows[i].status \in Terminal \cup Gone \/ restarts > n

-----------------------------------------------------------------------------
(* Why a run is sent once: the inductive strengthening of AtMostOneDispatch, *)
(* for one scheduler and rows that come due after the call that booked them. *)

Booking(c) == start[c].pc \in {"created", "recorded"}

OneScheduler == \A r, s \in Replicas : r = s

\* A row nobody has created has no history.
AbsentFresh ==
  \A i \in Idx : rows[i].status = "absent" =>
    execs[i] = 0 /\ i \notin due /\ \A c \in Callers : Booking(c) => start[c].idx # i

\* What the queue can still hand out has not been sent.
ScheduledUnsent == \A i \in Idx : rows[i].status = "scheduled" => execs[i] = 0

\* A StartWorkflow call before its Exec has its row to itself: unsent, in no
\* due list, and either not due yet or not in the queue.
BookingApart ==
  \A c \in Callers : Booking(c) =>
    /\ start[c].idx \in Idx
    /\ execs[start[c].idx] = 0
    /\ start[c].rec.status \in Live
    /\ start[c].pc = "recorded" => start[c].rec.status = "running"
    /\ start[c].rec.status = "running" => rows[start[c].idx].status # "scheduled"
    /\ start[c].rec.status = "scheduled" => start[c].idx \notin due
    /\ \A r \in Replicas : sched[r].copy[start[c].idx] = NoRow
    /\ \A d \in Callers : Booking(d) /\ start[d].idx = start[c].idx => d = c

\* A listed row is unsent until its turn, and claimed before it is sent.
QueueUnsent ==
  \A r \in Replicas :
    /\ sched[r].pc = "idle" => \A i \in Idx : sched[r].copy[i] = NoRow
    /\ \A i \in Idx : sched[r].copy[i] # NoRow =>
         /\ i \in due
         /\ sched[r].copy[i].status \in Live
         /\ execs[i] = 0 \/ (sched[r].pc \in {"sent", "failing"} /\ sched[r].idx = i)
    /\ sched[r].pc \notin {"idle", "next"} =>
         /\ sched[r].idx \in Idx
         /\ sched[r].copy[sched[r].idx].status = "running"
         /\ rows[sched[r].idx].status # "scheduled"

\* Only a run that was sent has a live engine behind it, or an outcome.
EngineKnowsSent ==
  \A i \in Idx :
    /\ engine[i] # "unknown" => execs[i] > 0
    /\ wire[i].pc # "idle" => execs[i] > 0
    /\ wire[i].pc = "read" => wire[i].rec.status \in Terminal \cup {"running"}

\* Nobody but StartWorkflow writes a row back as scheduled.
ClosersClose ==
  /\ \A p \in Stoppers : stop[p].pc = "write" => stop[p].rec.status \in Terminal
  /\ \A r \in Replicas : finish[r].pc = "read" => finish[r].rec.status \in Terminal

DispatchInv ==
  /\ AbsentFresh
  /\ ScheduledUnsent
  /\ BookingApart
  /\ QueueUnsent
  /\ EngineKnowsSent
  /\ ClosersClose
  /\ AtMostOneDispatch

-----------------------------------------------------------------------------
(* Refinement: with no stop and no delete, the table and the engine between *)
(* them are the ledger of RunLedger.                                        *)

Phase(i) ==
  CASE execs[i] > 0 -> "sent"
    [] execs[i] = 0 /\ rows[i].status = "absent" -> "none"
    [] execs[i] = 0 /\ rows[i].status = "scheduled" -> "queued"
    [] execs[i] = 0 /\ rows[i].status = "running" -> "claimed"
    [] OTHER -> "dropped"

Ledger == INSTANCE RunLedger WITH phase <- [i \in Idx |-> Phase(i)]

\* StartWorkflow and the scheduler implement the ledger: a run is booked or
\* taken when its row is created, claimed before it is sent, sent once, and
\* never goes back to the queue.
ImplementsLedger == Ledger!LedgerSpec

=============================================================================
