------------------------- MODULE ProcessRunsProofs -------------------------
(***************************************************************************)
(* Theorems about ProcessRuns, for one scheduler and rows that come due    *)
(* only after the StartWorkflow call that booked them has returned: a run  *)
(* is sent at most once, its end finds its row, a directly launched row    *)
(* stays closed and keeps its outcome, a continuation is seeded with it,   *)
(* and the whole implements the ledger of RunLedger.  That a row is over   *)
(* for good needs neither.                                                 *)
(***************************************************************************)
EXTENDS ProcessRuns, TLAPS

\* An update of one row keeps the table a table.
LEMMA UpdateType ==
  ASSUME TypeOK, NEW i, NEW rec \in Row, Update(i, rec)
  PROVE  rows' \in [Idx -> Row]
BY DEF TypeOK, Update

\* Copies that handlers write back are rows.
LEMMA StatusType ==
  ASSUME NEW rec \in Row, NEW s \in Terminal \cup Live
  PROVE  WithStatus(rec, s) \in Row
BY DEF WithStatus, Row

LEMMA NoRowType == NoRow \in Row
BY DEF NoRow, Row, Gone

LEMMA IdleTypes ==
  /\ Idle \in StartOp /\ Idle \in StopOp /\ Idle \in FinishOp
  /\ NoWire \in WireOp
  /\ SchedIdle \in SchedOp
BY NoRowType
   DEF Idle, StartOp, StopOp, FinishOp, NoWire, WireOp, SchedIdle, SchedOp

\* An operation in flight has its row, its copy and nothing else.
LEMMA StartParts ==
  ASSUME TypeOK, NEW c \in Callers, start[c].pc # "idle"
  PROVE  start[c] \in [pc : {"created", "recorded", "unsent"},
                       idx : Idx, rec : Row, from : Idx \cup {None}]
BY DEF TypeOK, StartOp, Idle

LEMMA StopParts ==
  ASSUME TypeOK, NEW p \in Stoppers, stop[p].pc # "idle"
  PROVE  stop[p] \in [pc : {"read", "write"},
                      idx : Idx, rec : Row, from : {None}]
BY DEF TypeOK, StopOp, Idle

LEMMA FinishParts ==
  ASSUME TypeOK, NEW r \in Replicas, finish[r].pc # "idle"
  PROVE  finish[r] \in [pc : {"read"}, idx : Idx, rec : Row, from : {None}]
BY DEF TypeOK, FinishOp, Idle

LEMMA EngineTakesType ==
  ASSUME TypeOK, NEW i \in Idx, EngineTakes(i)
  PROVE  /\ execs' \in [Idx -> 0..MaxExec]
         /\ engine' \in [Idx -> {"unknown", "live", "stopping"} \cup Results]
BY ConstantsOK DEF TypeOK, EngineTakes

LEMMA EngineEndsType ==
  ASSUME TypeOK, NEW i \in Idx, NEW s \in Results, EngineEnds(i, s)
  PROVE  /\ engine' \in [Idx -> {"unknown", "live", "stopping"} \cup Results]
         /\ events' \in [Replicas -> SUBSET Event]
<1>1. engine' \in [Idx -> {"unknown", "live", "stopping"} \cup Results]
  BY DEF TypeOK, EngineEnds
<1>2. [idx |-> i, result |-> s] \in Event
  BY DEF Event
<1>3. \A r \in Replicas : events[r] \cup {[idx |-> i, result |-> s]} \in SUBSET Event
  BY <1>2 DEF TypeOK
<1> QED BY <1>1, <1>3 DEF EngineEnds

LEMMA DropType ==
  ASSUME NEW op \in SchedOp, NEW i
  PROVE  SchedDrop(op, i) \in SchedOp
BY IdleTypes, NoRowType DEF SchedDrop, SchedOp, SchedIdle

\* Every variable starts in its type.
LEMMA TypeInit == ASSUME Init PROVE TypeOK
BY ConstantsOK, IdleTypes, NoRowType DEF Init, TypeOK

-----------------------------------------------------------------------------
(* Types are kept, one lemma per handler.                                  *)

LEMMA TypeStart ==
  ASSUME TypeOK, NEW c \in Callers, StartNext(c)
  PROVE  TypeOK'
<1>1. ASSUME NEW i \in Idx, StartCreate(c, i) PROVE TypeOK'
  <2>1. PICK launch \in Launches, from \in Idx \cup {None} :
          LET rec == [status |-> IF launch = "now" THEN "running"
                                                   ELSE "scheduled",
                      pid |-> FALSE, snap |-> FALSE]
          IN /\ rows' = [rows EXCEPT ![i] = rec]
             /\ start' = [start EXCEPT ![c] = [pc |-> "created", idx |-> i,
                                               rec |-> rec, from |-> from]]
             /\ source' = [source EXCEPT ![i] = from]
    BY <1>1 DEF StartCreate
  <2> DEFINE rec == [status |-> IF launch = "now" THEN "running"
                                                  ELSE "scheduled",
                     pid |-> FALSE, snap |-> FALSE]
  <2>2. rec \in Row
    BY DEF Row, Live
  <2>3. [pc |-> "created", idx |-> i, rec |-> rec, from |-> from] \in StartOp
    BY <2>2 DEF StartOp
  <2> QED BY <1>1, <2>1, <2>2, <2>3 DEF StartCreate, TypeOK, history
<1>2. CASE StartFails(c)
  <2>1. start[c].rec \in Row
    BY <1>2, StartParts DEF StartFails
  <2>2. rows' \in [Idx -> Row]
    BY <1>2, <2>1, UpdateType, StatusType DEF StartFails, Terminal
  <2> QED BY <1>2, <2>2, IdleTypes DEF StartFails, TypeOK, history
<1>3. CASE StartRecord(c)
  <2> DEFINE rec == Recorded(start[c].rec)
  <2>0. start[c] \in [pc : {"created", "recorded", "unsent"},
                      idx : Idx, rec : Row, from : Idx \cup {None}]
    BY <1>3, StartParts DEF StartRecord
  <2>1. rec \in Row
    BY <2>0 DEF Recorded, Row
  <2>2. rows' \in [Idx -> Row]
    BY <1>3, <2>1, UpdateType DEF StartRecord
  <2> HIDE DEF rec
  <2>3. [start[c] EXCEPT !.pc = "recorded", !.rec = rec] \in StartOp
    BY <2>0, <2>1 DEF StartOp
  <2>4. start' \in [Callers -> StartOp]
    BY <1>3, <2>3, IdleTypes DEF StartRecord, TypeOK, rec
  <2> QED BY <1>3, <2>2, <2>4 DEF StartRecord, TypeOK, history
<1>4. CASE StartExec(c)
  <2>1. start[c] \in [pc : {"created", "recorded", "unsent"},
                      idx : Idx, rec : Row, from : Idx \cup {None}]
    BY <1>4, StartParts DEF StartExec
  <2>2. [start[c] EXCEPT !.pc = "unsent"] \in StartOp
    BY <2>1 DEF StartOp
  <2>3. start' \in [Callers -> StartOp]
    BY <1>4, <2>2, IdleTypes DEF StartExec, TypeOK
  <2>4. /\ execs' \in [Idx -> 0..MaxExec]
        /\ engine' \in [Idx -> {"unknown", "live", "stopping"} \cup Results]
    BY <1>4, <2>1, EngineTakesType DEF StartExec, EngineRefuses, TypeOK
  <2> QED BY <1>4, <2>3, <2>4 DEF StartExec, TypeOK, history
<1>5. CASE StartUnsent(c)
  <2>1. start[c].rec \in Row
    BY <1>5, StartParts DEF StartUnsent
  <2>2. rows' \in [Idx -> Row]
    BY <1>5, <2>1, UpdateType, StatusType DEF StartUnsent, Terminal
  <2> QED BY <1>5, <2>2, IdleTypes DEF StartUnsent, TypeOK, history
<1> QED BY <1>1, <1>2, <1>3, <1>4, <1>5 DEF StartNext

LEMMA TypeSched ==
  ASSUME TypeOK, NEW r \in Replicas, SchedNext(r)
  PROVE  TypeOK'
<1> DEFINE op == sched[r]
<1>op. op \in SchedOp
  BY DEF TypeOK
<1>copy. \A i \in Idx : op.copy[i] \in Row
  BY <1>op DEF SchedOp
<1> HIDE DEF op
<1>1. CASE SchedList(r)
  <2> DEFINE list == [i \in Idx |-> IF i \in DueScheduled THEN rows[i] ELSE NoRow]
  <2>1. list \in [Idx -> Row]
    BY NoRowType DEF TypeOK
  <2>2. [SchedIdle EXCEPT !.pc = "next", !.copy = list] \in SchedOp
    BY <2>1 DEF SchedIdle, SchedOp
  <2> HIDE DEF list
  <2>3. sched' \in [Replicas -> SchedOp]
    BY <1>1, <2>2 DEF SchedList, TypeOK, list
  <2> QED BY <1>1, <2>3 DEF SchedList, TypeOK, history
<1>2. ASSUME NEW i \in Idx, SchedClaim(r, i) PROVE TypeOK'
  <2> DEFINE rec == Claimed(op.copy[i])
  <2>1. rec \in Row
    BY <1>copy, StatusType DEF Claimed, Live
  <2>2. rows' \in [Idx -> Row]
    BY <1>2, <2>1, UpdateType DEF SchedClaim, op
  <2>3. [op EXCEPT !.pc = "claimed", !.idx = i, !.copy = [@ EXCEPT ![i] = rec]]
          \in SchedOp
    BY <2>1, <1>op DEF SchedOp
  <2> HIDE DEF rec
  <2>4. sched' \in [Replicas -> SchedOp]
    BY <1>2, <2>3, <1>op, DropType DEF SchedClaim, TypeOK, rec, op
  <2> QED BY <1>2, <2>2, <2>4 DEF SchedClaim, TypeOK, history
<1>3. CASE SchedPrepare(r)
  <2>1. HasResume(op.idx) \in BOOLEAN
    BY <1>3, <1>op DEF HasResume, SchedOp, ByPid, Exists, TypeOK, Row
  <2>2. /\ [op EXCEPT !.pc = "failing"] \in SchedOp
        /\ [op EXCEPT !.pc = "ready", !.resume = HasResume(op.idx)] \in SchedOp
    BY <2>1, <1>op DEF SchedOp
  <2>3. sched' \in [Replicas -> SchedOp]
    BY <1>3, <2>2 DEF SchedPrepare, TypeOK, op
  <2> QED BY <1>3, <2>3 DEF SchedPrepare, TypeOK, history
<1>4. CASE SchedExec(r)
  <2> DEFINE withPid == [op.copy EXCEPT ![op.idx].pid = TRUE]
  <2>0. withPid \in [Idx -> Row]
    <3>1. \A rec \in Row : [rec EXCEPT !.pid = TRUE] \in Row
      BY DEF Row
    <3>2. op.copy \in [Idx -> Row]
      BY <1>op DEF SchedOp
    <3> QED BY <3>1, <3>2
  <2> HIDE DEF withPid
  <2>1. /\ [op EXCEPT !.pc = "failing"] \in SchedOp
        /\ [op EXCEPT !.pc = "sent", !.copy = withPid] \in SchedOp
    BY <1>op, <2>0 DEF SchedOp
  <2>2. sched' \in [Replicas -> SchedOp]
    BY <1>4, <2>1 DEF SchedExec, TypeOK, op, withPid
  <2>3. /\ execs' \in [Idx -> 0..MaxExec]
        /\ engine' \in [Idx -> {"unknown", "live", "stopping"} \cup Results]
    BY <1>4, ConstantsOK
       DEF SchedExec, EngineTakes, EngineRefuses, TypeOK
  <2>4. seeded' \in [Idx -> {"no", "blank", "snapshot"}]
    BY <1>4 DEF SchedExec, TypeOK
  <2> QED BY <1>4, <2>2, <2>3, <2>4 DEF SchedExec, TypeOK
<1>5. CASE SchedRecord(r)
  <2>1. rows' \in [Idx -> Row]
    BY <1>5, <1>op, <1>copy, UpdateType DEF SchedRecord, Update, TypeOK, op
  <2>2. sched' \in [Replicas -> SchedOp]
    BY <1>5, <1>op, DropType DEF SchedRecord, TypeOK, op
  <2> QED BY <1>5, <2>1, <2>2 DEF SchedRecord, TypeOK, history
<1>6. CASE SchedFails(r)
  <2>1. rows' \in [Idx -> Row]
    BY <1>6, <1>op, <1>copy, StatusType
       DEF SchedFails, Update, TypeOK, op, Terminal
  <2>2. sched' \in [Replicas -> SchedOp]
    BY <1>6, <1>op, DropType DEF SchedFails, TypeOK, op
  <2> QED BY <1>6, <2>1, <2>2 DEF SchedFails, TypeOK, history
<1> QED BY <1>1, <1>2, <1>3, <1>4, <1>5, <1>6 DEF SchedNext

LEMMA TypeStop ==
  ASSUME TypeOK, NEW p \in Stoppers, StopNext(p)
  PROVE  TypeOK'
<1>op. stop[p].pc # "idle" =>
         /\ stop[p] \in [pc : {"read", "write"},
                         idx : Idx, rec : Row, from : {None}]
         /\ stop[p].rec \in Row
  BY StopParts
<1>1. ASSUME NEW i \in Idx, StopRead(p, i) PROVE TypeOK'
  <2>1. [Idle EXCEPT !.pc = "read", !.idx = i, !.rec = rows[i]] \in StopOp
    BY DEF Idle, StopOp, TypeOK
  <2> QED BY <1>1, <2>1 DEF StopRead, TypeOK, history
<1>2. CASE StopScheduled(p)
  <2>1. rows' \in [Idx -> Row]
    BY <1>2, <1>op, UpdateType, StatusType DEF StopScheduled, Terminal
  <2>2. stop' \in [Stoppers -> StopOp]
    BY <1>2, IdleTypes DEF StopScheduled, TypeOK
  <2> QED BY <1>2, <2>1, <2>2 DEF StopScheduled, TypeOK, history
<1>3. CASE StopAsk(p)
  <2>1. /\ Results \subseteq Terminal
        /\ \A s \in Terminal :
             [Idle EXCEPT !.pc = "write", !.idx = stop[p].idx,
                          !.rec = WithStatus(stop[p].rec, s)] \in StopOp
    BY <1>3, <1>op, StatusType DEF StopAsk, StopOp, Idle, Results, Terminal
  <2>2. \A s \in Terminal : StopWrites(p, s) => stop' \in [Stoppers -> StopOp]
    BY <2>1 DEF StopWrites, TypeOK
  <2>3. stop' \in [Stoppers -> StopOp]
    BY <1>3, <2>1, <2>2, IdleTypes DEF StopAsk, TypeOK, Terminal
  <2>4. engine' \in [Idx -> {"unknown", "live", "stopping"} \cup Results]
    BY <1>3 DEF StopAsk, TypeOK
  <2> QED BY <1>3, <2>3, <2>4 DEF StopAsk, TypeOK, history
<1>4. CASE StopWrite(p)
  <2>1. rows' \in [Idx -> Row]
    BY <1>4, <1>op, UpdateType DEF StopWrite
  <2> QED BY <1>4, <2>1, IdleTypes DEF StopWrite, TypeOK, history
<1> QED BY <1>1, <1>2, <1>3, <1>4 DEF StopNext

LEMMA TypeWire ==
  ASSUME TypeOK, NEW i \in Idx, WireNext(i)
  PROVE  TypeOK'
<1>op. /\ wire[i] \in WireOp /\ wire[i].rec \in Row
       /\ rows[i] \in Row
       /\ ResultOf(i) \subseteq Results
  BY DEF TypeOK, WireOp, ResultOf, Results
<1>1. CASE PushContext(i)
  <2>1. [wire[i] EXCEPT !.pc = "sent"] \in WireOp
    BY <1>op DEF WireOp
  <2> QED BY <1>1, <2>1 DEF PushContext, TypeOK, history
<1>2. CASE WireSkips(i)
  <2>1. PICK s \in Results : EngineEnds(i, s)
    BY <1>2, <1>op DEF WireSkips
  <2>2. wire' \in [Idx -> WireOp]
    BY <1>2, IdleTypes DEF WireSkips, TypeOK
  <2> QED BY <1>2, <2>1, <2>2, EngineEndsType DEF WireSkips, TypeOK, history
<1>3. CASE WireRead(i)
  <2>1. [pc |-> "read", rec |-> rows[i]] \in WireOp
    BY <1>op DEF WireOp
  <2> QED BY <1>3, <2>1 DEF WireRead, TypeOK, history
<1>4. CASE WireStore(i)
  <2>1. PICK s \in Results : EngineEnds(i, s)
    BY <1>4, <1>op DEF WireStore
  <2>2. [wire[i].rec EXCEPT !.snap = TRUE] \in Row
    BY <1>op DEF Row
  <2>3. rows' \in [Idx -> Row]
    BY <1>4, <2>2, UpdateType DEF WireStore
  <2>4. wire' \in [Idx -> WireOp] /\ stored' \in SUBSET Idx
    BY <1>4, IdleTypes DEF WireStore, TypeOK
  <2> QED BY <1>4, <2>1, <2>3, <2>4, EngineEndsType DEF WireStore, TypeOK
<1> QED BY <1>1, <1>2, <1>3, <1>4 DEF WireNext

LEMMA TypeFinish ==
  ASSUME TypeOK, NEW r \in Replicas, FinishNext(r)
  PROVE  TypeOK'
<1>1. ASSUME NEW e \in events[r], FinishRead(r, e) PROVE TypeOK'
  <2>1. e \in Event
    BY DEF TypeOK
  <2>2. WithStatus(rows[e.idx], e.result) \in Row
    BY <2>1, StatusType DEF TypeOK, Event, Results, Terminal
  <2>3. [Idle EXCEPT !.pc = "read", !.idx = e.idx,
                     !.rec = WithStatus(rows[e.idx], e.result)] \in FinishOp
    BY <2>1, <2>2 DEF Idle, FinishOp, Event
  <2>4. finish' \in [Replicas -> FinishOp]
    BY <1>1, <2>3 DEF FinishRead, TypeOK
  <2>5. events' \in [Replicas -> SUBSET Event]
    BY <1>1 DEF FinishRead, TypeOK
  <2> QED BY <1>1, <2>4, <2>5 DEF FinishRead, TypeOK, history
<1>2. CASE FinishWrite(r)
  <2>1. finish[r].idx \in Idx /\ finish[r].rec \in Row
    BY <1>2, FinishParts DEF FinishWrite
  <2>2. rows' \in [Idx -> Row]
    BY <1>2, <2>1, UpdateType DEF FinishWrite
  <2> QED BY <1>2, <2>1, <2>2, IdleTypes DEF FinishWrite, TypeOK
<1> QED BY <1>1, <1>2 DEF FinishNext

LEMMA TypeRest ==
  ASSUME TypeOK,
         \/ \E i \in Idx : TimeReaches(i)
         \/ \E i \in Idx : DeleteRow(i)
         \/ \E r \in Replicas : \E e \in events[r] : LoseEvent(r, e)
         \/ Restart
  PROVE  TypeOK'
<1>1. ASSUME NEW i \in Idx, TimeReaches(i) PROVE TypeOK'
  BY <1>1 DEF TimeReaches, TypeOK, history
<1>2. ASSUME NEW i \in Idx, DeleteRow(i) PROVE TypeOK'
  <2>1. [NoRow EXCEPT !.status = "deleted"] \in Row
    BY DEF NoRow, Row, Gone
  <2> QED BY <1>2, <2>1 DEF DeleteRow, TypeOK, history
<1>3. ASSUME NEW r \in Replicas, NEW e \in events[r], LoseEvent(r, e)
      PROVE  TypeOK'
  BY <1>3 DEF LoseEvent, TypeOK, history
<1>4. CASE Restart
  <2>1. restarts' \in 0..MaxRestarts
    BY <1>4, ConstantsOK DEF Restart, TypeOK
  <2>2. wire' \in [Idx -> WireOp]
    BY <1>4, IdleTypes, NoRowType DEF Restart, WireOp, NoWire
  <2> QED BY <1>4, <2>1, <2>2, IdleTypes DEF Restart, TypeOK, history
<1> QED BY <1>1, <1>2, <1>3, <1>4

LEMMA TypeStep == TypeOK /\ [Next]_vars => TypeOK'
<1> SUFFICES ASSUME TypeOK, [Next]_vars PROVE TypeOK'
  OBVIOUS
<1>1. CASE Next
  BY <1>1, TypeStart, TypeSched, TypeStop, TypeFinish, TypeWire, TypeRest
     DEF Next
<1>2. CASE UNCHANGED vars
  BY <1>2 DEF vars, history, TypeOK
<1> QED BY <1>1, <1>2

\* The table, the operations in flight with their copies of rows, the engine
\* and the events are always what TypeOK says, whatever the interleaving: an
\* operation that is under way has a row and a copy that can be written back.
THEOREM TypeCorrect == Spec => []TypeOK
<1>1. Init => TypeOK
  BY TypeInit
<1> QED BY <1>1, TypeStep, PTL DEF Spec

-----------------------------------------------------------------------------
(* At most one dispatch.  Most steps put no row back into the queue, take   *)
(* no booking and send nothing: the frame lemmas deal with those.           *)

\* No row becomes absent or scheduled that was not.
NotRequeued ==
  \A i \in Idx :
    /\ rows'[i].status = "absent" => rows[i].status = "absent"
    /\ rows'[i].status = "scheduled" => rows[i].status = "scheduled"

\* No StartWorkflow call begins, and those before their Exec keep their copy.
NoNewBooking ==
  \A c \in Callers : Booking(c)' => Booking(c) /\ start'[c] = start[c]

\* No scheduler lists a row.
NoNewCopy ==
  \A r \in Replicas, i \in Idx :
    sched'[r].copy[i] # NoRow => sched[r].copy[i] # NoRow

LEMMA ClosingUpdate ==
  ASSUME TypeOK, NEW i, NEW rec \in Row, Update(i, rec),
         rec.status \in Terminal \cup {"running"}
  PROVE  NotRequeued
BY DEF TypeOK, Update, NotRequeued, Terminal

LEMMA StatusOfWithStatus ==
  ASSUME NEW rec \in Row, NEW s
  PROVE  WithStatus(rec, s).status = s
BY DEF WithStatus, Row

LEMMA BookingFrame ==
  ASSUME DispatchInv, NotRequeued, NoNewBooking, NoNewCopy,
         UNCHANGED <<due, execs>>
  PROVE  /\ AbsentFresh' /\ ScheduledUnsent'
         /\ BookingApart' /\ AtMostOneDispatch'
<1>1. AbsentFresh'
  BY DEF DispatchInv, AbsentFresh, NotRequeued, NoNewBooking
<1>2. ScheduledUnsent'
  BY DEF DispatchInv, ScheduledUnsent, NotRequeued
<1>3. BookingApart'
  BY DEF DispatchInv, BookingApart, NotRequeued, NoNewBooking, NoNewCopy
<1>4. AtMostOneDispatch'
  BY DEF DispatchInv, AtMostOneDispatch
<1> QED BY <1>1, <1>2, <1>3, <1>4

LEMMA QueueFrame ==
  ASSUME DispatchInv, NotRequeued, due \subseteq due', UNCHANGED <<sched, execs>>
  PROVE  QueueUnsent' /\ NoNewCopy
BY DEF DispatchInv, QueueUnsent, NotRequeued, NoNewCopy

LEMMA EngineFrame ==
  ASSUME DispatchInv, UNCHANGED <<engine, wire, execs>>
  PROVE  EngineKnowsSent'
BY DEF DispatchInv, EngineKnowsSent

LEMMA ClosersFrame ==
  ASSUME DispatchInv, UNCHANGED <<stop, finish>>
  PROVE  ClosersClose'
BY DEF DispatchInv, ClosersClose

\* A row in a scheduler's hands is on its list.
LEMMA InHandListed ==
  ASSUME DispatchInv, NEW r \in Replicas, sched[r].pc \notin {"idle", "next"}
  PROVE  sched[r].idx \in Idx /\ sched[r].copy[sched[r].idx] # NoRow
BY DEF DispatchInv, QueueUnsent, NoRow

LEMMA DispatchStart ==
  ASSUME TypeOK, DispatchInv, NEW c \in Callers, StartNext(c)
  PROVE  DispatchInv'
<1>1. ASSUME NEW i \in Idx, StartCreate(c, i) PROVE DispatchInv'
  <2>1. PICK s \in Live :
          /\ rows' = [rows EXCEPT ![i] =
                        [status |-> s, pid |-> FALSE, snap |-> FALSE]]
          /\ start'[c].pc = "created" /\ start'[c].idx = i
          /\ start'[c].rec.status = s
          /\ \A d \in Callers \ {c} : start'[d] = start[d]
    <3>1. PICK launch \in Launches, from \in Idx \cup {None} :
            LET rec == [status |-> IF launch = "now" THEN "running"
                                                     ELSE "scheduled",
                        pid |-> FALSE, snap |-> FALSE]
            IN /\ rows' = [rows EXCEPT ![i] = rec]
               /\ start' = [start EXCEPT ![c] = [pc |-> "created", idx |-> i,
                                                 rec |-> rec, from |-> from]]
      BY <1>1 DEF StartCreate
    <3>2. CASE launch = "now"
      BY <3>1, <3>2 DEF TypeOK, Live
    <3>3. CASE launch # "now"
      BY <3>1, <3>3 DEF TypeOK, Live
    <3> QED BY <3>2, <3>3
  <2>2. /\ rows[i].status = "absent" /\ execs[i] = 0 /\ i \notin due
        /\ \A d \in Callers : Booking(d) => start[d].idx # i
        /\ \A r \in Replicas : sched[r].copy[i] = NoRow
    BY <1>1 DEF StartCreate, DispatchInv, AbsentFresh, QueueUnsent
  <2>3. /\ UNCHANGED <<due, execs, sched, engine, wire, stop, finish>>
        /\ \A j \in Idx \ {i} : rows'[j] = rows[j]
        /\ rows'[i].status = s
    BY <1>1, <2>1 DEF StartCreate, TypeOK
  <2>4. AbsentFresh' /\ ScheduledUnsent' /\ AtMostOneDispatch'
    BY <2>1, <2>2, <2>3 DEF DispatchInv, AbsentFresh, ScheduledUnsent,
         AtMostOneDispatch, Booking, Live
  <2>5. BookingApart'
    BY <2>1, <2>2, <2>3 DEF DispatchInv, BookingApart, Booking, Live
  <2>6. QueueUnsent'
    BY <2>1, <2>2, <2>3, InHandListed DEF DispatchInv, QueueUnsent
  <2> QED BY <2>3, <2>4, <2>5, <2>6, EngineFrame, ClosersFrame DEF DispatchInv
<1>2. CASE StartFails(c) \/ StartUnsent(c)
  <2>1. start[c].rec \in Row
    BY <1>2, StartParts DEF StartFails, StartUnsent
  <2>2. NotRequeued
    BY <1>2, <2>1, ClosingUpdate, StatusType, StatusOfWithStatus
       DEF StartFails, StartUnsent, Terminal
  <2>3. NoNewBooking
    BY <1>2 DEF StartFails, StartUnsent, NoNewBooking, Booking, Idle, TypeOK
  <2>4. UNCHANGED <<due, sched, execs, engine, wire, stop, finish>>
    BY <1>2 DEF StartFails, StartUnsent
  <2> QED BY <2>2, <2>3, <2>4, BookingFrame, QueueFrame, EngineFrame,
             ClosersFrame DEF DispatchInv
<1>3. CASE StartRecord(c)
  <2> DEFINE i == start[c].idx
             rec == Recorded(start[c].rec)
  <2>1. /\ Booking(c) /\ i \in Idx
        /\ rec \in Row /\ rec.status = start[c].rec.status
        /\ start[c] \in [pc : {"created", "recorded", "unsent"},
                         idx : Idx, rec : Row, from : Idx \cup {None}]
    <3>1. start[c] \in [pc : {"created", "recorded", "unsent"},
                        idx : Idx, rec : Row, from : Idx \cup {None}]
      BY <1>3, StartParts DEF StartRecord
    <3> QED BY <1>3, <3>1 DEF StartRecord, Booking, Recorded, Row
  <2>2. /\ execs[i] = 0
        /\ \A r \in Replicas : sched[r].copy[i] = NoRow
        /\ rec.status \in Live
        /\ rec.status = "running" => rows[i].status # "scheduled"
        /\ \A d \in Callers \ {c} : Booking(d) => start[d].idx # i
    BY <2>1 DEF DispatchInv, BookingApart
  <2>3. /\ \A j \in Idx : rows'[j] = rows[j] \/ (j = i /\ rows'[j] = rec)
        /\ \A j \in Idx : rows'[j].status = "absent" => rows[j].status = "absent"
    BY <1>3, <2>2 DEF StartRecord, Update, TypeOK, Live
  <2>4. /\ UNCHANGED <<due, sched, execs, engine, wire, stop, finish>>
        /\ \A d \in Callers \ {c} : start'[d] = start[d]
        /\ Booking(c)' => /\ start'[c].pc = "recorded"
                          /\ rec.status = "running"
                          /\ start'[c].idx = i /\ start'[c].rec = rec
    BY <1>3, <2>1 DEF StartRecord, TypeOK, Booking, Idle
  <2> HIDE DEF i, rec
  <2>5. AbsentFresh' /\ ScheduledUnsent' /\ AtMostOneDispatch'
    BY <2>1, <2>2, <2>3, <2>4 DEF DispatchInv, AbsentFresh, ScheduledUnsent,
         AtMostOneDispatch, Booking, i
  <2>6. BookingApart'
    <3> SUFFICES ASSUME NEW d \in Callers, Booking(d)'
                 PROVE  /\ start'[d].idx \in Idx
                        /\ execs'[start'[d].idx] = 0
                        /\ start'[d].rec.status \in Live
                        /\ start'[d].pc = "recorded" =>
                             start'[d].rec.status = "running"
                        /\ start'[d].rec.status = "running" =>
                             rows'[start'[d].idx].status # "scheduled"
                        /\ start'[d].rec.status = "scheduled" =>
                             start'[d].idx \notin due'
                        /\ \A r \in Replicas :
                             sched'[r].copy[start'[d].idx] = NoRow
                        /\ \A e \in Callers :
                             Booking(e)' /\ start'[e].idx = start'[d].idx => e = d
      BY DEF BookingApart
    <3>1. CASE d = c
      BY <3>1, <2>1, <2>2, <2>3, <2>4 DEF Booking
    <3>2. CASE d # c
      <4>1. Booking(d) /\ start'[d] = start[d] /\ start[d].idx # i
        BY <3>2, <2>2, <2>4 DEF Booking
      <4>2. start[d].idx \in Idx /\ rows'[start[d].idx] = rows[start[d].idx]
        BY <4>1, <2>3 DEF DispatchInv, BookingApart
      <4> QED BY <4>1, <4>2, <2>4 DEF DispatchInv, BookingApart, Booking
    <3> QED BY <3>1, <3>2
  <2>7. QueueUnsent'
    BY <2>2, <2>3, <2>4, InHandListed DEF DispatchInv, QueueUnsent
  <2> QED BY <2>4, <2>5, <2>6, <2>7, EngineFrame, ClosersFrame DEF DispatchInv
<1>4. CASE StartExec(c)
  <2> DEFINE i == start[c].idx
  <2>1. /\ Booking(c) /\ i \in Idx /\ start[c].rec.status = "running"
        /\ execs[i] = 0 /\ rows[i].status # "scheduled"
        /\ rows[i].status # "absent"
        /\ \A r \in Replicas : sched[r].copy[i] = NoRow
        /\ \A d \in Callers \ {c} : Booking(d) => start[d].idx # i
    BY <1>4 DEF StartExec, Booking, DispatchInv, BookingApart, AbsentFresh
  <2>2. /\ UNCHANGED <<rows, due, sched, wire, stop, finish>>
        /\ NoNewBooking /\ ~Booking(c)'
        /\ \A j \in Idx \ {i} : execs'[j] = execs[j] /\ engine'[j] = engine[j]
        /\ (execs'[i] = execs[i] /\ engine'[i] = engine[i]) \/ execs'[i] = 1
    <3>1. UNCHANGED <<rows, due, sched, wire, stop, finish>>
      BY <1>4 DEF StartExec
    <3>2. NoNewBooking /\ ~Booking(c)'
      <4>1. start[c] \in [pc : {"created", "recorded", "unsent"},
                          idx : Idx, rec : Row, from : Idx \cup {None}]
        BY <1>4, StartParts DEF StartExec
      <4>2. /\ \A d \in Callers \ {c} : start'[d] = start[d]
            /\ start'[c].pc \in {"idle", "unsent"}
        BY <1>4, <4>1 DEF StartExec, TypeOK, Idle
      <4> QED BY <4>2 DEF NoNewBooking, Booking
    <3>3. /\ \A j \in Idx \ {i} : execs'[j] = execs[j] /\ engine'[j] = engine[j]
          /\ (execs'[i] = execs[i] /\ engine'[i] = engine[i]) \/ execs'[i] = 1
      BY <1>4, <2>1 DEF StartExec, EngineTakes, EngineRefuses, TypeOK
    <3> QED BY <3>1, <3>2, <3>3
  <2> HIDE DEF i
  <2>3. AbsentFresh' /\ ScheduledUnsent' /\ AtMostOneDispatch'
    BY <2>1, <2>2 DEF DispatchInv, AbsentFresh, ScheduledUnsent,
         AtMostOneDispatch, NoNewBooking
  <2>4. BookingApart'
    BY <2>1, <2>2 DEF DispatchInv, BookingApart, NoNewBooking, Booking
  <2>5. QueueUnsent'
    BY <2>1, <2>2 DEF DispatchInv, QueueUnsent
  <2>6. EngineKnowsSent'
    BY <2>1, <2>2 DEF DispatchInv, EngineKnowsSent
  <2> QED BY <2>2, <2>3, <2>4, <2>5, <2>6, ClosersFrame DEF DispatchInv
<1> QED BY <1>1, <1>2, <1>3, <1>4 DEF StartNext

\* Dropping the row in hand leaves only rows that have not been sent.
LEMMA Dropped ==
  ASSUME DispatchInv, TypeOK, NEW r \in Replicas, \A q \in Replicas : q = r,
         NEW i \in Idx, sched'[r] = SchedDrop(sched[r], i),
         sched[r].pc = "next" \/ sched[r].idx = i,
         UNCHANGED <<due, execs>>
  PROVE  NoNewCopy /\ QueueUnsent'
<1> DEFINE copy == [sched[r].copy EXCEPT ![i] = NoRow]
<1>1. /\ sched[r].copy \in [Idx -> Row]
      /\ copy[i] = NoRow
      /\ \A j \in Idx \ {i} : copy[j] = sched[r].copy[j]
  BY DEF TypeOK, SchedOp
<1>2. \/ sched'[r] = SchedIdle
      \/ sched'[r] = [SchedIdle EXCEPT !.pc = "next", !.copy = copy]
  BY DEF SchedDrop
<1> HIDE DEF copy
<1>3. \/ /\ sched'[r].pc = "idle"
         /\ \A j \in Idx : sched'[r].copy[j] = NoRow
      \/ /\ sched'[r].pc = "next"
         /\ sched'[r].copy = copy
  <2>1. CASE sched'[r] = SchedIdle
    <3>1. SchedIdle.pc = "idle" /\ \A j \in Idx : SchedIdle.copy[j] = NoRow
      BY DEF SchedIdle
    <3> QED BY <2>1, <3>1
  <2>2. CASE sched'[r] = [SchedIdle EXCEPT !.pc = "next", !.copy = copy]
    BY <2>2 DEF SchedIdle
  <2> QED BY <1>2, <2>1, <2>2
<1>4. \A j \in Idx : sched'[r].copy[j] # NoRow =>
        sched'[r].pc = "next" /\ j # i /\ sched'[r].copy[j] = sched[r].copy[j]
  BY <1>1, <1>3
<1>5. sched'[r].pc \in {"idle", "next"}
  BY <1>3
<1> QED BY <1>3, <1>4, <1>5 DEF DispatchInv, QueueUnsent, NoNewCopy

LEMMA DispatchSched ==
  ASSUME OneScheduler, TypeOK, DispatchInv, NEW r \in Replicas, SchedNext(r)
  PROVE  DispatchInv'
<1> DEFINE op == sched[r]
<1>op. /\ op \in SchedOp
       /\ \A i \in Idx : op.copy[i] \in Row
       /\ \A q \in Replicas : q = r
  BY DEF TypeOK, SchedOp, OneScheduler
<1>same. NoNewBooking \/ ~(UNCHANGED start)
  BY DEF NoNewBooking, Booking
<1>1. CASE SchedList(r)
  <2>1. /\ UNCHANGED <<rows, due, start, execs, engine, wire, stop, finish>>
        /\ sched'[r].pc = "next"
        /\ \A i \in Idx : sched'[r].copy[i] # NoRow =>
             /\ i \in due /\ rows[i].status = "scheduled"
             /\ sched'[r].copy[i] = rows[i]
    BY <1>1, <1>op DEF SchedList, DueScheduled, SchedIdle, TypeOK
  <2>2. AbsentFresh' /\ ScheduledUnsent' /\ AtMostOneDispatch'
    BY <2>1 DEF DispatchInv, AbsentFresh, ScheduledUnsent, AtMostOneDispatch,
         Booking
  <2>3. \A c \in Callers : Booking(c) => sched'[r].copy[start[c].idx] = NoRow
    BY <2>1 DEF DispatchInv, BookingApart, Live
  <2>4. BookingApart'
    BY <2>1, <2>3, <1>op DEF DispatchInv, BookingApart, Booking
  <2>5. QueueUnsent'
    BY <2>1, <1>op DEF DispatchInv, QueueUnsent, ScheduledUnsent, Live
  <2> QED BY <2>1, <2>2, <2>4, <2>5, EngineFrame, ClosersFrame DEF DispatchInv
<1>2. ASSUME NEW i \in Idx, SchedClaim(r, i) PROVE DispatchInv'
  <2> DEFINE rec == Claimed(op.copy[i])
  <2>1. /\ rec \in Row /\ rec.status = "running"
        /\ op.copy[i] # NoRow /\ i \in due /\ execs[i] = 0
        /\ op.pc = "next"
    BY <1>2, <1>op, StatusType, StatusOfWithStatus
       DEF SchedClaim, Claimed, Live, DispatchInv, QueueUnsent
  <2>2. NotRequeued
    BY <1>2, <2>1, ClosingUpdate DEF SchedClaim
  <2>3. UNCHANGED <<due, start, execs, engine, wire, stop, finish>>
    BY <1>2 DEF SchedClaim
  <2>4. /\ Exists(i) => rows'[i].status = "running"
        /\ ~Exists(i) => sched'[r] = SchedDrop(op, i)
        /\ Exists(i) => /\ sched'[r].pc = "claimed" /\ sched'[r].idx = i
                        /\ sched'[r].copy = [op.copy EXCEPT ![i] = rec]
    BY <1>2, <2>1, <1>op DEF SchedClaim, Update, TypeOK, SchedOp
  <2> HIDE DEF rec
  <2>5. CASE Exists(i)
    <3>1. /\ sched'[r].copy[i] = rec
          /\ \A j \in Idx \ {i} : sched'[r].copy[j] = op.copy[j]
      BY <2>4, <2>5, <1>op DEF SchedOp
    <3>2. NoNewCopy
      BY <3>1, <2>1, <1>op DEF NoNewCopy
    <3>3. QueueUnsent'
      BY <3>1, <2>1, <2>3, <2>4, <2>5, <1>op DEF DispatchInv, QueueUnsent, Live
    <3> QED BY <3>2, <3>3, <2>2, <2>3, <1>same, BookingFrame, EngineFrame,
               ClosersFrame DEF DispatchInv
  <2>6. CASE ~Exists(i)
    <3>1. NoNewCopy /\ QueueUnsent'
      BY <2>6, <2>1, <2>3, <2>4, <1>op, Dropped
    <3> QED BY <3>1, <2>2, <2>3, <1>same, BookingFrame, EngineFrame,
               ClosersFrame DEF DispatchInv
  <2> QED BY <2>5, <2>6
<1>3. CASE SchedPrepare(r)
  <2>1. /\ UNCHANGED <<rows, due, start, execs, engine, wire, stop, finish>>
        /\ op.pc = "claimed"
        /\ sched'[r].pc \in {"failing", "ready"}
        /\ sched'[r].idx = op.idx /\ sched'[r].copy = op.copy
    <3> DEFINE found == HasResume(op.idx)
    <3> HIDE DEF found
    <3>1. \/ sched' = [sched EXCEPT ![r] = [op EXCEPT !.pc = "ready",
                                                     !.resume = found]]
          \/ sched' = [sched EXCEPT ![r] = [op EXCEPT !.pc = "failing"]]
      BY <1>3 DEF SchedPrepare, found
    <3>2. /\ sched'[r].pc \in {"failing", "ready"}
          /\ sched'[r].idx = op.idx /\ sched'[r].copy = op.copy
      <4> HIDE DEF op
      <4>1. CASE sched' = [sched EXCEPT ![r] = [op EXCEPT !.pc = "ready",
                                                        !.resume = found]]
        BY <4>1, <1>op DEF TypeOK, SchedOp
      <4>2. CASE sched' = [sched EXCEPT ![r] = [op EXCEPT !.pc = "failing"]]
        BY <4>2, <1>op DEF TypeOK, SchedOp
      <4> QED BY <3>1, <4>1, <4>2
    <3> QED BY <1>3, <3>2 DEF SchedPrepare
  <2>2. NotRequeued /\ NoNewCopy
    BY <2>1, <1>op DEF NotRequeued, NoNewCopy
  <2>3. QueueUnsent'
    BY <2>1, <1>op DEF DispatchInv, QueueUnsent
  <2> QED BY <2>1, <2>2, <2>3, <1>same, BookingFrame, EngineFrame,
             ClosersFrame DEF DispatchInv
<1>4. CASE SchedExec(r)
  <2>1. /\ op.pc = "ready" /\ op.idx \in Idx
        /\ op.copy[op.idx] # NoRow /\ op.copy[op.idx].status = "running"
        /\ rows[op.idx].status # "scheduled" /\ rows[op.idx].status # "absent"
        /\ execs[op.idx] = 0 /\ op.idx \in due
        /\ \A c \in Callers : Booking(c) => start[c].idx # op.idx
    BY <1>4, InHandListed
       DEF SchedExec, DispatchInv, QueueUnsent, BookingApart, AbsentFresh
  <2>2. UNCHANGED <<rows, due, start, wire, stop, finish>>
    BY <1>4 DEF SchedExec
  <2>3. /\ \A j \in Idx \ {op.idx} : execs'[j] = execs[j] /\ engine'[j] = engine[j]
        /\ \/ execs'[op.idx] = execs[op.idx] /\ engine'[op.idx] = engine[op.idx]
           \/ execs'[op.idx] = 1
    BY <1>4, <2>1 DEF SchedExec, EngineTakes, EngineRefuses, TypeOK
  <2>4. /\ sched'[r].pc \in {"sent", "failing"} /\ sched'[r].idx = op.idx
        /\ \A j \in Idx \ {op.idx} : sched'[r].copy[j] = op.copy[j]
        /\ sched'[r].copy[op.idx].status = "running"
    <3> DEFINE withPid == [op.copy EXCEPT ![op.idx].pid = TRUE]
    <3>1. /\ withPid[op.idx].status = "running"
          /\ \A j \in Idx \ {op.idx} : withPid[j] = op.copy[j]
      BY <2>1, <1>op DEF SchedOp, Row
    <3> HIDE DEF withPid
    <3>2. \/ sched' = [sched EXCEPT ![r] = [op EXCEPT !.pc = "sent",
                                                     !.copy = withPid]]
          \/ sched' = [sched EXCEPT ![r] = [op EXCEPT !.pc = "failing"]]
      BY <1>4 DEF SchedExec, withPid
    <3> HIDE DEF op
    <3>3. CASE sched' = [sched EXCEPT ![r] = [op EXCEPT !.pc = "sent",
                                                      !.copy = withPid]]
      BY <3>1, <3>3, <1>op DEF TypeOK, SchedOp
    <3>4. CASE sched' = [sched EXCEPT ![r] = [op EXCEPT !.pc = "failing"]]
      BY <3>4, <2>1, <1>op DEF TypeOK, SchedOp
    <3> QED BY <3>2, <3>3, <3>4
  <2> HIDE DEF op
  <2>5. AbsentFresh' /\ ScheduledUnsent' /\ AtMostOneDispatch'
    BY <2>1, <2>2, <2>3 DEF DispatchInv, AbsentFresh, ScheduledUnsent,
         AtMostOneDispatch, Booking
  <2>6. BookingApart'
    BY <2>1, <2>2, <2>3, <2>4, <1>op
       DEF DispatchInv, BookingApart, Booking, op
  <2>7. QueueUnsent'
    BY <2>1, <2>2, <2>3, <2>4, <1>op DEF DispatchInv, QueueUnsent, Live, op
  <2>8. EngineKnowsSent'
    BY <2>1, <2>2, <2>3 DEF DispatchInv, EngineKnowsSent
  <2> QED BY <2>2, <2>5, <2>6, <2>7, <2>8, ClosersFrame DEF DispatchInv
<1>5. CASE SchedRecord(r) \/ SchedFails(r)
  <2>1. /\ op.pc \in {"sent", "failing"} /\ op.idx \in Idx
        /\ op.copy[op.idx].status = "running"
    BY <1>5, InHandListed
       DEF SchedRecord, SchedFails, DispatchInv, QueueUnsent
  <2>2. PICK rec \in Row : /\ Update(op.idx, rec)
                           /\ rec.status \in Terminal \cup {"running"}
    BY <1>5, <2>1, <1>op, StatusType, StatusOfWithStatus
       DEF SchedRecord, SchedFails, Terminal
  <2>3. NotRequeued
    BY <2>2, ClosingUpdate
  <2>4. /\ UNCHANGED <<due, start, execs, engine, wire, stop, finish>>
        /\ sched'[r] = SchedDrop(op, op.idx)
    BY <1>5 DEF SchedRecord, SchedFails, TypeOK
  <2>5. NoNewCopy /\ QueueUnsent'
    BY <2>1, <2>4, <1>op, Dropped
  <2> QED BY <2>3, <2>4, <2>5, <1>same, BookingFrame, EngineFrame,
             ClosersFrame DEF DispatchInv
<1> QED BY <1>1, <1>2, <1>3, <1>4, <1>5 DEF SchedNext

LEMMA DispatchStop ==
  ASSUME TypeOK, DispatchInv, NEW p \in Stoppers, StopNext(p)
  PROVE  DispatchInv'
<1>1. /\ UNCHANGED <<start, sched, execs, wire, finish, due>>
      /\ NoNewBooking /\ NoNewCopy
  BY DEF StopNext, StopRead, StopScheduled, StopAsk, StopWrite,
         NoNewBooking, NoNewCopy, Booking
<1>2. \A q \in Stoppers \ {p} : stop'[q] = stop[q]
  BY DEF StopNext, StopRead, StopScheduled, StopAsk, StopWrites, StopWrite,
         TypeOK
<1>3. NotRequeued
  <2>1. CASE \E i \in Idx : StopRead(p, i)
    BY <2>1 DEF StopRead, NotRequeued
  <2>2. CASE StopScheduled(p)
    <3>1. stop[p].rec \in Row
      BY <2>2, StopParts DEF StopScheduled
    <3> QED BY <2>2, <3>1, ClosingUpdate, StatusType, StatusOfWithStatus
            DEF StopScheduled, Terminal
  <2>3. CASE StopAsk(p)
    BY <2>3 DEF StopAsk, NotRequeued
  <2>4. CASE StopWrite(p)
    <3>1. stop[p].rec \in Row /\ stop[p].rec.status \in Terminal
      BY <2>4, StopParts DEF StopWrite, DispatchInv, ClosersClose
    <3> QED BY <2>4, <3>1, ClosingUpdate DEF StopWrite
  <2> QED BY <2>1, <2>2, <2>3, <2>4 DEF StopNext
<1>4. EngineKnowsSent'
  BY <1>1 DEF StopNext, StopRead, StopScheduled, StopAsk, StopWrite, TypeOK,
              DispatchInv, EngineKnowsSent
<1>5. stop'[p].pc = "write" => stop'[p].rec.status \in Terminal
  <2>1. CASE \E i \in Idx : StopRead(p, i)
    BY <2>1 DEF StopRead, Idle, TypeOK
  <2>2. CASE StopScheduled(p) \/ StopWrite(p)
    BY <2>2 DEF StopScheduled, StopWrite, Idle, TypeOK
  <2>3. CASE StopAsk(p)
    <3>1. stop[p].rec \in Row
      BY <2>3, StopParts DEF StopAsk
    <3>2. \A s \in Terminal : StopWrites(p, s) => stop'[p].rec.status \in Terminal
      <4> SUFFICES ASSUME NEW s \in Terminal, StopWrites(p, s)
                   PROVE  stop'[p].rec.status \in Terminal
        OBVIOUS
      <4>1. stop'[p].rec = WithStatus(stop[p].rec, s)
        BY DEF StopWrites, TypeOK, Idle
      <4> QED BY <3>1, <4>1, StatusOfWithStatus
    <3>3. \/ \E s \in Terminal : StopWrites(p, s)
          \/ stop' = [stop EXCEPT ![p] = Idle]
      BY <2>3 DEF StopAsk, Results, Terminal
    <3> QED BY <3>2, <3>3 DEF Idle, TypeOK
  <2> QED BY <2>1, <2>2, <2>3 DEF StopNext
<1>6. ClosersClose'
  BY <1>1, <1>2, <1>5 DEF DispatchInv, ClosersClose
<1> QED BY <1>1, <1>3, <1>4, <1>6, BookingFrame, QueueFrame DEF DispatchInv

LEMMA DispatchFinish ==
  ASSUME TypeOK, DispatchInv, NEW r \in Replicas, FinishNext(r)
  PROVE  DispatchInv'
<1>1. /\ UNCHANGED <<start, sched, execs, engine, wire, stop, due>>
      /\ NoNewBooking /\ NoNewCopy
      /\ \A q \in Replicas \ {r} : finish'[q] = finish[q]
  BY DEF FinishNext, FinishRead, FinishWrite, NoNewBooking, NoNewCopy,
         Booking, TypeOK
<1>2. ASSUME NEW e \in events[r], FinishRead(r, e)
      PROVE  /\ NotRequeued
             /\ finish'[r].pc = "read" => finish'[r].rec.status \in Terminal
  <2>1. e.idx \in Idx /\ e.result \in Results
    BY DEF TypeOK, Event
  <2>2. WithStatus(rows[e.idx], e.result).status = e.result
    BY <2>1, StatusOfWithStatus DEF TypeOK
  <2> DEFINE rec == WithStatus(rows[e.idx], e.result)
  <2> HIDE DEF rec
  <2>3. \/ finish'[r] = [Idle EXCEPT !.pc = "read", !.idx = e.idx, !.rec = rec]
        \/ finish'[r] = finish[r] /\ finish[r].pc = "idle"
    BY <1>2 DEF FinishRead, TypeOK, rec
  <2>4. finish'[r].pc = "read" => finish'[r].rec.status \in Terminal
    BY <2>1, <2>2, <2>3 DEF Idle, Results, Terminal, rec
  <2> QED BY <1>2, <2>4 DEF FinishRead, NotRequeued
<1>3. CASE FinishWrite(r)
  <2>1. finish[r].rec \in Row /\ finish[r].rec.status \in Terminal
    BY <1>3, FinishParts DEF FinishWrite, DispatchInv, ClosersClose
  <2>2. finish'[r].pc = "idle"
    BY <1>3 DEF FinishWrite, Idle, TypeOK
  <2> QED BY <1>1, <1>3, <2>1, <2>2, ClosingUpdate, BookingFrame, QueueFrame,
             EngineFrame
          DEF FinishWrite, DispatchInv, ClosersClose
<1> QED BY <1>1, <1>2, <1>3, BookingFrame, QueueFrame, EngineFrame
        DEF FinishNext, DispatchInv, ClosersClose

LEMMA DispatchWire ==
  ASSUME TypeOK, DispatchInv, NEW i \in Idx, WireNext(i)
  PROVE  DispatchInv'
<1>1. /\ UNCHANGED <<start, sched, execs, stop, finish, due>>
      /\ NoNewBooking /\ NoNewCopy
      /\ \A j \in Idx \ {i} : wire'[j] = wire[j] /\ engine'[j] = engine[j]
      /\ execs[i] > 0
  BY DEF WireNext, PushContext, WireSkips, WireRead, WireStore, EngineEnds,
         NoNewBooking, NoNewCopy, Booking, TypeOK, DispatchInv,
         EngineKnowsSent
<1>2. NotRequeued
  <2>1. CASE PushContext(i) \/ WireSkips(i) \/ WireRead(i)
    BY <2>1 DEF PushContext, WireSkips, WireRead, NotRequeued
  <2>2. CASE WireStore(i)
    <3> DEFINE rec == [wire[i].rec EXCEPT !.snap = TRUE]
    <3>1. /\ wire[i].rec \in Row
          /\ wire[i].rec.status \in Terminal \cup {"running"}
      BY <2>2 DEF WireStore, TypeOK, WireOp, DispatchInv, EngineKnowsSent
    <3>2. rec \in Row /\ rec.status \in Terminal \cup {"running"}
      BY <3>1 DEF Row
    <3> QED BY <2>2, <3>2, ClosingUpdate DEF WireStore
  <2> QED BY <2>1, <2>2 DEF WireNext
<1>3. wire'[i].pc = "read" => wire'[i].rec.status \in Terminal \cup {"running"}
  <2>1. CASE PushContext(i)
    BY <2>1 DEF PushContext, TypeOK, WireOp
  <2>2. CASE WireSkips(i) \/ WireStore(i)
    BY <2>2 DEF WireSkips, WireStore, NoWire, TypeOK
  <2>3. CASE WireRead(i)
    <3>1. rows[i].status \in Terminal \cup {"running"}
      BY <2>3, <1>1 DEF WireRead, ByPid, Exists, TypeOK, Row, Live,
                        DispatchInv, ScheduledUnsent
    <3> QED BY <2>3, <3>1 DEF WireRead, TypeOK
  <2> QED BY <2>1, <2>2, <2>3 DEF WireNext
<1>4. EngineKnowsSent'
  BY <1>1, <1>3 DEF DispatchInv, EngineKnowsSent
<1> QED BY <1>1, <1>2, <1>4, BookingFrame, QueueFrame, ClosersFrame
        DEF DispatchInv

LEMMA DispatchRest ==
  ASSUME TypeOK, DispatchInv, ComesDue # "any",
         \/ \E i \in Idx : TimeReaches(i)
         \/ \E i \in Idx : DeleteRow(i)
         \/ \E r \in Replicas : \E e \in events[r] : LoseEvent(r, e)
         \/ Restart
  PROVE  DispatchInv'
<1>1. ASSUME NEW i \in Idx, TimeReaches(i) PROVE DispatchInv'
  <2>1. /\ UNCHANGED <<rows, start, sched, execs, engine, wire, stop, finish>>
        /\ due' = due \cup {i} /\ rows[i].status = "scheduled"
        /\ \A c \in Callers : start[c].pc = "created" => start[c].idx # i
    BY <1>1 DEF TimeReaches
  <2>2. /\ AbsentFresh' /\ ScheduledUnsent' /\ AtMostOneDispatch'
    BY <2>1 DEF DispatchInv, AbsentFresh, ScheduledUnsent, AtMostOneDispatch,
                Booking
  <2>3. BookingApart'
    BY <2>1 DEF DispatchInv, BookingApart, Booking
  <2>4. QueueUnsent'
    BY <2>1 DEF DispatchInv, QueueUnsent
  <2> QED BY <2>1, <2>2, <2>3, <2>4, EngineFrame, ClosersFrame DEF DispatchInv
<1>2. ASSUME NEW i \in Idx, DeleteRow(i) PROVE DispatchInv'
  <2>1. /\ UNCHANGED <<start, sched, due, execs, engine, wire, stop, finish>>
        /\ NotRequeued /\ NoNewBooking
    BY <1>2 DEF DeleteRow, TypeOK, NoRow, NotRequeued, NoNewBooking, Booking
  <2> QED BY <2>1, BookingFrame, QueueFrame, EngineFrame, ClosersFrame
          DEF DispatchInv
<1>3. ASSUME NEW r \in Replicas, NEW e \in events[r], LoseEvent(r, e)
      PROVE  DispatchInv'
  <2>1. /\ UNCHANGED <<rows, start, sched, due, execs, engine, wire, stop, finish>>
        /\ NotRequeued /\ NoNewBooking
    BY <1>3 DEF LoseEvent, NotRequeued, NoNewBooking, Booking
  <2> QED BY <2>1, BookingFrame, QueueFrame, EngineFrame, ClosersFrame
          DEF DispatchInv
<1>4. CASE Restart
  <2>1. /\ UNCHANGED <<rows, due, execs, engine>>
        /\ NotRequeued /\ NoNewBooking
        /\ \A r \in Replicas : sched'[r] = SchedIdle
        /\ \A p \in Stoppers : stop'[p] = Idle
        /\ \A r \in Replicas : finish'[r] = Idle
    BY <1>4 DEF Restart, NotRequeued, NoNewBooking, Booking, Idle
  <2>2. NoNewCopy /\ QueueUnsent'
    BY <2>1 DEF NoNewCopy, QueueUnsent, SchedIdle
  <2>3. EngineKnowsSent'
    <3>1. \A i \in Idx : /\ wire'[i].pc # "idle" => wire[i].pc # "idle"
                         /\ wire'[i].pc # "read"
      BY <1>4 DEF Restart, NoWire
    <3> QED BY <2>1, <3>1 DEF DispatchInv, EngineKnowsSent
  <2>4. ClosersClose'
    BY <2>1 DEF ClosersClose, Idle
  <2> QED BY <2>1, <2>2, <2>3, <2>4, BookingFrame DEF DispatchInv
<1> QED BY <1>1, <1>2, <1>3, <1>4

LEMMA DispatchInit == ASSUME Init PROVE DispatchInv
<1>1. AbsentFresh /\ ScheduledUnsent /\ AtMostOneDispatch
  BY DEF Init, AbsentFresh, ScheduledUnsent, AtMostOneDispatch, Booking, Idle,
         NoRow
<1>2. BookingApart /\ ClosersClose
  BY DEF Init, BookingApart, ClosersClose, Booking, Idle
<1>3. QueueUnsent
  <2>1. SchedIdle.pc = "idle" /\ \A j \in Idx : SchedIdle.copy[j] = NoRow
    BY DEF SchedIdle
  <2> QED BY <2>1 DEF Init, QueueUnsent
<1>4. EngineKnowsSent
  BY DEF Init, EngineKnowsSent, NoWire
<1> QED BY <1>1, <1>2, <1>3, <1>4 DEF DispatchInv

LEMMA DispatchStep ==
  ASSUME OneScheduler, ComesDue # "any"
  PROVE  TypeOK /\ DispatchInv /\ [Next]_vars => DispatchInv'
<1> SUFFICES ASSUME TypeOK, DispatchInv, [Next]_vars PROVE DispatchInv'
  OBVIOUS
<1>1. CASE Next
  BY <1>1, DispatchStart, DispatchSched, DispatchStop, DispatchFinish,
     DispatchWire, DispatchRest
     DEF Next
<1>2. CASE UNCHANGED vars
  <2>1. /\ UNCHANGED <<rows, start, sched, due, execs, engine, wire, stop, finish>>
        /\ NotRequeued /\ NoNewBooking
    BY <1>2 DEF vars, NotRequeued, NoNewBooking, Booking
  <2> QED BY <2>1, BookingFrame, QueueFrame, EngineFrame, ClosersFrame
          DEF DispatchInv
<1> QED BY <1>1, <1>2

\* With one scheduler on the database, and rows that come due only after
\* StartWorkflow has returned, the claim in Scheduler.launch does what its
\* comment says: however many rows, launches, stops, deletes, lost replies and
\* restarts there are, no row's run is ever sent to the engine twice.
THEOREM OneDispatch ==
  ASSUME OneScheduler, ComesDue # "any"
  PROVE  Spec => []AtMostOneDispatch
<1>1. Init => DispatchInv
  BY DispatchInit
<1>2. TypeOK /\ DispatchInv /\ [Next]_vars => DispatchInv'
  BY DispatchStep
<1>3. DispatchInv => AtMostOneDispatch
  BY DEF DispatchInv
<1> QED BY <1>1, <1>2, <1>3, TypeCorrect, PTL DEF Spec

-----------------------------------------------------------------------------
(* What each handler's steps change, field by field.                       *)

LEMMA UpdateFlat ==
  ASSUME TypeOK, NEW i \in Idx, NEW rec, Update(i, rec)
  PROVE  /\ \A j \in Idx \ {i} : rows'[j] = rows[j]
         /\ Exists(i) => rows'[i] = rec
         /\ ~Exists(i) => rows'[i] = rows[i]
BY DEF TypeOK, Update

LEMMA CreateFlat ==
  ASSUME TypeOK, NEW c \in Callers, NEW i \in Idx, StartCreate(c, i)
  PROVE  /\ UNCHANGED <<due, stop, sched, engine, execs, wire, events, finish,
                        restarts, stored, closed, seeded>>
         /\ start[c].pc = "idle" /\ rows[i].status = "absent"
         /\ \A j \in Idx \ {i} : rows'[j] = rows[j] /\ source'[j] = source[j]
         /\ rows'[i].status \in Live
         /\ source'[i] # None => engine[source'[i]] = "live"
         /\ start'[c].pc = "created" /\ start'[c].idx = i
         /\ start'[c].rec = rows'[i]
         /\ \A d \in Callers \ {c} : start'[d] = start[d]
<1>1. PICK launch \in Launches, from \in Idx \cup {None} :
        /\ IF launch = "continue"
             THEN from # None /\ engine[from] = "live"
             ELSE from = None
        /\ LET rec == [status |-> IF launch = "now" THEN "running"
                                                    ELSE "scheduled",
                       pid |-> FALSE, snap |-> FALSE]
           IN /\ rows' = [rows EXCEPT ![i] = rec]
              /\ start' = [start EXCEPT ![c] = [pc |-> "created", idx |-> i,
                                                rec |-> rec, from |-> from]]
        /\ source' = [source EXCEPT ![i] = from]
  BY DEF StartCreate
<1> DEFINE s == IF launch = "now" THEN "running" ELSE "scheduled"
           rec == [status |-> s, pid |-> FALSE, snap |-> FALSE]
<1>2. rec.status \in Live
  BY DEF Live
<1> HIDE DEF rec
<1>3. /\ rows' = [rows EXCEPT ![i] = rec]
      /\ start' = [start EXCEPT ![c] = [pc |-> "created", idx |-> i,
                                        rec |-> rec, from |-> from]]
  BY <1>1 DEF rec
<1>4. UNCHANGED <<due, stop, sched, engine, execs, wire, events, finish,
                  restarts, stored, closed, seeded>>
      /\ start[c].pc = "idle" /\ rows[i].status = "absent"
  BY DEF StartCreate, history
<1>5. /\ \A j \in Idx \ {i} : rows'[j] = rows[j] /\ source'[j] = source[j]
      /\ rows'[i] = rec
      /\ source'[i] = from
      /\ start'[c].pc = "created" /\ start'[c].idx = i
      /\ start'[c].rec = rec
      /\ \A d \in Callers \ {c} : start'[d] = start[d]
  BY <1>1, <1>3 DEF TypeOK
<1>6. from # None => engine[from] = "live"
  BY <1>1
<1> QED BY <1>2, <1>4, <1>5, <1>6

\* The steps of a StartWorkflow call after its row exists.
StartMoves(c) == \/ StartFails(c) \/ StartRecord(c)
                 \/ StartExec(c) \/ StartUnsent(c)

LEMMA CallFlat ==
  ASSUME TypeOK, NEW c \in Callers, StartMoves(c)
  PROVE  /\ UNCHANGED <<source, due, stop, sched, wire, events, finish,
                        restarts, stored, closed, seeded>>
         /\ start[c].pc # "idle" /\ start[c].idx \in Idx /\ start[c].rec \in Row
         /\ \A d \in Callers \ {c} : start'[d] = start[d]
         /\ start'[c].pc # "created"
         /\ start'[c].pc # "idle" => start'[c].idx = start[c].idx
         /\ \A j \in Idx \ {start[c].idx} :
              /\ rows'[j] = rows[j]
              /\ execs'[j] = execs[j] /\ engine'[j] = engine[j]
<1>1. start[c] \in [pc : {"created", "recorded", "unsent"},
                    idx : Idx, rec : Row, from : Idx \cup {None}]
      /\ start[c].pc # "idle"
  <2>1. start[c].pc # "idle"
    BY DEF StartMoves, StartFails, StartRecord, StartExec, StartUnsent
  <2> QED BY <2>1, StartParts
<1>2. UNCHANGED <<source, due, stop, sched, wire, events, finish,
                  restarts, stored, closed, seeded>>
  BY DEF StartMoves, StartFails, StartRecord, StartExec, StartUnsent, history
<1>3. \/ start' = [start EXCEPT ![c] = Idle]
      \/ start' = [start EXCEPT ![c].pc = "unsent"]
      \/ start' = [start EXCEPT ![c] = [start[c] EXCEPT !.pc = "recorded",
                                         !.rec = Recorded(start[c].rec)]]
  BY DEF StartMoves, StartFails, StartRecord, StartExec, StartUnsent
<1>4. /\ \A d \in Callers \ {c} : start'[d] = start[d]
      /\ start'[c].pc # "created"
      /\ start'[c].pc # "idle" => start'[c].idx = start[c].idx
  <2>1. Idle.pc = "idle"
    BY DEF Idle
  <2> QED BY <1>1, <1>3, <2>1, ZenonT(60) DEF TypeOK
<1>5. \A j \in Idx \ {start[c].idx} : rows'[j] = rows[j]
  BY <1>1 DEF StartMoves, StartFails, StartRecord, StartExec, StartUnsent,
              Update, TypeOK
<1>6. \A j \in Idx \ {start[c].idx} :
        execs'[j] = execs[j] /\ engine'[j] = engine[j]
  BY <1>1 DEF StartMoves, StartFails, StartRecord, StartExec, StartUnsent,
              EngineTakes, EngineRefuses, TypeOK
<1> QED BY <1>1, <1>2, <1>4, <1>5, <1>6

LEMMA FailFlat ==
  ASSUME TypeOK, NEW c \in Callers, StartFails(c) \/ StartUnsent(c)
  PROVE  /\ UNCHANGED <<execs, engine>>
         /\ start'[c].pc = "idle"
         /\ Exists(start[c].idx) => rows'[start[c].idx].status = "failed"
         /\ ~Exists(start[c].idx) => rows'[start[c].idx] = rows[start[c].idx]
<1>1. start[c].idx \in Idx /\ start[c].rec \in Row
  BY CallFlat DEF StartMoves
<1>2. UNCHANGED <<execs, engine>>
      /\ start' = [start EXCEPT ![c] = Idle]
      /\ Update(start[c].idx, WithStatus(start[c].rec, "failed"))
  BY DEF StartFails, StartUnsent
<1> QED BY <1>1, <1>2, UpdateFlat, StatusOfWithStatus DEF TypeOK, Idle

LEMMA RecordFlat ==
  ASSUME TypeOK, NEW c \in Callers, StartRecord(c)
  PROVE  /\ UNCHANGED <<execs, engine>>
         /\ start[c].pc = "created"
         /\ start'[c].pc \in {"idle", "recorded"}
         /\ start'[c].pc = "recorded" =>
              /\ Exists(start[c].idx) /\ start[c].rec.status = "running"
         /\ Exists(start[c].idx) =>
              /\ rows'[start[c].idx].status = start[c].rec.status
              /\ rows'[start[c].idx].pid
         /\ ~Exists(start[c].idx) => rows'[start[c].idx] = rows[start[c].idx]
<1> DEFINE rec == Recorded(start[c].rec)
<1>1. start[c].idx \in Idx /\ start[c].rec \in Row
  BY CallFlat DEF StartMoves
<1>2. rec.status = start[c].rec.status /\ rec.pid
  BY <1>1 DEF Recorded, Row
<1> HIDE DEF rec
<1>3. /\ UNCHANGED <<execs, engine>>
      /\ start[c].pc = "created"
      /\ Update(start[c].idx, rec)
      /\ start' = [start EXCEPT ![c] =
                    IF Exists(start[c].idx) /\ rec.status = "running"
                      THEN [start[c] EXCEPT !.pc = "recorded", !.rec = rec]
                      ELSE Idle]
  BY DEF StartRecord, rec
<1>4. start[c] \in [pc : {"created", "recorded", "unsent"},
                    idx : Idx, rec : Row, from : Idx \cup {None}]
  BY <1>3, StartParts
<1>5. /\ start'[c].pc \in {"idle", "recorded"}
      /\ start'[c].pc = "recorded" =>
              /\ Exists(start[c].idx) /\ rec.status = "running"
  <2>1. Idle.pc = "idle"
    BY DEF Idle
  <2>2. CASE Exists(start[c].idx) /\ rec.status = "running"
    BY <1>3, <1>4, <2>2 DEF TypeOK
  <2>3. CASE ~(Exists(start[c].idx) /\ rec.status = "running")
    BY <1>3, <2>1, <2>3 DEF TypeOK
  <2> QED BY <2>2, <2>3
<1> QED BY <1>1, <1>2, <1>3, <1>5, UpdateFlat

LEMMA ExecFlat ==
  ASSUME TypeOK, NEW c \in Callers, StartExec(c)
  PROVE  /\ UNCHANGED rows
         /\ start[c].pc = "recorded"
         /\ start'[c].pc \in {"idle", "unsent"}
         /\ \/ UNCHANGED <<execs, engine>>
            \/ /\ execs'[start[c].idx] = execs[start[c].idx] + 1
               /\ engine'[start[c].idx] = "live"
               /\ start'[c].pc = "idle" \/ LostReplies
<1>1. /\ UNCHANGED rows
      /\ start[c].pc = "recorded"
      /\ start[c].idx \in Idx
      /\ \/ start' = [start EXCEPT ![c] = Idle]
         \/ start' = [start EXCEPT ![c].pc = "unsent"]
      /\ \/ UNCHANGED <<execs, engine>>
         \/ /\ EngineTakes(start[c].idx)
            /\ start' = [start EXCEPT ![c] = Idle] \/ LostReplies
  BY CallFlat DEF StartExec, StartMoves, EngineRefuses
<1>2. start[c] \in [pc : {"created", "recorded", "unsent"},
                    idx : Idx, rec : Row, from : Idx \cup {None}]
  BY <1>1, StartParts
<1>3. /\ start' = [start EXCEPT ![c] = Idle] => start'[c].pc = "idle"
      /\ start' = [start EXCEPT ![c].pc = "unsent"] => start'[c].pc = "unsent"
  BY <1>2 DEF TypeOK, Idle
<1>4. EngineTakes(start[c].idx) =>
        /\ execs'[start[c].idx] = execs[start[c].idx] + 1
        /\ engine'[start[c].idx] = "live"
  BY <1>1 DEF EngineTakes, TypeOK
<1> QED BY <1>1, <1>3, <1>4

\* On to the next row, or back to the timer: the rest of the list is kept.
LEMMA DropFlat ==
  ASSUME TypeOK, NEW r \in Replicas, NEW i \in Idx,
         sched'[r] = SchedDrop(sched[r], i)
  PROVE  /\ sched'[r].pc \in {"idle", "next"}
         /\ \A j \in Idx : sched'[r].copy[j] # NoRow =>
              /\ sched'[r].pc = "next" /\ j # i
              /\ sched'[r].copy[j] = sched[r].copy[j]
<1> DEFINE copy == [sched[r].copy EXCEPT ![i] = NoRow]
<1>1. /\ copy[i] = NoRow
      /\ \A j \in Idx \ {i} : copy[j] = sched[r].copy[j]
  BY DEF TypeOK, SchedOp
<1>2. \/ sched'[r] = SchedIdle
      \/ sched'[r] = [SchedIdle EXCEPT !.pc = "next", !.copy = copy]
  BY DEF SchedDrop
<1> HIDE DEF copy
<1>3. CASE sched'[r] = SchedIdle
  <2>1. SchedIdle.pc = "idle" /\ \A j \in Idx : SchedIdle.copy[j] = NoRow
    BY DEF SchedIdle
  <2> QED BY <1>3, <2>1
<1>4. CASE sched'[r] = [SchedIdle EXCEPT !.pc = "next", !.copy = copy]
  <2>1. sched'[r].pc = "next" /\ sched'[r].copy = copy
    BY <1>4 DEF SchedIdle
  <2> QED BY <1>1, <2>1
<1> QED BY <1>2, <1>3, <1>4

\* A scheduler's step touches only the row in hand, which is due.
LEMMA SchedFlat ==
  ASSUME TypeOK, DispatchInv, NEW r \in Replicas, SchedNext(r)
  PROVE  /\ UNCHANGED <<source, due, start, stop, wire, events, finish,
                        restarts, stored, closed>>
         /\ \A q \in Replicas \ {r} : sched'[q] = sched[q]
         /\ \A j \in Idx \ due : /\ rows'[j] = rows[j] /\ execs'[j] = execs[j]
                                 /\ engine'[j] = engine[j]
                                 /\ seeded'[j] = seeded[j]
<1>1. UNCHANGED <<source, due, start, stop, wire, events, finish,
                  restarts, stored, closed>>
  BY DEF SchedNext, SchedList, SchedClaim, SchedPrepare, SchedExec,
         SchedRecord, SchedFails, history
<1>2. \A q \in Replicas \ {r} : sched'[q] = sched[q]
  <2>1. CASE SchedList(r) \/ \E i \in Idx : SchedClaim(r, i)
    BY <2>1 DEF SchedList, SchedClaim, TypeOK
  <2>2. CASE SchedPrepare(r) \/ SchedExec(r) \/ SchedRecord(r) \/ SchedFails(r)
    BY <2>2 DEF SchedPrepare, SchedExec, SchedRecord, SchedFails, TypeOK
  <2> QED BY <2>1, <2>2 DEF SchedNext
<1>3. /\ \A i \in Idx : sched[r].copy[i] # NoRow => i \in due
      /\ sched[r].pc \notin {"idle", "next"} =>
           sched[r].idx \in Idx /\ sched[r].idx \in due
  BY InHandListed DEF DispatchInv, QueueUnsent
<1>4. \A j \in Idx \ due : rows'[j] = rows[j]
  <2>1. CASE SchedList(r) \/ SchedPrepare(r) \/ SchedExec(r)
    BY <2>1 DEF SchedList, SchedPrepare, SchedExec
  <2>2. CASE \E i \in Idx : SchedClaim(r, i)
    BY <1>3, <2>2 DEF SchedClaim, Update, TypeOK
  <2>3. CASE SchedRecord(r) \/ SchedFails(r)
    BY <1>3, <2>3 DEF SchedRecord, SchedFails, Update, TypeOK
  <2> QED BY <2>1, <2>2, <2>3 DEF SchedNext
<1>5. \A j \in Idx \ due : /\ execs'[j] = execs[j] /\ engine'[j] = engine[j]
                           /\ seeded'[j] = seeded[j]
  <2>1. CASE SchedExec(r)
    BY <1>3, <2>1 DEF SchedExec, EngineTakes, EngineRefuses, TypeOK
  <2>2. CASE ~SchedExec(r)
    BY <2>2 DEF SchedNext, SchedList, SchedClaim, SchedPrepare,
                SchedRecord, SchedFails, history
  <2> QED BY <2>1, <2>2
<1> QED BY <1>1, <1>2, <1>4, <1>5

LEMMA ListFlat ==
  ASSUME TypeOK, NEW r \in Replicas, SchedList(r)
  PROVE  /\ UNCHANGED <<rows, engine, execs, seeded>>
         /\ sched'[r].pc = "next"
         /\ \A i \in Idx : sched'[r].copy[i] # NoRow =>
              /\ i \in due /\ rows[i].status = "scheduled"
              /\ sched'[r].copy[i] = rows[i]
BY DEF SchedList, DueScheduled, SchedIdle, TypeOK, history

LEMMA ClaimFlat ==
  ASSUME TypeOK, NEW r \in Replicas, NEW i \in Idx, SchedClaim(r, i)
  PROVE  /\ UNCHANGED <<engine, execs, seeded>>
         /\ sched[r].pc = "next" /\ sched[r].copy[i] # NoRow
         /\ \A j \in Idx \ {i} : rows'[j] = rows[j]
         /\ Exists(i) => /\ rows'[i].status = "running"
                         /\ rows'[i].pid = sched[r].copy[i].pid
                         /\ sched'[r].pc = "claimed" /\ sched'[r].idx = i
                         /\ sched'[r].copy[i] = rows'[i]
                         /\ \A j \in Idx \ {i} :
                              sched'[r].copy[j] = sched[r].copy[j]
         /\ ~Exists(i) => /\ rows'[i] = rows[i]
                          /\ sched'[r] = SchedDrop(sched[r], i)
<1> DEFINE rec == Claimed(sched[r].copy[i])
<1>1. sched[r] \in SchedOp /\ sched[r].copy[i] \in Row
  BY DEF TypeOK, SchedOp
<1>2. rec.status = "running" /\ rec.pid = sched[r].copy[i].pid
  BY <1>1 DEF Claimed, WithStatus, Row
<1> HIDE DEF rec
<1>3. /\ UNCHANGED <<engine, execs, seeded>>
      /\ sched[r].pc = "next" /\ sched[r].copy[i] # NoRow
      /\ Update(i, rec)
      /\ Exists(i) => sched' = [sched EXCEPT ![r] = [sched[r] EXCEPT
            !.pc = "claimed", !.idx = i, !.copy = [@ EXCEPT ![i] = rec]]]
      /\ ~Exists(i) => sched' = [sched EXCEPT ![r] = SchedDrop(sched[r], i)]
  BY DEF SchedClaim, history, rec
<1>4. ASSUME Exists(i)
      PROVE  /\ sched'[r].pc = "claimed" /\ sched'[r].idx = i
             /\ sched'[r].copy[i] = rec
             /\ \A j \in Idx \ {i} : sched'[r].copy[j] = sched[r].copy[j]
  <2>1. sched'[r] = [sched[r] EXCEPT
            !.pc = "claimed", !.idx = i, !.copy = [@ EXCEPT ![i] = rec]]
    BY <1>3, <1>4 DEF TypeOK
  <2> QED BY <1>1, <2>1 DEF SchedOp
<1>5. ~Exists(i) => sched'[r] = SchedDrop(sched[r], i)
  BY <1>3 DEF TypeOK
<1> QED BY <1>2, <1>3, <1>4, <1>5, UpdateFlat

LEMMA PrepareFlat ==
  ASSUME TypeOK, NEW r \in Replicas, SchedPrepare(r)
  PROVE  /\ UNCHANGED <<rows, engine, execs, seeded>>
         /\ sched[r].pc = "claimed"
         /\ sched'[r].idx = sched[r].idx /\ sched'[r].copy = sched[r].copy
         /\ \/ sched'[r].pc = "failing"
            \/ /\ sched'[r].pc = "ready"
               /\ sched'[r].resume = HasResume(sched[r].idx)
<1> DEFINE found == HasResume(sched[r].idx)
<1>1. sched[r] \in SchedOp
  BY DEF TypeOK
<1> HIDE DEF found
<1>2. /\ UNCHANGED <<rows, engine, execs, seeded>>
      /\ sched[r].pc = "claimed"
      /\ \/ sched' = [sched EXCEPT ![r] = [sched[r] EXCEPT !.pc = "failing"]]
         \/ sched' = [sched EXCEPT ![r] = [sched[r] EXCEPT
                        !.pc = "ready", !.resume = found]]
  BY DEF SchedPrepare, history, found
<1>3. CASE sched' = [sched EXCEPT ![r] = [sched[r] EXCEPT !.pc = "failing"]]
  BY <1>1, <1>2, <1>3 DEF TypeOK, SchedOp
<1>4. CASE sched' = [sched EXCEPT ![r] = [sched[r] EXCEPT
                       !.pc = "ready", !.resume = found]]
  BY <1>1, <1>2, <1>4 DEF TypeOK, SchedOp, found
<1> QED BY <1>2, <1>3, <1>4

LEMMA SendFlat ==
  ASSUME TypeOK, DispatchInv, NEW r \in Replicas, SchedExec(r)
  PROVE  /\ UNCHANGED rows
         /\ sched[r].pc = "ready" /\ sched[r].idx \in Idx
         /\ sched'[r].pc \in {"sent", "failing"} /\ sched'[r].idx = sched[r].idx
         /\ \A j \in Idx : sched'[r].copy[j] # NoRow => sched[r].copy[j] # NoRow
         /\ \A j \in Idx : sched[r].copy[j].pid => sched'[r].copy[j].pid
         /\ \A j \in Idx \ {sched[r].idx} :
              execs'[j] = execs[j] /\ engine'[j] = engine[j] /\ seeded'[j] = seeded[j]
         /\ \/ UNCHANGED <<execs, engine, seeded>> /\ sched'[r].pc = "failing"
            \/ /\ execs'[sched[r].idx] = execs[sched[r].idx] + 1
               /\ engine'[sched[r].idx] = "live"
               /\ seeded'[sched[r].idx] =
                    IF sched[r].resume THEN "snapshot" ELSE "blank"
<1> DEFINE i == sched[r].idx
           withPid == [sched[r].copy EXCEPT ![i].pid = TRUE]
<1>1. /\ sched[r] \in SchedOp /\ sched[r].pc = "ready"
      /\ i \in Idx /\ sched[r].copy[i] # NoRow
      /\ sched[r].copy[i] \in Row
      /\ UNCHANGED rows
  BY InHandListed DEF TypeOK, SchedExec, SchedOp
<1>2. /\ \A j \in Idx \ {i} : withPid[j] = sched[r].copy[j]
      /\ withPid[i].pid
  BY <1>1 DEF SchedOp, Row
<1> HIDE DEF withPid
<1>3. \/ sched' = [sched EXCEPT ![r] = [sched[r] EXCEPT !.pc = "sent",
                                                       !.copy = withPid]]
      \/ sched' = [sched EXCEPT ![r] = [sched[r] EXCEPT !.pc = "failing"]]
  BY DEF SchedExec, withPid
<1>4. /\ sched'[r].pc \in {"sent", "failing"} /\ sched'[r].idx = i
      /\ sched'[r].copy = withPid \/ sched'[r].copy = sched[r].copy
  <2>1. CASE sched' = [sched EXCEPT ![r] = [sched[r] EXCEPT !.pc = "sent",
                                                           !.copy = withPid]]
    BY <1>1, <2>1 DEF TypeOK, SchedOp
  <2>2. CASE sched' = [sched EXCEPT ![r] = [sched[r] EXCEPT !.pc = "failing"]]
    BY <1>1, <2>2 DEF TypeOK, SchedOp
  <2> QED BY <1>3, <2>1, <2>2
<1>5. /\ \A j \in Idx : sched'[r].copy[j] # NoRow => sched[r].copy[j] # NoRow
      /\ \A j \in Idx : sched[r].copy[j].pid => sched'[r].copy[j].pid
  BY <1>1, <1>2, <1>4
<1> DEFINE seed == IF sched[r].resume THEN "snapshot" ELSE "blank"
<1> HIDE DEF seed
<1>6. \/ UNCHANGED <<execs, engine, seeded>>
         /\ sched' = [sched EXCEPT ![r] = [sched[r] EXCEPT !.pc = "failing"]]
      \/ EngineTakes(i) /\ seeded' = [seeded EXCEPT ![i] = seed]
  BY DEF SchedExec, EngineRefuses, seed
<1>7. CASE UNCHANGED <<execs, engine, seeded>>
           /\ sched' = [sched EXCEPT ![r] = [sched[r] EXCEPT !.pc = "failing"]]
  <2>1. sched'[r].pc = "failing"
    BY <1>1, <1>7 DEF TypeOK, SchedOp
  <2> QED BY <1>1, <1>4, <1>5, <1>7, <2>1
<1>8. CASE EngineTakes(i) /\ seeded' = [seeded EXCEPT ![i] = seed]
  <2>1. /\ execs'[i] = execs[i] + 1 /\ engine'[i] = "live"
        /\ \A j \in Idx \ {i} : execs'[j] = execs[j] /\ engine'[j] = engine[j]
    BY <1>1, <1>8 DEF EngineTakes, TypeOK
  <2>2. seeded'[i] = seed /\ \A j \in Idx \ {i} : seeded'[j] = seeded[j]
    BY <1>1, <1>8 DEF TypeOK
  <2> QED BY <1>1, <1>4, <1>5, <2>1, <2>2 DEF seed
<1> QED BY <1>6, <1>7, <1>8

LEMMA ReturnFlat ==
  ASSUME TypeOK, DispatchInv, NEW r \in Replicas, SchedRecord(r) \/ SchedFails(r)
  PROVE  /\ UNCHANGED <<engine, execs, seeded>>
         /\ sched[r].pc \in {"sent", "failing"} /\ sched[r].idx \in Idx
         /\ sched[r].idx \in due
         /\ sched[r].copy[sched[r].idx] # NoRow
         /\ sched'[r] = SchedDrop(sched[r], sched[r].idx)
         /\ \A j \in Idx \ {sched[r].idx} : rows'[j] = rows[j]
         /\ \/ rows'[sched[r].idx] = rows[sched[r].idx]
            \/ /\ rows'[sched[r].idx].status = "failed"
               /\ Exists(sched[r].idx) /\ sched[r].pc = "failing"
            \/ /\ rows'[sched[r].idx] = sched[r].copy[sched[r].idx]
               /\ rows'[sched[r].idx].status = "running"
               /\ Exists(sched[r].idx) /\ sched[r].pc = "sent"
<1> DEFINE i == sched[r].idx
<1>1. /\ UNCHANGED <<engine, execs, seeded>>
      /\ sched[r].pc \in {"sent", "failing"}
      /\ sched' = [sched EXCEPT ![r] = SchedDrop(sched[r], i)]
      /\ \/ Update(i, sched[r].copy[i]) /\ sched[r].pc = "sent"
         \/ Update(i, WithStatus(sched[r].copy[i], "failed"))
            /\ sched[r].pc = "failing"
  BY DEF SchedRecord, SchedFails, history
<1>2. /\ i \in Idx /\ i \in due
      /\ sched[r].copy[i] # NoRow
      /\ sched[r].copy[i].status = "running"
      /\ sched[r].copy[i] \in Row
  <2>1. i \in Idx /\ sched[r].copy[i] # NoRow
    BY <1>1, InHandListed
  <2>2. sched[r].copy[i] \in Row
    BY <2>1 DEF TypeOK, SchedOp
  <2> QED BY <1>1, <2>1, <2>2 DEF DispatchInv, QueueUnsent
<1>3. sched'[r] = SchedDrop(sched[r], i)
  BY <1>1 DEF TypeOK
<1>4. CASE Update(i, sched[r].copy[i]) /\ sched[r].pc = "sent"
  BY <1>1, <1>2, <1>3, <1>4, UpdateFlat
<1>5. CASE Update(i, WithStatus(sched[r].copy[i], "failed"))
           /\ sched[r].pc = "failing"
  BY <1>1, <1>2, <1>3, <1>5, UpdateFlat, StatusOfWithStatus
<1> QED BY <1>1, <1>4, <1>5

LEMMA StopFlat ==
  ASSUME TypeOK, DispatchInv, NEW p \in Stoppers, StopNext(p)
  PROVE  /\ UNCHANGED <<source, due, start, sched, execs, wire, events, finish,
                        restarts, stored, closed, seeded>>
         /\ \A i \in Idx : \/ rows'[i] = rows[i]
                           \/ Exists(i) /\ rows'[i].status \in Terminal
         /\ \A i \in Idx : \/ engine'[i] = engine[i]
                           \/ /\ engine[i] \in {"live", "stopping"}
                              /\ engine'[i] = "stopping"
<1>1. UNCHANGED <<source, due, start, sched, execs, wire, events, finish,
                  restarts, stored, closed, seeded>>
  BY DEF StopNext, StopRead, StopScheduled, StopAsk, StopWrite, history
<1>2. \A i \in Idx : \/ engine'[i] = engine[i]
                     \/ /\ engine[i] \in {"live", "stopping"}
                        /\ engine'[i] = "stopping"
  BY DEF StopNext, StopRead, StopScheduled, StopAsk, StopWrite, TypeOK
<1>3. \A i \in Idx : \/ rows'[i] = rows[i]
                     \/ Exists(i) /\ rows'[i].status \in Terminal
  <2>1. CASE \E i \in Idx : StopRead(p, i)
    BY <2>1 DEF StopRead
  <2>2. CASE StopAsk(p)
    BY <2>2 DEF StopAsk
  <2>3. CASE StopScheduled(p)
    <3>1. /\ stop[p].idx \in Idx /\ stop[p].rec \in Row
          /\ Update(stop[p].idx, WithStatus(stop[p].rec, "stopped"))
      BY <2>3, StopParts DEF StopScheduled
    <3> QED BY <3>1, UpdateFlat, StatusOfWithStatus DEF Terminal
  <2>4. CASE StopWrite(p)
    <3>1. /\ stop[p].idx \in Idx /\ stop[p].rec.status \in Terminal
          /\ Update(stop[p].idx, stop[p].rec)
      BY <2>4, StopParts DEF StopWrite, DispatchInv, ClosersClose
    <3> QED BY <3>1, UpdateFlat
  <2> QED BY <2>1, <2>2, <2>3, <2>4 DEF StopNext
<1> QED BY <1>1, <1>2, <1>3

LEMMA FinishReadFlat ==
  ASSUME TypeOK, NEW r \in Replicas, NEW e \in events[r], FinishRead(r, e)
  PROVE  /\ UNCHANGED <<rows, source, due, start, stop, sched, engine, execs,
                        wire, restarts, stored, closed, seeded>>
         /\ e.idx \in Idx
         /\ \A q \in Replicas : events'[q] \subseteq events[q]
         /\ \A q \in Replicas \ {r} : finish'[q] = finish[q]
         /\ \/ finish'[r] = finish[r] /\ finish[r].pc = "idle"
            \/ /\ Exists(e.idx)
               /\ finish'[r].pc = "read" /\ finish'[r].idx = e.idx
               /\ finish'[r].rec.pid = rows[e.idx].pid
               /\ finish'[r].rec.snap = rows[e.idx].snap
<1>1. e.idx \in Idx
  BY DEF TypeOK, Event
<1> DEFINE rec == WithStatus(rows[e.idx], e.result)
<1>2. rec.pid = rows[e.idx].pid /\ rec.snap = rows[e.idx].snap
  BY <1>1 DEF TypeOK, WithStatus, Row
<1> HIDE DEF rec
<1>3. /\ UNCHANGED <<rows, source, due, start, stop, sched, engine, execs,
                     wire, restarts, stored, closed, seeded>>
      /\ events' = [events EXCEPT ![r] = @ \ {e}]
      /\ finish[r].pc = "idle"
      /\ \/ finish' = finish
         \/ /\ (IndexHeader /\ Exists(e.idx)) \/ RunningByPid(e.idx)
            /\ finish' = [finish EXCEPT ![r] =
                 [Idle EXCEPT !.pc = "read", !.idx = e.idx, !.rec = rec]]
  BY DEF FinishRead, history, rec
<1>4. RunningByPid(e.idx) => Exists(e.idx)
  BY DEF RunningByPid, Exists, Gone
<1>5. \A q \in Replicas : events'[q] \subseteq events[q]
  BY <1>3 DEF TypeOK
<1>6. CASE finish' = finish
  BY <1>1, <1>3, <1>5, <1>6
<1>7. CASE finish' = [finish EXCEPT ![r] =
                 [Idle EXCEPT !.pc = "read", !.idx = e.idx, !.rec = rec]]
           /\ ((IndexHeader /\ Exists(e.idx)) \/ RunningByPid(e.idx))
  <2>1. /\ finish'[r].pc = "read" /\ finish'[r].idx = e.idx
        /\ finish'[r].rec = rec
        /\ \A q \in Replicas \ {r} : finish'[q] = finish[q]
    BY <1>7 DEF TypeOK, Idle
  <2> QED BY <1>1, <1>2, <1>3, <1>4, <1>5, <1>7, <2>1
<1> QED BY <1>3, <1>6, <1>7

LEMMA FinishWriteFlat ==
  ASSUME TypeOK, DispatchInv, NEW r \in Replicas, FinishWrite(r)
  PROVE  /\ UNCHANGED <<source, due, start, stop, sched, engine, execs,
                        wire, events, restarts, stored, seeded>>
         /\ finish[r].pc = "read" /\ finish[r].idx \in Idx
         /\ finish[r].rec.status \in Terminal
         /\ \A j \in Idx \ {finish[r].idx} : rows'[j] = rows[j]
         /\ Exists(finish[r].idx) => rows'[finish[r].idx] = finish[r].rec
         /\ ~Exists(finish[r].idx) => rows'[finish[r].idx] = rows[finish[r].idx]
         /\ closed' = closed \cup {finish[r].idx}
         /\ finish'[r].pc = "idle"
         /\ \A q \in Replicas \ {r} : finish'[q] = finish[q]
<1>1. /\ UNCHANGED <<source, due, start, stop, sched, engine, execs,
                     wire, events, restarts, stored, seeded>>
      /\ finish[r].pc = "read"
      /\ Update(finish[r].idx, finish[r].rec)
      /\ closed' = closed \cup {finish[r].idx}
      /\ finish' = [finish EXCEPT ![r] = Idle]
  BY DEF FinishWrite
<1>2. finish[r].idx \in Idx /\ finish[r].rec.status \in Terminal
  BY <1>1, FinishParts DEF DispatchInv, ClosersClose
<1>3. finish'[r].pc = "idle" /\ \A q \in Replicas \ {r} : finish'[q] = finish[q]
  BY <1>1 DEF TypeOK, Idle
<1> QED BY <1>1, <1>2, <1>3, UpdateFlat

\* The requests of one run: its wire, its engine state and its end.
LEMMA WireFlat ==
  ASSUME TypeOK, DispatchInv, NEW i \in Idx, WireNext(i)
  PROVE  /\ UNCHANGED <<source, due, start, stop, sched, execs, finish,
                        restarts, closed, seeded>>
         /\ execs[i] > 0
         /\ \A j \in Idx \ {i} : rows'[j] = rows[j] /\ wire'[j] = wire[j]
                                 /\ engine'[j] = engine[j]
         /\ \/ /\ PushContext(i)
               /\ UNCHANGED <<rows, engine, events, stored>>
               /\ engine[i] \in {"live", "stopping"} /\ wire'[i].pc = "sent"
            \/ /\ WireRead(i)
               /\ UNCHANGED <<rows, engine, events, stored>>
               /\ wire[i].pc = "sent"
               /\ wire'[i].pc = "read" /\ wire'[i].rec = rows[i]
               /\ rows[i].pid
            \/ /\ wire[i].pc # "idle" /\ wire'[i].pc = "idle"
               /\ engine'[i] \in Results
               /\ \A q \in Replicas : \A e \in events'[q] :
                    e \in events[q] \/ e.idx = i
               /\ \/ UNCHANGED <<rows, stored>>
                  \/ /\ stored' = stored \cup {i} /\ wire[i].pc = "read"
                     /\ Exists(i) =>
                          /\ rows'[i].status = wire[i].rec.status
                          /\ rows'[i].pid = wire[i].rec.pid
                          /\ rows'[i].snap
                     /\ ~Exists(i) => rows'[i] = rows[i]
<1>1. /\ UNCHANGED <<source, due, start, stop, sched, execs, finish,
                     restarts, closed, seeded>>
      /\ execs[i] > 0
  BY DEF WireNext, PushContext, WireSkips, WireRead, WireStore, history,
         DispatchInv, EngineKnowsSent
<1>2. \A j \in Idx \ {i} : rows'[j] = rows[j] /\ wire'[j] = wire[j]
                           /\ engine'[j] = engine[j]
  BY DEF WireNext, PushContext, WireSkips, WireRead, WireStore, EngineEnds,
         Update, TypeOK
<1>3. CASE PushContext(i)
  <2>1. /\ UNCHANGED <<rows, engine, events, stored>>
        /\ engine[i] \in {"live", "stopping"} /\ wire'[i].pc = "sent"
    BY <1>3 DEF PushContext, TypeOK, WireOp, history
  <2> QED BY <1>1, <1>2, <1>3, <2>1
<1>4. CASE WireRead(i)
  <2>1. /\ UNCHANGED <<rows, engine, events, stored>>
        /\ wire[i].pc = "sent"
        /\ wire'[i].pc = "read" /\ wire'[i].rec = rows[i]
        /\ rows[i].pid
    BY <1>4 DEF WireRead, TypeOK, ByPid, history
  <2> QED BY <1>1, <1>2, <1>4, <2>1
<1>5. CASE WireSkips(i) \/ WireStore(i)
  <2>1. /\ wire[i].pc # "idle" /\ wire'[i].pc = "idle"
    BY <1>5 DEF WireSkips, WireStore, NoWire, TypeOK
  <2>2. PICK s \in Results : EngineEnds(i, s)
    BY <1>5 DEF WireSkips, WireStore, ResultOf, Results
  <2>3. /\ engine'[i] \in Results
        /\ \A q \in Replicas : \A e \in events'[q] : e \in events[q] \/ e.idx = i
    BY <2>2 DEF EngineEnds, TypeOK
  <2>4. \/ UNCHANGED <<rows, stored>>
        \/ /\ stored' = stored \cup {i} /\ wire[i].pc = "read"
           /\ Exists(i) => /\ rows'[i].status = wire[i].rec.status
                           /\ rows'[i].pid = wire[i].rec.pid
                           /\ rows'[i].snap
           /\ ~Exists(i) => rows'[i] = rows[i]
    <3>1. CASE WireSkips(i)
      BY <3>1 DEF WireSkips, history
    <3>2. CASE WireStore(i)
      <4> DEFINE rec == [wire[i].rec EXCEPT !.snap = TRUE]
      <4>1. /\ rec.status = wire[i].rec.status /\ rec.pid = wire[i].rec.pid
            /\ rec.snap
        BY DEF TypeOK, WireOp, Row
      <4> HIDE DEF rec
      <4>2. stored' = stored \cup {i} /\ wire[i].pc = "read" /\ Update(i, rec)
        BY <3>2 DEF WireStore, rec
      <4> QED BY <4>1, <4>2, UpdateFlat
    <3> QED BY <1>5, <3>1, <3>2
  <2> QED BY <1>1, <1>2, <2>1, <2>3, <2>4
<1> QED BY <1>3, <1>4, <1>5 DEF WireNext

LEMMA DeleteFlat ==
  ASSUME TypeOK, NEW i \in Idx, DeleteRow(i)
  PROVE  /\ UNCHANGED <<source, due, start, stop, sched, engine, execs, wire,
                        events, finish, restarts, stored, closed, seeded>>
         /\ i \in Deletable
         /\ \A j \in Idx \ {i} : rows'[j] = rows[j]
         /\ rows'[i].status = "deleted"
BY DEF DeleteRow, NoRow, TypeOK, history

LEMMA RestartFlat ==
  ASSUME TypeOK, Restart
  PROVE  /\ UNCHANGED <<rows, source, due, engine, execs, stored, closed, seeded>>
         /\ restarts' # 0
         /\ \A c \in Callers : start'[c].pc = "idle"
         /\ \A r \in Replicas : finish'[r].pc = "idle" /\ events'[r] = {}
         /\ \A r \in Replicas : sched'[r].pc = "idle"
         /\ \A r \in Replicas, i \in Idx : sched'[r].copy[i] = NoRow
         /\ \A i \in Idx : /\ wire'[i].pc \in {"idle", "dropped"}
                           /\ wire'[i].pc = "idle" <=> wire[i].pc = "idle"
<1>1. /\ UNCHANGED <<rows, source, due, engine, execs, stored, closed, seeded>>
      /\ \A c \in Callers : start'[c] = Idle
      /\ \A r \in Replicas : finish'[r] = Idle /\ events'[r] = {}
      /\ \A r \in Replicas : sched'[r] = SchedIdle
  BY DEF Restart, history
<1>2. restarts' # 0
  BY ConstantsOK DEF Restart, TypeOK
<1>3. Idle.pc = "idle" /\ SchedIdle.pc = "idle"
      /\ \A i \in Idx : SchedIdle.copy[i] = NoRow
  BY DEF Idle, SchedIdle
<1>4. \A i \in Idx : /\ wire'[i].pc \in {"idle", "dropped"}
                     /\ wire'[i].pc = "idle" <=> wire[i].pc = "idle"
  BY DEF Restart, NoWire
<1> QED BY <1>1, <1>2, <1>3, <1>4

LEMMA RestFlat ==
  ASSUME TypeOK,
         \/ \E i \in Idx : TimeReaches(i)
         \/ \E r \in Replicas : \E e \in events[r] : LoseEvent(r, e)
  PROVE  /\ UNCHANGED <<rows, source, start, stop, sched, engine, execs, wire,
                        finish, restarts, stored, closed, seeded>>
         /\ \A q \in Replicas : events'[q] \subseteq events[q]
         /\ \/ due' = due
            \/ \E i \in Idx :
                 /\ due' = due \cup {i} /\ rows[i].status = "scheduled"
                 /\ ComesDue # "any" =>
                      \A c \in Callers : start[c].pc = "created" => start[c].idx # i
                 /\ ComesDue = "parked" =>
                      (source[i] # None => engine[source[i]] \in Results)
<1>1. CASE \E i \in Idx : TimeReaches(i)
  BY <1>1 DEF TimeReaches, history
<1>2. CASE \E r \in Replicas : \E e \in events[r] : LoseEvent(r, e)
  <2>1. \A q \in Replicas : events'[q] \subseteq events[q]
    BY <1>2 DEF LoseEvent, TypeOK
  <2> QED BY <1>2, <2>1 DEF LoseEvent, history
<1> QED BY <1>1, <1>2

\* Apart from StartWorkflow nobody creates a row or puts one in the queue.
LEMMA OnlyStartQueues ==
  ASSUME TypeOK, DispatchInv,
         \/ \E r \in Replicas : SchedNext(r)
         \/ \E p \in Stoppers : StopNext(p)
         \/ \E r \in Replicas : FinishNext(r)
         \/ \E i \in Idx : WireNext(i)
         \/ \E i \in Idx : DeleteRow(i)
  PROVE  NotRequeued /\ UNCHANGED <<start, source, due>>
<1>1. ASSUME NEW r \in Replicas, SchedNext(r)
      PROVE  NotRequeued /\ UNCHANGED <<start, source, due>>
  <2>1. UNCHANGED <<start, source, due>>
    BY <1>1, SchedFlat
  <2>2. CASE SchedList(r)
    BY <2>1, <2>2, ListFlat DEF NotRequeued
  <2>3. ASSUME NEW i \in Idx, SchedClaim(r, i) PROVE NotRequeued
    BY <2>3, ClaimFlat DEF NotRequeued
  <2>4. CASE SchedPrepare(r)
    BY <2>1, <2>4, PrepareFlat DEF NotRequeued
  <2>5. CASE SchedExec(r)
    BY <2>1, <2>5, SendFlat DEF NotRequeued
  <2>6. CASE SchedRecord(r) \/ SchedFails(r)
    BY <2>1, <2>6, ReturnFlat DEF NotRequeued
  <2> QED BY <1>1, <2>1, <2>2, <2>3, <2>4, <2>5, <2>6 DEF SchedNext
<1>2. ASSUME NEW p \in Stoppers, StopNext(p)
      PROVE  NotRequeued /\ UNCHANGED <<start, source, due>>
  BY <1>2, StopFlat DEF NotRequeued, Terminal
<1>3. ASSUME NEW r \in Replicas, FinishNext(r)
      PROVE  NotRequeued /\ UNCHANGED <<start, source, due>>
  <2>1. ASSUME NEW e \in events[r], FinishRead(r, e)
        PROVE  NotRequeued /\ UNCHANGED <<start, source, due>>
    BY <2>1, FinishReadFlat DEF NotRequeued
  <2>2. CASE FinishWrite(r)
    BY <2>2, FinishWriteFlat DEF NotRequeued, Terminal
  <2> QED BY <1>3, <2>1, <2>2 DEF FinishNext
<1>4. ASSUME NEW i \in Idx, WireNext(i)
      PROVE  NotRequeued /\ UNCHANGED <<start, source, due>>
  <2>1. wire[i].pc = "read" => wire[i].rec.status \in Terminal \cup {"running"}
    BY DEF DispatchInv, EngineKnowsSent
  <2> QED BY <1>4, <2>1, WireFlat DEF NotRequeued, Terminal
<1>5. ASSUME NEW i \in Idx, DeleteRow(i)
      PROVE  NotRequeued /\ UNCHANGED <<start, source, due>>
  BY <1>5, DeleteFlat DEF NotRequeued
<1> QED BY <1>1, <1>2, <1>3, <1>4, <1>5

-----------------------------------------------------------------------------
(* A StartWorkflow call has its row to itself until it returns, and a run   *)
(* that has ended is known to have ended wherever its end is still at work. *)

CallersApart ==
  \A c \in Callers : start[c].pc # "idle" =>
    /\ start[c].idx \in Idx
    /\ rows[start[c].idx].status # "absent"
    /\ start[c].idx \notin due
    /\ start[c].pc # "created" => rows[start[c].idx].status # "scheduled"
    /\ \A d \in Callers :
         start[d].pc # "idle" /\ start[d].idx = start[c].idx => d = c

EngineOver ==
  /\ \A r \in Replicas : \A e \in events[r] : engine[e.idx] \in Results
  /\ \A r \in Replicas : finish[r].pc = "read" => engine[finish[r].idx] \in Results
  /\ \A i \in Idx : engine[i] \in Results => wire[i].pc = "idle"
  /\ \A i \in stored \cup closed : engine[i] \in Results
  /\ \A i \in Idx : wire[i].pc = "read" => wire[i].rec.pid

LEMMA ApartStart ==
  ASSUME TypeOK, DispatchInv, CallersApart, NEW c \in Callers, StartNext(c)
  PROVE  CallersApart'
<1>1. ASSUME NEW i \in Idx, StartCreate(c, i) PROVE CallersApart'
  <2>1. i \notin due
    BY <1>1 DEF StartCreate, DispatchInv, AbsentFresh
  <2>2. \A d \in Callers : start[d].pc # "idle" => start[d].idx # i
    BY <1>1, CreateFlat DEF CallersApart
  <2> QED BY <1>1, <2>1, <2>2, CreateFlat DEF CallersApart, Live
<1>2. CASE StartMoves(c)
  <2>1. /\ \A j \in Idx : rows'[j].status = "absent" => rows[j].status = "absent"
        /\ \A j \in Idx \ {start[c].idx} : rows'[j] = rows[j]
        /\ start'[c].pc # "idle" => rows'[start[c].idx].status # "scheduled"
    <3>1. CASE StartFails(c) \/ StartUnsent(c)
      BY <3>1, CallFlat, FailFlat DEF StartMoves
    <3>2. CASE StartRecord(c)
      <4>1. start[c].rec.status # "absent" /\ start[c].idx \in Idx
        BY <3>2, RecordFlat DEF DispatchInv, BookingApart, Booking, Live
      <4> QED BY <1>2, <3>2, <4>1, CallFlat, RecordFlat
    <3>3. CASE StartExec(c)
      BY <1>2, <3>3, CallFlat, ExecFlat DEF CallersApart
    <3> QED BY <1>2, <3>1, <3>2, <3>3 DEF StartMoves
  <2>2. \A d \in Callers \ {c} : start[d].pc # "idle" => start[d].idx # start[c].idx
    BY <1>2, CallFlat DEF CallersApart
  <2> QED BY <1>2, <2>1, <2>2, CallFlat DEF CallersApart
<1> QED BY <1>1, <1>2 DEF StartNext, StartMoves

LEMMA ApartStep ==
  ASSUME OneScheduler, ComesDue # "any", TypeOK, DispatchInv, CallersApart,
         [Next]_vars
  PROVE  CallersApart'
<1>1. CASE \E c \in Callers : StartNext(c)
  BY <1>1, ApartStart
<1>2. CASE NotRequeued /\ UNCHANGED <<start, source, due>>
  BY <1>2 DEF NotRequeued, CallersApart
<1>3. CASE \/ \E i \in Idx : TimeReaches(i)
           \/ \E r \in Replicas : \E e \in events[r] : LoseEvent(r, e)
  BY <1>3, RestFlat DEF CallersApart
<1>4. CASE Restart
  BY <1>4, RestartFlat DEF CallersApart
<1>5. CASE UNCHANGED vars
  BY <1>5 DEF vars, CallersApart
<1> QED BY <1>1, <1>2, <1>3, <1>4, <1>5, OnlyStartQueues DEF Next

LEMMA OverStep ==
  ASSUME TypeOK, DispatchInv, EngineOver, [Next]_vars
  PROVE  EngineOver'
<1> DEFINE Kept == /\ UNCHANGED <<engine, wire, finish, stored, closed>>
                   /\ \A q \in Replicas : events'[q] \subseteq events[q]
<1>1. Kept => EngineOver'
  BY DEF EngineOver, TypeOK
<1>2. \A i \in Idx : engine[i] \in Results => execs[i] # 0
  BY DEF DispatchInv, EngineKnowsSent, Results
<1>3. ASSUME NEW i \in Idx, execs[i] = 0,
             UNCHANGED <<events, wire, finish, stored, closed>>,
             \A j \in Idx \ {i} : engine'[j] = engine[j],
             engine'[i] = engine[i] \/ engine'[i] = "live"
      PROVE  EngineOver'
  <2>1. /\ \A r \in Replicas : \A e \in events[r] : e.idx \in Idx
        /\ \A r \in Replicas : finish[r].pc = "read" => finish[r].idx \in Idx
        /\ stored \cup closed \subseteq Idx
    BY FinishParts DEF TypeOK, Event
  <2> QED BY <1>2, <1>3, <2>1 DEF EngineOver, Results
<1>4. ASSUME NEW c \in Callers, StartNext(c) PROVE EngineOver'
  <2>1. CASE \E i \in Idx : StartCreate(c, i)
    BY <1>1, <2>1, CreateFlat
  <2>2. CASE StartFails(c) \/ StartUnsent(c)
    BY <1>1, <2>2, CallFlat, FailFlat DEF StartMoves
  <2>3. CASE StartRecord(c)
    BY <1>1, <2>3, CallFlat, RecordFlat DEF StartMoves
  <2>4. CASE StartExec(c)
    <3>1. execs[start[c].idx] = 0 /\ start[c].idx \in Idx
      BY <2>4, ExecFlat DEF DispatchInv, BookingApart, Booking
    <3>2. StartMoves(c)
      BY <2>4 DEF StartMoves
    <3> QED BY <1>3, <2>4, <3>1, <3>2, CallFlat, ExecFlat
  <2> QED BY <1>4, <2>1, <2>2, <2>3, <2>4 DEF StartNext
<1>5. ASSUME NEW r \in Replicas, SchedNext(r) PROVE EngineOver'
  <2>1. UNCHANGED <<wire, events, finish, stored, closed>>
    BY <1>5, SchedFlat
  <2>2. CASE SchedList(r) \/ (\E i \in Idx : SchedClaim(r, i)) \/ SchedPrepare(r)
             \/ SchedRecord(r) \/ SchedFails(r)
    <3>1. UNCHANGED engine
      BY <2>2 DEF SchedList, SchedClaim, SchedPrepare, SchedRecord, SchedFails
    <3> QED BY <1>1, <2>1, <3>1
  <2>3. CASE SchedExec(r)
    <3>1. execs[sched[r].idx] = 0 /\ sched[r].idx \in Idx
      BY <2>3, SendFlat, InHandListed DEF DispatchInv, QueueUnsent
    <3>2. /\ \A j \in Idx \ {sched[r].idx} : engine'[j] = engine[j]
          /\ \/ engine'[sched[r].idx] = engine[sched[r].idx]
             \/ engine'[sched[r].idx] = "live"
      BY <2>3, SendFlat
    <3> QED BY <1>3, <2>1, <3>1, <3>2
  <2> QED BY <1>5, <2>2, <2>3 DEF SchedNext
<1>6. ASSUME NEW p \in Stoppers, StopNext(p) PROVE EngineOver'
  <2>1. /\ UNCHANGED <<wire, events, finish, stored, closed>>
        /\ \A i \in Idx : \/ engine'[i] = engine[i]
                          \/ /\ engine[i] \in {"live", "stopping"}
                             /\ engine'[i] = "stopping"
    BY <1>6, StopFlat
  <2>2. /\ \A r \in Replicas : \A e \in events[r] : e.idx \in Idx
        /\ \A r \in Replicas : finish[r].pc = "read" => finish[r].idx \in Idx
        /\ stored \cup closed \subseteq Idx
    BY FinishParts DEF TypeOK, Event
  <2> QED BY <2>1, <2>2 DEF EngineOver, Results
<1>7. ASSUME NEW r \in Replicas, FinishNext(r) PROVE EngineOver'
  <2>1. ASSUME NEW e \in events[r], FinishRead(r, e) PROVE EngineOver'
    BY <2>1, FinishReadFlat DEF EngineOver
  <2>2. CASE FinishWrite(r)
    BY <2>2, FinishWriteFlat DEF EngineOver
  <2> QED BY <1>7, <2>1, <2>2 DEF FinishNext
<1>8. ASSUME NEW i \in Idx, WireNext(i) PROVE EngineOver'
  <2>1. /\ \A r \in Replicas : \A e \in events[r] : e.idx \in Idx
        /\ \A r \in Replicas : finish[r].pc = "read" => finish[r].idx \in Idx
        /\ stored \cup closed \subseteq Idx
    BY FinishParts DEF TypeOK, Event
  <2> QED BY <1>8, <2>1, WireFlat DEF EngineOver, Results
<1>9. CASE \/ \E i \in Idx : TimeReaches(i)
           \/ \E r \in Replicas : \E e \in events[r] : LoseEvent(r, e)
  BY <1>1, <1>9, RestFlat
<1>10. CASE \E i \in Idx : DeleteRow(i)
  BY <1>1, <1>10, DeleteFlat
<1>11. CASE Restart
  BY <1>11, RestartFlat DEF EngineOver
<1>12. CASE UNCHANGED vars
  BY <1>1, <1>12 DEF vars, history
<1> QED BY <1>4, <1>5, <1>6, <1>7, <1>8, <1>9, <1>10, <1>11, <1>12 DEF Next

\* What holds of every run, with one scheduler and rows that come due after
\* the call that booked them.
RunsInv == TypeOK /\ DispatchInv /\ CallersApart /\ EngineOver

LEMMA RunsHold ==
  ASSUME OneScheduler, ComesDue # "any"
  PROVE  Spec => []RunsInv
<1>1. Init => RunsInv
  <2> SUFFICES ASSUME Init PROVE RunsInv
    OBVIOUS
  <2>1. CallersApart
    BY DEF Init, CallersApart, Idle
  <2>2. EngineOver
    BY DEF Init, EngineOver, Idle, NoWire, Results
  <2> QED BY <2>1, <2>2, TypeInit, DispatchInit DEF RunsInv
<1>2. RunsInv /\ [Next]_vars => RunsInv'
  BY TypeStep, DispatchStep, ApartStep, OverStep DEF RunsInv
<1> QED BY <1>1, <1>2, PTL DEF Spec

-----------------------------------------------------------------------------
(* proc.finish finds its row: without a restart in the middle of a call, a  *)
(* row that can be running has its pid, except while its StartWorkflow call *)
(* has yet to write it; and such a row has not been sent.                   *)

PidKnown ==
  /\ \A i \in Idx : rows[i].status \in Live /\ ~rows[i].pid =>
       \E c \in Callers : start[c].pc = "created" /\ start[c].idx = i
  /\ \A r \in Replicas, i \in Idx : sched[r].copy[i] # NoRow => sched[r].copy[i].pid

LEMMA PidKnownStep ==
  ASSUME OneScheduler, RunsInv, PidKnown, [Next]_vars, restarts' = 0
  PROVE  PidKnown'
<1> DEFINE RowsOk == \A i \in Idx : \/ rows'[i] = rows[i]
                                    \/ rows'[i].status \notin Live
                                    \/ rows'[i].pid
<1>1. ASSUME RowsOk, UNCHANGED <<start, sched>> PROVE PidKnown'
  BY <1>1 DEF PidKnown
<1>2. ASSUME NEW c \in Callers, StartNext(c) PROVE PidKnown'
  <2>1. ASSUME NEW i \in Idx, StartCreate(c, i) PROVE PidKnown'
    BY <2>1, CreateFlat DEF PidKnown, RunsInv
  <2>2. CASE StartMoves(c)
    <3>1. /\ UNCHANGED sched
          /\ \A j \in Idx \ {start[c].idx} : rows'[j] = rows[j]
          /\ \A d \in Callers \ {c} : start'[d] = start[d]
      BY <2>2, CallFlat DEF RunsInv
    <3>2. \/ rows'[start[c].idx] = rows[start[c].idx]
             /\ (start[c].pc # "created" \/ rows[start[c].idx].status \notin Live)
          \/ rows'[start[c].idx].status \notin Live
          \/ rows'[start[c].idx].pid
      <4>1. CASE StartFails(c) \/ StartUnsent(c)
        BY <4>1, FailFlat DEF RunsInv, Exists, Live, Gone
      <4>2. CASE StartRecord(c)
        BY <4>2, RecordFlat DEF RunsInv, Exists, Live, Gone
      <4>3. CASE StartExec(c)
        BY <4>3, ExecFlat DEF RunsInv
      <4> QED BY <2>2, <4>1, <4>2, <4>3 DEF StartMoves
    <3> QED BY <3>1, <3>2 DEF PidKnown
  <2> QED BY <1>2, <2>1, <2>2 DEF StartNext, StartMoves
<1>3. ASSUME NEW r \in Replicas, SchedNext(r) PROVE PidKnown'
  <2>1. UNCHANGED start /\ \A q \in Replicas : q = r
    BY <1>3, SchedFlat DEF RunsInv, OneScheduler
  <2> SUFFICES /\ RowsOk
               /\ \A i \in Idx : sched'[r].copy[i] # NoRow => sched'[r].copy[i].pid
    BY <2>1 DEF PidKnown
  <2>2. CASE SchedList(r)
    <3>1. \A i \in Idx : i \in due /\ rows[i].status = "scheduled" => rows[i].pid
      BY DEF PidKnown, RunsInv, CallersApart, Live
    <3> QED BY <2>2, <3>1, ListFlat DEF RunsInv
  <2>3. ASSUME NEW i \in Idx, SchedClaim(r, i)
        PROVE  /\ RowsOk
               /\ \A j \in Idx : sched'[r].copy[j] # NoRow => sched'[r].copy[j].pid
    <3>1. CASE Exists(i)
      BY <2>3, <3>1, ClaimFlat DEF PidKnown, RunsInv
    <3>2. CASE ~Exists(i)
      BY <2>3, <3>2, ClaimFlat, DropFlat DEF PidKnown, RunsInv
    <3> QED BY <3>1, <3>2
  <2>4. CASE SchedPrepare(r)
    BY <2>4, PrepareFlat DEF PidKnown, RunsInv
  <2>5. CASE SchedExec(r)
    BY <2>5, SendFlat DEF PidKnown, RunsInv
  <2>6. CASE SchedRecord(r) \/ SchedFails(r)
    BY <2>6, ReturnFlat, DropFlat DEF PidKnown, RunsInv, Live
  <2> QED BY <1>3, <2>2, <2>3, <2>4, <2>5, <2>6 DEF SchedNext
<1>4. ASSUME NEW p \in Stoppers, StopNext(p) PROVE PidKnown'
  BY <1>1, <1>4, StopFlat DEF RunsInv, Terminal, Live
<1>5. ASSUME NEW r \in Replicas, FinishNext(r) PROVE PidKnown'
  <2>1. ASSUME NEW e \in events[r], FinishRead(r, e) PROVE PidKnown'
    BY <1>1, <2>1, FinishReadFlat DEF RunsInv
  <2>2. CASE FinishWrite(r)
    BY <1>1, <2>2, FinishWriteFlat DEF RunsInv, Terminal, Live
  <2> QED BY <1>5, <2>1, <2>2 DEF FinishNext
<1>6. ASSUME NEW i \in Idx, WireNext(i) PROVE PidKnown'
  <2>1. wire[i].pc = "read" => wire[i].rec.pid
    BY DEF RunsInv, EngineOver
  <2> QED BY <1>1, <1>6, <2>1, WireFlat DEF RunsInv
<1>7. CASE \/ \E i \in Idx : TimeReaches(i)
           \/ \E r \in Replicas : \E e \in events[r] : LoseEvent(r, e)
  BY <1>1, <1>7, RestFlat DEF RunsInv
<1>8. ASSUME NEW i \in Idx, DeleteRow(i) PROVE PidKnown'
  BY <1>1, <1>8, DeleteFlat DEF RunsInv, Live
<1>9. ~Restart
  BY RestartFlat DEF RunsInv
<1>10. CASE UNCHANGED vars
  BY <1>1, <1>10 DEF vars
<1> QED BY <1>2, <1>3, <1>4, <1>5, <1>6, <1>7, <1>8, <1>9, <1>10 DEF Next

LEMMA RestartsGrow ==
  ASSUME RunsInv, [Next]_vars
  PROVE  restarts' = 0 => restarts = 0
<1>1. CASE \E c \in Callers : StartNext(c)
  BY <1>1, CreateFlat, CallFlat DEF RunsInv, StartNext, StartMoves
<1>2. CASE \E r \in Replicas : SchedNext(r)
  BY <1>2, SchedFlat DEF RunsInv
<1>3. CASE \E p \in Stoppers : StopNext(p)
  BY <1>3, StopFlat DEF RunsInv
<1>4. CASE \E r \in Replicas : FinishNext(r)
  BY <1>4, FinishReadFlat, FinishWriteFlat DEF RunsInv, FinishNext
<1>5. CASE \E i \in Idx : WireNext(i)
  BY <1>5, WireFlat DEF RunsInv
<1>6. CASE \/ \E i \in Idx : TimeReaches(i)
           \/ \E r \in Replicas : \E e \in events[r] : LoseEvent(r, e)
  BY <1>6, RestFlat DEF RunsInv
<1>7. CASE \E i \in Idx : DeleteRow(i)
  BY <1>7, DeleteFlat DEF RunsInv
<1>8. CASE Restart
  BY <1>8, RestartFlat DEF RunsInv
<1>9. CASE UNCHANGED vars
  BY <1>9 DEF vars
<1> QED BY <1>1, <1>2, <1>3, <1>4, <1>5, <1>6, <1>7, <1>8, <1>9 DEF Next

\* A run StartWorkflow sends itself has its pid on the row whatever is
\* restarted: the call either got past that Update or sends nothing.
DirectKnown ==
  /\ \A i \in Idx \ due : execs[i] > 0 /\ rows[i].status \in Live => rows[i].pid
  /\ \A c \in Callers : start[c].pc = "recorded" =>
       (rows[start[c].idx].status \in Live => rows[start[c].idx].pid)

LEMMA DirectKnownStep ==
  ASSUME RunsInv, DirectKnown, [Next]_vars
  PROVE  DirectKnown'
<1> DEFINE RowsOk == \A i \in Idx : \/ rows'[i] = rows[i]
                                    \/ rows'[i].status \notin Live
                                    \/ rows'[i].pid
<1>0. \A c \in Callers : start[c].pc # "idle" =>
        start[c].idx \in Idx /\ start[c].idx \notin due
  BY DEF RunsInv, CallersApart
<1>1. ASSUME RowsOk, UNCHANGED <<start, execs>>, due \subseteq due'
      PROVE  DirectKnown'
  BY <1>0, <1>1 DEF DirectKnown
<1>2. ASSUME NEW c \in Callers, StartNext(c) PROVE DirectKnown'
  <2>1. ASSUME NEW i \in Idx, StartCreate(c, i) PROVE DirectKnown'
    <3>1. execs[i] = 0 /\ \A d \in Callers : start[d].pc # "idle" => start[d].idx # i
      BY <2>1, CreateFlat DEF RunsInv, CallersApart, DispatchInv, AbsentFresh
    <3> QED BY <2>1, <3>1, <1>0, CreateFlat DEF DirectKnown, RunsInv
  <2>2. CASE StartMoves(c)
    <3>1. /\ UNCHANGED due
          /\ start[c].pc # "idle" /\ start[c].idx \in Idx
          /\ \A j \in Idx \ {start[c].idx} : rows'[j] = rows[j] /\ execs'[j] = execs[j]
          /\ \A d \in Callers \ {c} : start'[d] = start[d]
          /\ start'[c].pc # "idle" => start'[c].idx = start[c].idx
      BY <2>2, CallFlat DEF RunsInv
    <3>2. \A d \in Callers \ {c} : start[d].pc # "idle" => start[d].idx # start[c].idx
      BY <3>1 DEF RunsInv, CallersApart
    <3>3. LET i == start[c].idx
          IN /\ execs'[i] > 0 /\ rows'[i].status \in Live => rows'[i].pid
             /\ start'[c].pc = "recorded" => (rows'[i].status \in Live => rows'[i].pid)
      <4>1. CASE StartFails(c) \/ StartUnsent(c)
        BY <4>1, <3>1, <1>0, FailFlat DEF DirectKnown, RunsInv, Exists, Live, Gone
      <4>2. CASE StartRecord(c)
        BY <4>2, <3>1, <1>0, RecordFlat DEF DirectKnown, RunsInv, Exists, Live, Gone
      <4>3. CASE StartExec(c)
        BY <4>3, <3>1, ExecFlat DEF DirectKnown, RunsInv
      <4> QED BY <2>2, <4>1, <4>2, <4>3 DEF StartMoves
    <3> QED BY <3>1, <3>2, <3>3, <1>0 DEF DirectKnown
  <2> QED BY <1>2, <2>1, <2>2 DEF StartNext, StartMoves
<1>3. ASSUME NEW r \in Replicas, SchedNext(r) PROVE DirectKnown'
  <2>1. UNCHANGED <<due, start>>
        /\ \A j \in Idx \ due : rows'[j] = rows[j] /\ execs'[j] = execs[j]
    BY <1>3, SchedFlat DEF RunsInv
  <2> QED BY <2>1, <1>0 DEF DirectKnown
<1>4. ASSUME NEW p \in Stoppers, StopNext(p) PROVE DirectKnown'
  BY <1>1, <1>4, StopFlat DEF RunsInv, Terminal, Live
<1>5. ASSUME NEW r \in Replicas, FinishNext(r) PROVE DirectKnown'
  <2>1. ASSUME NEW e \in events[r], FinishRead(r, e) PROVE DirectKnown'
    BY <1>1, <2>1, FinishReadFlat DEF RunsInv
  <2>2. CASE FinishWrite(r)
    BY <1>1, <2>2, FinishWriteFlat DEF RunsInv, Terminal, Live
  <2> QED BY <1>5, <2>1, <2>2 DEF FinishNext
<1>6. ASSUME NEW i \in Idx, WireNext(i) PROVE DirectKnown'
  <2>1. wire[i].pc = "read" => wire[i].rec.pid
    BY DEF RunsInv, EngineOver
  <2> QED BY <1>1, <1>6, <2>1, WireFlat DEF RunsInv
<1>7. CASE \/ \E i \in Idx : TimeReaches(i)
           \/ \E r \in Replicas : \E e \in events[r] : LoseEvent(r, e)
  BY <1>1, <1>7, RestFlat DEF RunsInv
<1>8. ASSUME NEW i \in Idx, DeleteRow(i) PROVE DirectKnown'
  BY <1>1, <1>8, DeleteFlat DEF RunsInv, Live
<1>9. CASE Restart
  BY <1>9, RestartFlat DEF RunsInv, DirectKnown
<1>10. CASE UNCHANGED vars
  BY <1>1, <1>10 DEF vars
<1> QED BY <1>2, <1>3, <1>4, <1>5, <1>6, <1>7, <1>8, <1>9, <1>10 DEF Next

\* However the launches, the scheduler, stops, deletes, lost replies and lost
\* events interleave, a proc.finish on its way is about a row with the pid it
\* looks for, running or already closed: the row is written before Exec, as
\* StartWorkflow's comment asks.  A restart breaks that for no run launched
\* directly; one between Create and the first Update leaves a scheduled row
\* without a pid, and the scheduler sends it that way.
THEOREM FinishFinds ==
  ASSUME OneScheduler, ComesDue # "any"
  PROVE  Spec => []FinishFindsItsRow
<1> DEFINE Known == (restarts = 0 => PidKnown) /\ DirectKnown
<1>1. Init => Known
  <2>1. \A i \in Idx : SchedIdle.copy[i] = NoRow
    BY DEF SchedIdle
  <2> QED BY <2>1 DEF Init, PidKnown, DirectKnown, NoRow, Idle, Live
<1>2. RunsInv /\ Known /\ [Next]_vars => Known'
  BY PidKnownStep, RestartsGrow, DirectKnownStep
<1>3. RunsInv /\ Known => FinishFindsItsRow
  <2> SUFFICES ASSUME RunsInv, Known,
                      NEW r \in Replicas, NEW e \in events[r], Exists(e.idx),
                      restarts = 0 \/ e.idx \notin due
               PROVE  RunningByPid(e.idx) \/ rows[e.idx].status \in Terminal
    BY DEF FinishFindsItsRow
  <2>1. e.idx \in Idx /\ rows[e.idx] \in Row
    BY DEF RunsInv, TypeOK, Event
  <2>2. execs[e.idx] > 0
    BY <2>1 DEF RunsInv, EngineOver, DispatchInv, EngineKnowsSent, Results
  <2>3. rows[e.idx].status # "scheduled"
    BY <2>1, <2>2 DEF RunsInv, DispatchInv, ScheduledUnsent
  <2>4. \A c \in Callers : start[c].pc = "created" => start[c].idx # e.idx
    BY <2>2 DEF RunsInv, DispatchInv, BookingApart, Booking
  <2>5. rows[e.idx].status \in Live => rows[e.idx].pid
    BY <2>1, <2>2, <2>4 DEF PidKnown, DirectKnown
  <2> QED BY <2>1, <2>3, <2>5 DEF RunningByPid, Exists, Row, Live
<1> HIDE DEF Known
<1> QED BY <1>1, <1>2, <1>3, RunsHold, PTL DEF Spec

-----------------------------------------------------------------------------
(* Refinement of RunLedger.  With no stop and no delete a row has the       *)
(* status its launch gave it until its run is sent.                         *)

NobodyStops == Stoppers = {} /\ Deletable = {}

StatusKept ==
  /\ \A c \in Callers : start[c].pc = "created" =>
       rows[start[c].idx].status = start[c].rec.status
  /\ \A c \in Callers : start[c].pc \in {"recorded", "unsent"} =>
       execs[start[c].idx] > 0 \/ rows[start[c].idx].status = "running"
  /\ \A r \in Replicas : sched[r].pc \notin {"idle", "next"} =>
       execs[sched[r].idx] > 0 \/ rows[sched[r].idx].status = "running"
  /\ \A r \in Replicas, i \in Idx :
       /\ sched[r].copy[i] # NoRow
       /\ sched[r].pc = "next" \/ sched[r].idx # i
       => rows[i].status = "scheduled"

\* Steps about rows that have been sent disturb none of it.
LEMMA SentApart ==
  ASSUME RunsInv, StatusKept, UNCHANGED <<start, sched, execs>>,
         \A j \in Idx : rows'[j] = rows[j] \/ execs[j] > 0
  PROVE  StatusKept'
<1>1. \A c \in Callers : start[c].pc = "created" =>
        start[c].idx \in Idx /\ execs[start[c].idx] = 0
  BY DEF RunsInv, DispatchInv, BookingApart, Booking
<1>2. \A c \in Callers : start[c].pc # "idle" => start[c].idx \in Idx
  BY DEF RunsInv, CallersApart
<1>3. \A r \in Replicas : sched[r].pc \notin {"idle", "next"} => sched[r].idx \in Idx
  BY DEF RunsInv, DispatchInv, QueueUnsent
<1>4. \A r \in Replicas, i \in Idx :
        /\ sched[r].copy[i] # NoRow
        /\ sched[r].pc = "next" \/ sched[r].idx # i
        => execs[i] = 0
  BY DEF RunsInv, DispatchInv, QueueUnsent
<1> QED BY <1>1, <1>2, <1>3, <1>4 DEF StatusKept

LEMMA StatusStart ==
  ASSUME RunsInv, StatusKept, NEW c \in Callers, StartNext(c)
  PROVE  StatusKept'
<1>1. /\ \A r \in Replicas : \A i \in Idx : sched[r].copy[i] # NoRow => i \in due
      /\ \A r \in Replicas : sched[r].pc \notin {"idle", "next"} =>
           sched[r].idx \in Idx /\ sched[r].idx \in due
  BY InHandListed DEF RunsInv, DispatchInv, QueueUnsent
<1>2. ASSUME NEW i \in Idx, StartCreate(c, i) PROVE StatusKept'
  <2>1. /\ i \notin due /\ execs[i] = 0
        /\ \A d \in Callers : start[d].pc # "idle" => start[d].idx # i
    BY <1>2, CreateFlat
       DEF RunsInv, CallersApart, DispatchInv, AbsentFresh
  <2>2. \A d \in Callers : start[d].pc # "idle" => start[d].idx \in Idx
    BY DEF RunsInv, CallersApart
  <2> QED BY <1>1, <1>2, <2>1, <2>2, CreateFlat DEF RunsInv, StatusKept
<1>3. CASE StartMoves(c)
  <2>1. /\ start[c].idx \in Idx /\ start[c].idx \notin due
        /\ \A d \in Callers \ {c} : start[d].pc # "idle" =>
             start[d].idx \in Idx /\ start[d].idx # start[c].idx
    BY <1>3, CallFlat DEF RunsInv, CallersApart
  <2>2. start'[c].pc \in {"recorded", "unsent"} =>
          execs'[start[c].idx] > 0 \/ rows'[start[c].idx].status = "running"
    <3>1. CASE StartFails(c) \/ StartUnsent(c)
      BY <3>1, FailFlat DEF RunsInv
    <3>2. CASE StartRecord(c)
      BY <3>2, RecordFlat DEF RunsInv
    <3>3. CASE StartExec(c)
      <4>1. execs[start[c].idx] = 0
        BY <3>3 DEF RunsInv, DispatchInv, BookingApart, Booking, StartExec
      <4> QED BY <3>3, <4>1, ExecFlat DEF RunsInv, StatusKept
    <3> QED BY <1>3, <3>1, <3>2, <3>3 DEF StartMoves
  <2>3. \A d \in Callers \ {c} : start'[d] = start[d]
    BY <1>3, CallFlat DEF RunsInv
  <2>4. \A j \in Idx \ {start[c].idx} : rows'[j] = rows[j] /\ execs'[j] = execs[j]
    BY <1>3, CallFlat DEF RunsInv
  <2>5. /\ UNCHANGED sched /\ start'[c].pc # "created"
        /\ start'[c].pc # "idle" => start'[c].idx = start[c].idx
    BY <1>3, CallFlat DEF RunsInv
  <2> QED BY <1>1, <2>1, <2>2, <2>3, <2>4, <2>5 DEF StatusKept
<1> QED BY <1>2, <1>3 DEF StartNext, StartMoves

LEMMA StatusSched ==
  ASSUME OneScheduler, RunsInv, StatusKept, NEW r \in Replicas, SchedNext(r)
  PROVE  StatusKept'
<1>1. /\ UNCHANGED <<start, due>>
      /\ \A q \in Replicas : q = r
      /\ \A j \in Idx \ due : rows'[j] = rows[j] /\ execs'[j] = execs[j]
  BY SchedFlat DEF RunsInv, OneScheduler
<1>2. \A c \in Callers : start[c].pc # "idle" => start[c].idx \in Idx \ due
  BY DEF RunsInv, CallersApart
<1>3. /\ \A c \in Callers : start'[c].pc = "created" =>
           rows'[start'[c].idx].status = start'[c].rec.status
      /\ \A c \in Callers : start'[c].pc \in {"recorded", "unsent"} =>
           \/ execs'[start'[c].idx] > 0
           \/ rows'[start'[c].idx].status = "running"
  BY <1>1, <1>2 DEF StatusKept
<1> SUFFICES
      /\ sched'[r].pc \notin {"idle", "next"} =>
           execs'[sched'[r].idx] > 0 \/ rows'[sched'[r].idx].status = "running"
      /\ \A i \in Idx :
           /\ sched'[r].copy[i] # NoRow
           /\ sched'[r].pc = "next" \/ sched'[r].idx # i
           => rows'[i].status = "scheduled"
  BY <1>1, <1>3 DEF StatusKept
<1>4. CASE SchedList(r)
  BY <1>4, ListFlat DEF RunsInv
<1>5. ASSUME NEW i \in Idx, SchedClaim(r, i)
      PROVE  /\ sched'[r].pc \notin {"idle", "next"} =>
                  \/ execs'[sched'[r].idx] > 0
                  \/ rows'[sched'[r].idx].status = "running"
             /\ \A j \in Idx :
                  /\ sched'[r].copy[j] # NoRow
                  /\ sched'[r].pc = "next" \/ sched'[r].idx # j
                  => rows'[j].status = "scheduled"
  <2>1. rows[i].status = "scheduled"
    BY <1>5, ClaimFlat DEF RunsInv, StatusKept
  <2>2. Exists(i)
    BY <2>1 DEF Exists, Gone
  <2> QED BY <1>5, <2>1, <2>2, ClaimFlat DEF RunsInv, StatusKept
<1>6. CASE SchedPrepare(r)
  BY <1>6, PrepareFlat DEF RunsInv, StatusKept
<1>7. CASE SchedExec(r)
  <2>1. execs[sched[r].idx] = 0
    BY <1>7, SendFlat, InHandListed DEF RunsInv, DispatchInv, QueueUnsent
  <2> QED BY <1>7, <2>1, SendFlat DEF RunsInv, StatusKept
<1>8. CASE SchedRecord(r) \/ SchedFails(r)
  BY <1>8, ReturnFlat, DropFlat DEF RunsInv, StatusKept
<1> QED BY <1>4, <1>5, <1>6, <1>7, <1>8 DEF SchedNext

LEMMA StatusStep ==
  ASSUME OneScheduler, NobodyStops, RunsInv, StatusKept, [Next]_vars
  PROVE  StatusKept'
<1>1. CASE \E c \in Callers : StartNext(c)
  BY <1>1, StatusStart
<1>2. CASE \E r \in Replicas : SchedNext(r)
  BY <1>2, StatusSched
<1>3. ASSUME NEW r \in Replicas, FinishNext(r) PROVE StatusKept'
  <2>1. ASSUME NEW e \in events[r], FinishRead(r, e) PROVE StatusKept'
    BY <2>1, FinishReadFlat, SentApart DEF RunsInv
  <2>2. CASE FinishWrite(r)
    <3>1. execs[finish[r].idx] > 0
      BY <2>2, FinishWriteFlat
         DEF RunsInv, EngineOver, DispatchInv, EngineKnowsSent, Results
    <3> QED BY <2>2, <3>1, FinishWriteFlat, SentApart DEF RunsInv
  <2> QED BY <1>3, <2>1, <2>2 DEF FinishNext
<1>4. ASSUME NEW i \in Idx, WireNext(i) PROVE StatusKept'
  BY <1>4, WireFlat, SentApart DEF RunsInv
<1>5. CASE \/ \E i \in Idx : TimeReaches(i)
           \/ \E r \in Replicas : \E e \in events[r] : LoseEvent(r, e)
  BY <1>5, RestFlat, SentApart DEF RunsInv
<1>6. CASE Restart
  BY <1>6, RestartFlat DEF RunsInv, StatusKept
<1>7. ~ \E p \in Stoppers : StopNext(p)
  BY DEF NobodyStops
<1>8. ~ \E i \in Idx : DeleteRow(i)
  BY DEF NobodyStops, DeleteRow
<1>9. CASE UNCHANGED vars
  BY <1>9, SentApart DEF vars
<1> QED BY <1>1, <1>2, <1>3, <1>4, <1>5, <1>6, <1>7, <1>8, <1>9 DEF Next

Phases == [i \in Idx |-> Phase(i)]

\* One run moves along the ledger and the others stay where they are.
LEMMA LedgerMoves ==
  ASSUME NEW i \in Idx, \A j \in Idx \ {i} : Phase(j)' = Phase(j),
         \/ Phase(i) = "none" /\ Phase(i)' \in {"queued", "claimed"}
         \/ Phase(i) = "queued" /\ Phase(i)' \in {"claimed", "dropped"}
         \/ Phase(i) = "claimed" /\ Phase(i)' \in {"sent", "dropped"}
  PROVE  Ledger!LedgerNext
<1> DEFINE from == Phase(i)
           to == Phase(i)'
<1>1. Phases' = [Phases EXCEPT ![i] = to] /\ Phases[i] = from
  BY DEF Phases
<1>2. Ledger!Move(i, from, to)
  BY <1>1 DEF Ledger!Move, Phases
<1> HIDE DEF from, to
<1>3. \/ from = "none" /\ to \in {"queued", "claimed"}
      \/ from = "queued" /\ to \in {"claimed", "dropped"}
      \/ from = "claimed" /\ to \in {"sent", "dropped"}
  BY DEF from, to
<1>4. Ledger!Book(i) \/ Ledger!Take(i) \/ Ledger!Claim(i) \/ Ledger!Send(i)
      \/ Ledger!Drop(i)
  BY <1>2, <1>3 DEF Ledger!Book, Ledger!Take, Ledger!Claim, Ledger!Send,
                    Ledger!Drop
<1> QED BY <1>4 DEF Ledger!LedgerNext

\* The phase of a run, from its row and the requests the engine took.
LEMMA PhaseOf ==
  ASSUME TypeOK, NEW j \in Idx
  PROVE  /\ execs[j] > 0 => Phase(j) = "sent"
         /\ execs[j] = 0 /\ rows[j].status = "absent" => Phase(j) = "none"
         /\ execs[j] = 0 /\ rows[j].status = "scheduled" => Phase(j) = "queued"
         /\ execs[j] = 0 /\ rows[j].status = "running" => Phase(j) = "claimed"
         /\ execs[j] = 0 /\ rows[j].status \in Terminal \cup {"deleted"}
              => Phase(j) = "dropped"
BY DEF TypeOK, Phase, Terminal

LEMMA PhaseFrame ==
  ASSUME TypeOK, TypeOK', NEW j \in Idx,
         \/ rows'[j].status = rows[j].status /\ execs'[j] = execs[j]
         \/ execs[j] > 0 /\ execs'[j] > 0
  PROVE  Phase(j)' = Phase(j)
BY DEF TypeOK, Phase

LEMMA LedgerStep ==
  ASSUME OneScheduler, NobodyStops, RunsInv, StatusKept, [Next]_vars
  PROVE  Ledger!LedgerNext \/ UNCHANGED Phases
<1>t. TypeOK /\ TypeOK'
  BY TypeStep DEF RunsInv
<1>0. ASSUME \A j \in Idx : \/ rows'[j].status = rows[j].status /\ execs'[j] = execs[j]
                            \/ execs[j] > 0 /\ execs'[j] > 0
      PROVE  UNCHANGED Phases
  BY <1>0, <1>t, PhaseFrame DEF Phases
<1>1. ASSUME NEW c \in Callers, NEW i \in Idx, StartCreate(c, i)
      PROVE  Ledger!LedgerNext
  <2>1. /\ execs[i] = 0 /\ execs'[i] = 0
        /\ rows[i].status = "absent" /\ rows'[i].status \in Live
        /\ \A j \in Idx \ {i} : rows'[j] = rows[j] /\ execs'[j] = execs[j]
    BY <1>1, <1>t, CreateFlat DEF RunsInv, DispatchInv, AbsentFresh
  <2>2. Phase(i) = "none" /\ Phase(i)' \in {"queued", "claimed"}
    BY <2>1, <1>t DEF TypeOK, Phase, Live
  <2> QED BY <2>1, <2>2, <1>t, PhaseFrame, LedgerMoves
<1>2. ASSUME NEW c \in Callers, StartMoves(c)
      PROVE  Ledger!LedgerNext \/ UNCHANGED Phases
  <2>0. PICK i \in Idx : i = start[c].idx
    BY <1>2, <1>t, CallFlat
  <2>1. /\ i \in Idx
        /\ \A j \in Idx \ {i} : rows'[j] = rows[j] /\ execs'[j] = execs[j]
        /\ start[c].pc # "idle"
    BY <1>2, <2>0, <1>t, CallFlat
  <2>2. \A j \in Idx \ {i} : Phase(j)' = Phase(j)
    BY <2>1, <1>t, PhaseFrame
  <2>3. /\ start[c].pc = "created" =>
             rows[i].status = start[c].rec.status /\ rows[i].status \in Live
        /\ start[c].pc \in {"recorded", "unsent"} =>
             execs[i] > 0 \/ rows[i].status = "running"
        /\ start[c].pc \in {"created", "recorded"} => execs[i] = 0
    BY <2>0 DEF StatusKept, RunsInv, DispatchInv, BookingApart, Booking
  <2>4. CASE StartFails(c) \/ StartUnsent(c)
    <3>1. /\ execs'[i] = execs[i]
          /\ Exists(i) => rows'[i].status = "failed"
          /\ ~Exists(i) => rows'[i] = rows[i]
      BY <2>4, <2>0, <1>t, FailFlat
    <3>2. start[c].pc \in {"created", "unsent"}
      BY <2>4 DEF StartFails, StartUnsent
    <3>3. CASE execs[i] > 0
      BY <2>1, <3>1, <3>3, <1>0
    <3>4. CASE ~(execs[i] > 0)
      <4>1. execs[i] = 0 /\ execs'[i] = 0
        BY <2>1, <3>1, <3>4, <1>t DEF TypeOK
      <4>2. rows[i].status \in Live /\ rows'[i].status = "failed"
        BY <2>3, <3>1, <3>2, <3>4 DEF Live, Exists, Gone
      <4>3. Phase(i) \in {"queued", "claimed"} /\ Phase(i)' = "dropped"
        BY <2>1, <4>1, <4>2, <1>t DEF TypeOK, Phase, Live
      <4> QED BY <2>1, <2>2, <4>3, LedgerMoves
    <3> QED BY <3>3, <3>4
  <2>5. CASE StartRecord(c)
    BY <2>0, <2>1, <2>3, <2>5, <1>0, <1>t, RecordFlat
  <2>6. CASE StartExec(c)
    <3>1. /\ rows' = rows /\ rows[i].status = "running" /\ execs[i] = 0
          /\ execs' = execs \/ execs'[i] = 1
      BY <2>0, <2>3, <2>6, <1>t, ExecFlat
    <3>2. CASE execs' = execs
      BY <3>1, <3>2, <1>0
    <3>3. CASE execs'[i] = 1
      <4>1. Phase(i) = "claimed" /\ Phase(i)' = "sent"
        BY <2>1, <3>1, <3>3, <1>t DEF TypeOK, Phase
      <4> QED BY <2>1, <2>2, <4>1, LedgerMoves
    <3> QED BY <3>1, <3>2, <3>3
  <2> QED BY <1>2, <2>4, <2>5, <2>6 DEF StartMoves
<1>3. ASSUME NEW r \in Replicas, SchedNext(r)
      PROVE  Ledger!LedgerNext \/ UNCHANGED Phases
  <2>i. DispatchInv
    BY DEF RunsInv
  <2>1. CASE SchedList(r)
    BY <2>1, <1>0, <1>t, ListFlat
  <2>2. ASSUME NEW i \in Idx, SchedClaim(r, i) PROVE Ledger!LedgerNext
    <3>1. /\ rows[i].status = "scheduled" /\ execs' = execs
          /\ \A j \in Idx \ {i} : rows'[j] = rows[j]
      BY <2>2, <1>t, ClaimFlat DEF StatusKept
    <3>2. rows'[i].status = "running" /\ execs[i] = 0
      BY <2>2, <2>i, <3>1, <1>t, ClaimFlat
         DEF DispatchInv, ScheduledUnsent, Exists, Gone
    <3>3. Phase(i) = "queued" /\ Phase(i)' = "claimed"
      BY <3>1, <3>2, <1>t DEF TypeOK, Phase
    <3> QED BY <3>1, <3>3, <1>t, PhaseFrame, LedgerMoves
  <2>3. CASE SchedPrepare(r)
    BY <2>3, <1>0, <1>t, PrepareFlat
  <2>4. CASE SchedExec(r)
    <3>0. PICK i \in Idx : i = sched[r].idx
      BY <2>4, <2>i, <1>t, SendFlat
    <3>1. /\ i \in Idx /\ rows' = rows /\ execs[i] = 0
          /\ rows[i].status = "running"
          /\ \A j \in Idx \ {i} : execs'[j] = execs[j]
          /\ execs' = execs \/ execs'[i] = 1
      <4>1. /\ i \in Idx /\ rows' = rows
            /\ \A j \in Idx \ {i} : execs'[j] = execs[j]
            /\ execs' = execs \/ execs'[i] = execs[i] + 1
            /\ sched[r].pc = "ready"
        BY <3>0, <2>4, <2>i, <1>t, SendFlat
      <4>2. execs[i] = 0
        BY <3>0, <4>1, <2>i, InHandListed DEF DispatchInv, QueueUnsent
      <4> QED BY <3>0, <4>1, <4>2 DEF StatusKept
    <3>2. CASE execs' = execs
      BY <3>1, <3>2, <1>0
    <3>3. CASE execs'[i] = 1
      <4>1. Phase(i) = "claimed" /\ Phase(i)' = "sent"
        BY <3>1, <3>3, <1>t DEF TypeOK, Phase
      <4> QED BY <3>1, <4>1, <1>t, PhaseFrame, LedgerMoves
    <3> QED BY <3>1, <3>2, <3>3
  <2>5. CASE SchedRecord(r) \/ SchedFails(r)
    <3>0. PICK i \in Idx : i = sched[r].idx
      BY <2>5, <2>i, <1>t, ReturnFlat
    <3>1. /\ i \in Idx /\ execs' = execs
          /\ \A j \in Idx \ {i} : rows'[j] = rows[j]
          /\ \/ rows'[i] = rows[i]
             \/ rows'[i].status = "failed"
             \/ rows'[i].status = "running"
          /\ execs[i] > 0 \/ rows[i].status = "running"
      BY <3>0, <2>5, <2>i, <1>t, ReturnFlat DEF StatusKept
    <3>2. CASE rows'[i].status = rows[i].status \/ execs[i] > 0
      BY <3>1, <3>2, <1>0
    <3>3. CASE rows'[i].status = "failed" /\ ~(execs[i] > 0)
      <4>1. rows[i].status = "running" /\ execs[i] = 0 /\ execs'[i] = 0
        BY <3>1, <3>3, <1>t DEF TypeOK
      <4>2. Phase(i) = "claimed" /\ Phase(i)' = "dropped"
        BY <3>1, <3>3, <4>1, <1>t DEF TypeOK, Phase
      <4> QED BY <3>1, <4>2, <1>t, PhaseFrame, LedgerMoves
    <3> QED BY <3>1, <3>2, <3>3
  <2> QED BY <1>3, <2>1, <2>2, <2>3, <2>4, <2>5 DEF SchedNext
<1>4. ASSUME NEW r \in Replicas, FinishNext(r) PROVE UNCHANGED Phases
  <2>1. ASSUME NEW e \in events[r], FinishRead(r, e) PROVE UNCHANGED Phases
    BY <2>1, <1>0, <1>t, FinishReadFlat
  <2>2. CASE FinishWrite(r)
    <3>1. execs[finish[r].idx] > 0
      BY <2>2, FinishWriteFlat
         DEF RunsInv, EngineOver, DispatchInv, EngineKnowsSent, Results
    <3> QED BY <2>2, <3>1, <1>0, FinishWriteFlat DEF RunsInv
  <2> QED BY <1>4, <2>1, <2>2 DEF FinishNext
<1>5. ASSUME NEW i \in Idx, WireNext(i) PROVE UNCHANGED Phases
  BY <1>5, <1>0, WireFlat DEF RunsInv
<1>6. CASE \/ \E i \in Idx : TimeReaches(i)
           \/ \E r \in Replicas : \E e \in events[r] : LoseEvent(r, e)
  BY <1>6, <1>0, <1>t, RestFlat
<1>7. CASE Restart
  BY <1>7, <1>0, <1>t, RestartFlat
<1>8. ~ \E p \in Stoppers : StopNext(p)
  BY DEF NobodyStops
<1>9. ~ \E i \in Idx : DeleteRow(i)
  BY DEF NobodyStops, DeleteRow
<1>10. CASE UNCHANGED vars
  BY <1>10, <1>0 DEF vars
<1> QED BY <1>1, <1>2, <1>3, <1>4, <1>5, <1>6, <1>7, <1>8, <1>9, <1>10
        DEF Next, StartNext, StartMoves

\* With nobody stopping or deleting rows, StartWorkflow, the scheduler, the
\* engine's replies and restarts between them implement the ledger of
\* RunLedger, whatever the number of rows and callers: every step books,
\* takes, claims, sends or drops one run, or leaves all of them where they are.
THEOREM LedgerIsImplemented ==
  ASSUME OneScheduler, ComesDue # "any", NobodyStops
  PROVE  Spec => ImplementsLedger
<1>1. Init => StatusKept
  <2>1. SchedIdle.pc = "idle" /\ \A i \in Idx : SchedIdle.copy[i] = NoRow
    BY DEF SchedIdle
  <2> QED BY <2>1 DEF Init, StatusKept, Idle
<1>2. RunsInv /\ StatusKept /\ [Next]_vars => StatusKept'
  BY StatusStep
<1>3. Init => Ledger!LedgerInit
  BY TypeInit DEF Init, Ledger!LedgerInit, Phase, NoRow
<1>4. RunsInv /\ StatusKept /\ [Next]_vars =>
        Ledger!LedgerNext \/ UNCHANGED [i \in Idx |-> Phase(i)]
  BY LedgerStep DEF Phases
<1> QED BY <1>1, <1>2, <1>3, <1>4, RunsHold, PTL
        DEF Spec, ImplementsLedger, Ledger!LedgerSpec

-----------------------------------------------------------------------------
(* A directly launched row that is over stays as it was left: nobody still  *)
(* holds a copy from before.                                                *)

DirectClosed ==
  /\ \A c \in Callers : start[c].pc = "unsent" => execs[start[c].idx] = 0
  /\ \A i \in Idx \ due : i \in stored =>
       /\ Exists(i) => rows[i].snap /\ rows[i].pid
       /\ \A r \in Replicas : finish[r].pc = "read" /\ finish[r].idx = i =>
            finish[r].rec.snap /\ finish[r].rec.pid
  /\ \A i \in Idx \ due : i \in closed /\ Exists(i) => rows[i].status \in Terminal

\* Steps about rows that have not been sent, or that were due, disturb none
\* of it.
LEMMA DirectFrame ==
  ASSUME RunsInv, DirectClosed,
         UNCHANGED <<finish, stored, closed>>, due \subseteq due',
         \A j \in Idx : rows'[j] = rows[j] \/ execs[j] = 0 \/ j \in due
                        \/ rows'[j].status = "deleted"
  PROVE  /\ \A i \in Idx \ due' : i \in stored' =>
              /\ Exists(i)' => rows'[i].snap /\ rows'[i].pid
              /\ \A r \in Replicas : finish'[r].pc = "read" /\ finish'[r].idx = i =>
                   finish'[r].rec.snap /\ finish'[r].rec.pid
         /\ \A i \in Idx \ due' : i \in closed' /\ Exists(i)' =>
              rows'[i].status \in Terminal
<1>1. \A i \in Idx : i \in stored \cup closed => execs[i] # 0
  BY DEF RunsInv, EngineOver, DispatchInv, EngineKnowsSent, Results
<1> QED BY <1>1 DEF DirectClosed, Exists, Gone

LEMMA DirectStep ==
  ASSUME OneScheduler, Stoppers = {}, ~LostReplies, RunsInv, DirectClosed,
         [Next]_vars
  PROVE  DirectClosed'
<1>t. TypeOK /\ DispatchInv
  BY DEF RunsInv
<1>0. ASSUME UNCHANGED <<start, execs, finish, stored, closed>>,
             due \subseteq due',
             \A j \in Idx : rows'[j] = rows[j] \/ execs[j] = 0 \/ j \in due
                            \/ rows'[j].status = "deleted"
      PROVE  DirectClosed'
  BY <1>0, DirectFrame DEF DirectClosed
<1>1. ASSUME NEW c \in Callers, StartNext(c) PROVE DirectClosed'
  <2>1. ASSUME NEW i \in Idx, StartCreate(c, i) PROVE DirectClosed'
    <3>1. execs[i] = 0
      BY <2>1 DEF StartCreate, RunsInv, DispatchInv, AbsentFresh
    <3>2. \A d \in Callers : start'[d].pc = "unsent" => execs'[start'[d].idx] = 0
      BY <2>1, <1>t, CreateFlat DEF DirectClosed
    <3> QED BY <2>1, <3>1, <3>2, <1>t, CreateFlat, DirectFrame DEF DirectClosed
  <2>2. CASE StartMoves(c)
    <3>1. start[c].idx \in Idx /\ execs[start[c].idx] = 0
      BY <2>2, <1>t, CallFlat DEF StartMoves, StartFails, StartRecord, StartExec,
         StartUnsent, DispatchInv, BookingApart, Booking, DirectClosed
    <3>2. start'[c].pc = "unsent" => execs'[start[c].idx] = 0
      <4>1. CASE StartFails(c) \/ StartUnsent(c)
        BY <4>1, <1>t, FailFlat
      <4>2. CASE StartRecord(c)
        BY <4>2, <1>t, RecordFlat
      <4>3. CASE StartExec(c)
        BY <3>1, <4>3, <1>t, ExecFlat
      <4> QED BY <2>2, <4>1, <4>2, <4>3 DEF StartMoves
    <3>3. \A d \in Callers \ {c} : start[d].pc # "idle" =>
            start[d].idx \in Idx /\ start[d].idx # start[c].idx
      BY <2>2, <1>t, CallFlat DEF RunsInv, CallersApart
    <3>4. \A d \in Callers : start'[d].pc = "unsent" => execs'[start'[d].idx] = 0
      BY <2>2, <3>2, <3>3, <1>t, CallFlat DEF DirectClosed
    <3> QED BY <2>2, <3>1, <3>4, <1>t, CallFlat, DirectFrame DEF DirectClosed
  <2> QED BY <1>1, <2>1, <2>2 DEF StartNext, StartMoves
<1>2. ASSUME NEW r \in Replicas, SchedNext(r) PROVE DirectClosed'
  <2>1. /\ UNCHANGED <<start, finish, stored, closed, due>>
        /\ \A j \in Idx \ due : rows'[j] = rows[j] /\ execs'[j] = execs[j]
    BY <1>2, <1>t, SchedFlat
  <2>2. \A c \in Callers : start[c].pc # "idle" => start[c].idx \in Idx \ due
    BY DEF RunsInv, CallersApart
  <2>3. \A c \in Callers : start'[c].pc = "unsent" => execs'[start'[c].idx] = 0
    BY <2>1, <2>2 DEF DirectClosed
  <2> QED BY <2>1, <2>3, DirectFrame DEF DirectClosed
<1>3. ASSUME NEW r \in Replicas, FinishNext(r) PROVE DirectClosed'
  <2>1. ASSUME NEW e \in events[r], FinishRead(r, e) PROVE DirectClosed'
    <3>1. /\ UNCHANGED <<rows, due, start, execs, stored, closed>>
          /\ \A q \in Replicas : \/ finish'[q] = finish[q]
                                 \/ /\ Exists(finish'[q].idx)
                                    /\ finish'[q].rec.pid = rows[finish'[q].idx].pid
                                    /\ finish'[q].rec.snap = rows[finish'[q].idx].snap
      BY <2>1, <1>t, FinishReadFlat
    <3> QED BY <3>1 DEF DirectClosed, Exists
  <2>2. CASE FinishWrite(r)
    BY <2>2, <1>t, FinishWriteFlat DEF DirectClosed, Exists
  <2> QED BY <1>3, <2>1, <2>2 DEF FinishNext
<1>4. ASSUME NEW i \in Idx, WireNext(i) PROVE DirectClosed'
  <2>1. /\ UNCHANGED <<due, start, execs, finish, closed>>
        /\ \A j \in Idx \ {i} : rows'[j] = rows[j]
        /\ \/ UNCHANGED <<rows, stored>>
           \/ /\ stored' = stored \cup {i} /\ wire[i].pc = "read"
              /\ Exists(i) => rows'[i].pid = wire[i].rec.pid /\ rows'[i].snap
              /\ ~Exists(i) => rows'[i] = rows[i]
    BY <1>4, <1>t, WireFlat
  <2>2. wire[i].pc = "read" =>
          /\ wire[i].rec.pid /\ i \notin closed
          /\ \A r \in Replicas : finish[r].pc = "read" => finish[r].idx # i
    BY DEF RunsInv, EngineOver
  <2> QED BY <2>1, <2>2 DEF DirectClosed, Exists
<1>5. CASE \/ \E i \in Idx : TimeReaches(i)
           \/ \E r \in Replicas : \E e \in events[r] : LoseEvent(r, e)
  BY <1>0, <1>5, <1>t, RestFlat
<1>6. ASSUME NEW i \in Idx, DeleteRow(i) PROVE DirectClosed'
  BY <1>0, <1>6, <1>t, DeleteFlat
<1>7. CASE Restart
  BY <1>7, <1>t, RestartFlat DEF DirectClosed, Exists
<1>8. ~ \E p \in Stoppers : StopNext(p)
  OBVIOUS
<1>9. CASE UNCHANGED vars
  BY <1>0, <1>9 DEF vars, history
<1> QED BY <1>1, <1>2, <1>3, <1>4, <1>5, <1>6, <1>7, <1>8, <1>9 DEF Next

\* Without stops and lost replies, a row that never waited in the queue keeps
\* its final status once handleProcFinish has closed it, and the outcome once
\* storeRunOutcome has written it, whatever launches, deletes, other runs,
\* lost events and restarts go on around it: of the whole-row writes of its
\* own handlers none is stale.
THEOREM DirectKept ==
  ASSUME OneScheduler, ComesDue # "any", Stoppers = {}, ~LostReplies
  PROVE  Spec => []DirectIsKept
<1>1. Init => DirectClosed
  BY DEF Init, DirectClosed, Idle
<1>2. RunsInv /\ DirectClosed /\ [Next]_vars => DirectClosed'
  BY DirectStep
<1>3. DirectClosed => DirectIsKept
  BY DEF DirectClosed, DirectIsKept
<1> QED BY <1>1, <1>2, <1>3, RunsHold, PTL DEF Spec

-----------------------------------------------------------------------------
(* A continuation is dispatched after its parked run has ended, and finds   *)
(* the outcome on the parked run's row.                                     *)

Resumed ==
  /\ \A i \in Idx : rows[i].status # "deleted"
  /\ \A i \in due : source[i] # None => engine[source[i]] \in Results
  /\ \A i \in due : execs[i] > 0 => seeded[i] # "no"
  /\ \A i \in Idx : seeded[i] # "no" => i \in due /\ execs[i] > 0
  /\ \A r \in Replicas :
       sched[r].pc = "ready" /\ ~sched[r].resume /\ source[sched[r].idx] # None =>
         (seeded[source[sched[r].idx]] = "no" => source[sched[r].idx] \notin stored)
  /\ ResumeSeesOutcome

\* Steps that send nothing, store nothing and prepare nothing.
LEMMA ResumedFrame ==
  ASSUME Resumed, UNCHANGED <<source, due, execs, seeded, stored>>,
         \A i \in Idx : rows'[i] = rows[i] \/ rows'[i].status # "deleted",
         \A i \in Idx : engine[i] \in Results => engine'[i] \in Results,
         TypeOK,
         \A r \in Replicas : sched'[r].pc = "ready" => sched'[r] = sched[r]
  PROVE  Resumed'
<1>1. \A i \in due : source[i] # None => source[i] \in Idx
  BY DEF TypeOK
<1>2. ResumeSeesOutcome'
  BY DEF Resumed, ResumeSeesOutcome
<1> QED BY <1>1, <1>2 DEF Resumed

LEMMA ResumedStart ==
  ASSUME RunsInv, Resumed, NEW c \in Callers, StartNext(c)
  PROVE  Resumed'
<1>t. TypeOK /\ DispatchInv
  BY DEF RunsInv
<1>s. \A r \in Replicas : sched[r].pc = "ready" => sched[r].idx \in due
  BY InHandListed DEF RunsInv, DispatchInv, QueueUnsent
<1>1. ASSUME NEW i \in Idx, StartCreate(c, i) PROVE Resumed'
  <2>1. /\ UNCHANGED <<due, sched, engine, execs, stored, seeded>>
        /\ \A j \in Idx \ {i} : rows'[j] = rows[j] /\ source'[j] = source[j]
        /\ rows'[i].status # "deleted"
    BY <1>1, <1>t, CreateFlat DEF Live
  <2>2. i \notin due
    BY <1>1 DEF StartCreate, DispatchInv, RunsInv, AbsentFresh
  <2>3. due \subseteq Idx /\ seeded[i] = "no"
    BY <2>2 DEF RunsInv, TypeOK, Resumed
  <2>4. ResumeSeesOutcome'
    <3>1. \A j \in Idx : seeded[j] = "blank" => source'[j] = source[j]
      BY <2>1, <2>3
    <3> QED BY <2>1, <3>1 DEF Resumed, ResumeSeesOutcome
  <2> QED BY <1>s, <2>1, <2>2, <2>3, <2>4 DEF Resumed
<1>2. CASE StartMoves(c)
  <2>1. /\ UNCHANGED <<source, due, sched, stored, seeded>>
        /\ start[c].idx \in Idx
        /\ \A j \in Idx \ {start[c].idx} :
             rows'[j] = rows[j] /\ execs'[j] = execs[j] /\ engine'[j] = engine[j]
    BY <1>2, <1>t, CallFlat
  <2>2. start[c].idx \notin due /\ seeded[start[c].idx] = "no"
    BY <1>2, <1>t, CallFlat DEF RunsInv, CallersApart, Resumed
  <2>3. /\ rows'[start[c].idx].status # "deleted"
        /\ engine[start[c].idx] \in Results => engine'[start[c].idx] \in Results
    <3>1. CASE StartFails(c) \/ StartUnsent(c)
      BY <2>1, <3>1, <1>t, FailFlat DEF Resumed
    <3>2. CASE StartRecord(c)
      <4>1. start[c].rec.status # "deleted"
        BY <3>2, <1>t, RecordFlat DEF DispatchInv, BookingApart, Booking, Live
      <4> QED BY <2>1, <3>2, <4>1, <1>t, RecordFlat DEF Resumed
    <3>3. CASE StartExec(c)
      <4>1. execs[start[c].idx] = 0
        BY <3>3, <1>t, ExecFlat DEF DispatchInv, BookingApart, Booking
      <4>2. engine[start[c].idx] \notin Results
        BY <2>1, <4>1, <1>t DEF DispatchInv, EngineKnowsSent, Results
      <4> QED BY <2>1, <3>3, <4>2, <1>t, ExecFlat DEF Resumed
    <3> QED BY <1>2, <3>1, <3>2, <3>3 DEF StartMoves
  <2>4. \A j \in due : source[j] # None => source[j] \in Idx
    BY <1>t DEF TypeOK
  <2>5. due \subseteq Idx
    BY <1>t DEF TypeOK
  <2>6. ResumeSeesOutcome'
    BY <2>1 DEF Resumed, ResumeSeesOutcome
  <2> QED BY <2>1, <2>2, <2>3, <2>4, <2>5, <2>6 DEF Resumed
<1> QED BY <1>1, <1>2 DEF StartNext, StartMoves

LEMMA ResumedSched ==
  ASSUME OneScheduler, RunsInv, DirectClosed, Resumed, NEW r \in Replicas,
         SchedNext(r)
  PROVE  Resumed'
<1>t. TypeOK /\ DispatchInv
  BY DEF RunsInv
<1>r. \A q \in Replicas : q = r
  BY DEF OneScheduler
<1>u. UNCHANGED <<source, due, stored>>
  BY <1>t, SchedFlat
<1>1. CASE SchedList(r)
  BY <1>1, <1>t, <1>r, <1>u, ListFlat, ResumedFrame
<1>2. ASSUME NEW i \in Idx, SchedClaim(r, i) PROVE Resumed'
  BY <1>2, <1>t, <1>r, <1>u, ClaimFlat, DropFlat, ResumedFrame
<1>3. CASE SchedRecord(r) \/ SchedFails(r)
  BY <1>3, <1>t, <1>r, <1>u, ReturnFlat, DropFlat, ResumedFrame
<1>4. CASE SchedPrepare(r)
  <2>1. /\ UNCHANGED <<rows, engine, execs, seeded>>
        /\ sched[r].pc = "claimed" /\ sched'[r].idx = sched[r].idx
        /\ \/ sched'[r].pc = "failing"
           \/ /\ sched'[r].pc = "ready"
              /\ sched'[r].resume = HasResume(sched[r].idx)
    BY <1>4, <1>t, PrepareFlat
  <2>2. CASE sched'[r].pc = "failing"
    BY <1>t, <1>r, <1>u, <2>1, <2>2, ResumedFrame
  <2>3. CASE sched'[r].resume = HasResume(sched[r].idx)
    <3> DEFINE from == source[sched[r].idx]
    <3>1. ASSUME ~HasResume(sched[r].idx), from # None, seeded[from] = "no",
                 from \in stored
          PROVE  FALSE
      <4>1. from \in Idx
        BY <3>1, <1>t DEF TypeOK
      <4>2. execs[from] > 0 /\ from \notin due
        BY <3>1, <4>1
           DEF RunsInv, EngineOver, DispatchInv, EngineKnowsSent, Results, Resumed
      <4>3. Exists(from)
        BY <4>1, <4>2 DEF RunsInv, DispatchInv, AbsentFresh, Resumed, Exists, Gone
      <4>4. rows[from].snap /\ rows[from].pid
        BY <3>1, <4>1, <4>2, <4>3 DEF DirectClosed
      <4> QED BY <3>1, <4>3, <4>4 DEF HasResume, ByPid
    <3>2. ResumeSeesOutcome'
      BY <1>u, <2>1 DEF Resumed, ResumeSeesOutcome
    <3> HIDE DEF from
    <3>3. ~sched'[r].resume /\ from # None =>
            (seeded[from] = "no" => from \notin stored)
      BY <2>3, <3>1
    <3> QED BY <1>r, <1>u, <2>1, <3>2, <3>3 DEF Resumed, from
  <2> QED BY <2>1, <2>2, <2>3
<1>5. CASE SchedExec(r)
  <2>1. /\ UNCHANGED rows
        /\ sched[r].pc = "ready" /\ sched[r].idx \in Idx
        /\ sched'[r].pc # "ready"
        /\ \A j \in Idx \ {sched[r].idx} :
             execs'[j] = execs[j] /\ engine'[j] = engine[j] /\ seeded'[j] = seeded[j]
        /\ \/ UNCHANGED <<execs, engine, seeded>>
           \/ /\ execs'[sched[r].idx] = execs[sched[r].idx] + 1
              /\ seeded'[sched[r].idx] =
                   IF sched[r].resume THEN "snapshot" ELSE "blank"
    BY <1>5, <1>t, SendFlat
  <2>2. /\ execs[sched[r].idx] = 0 /\ sched[r].idx \in due
        /\ engine[sched[r].idx] \notin Results
    BY <2>1, <1>t, InHandListed
       DEF DispatchInv, QueueUnsent, EngineKnowsSent, Results
  <2>3. CASE UNCHANGED <<execs, engine, seeded>>
    BY <1>t, <1>r, <1>u, <2>1, <2>3, ResumedFrame
  <2>4. CASE /\ execs'[sched[r].idx] = execs[sched[r].idx] + 1
             /\ seeded'[sched[r].idx] =
                  IF sched[r].resume THEN "snapshot" ELSE "blank"
    <3>1. /\ due \subseteq Idx
          /\ \A j \in Idx : source[j] # None => source[j] \in Idx
      BY <1>t DEF TypeOK
    <3>2. \A j \in Idx : engine[j] \in Results => engine'[j] \in Results
      BY <2>1, <2>2
    <3>3. /\ execs'[sched[r].idx] = 1
          /\ seeded'[sched[r].idx] # "no"
          /\ seeded'[sched[r].idx] = "blank" => ~sched[r].resume
      BY <2>2, <2>4
    <3>4. ResumeSeesOutcome'
      <4> SUFFICES ASSUME NEW i \in Idx, seeded'[i] = "blank", source[i] # None,
                          seeded'[source[i]] = "no"
                   PROVE  source[i] \notin stored
        BY <1>u DEF ResumeSeesOutcome
      <4>1. seeded[source[i]] = "no"
        BY <2>1, <3>1, <3>3
      <4>2. CASE i = sched[r].idx
        BY <2>1, <3>3, <4>1, <4>2 DEF Resumed
      <4>3. CASE i # sched[r].idx
        BY <2>1, <4>1, <4>3 DEF Resumed, ResumeSeesOutcome
      <4> QED BY <4>2, <4>3
    <3>5. \A i \in due : execs'[i] > 0 => seeded'[i] # "no"
      BY <2>1, <3>1, <3>3 DEF Resumed
    <3>6. \A i \in Idx : seeded'[i] # "no" => i \in due /\ execs'[i] > 0
      BY <2>1, <2>2, <3>3 DEF Resumed
    <3>7. \A i \in due : source[i] # None => engine'[source[i]] \in Results
      BY <3>1, <3>2 DEF Resumed
    <3> QED BY <1>r, <1>u, <2>1, <3>4, <3>5, <3>6, <3>7 DEF Resumed
  <2> QED BY <2>1, <2>3, <2>4
<1> QED BY <1>1, <1>2, <1>3, <1>4, <1>5 DEF SchedNext

LEMMA ResumedStep ==
  ASSUME OneScheduler, NobodyStops, ComesDue = "parked", RunsInv, DirectClosed,
         Resumed, [Next]_vars
  PROVE  Resumed'
<1>t. TypeOK /\ DispatchInv
  BY DEF RunsInv
<1>1. CASE \E c \in Callers : StartNext(c)
  BY <1>1, ResumedStart
<1>2. CASE \E r \in Replicas : SchedNext(r)
  BY <1>2, ResumedSched
<1>3. ASSUME NEW r \in Replicas, FinishNext(r) PROVE Resumed'
  <2>1. ASSUME NEW e \in events[r], FinishRead(r, e) PROVE Resumed'
    BY <2>1, <1>t, FinishReadFlat, ResumedFrame
  <2>2. CASE FinishWrite(r)
    BY <2>2, <1>t, FinishWriteFlat, ResumedFrame DEF Terminal
  <2> QED BY <1>3, <2>1, <2>2 DEF FinishNext
<1>4. ASSUME NEW i \in Idx, WireNext(i) PROVE Resumed'
  <2>1. /\ UNCHANGED <<source, due, sched, execs, seeded>>
        /\ \A j \in Idx \ {i} : rows'[j] = rows[j] /\ engine'[j] = engine[j]
    BY <1>4, <1>t, WireFlat
  <2>2. wire[i].pc = "read" => wire[i].rec.status # "deleted"
    BY <1>t DEF DispatchInv, EngineKnowsSent, Terminal
  <2>3. CASE PushContext(i) \/ WireRead(i)
    <3>1. UNCHANGED <<rows, engine, stored>>
      BY <2>3 DEF PushContext, WireRead, history
    <3> QED BY <1>t, <2>1, <3>1, ResumedFrame
  <2>4. CASE WireSkips(i) \/ WireStore(i)
    <3>1. /\ wire[i].pc # "idle" /\ engine'[i] \in Results
          /\ rows'[i].status # "deleted"
          /\ stored' \in {stored, stored \cup {i}}
      <4>1. wire[i].pc # "idle" /\ engine'[i] \in Results
            /\ ~PushContext(i) /\ ~WireRead(i)
        BY <2>4, <1>4, <1>t, WireFlat DEF WireSkips, WireStore, PushContext,
           WireRead, NoWire, TypeOK, Results
      <4> QED BY <4>1, <1>4, <2>2, <1>t, WireFlat DEF Resumed
    <3>2. \A j \in due : source[j] # i
      BY <3>1, ConstantsOK DEF ConstantsOK, RunsInv, EngineOver, Resumed
    <3>3. /\ due \subseteq Idx
          /\ \A j \in Idx : source[j] # None => source[j] \in Idx
      BY <1>t DEF TypeOK
    <3>4. ResumeSeesOutcome'
      BY <2>1, <3>1, <3>2 DEF Resumed, ResumeSeesOutcome
    <3>5. \A r \in Replicas : sched[r].pc = "ready" => sched[r].idx \in due
      BY InHandListed DEF RunsInv, DispatchInv, QueueUnsent
    <3> QED BY <2>1, <3>1, <3>2, <3>3, <3>4, <3>5 DEF Resumed
  <2> QED BY <1>4, <2>3, <2>4 DEF WireNext
<1>5. CASE \/ \E i \in Idx : TimeReaches(i)
           \/ \E r \in Replicas : \E e \in events[r] : LoseEvent(r, e)
  <2>1. /\ UNCHANGED <<rows, source, sched, engine, execs, stored, seeded>>
        /\ \/ due' = due
           \/ \E i \in Idx :
                /\ due' = due \cup {i} /\ rows[i].status = "scheduled"
                /\ source[i] # None => engine[source[i]] \in Results
    BY <1>5, <1>t, RestFlat
  <2>2. ResumeSeesOutcome'
    BY <2>1 DEF Resumed, ResumeSeesOutcome
  <2>3. \A i \in Idx : rows[i].status = "scheduled" => ~(execs[i] > 0)
    BY <1>t DEF DispatchInv, ScheduledUnsent
  <2> QED BY <2>1, <2>2, <2>3 DEF Resumed
<1>6. CASE Restart
  BY <1>6, <1>t, RestartFlat, ResumedFrame
<1>7. ~ \E p \in Stoppers : StopNext(p)
  BY DEF NobodyStops
<1>8. ~ \E i \in Idx : DeleteRow(i)
  BY DEF NobodyStops, DeleteRow
<1>9. CASE UNCHANGED vars
  BY <1>9, <1>t, ResumedFrame DEF vars, history
<1> QED BY <1>1, <1>2, <1>3, <1>4, <1>5, <1>6, <1>7, <1>8, <1>9 DEF Next

\* Where a continuation comes due after the run it continues has ended, and
\* nobody stops, deletes or loses a reply, the continuation of a directly
\* launched run that left an outcome is never sent to the engine blank: the
\* outcome is on the parked run's row before the engine may end it, and no
\* later write of that row loses it.
THEOREM ResumeIsSeeded ==
  ASSUME OneScheduler, ComesDue = "parked", NobodyStops, ~LostReplies
  PROVE  Spec => []ResumeSeesOutcome
<1>0. Stoppers = {} /\ ComesDue # "any"
  BY DEF NobodyStops
<1>1. Init => DirectClosed /\ Resumed
  <2>1. SchedIdle.pc = "idle"
    BY DEF SchedIdle
  <2> QED BY <2>1 DEF Init, DirectClosed, Resumed, ResumeSeesOutcome, Idle, NoRow
<1>2. RunsInv /\ DirectClosed /\ Resumed /\ [Next]_vars => DirectClosed' /\ Resumed'
  BY <1>0, DirectStep, ResumedStep
<1>3. Resumed => ResumeSeesOutcome
  BY DEF Resumed
<1>4. Spec => []RunsInv
  BY <1>0, RunsHold
<1> QED BY <1>1, <1>2, <1>3, <1>4, PTL DEF Spec

-----------------------------------------------------------------------------
(* A row that is over stays over, for any replicas, stops and early dates. *)

\* The scheduler's row is on its list while it works on it.
SchedHolds ==
  \A r \in Replicas : sched[r].pc \in {"claimed", "ready", "sent", "failing"} =>
    sched[r].idx \in Idx /\ sched[r].copy[sched[r].idx] # NoRow

\* What is left to happen to a row that is over: events and outcomes that find
\* it write its final status again.
Over(i, n) ==
  /\ rows[i].status \in Terminal \cup {"deleted"}
  /\ execs[i] = n
  /\ \A c \in Callers : start[c].idx # i
  /\ \A p \in Stoppers : stop[p].idx # i
  /\ \A r \in Replicas : sched[r].copy[i] = NoRow
  /\ \A r \in Replicas : finish[r].idx = i => finish[r].rec.status \in Terminal
  /\ wire[i].pc = "read" => wire[i].rec.status \in Terminal

LEMMA SendHeld ==
  ASSUME TypeOK, SchedHolds, NEW r \in Replicas, SchedExec(r)
  PROVE  /\ UNCHANGED <<rows, start, stop, finish, wire>>
         /\ \A q \in Replicas \ {r} : sched'[q] = sched[q]
         /\ sched[r].idx \in Idx /\ sched[r].copy[sched[r].idx] # NoRow
         /\ sched'[r].idx = sched[r].idx
         /\ \A j \in Idx : sched'[r].copy[j] # NoRow <=> sched[r].copy[j] # NoRow
         /\ \A j \in Idx \ {sched[r].idx} : execs'[j] = execs[j]
<1> DEFINE i == sched[r].idx
           withPid == [sched[r].copy EXCEPT ![i].pid = TRUE]
<1>1. /\ sched[r] \in SchedOp /\ sched[r].pc = "ready"
      /\ i \in Idx /\ sched[r].copy[i] # NoRow
      /\ sched[r].copy[i] \in Row
      /\ UNCHANGED <<rows, start, stop, finish, wire>>
  BY DEF TypeOK, SchedExec, SchedOp, SchedHolds
<1>2. /\ \A j \in Idx \ {i} : withPid[j] = sched[r].copy[j]
      /\ withPid[i].pid
  BY <1>1 DEF SchedOp, Row
<1> HIDE DEF withPid
<1>3. \/ sched' = [sched EXCEPT ![r] = [sched[r] EXCEPT !.pc = "sent",
                                                       !.copy = withPid]]
      \/ sched' = [sched EXCEPT ![r] = [sched[r] EXCEPT !.pc = "failing"]]
  BY DEF SchedExec, withPid
<1>4. /\ sched'[r].idx = i
      /\ sched'[r].copy = withPid \/ sched'[r].copy = sched[r].copy
      /\ \A q \in Replicas \ {r} : sched'[q] = sched[q]
  <2>1. CASE sched' = [sched EXCEPT ![r] = [sched[r] EXCEPT !.pc = "sent",
                                                           !.copy = withPid]]
    BY <1>1, <2>1 DEF TypeOK, SchedOp
  <2>2. CASE sched' = [sched EXCEPT ![r] = [sched[r] EXCEPT !.pc = "failing"]]
    BY <1>1, <2>2 DEF TypeOK, SchedOp
  <2> QED BY <1>3, <2>1, <2>2
<1>5. withPid[i] # NoRow
  BY <1>2 DEF NoRow
<1>6. \A j \in Idx : sched'[r].copy[j] # NoRow <=> sched[r].copy[j] # NoRow
  BY <1>1, <1>2, <1>4, <1>5
<1>7. UNCHANGED execs \/ EngineTakes(i)
  BY DEF SchedExec, EngineRefuses
<1>8. \A j \in Idx \ {i} : execs'[j] = execs[j]
  BY <1>1, <1>7 DEF EngineTakes, TypeOK
<1> QED BY <1>1, <1>4, <1>6, <1>8

LEMMA SchedHoldsStep ==
  ASSUME TypeOK, SchedHolds, [Next]_vars
  PROVE  SchedHolds'
<1>1. ASSUME NEW r \in Replicas, SchedNext(r) PROVE SchedHolds'
  <2>0. ASSUME NEW q \in Replicas, q # r PROVE sched'[q] = sched[q]
    BY <1>1, <2>0 DEF SchedNext, SchedList, SchedClaim, SchedPrepare, SchedExec,
                      SchedRecord, SchedFails, TypeOK
  <2>1. CASE SchedList(r)
    BY <2>0, <2>1, ListFlat DEF SchedHolds
  <2>2. ASSUME NEW i \in Idx, SchedClaim(r, i) PROVE SchedHolds'
    <3>1. CASE Exists(i)
      <4>1. rows'[i].status = "running" /\ sched'[r].idx = i /\ sched'[r].copy[i] = rows'[i]
        BY <2>2, <3>1, ClaimFlat
      <4>2. rows'[i] # NoRow
        BY <4>1 DEF NoRow
      <4> QED BY <2>0, <4>1, <4>2 DEF SchedHolds
    <3>2. CASE ~Exists(i)
      <4>1. sched'[r].pc \in {"idle", "next"}
        BY <2>2, <3>2, ClaimFlat, DropFlat
      <4> QED BY <2>0, <4>1 DEF SchedHolds
    <3> QED BY <3>1, <3>2
  <2>3. CASE SchedPrepare(r)
    BY <2>0, <2>3, PrepareFlat DEF SchedHolds
  <2>4. CASE SchedExec(r)
    BY <2>0, <2>4, SendHeld DEF SchedHolds
  <2>5. CASE SchedRecord(r) \/ SchedFails(r)
    <3>1. sched'[r] = SchedDrop(sched[r], sched[r].idx) /\ sched[r].idx \in Idx
      BY <2>5 DEF SchedRecord, SchedFails, TypeOK, SchedHolds
    <3>2. sched'[r].pc \in {"idle", "next"}
      BY <3>1, DropFlat
    <3> QED BY <2>0, <3>2 DEF SchedHolds
  <2> QED BY <1>1, <2>1, <2>2, <2>3, <2>4, <2>5 DEF SchedNext
<1>2. CASE Restart
  BY <1>2, RestartFlat DEF SchedHolds
<1>3. UNCHANGED sched => SchedHolds'
  BY DEF SchedHolds
<1>4. CASE \E c \in Callers : StartNext(c)
  BY <1>3, <1>4 DEF StartNext, StartCreate, StartFails, StartRecord, StartExec, StartUnsent
<1>5. CASE \E p \in Stoppers : StopNext(p)
  BY <1>3, <1>5 DEF StopNext, StopRead, StopScheduled, StopAsk, StopWrite
<1>6. CASE \E r \in Replicas : FinishNext(r)
  BY <1>3, <1>6 DEF FinishNext, FinishRead, FinishWrite
<1>7. CASE \E i \in Idx : WireNext(i) \/ TimeReaches(i) \/ DeleteRow(i)
  BY <1>3, <1>7 DEF WireNext, PushContext, WireSkips, WireRead, WireStore, TimeReaches, DeleteRow
<1>8. CASE \E r \in Replicas : \E e \in events[r] : LoseEvent(r, e)
  BY <1>3, <1>8 DEF LoseEvent
<1>9. CASE UNCHANGED vars
  BY <1>3, <1>9 DEF vars
<1> QED BY <1>1, <1>2, <1>4, <1>5, <1>6, <1>7, <1>8, <1>9 DEF Next

LEMMA OverIsKept ==
  ASSUME TypeOK, SchedHolds, NEW i \in Idx, NEW n, Over(i, n), [Next]_vars
  PROVE  Over(i, n)'
<1>0. /\ rows[i].status \in Terminal \cup {"deleted"} /\ TypeOK' /\ None # i
      /\ \A c \in Callers : start[c].pc = "idle" => start[c].idx = None
      /\ Idle.idx = None /\ Idle.idx # i
  BY TypeStep, ConstantsOK, SMTT(60) DEF Over, TypeOK, StartOp, Idle
<1>1. ASSUME NEW c \in Callers, StartNext(c) PROVE Over(i, n)'
  <2>1. ASSUME NEW j \in Idx, StartCreate(c, j) PROVE Over(i, n)'
    <3>1. j # i
      BY <1>0, <2>1 DEF StartCreate, Terminal
    <3> QED BY <2>1, <3>1, CreateFlat DEF Over
  <2>2. CASE StartMoves(c)
    <3>1. start'[c].pc = "idle" => start'[c].idx # i
      BY <1>0 DEF TypeOK, StartOp, Idle
    <3> QED BY <2>2, <3>1, CallFlat DEF Over
  <2> QED BY <1>1, <2>1, <2>2 DEF StartNext, StartMoves
<1>2. ASSUME NEW r \in Replicas, SchedNext(r) PROVE Over(i, n)'
  <2>0. /\ UNCHANGED <<start, stop, finish, wire>>
        /\ \A q \in Replicas \ {r} : sched'[q] = sched[q]
    BY <1>2 DEF SchedNext, SchedList, SchedClaim, SchedPrepare, SchedExec,
                SchedRecord, SchedFails, TypeOK
  <2>1. CASE SchedList(r)
    <3>1. sched'[r].copy[i] = NoRow
      BY <1>0, <2>1, ListFlat DEF Terminal
    <3> QED BY <2>0, <2>1, <3>1, ListFlat DEF Over
  <2>2. ASSUME NEW j \in Idx, SchedClaim(r, j) PROVE Over(i, n)'
    <3>1. j # i /\ rows'[i] = rows[i] /\ UNCHANGED execs
      BY <2>2, ClaimFlat DEF Over
    <3>2. sched'[r].copy[i] = NoRow
      <4>1. CASE Exists(j)
        BY <2>2, <3>1, <4>1, ClaimFlat DEF Over
      <4>2. CASE ~Exists(j)
        BY <2>2, <4>2, ClaimFlat, DropFlat DEF Over
      <4> QED BY <4>1, <4>2
    <3> QED BY <2>0, <3>1, <3>2 DEF Over
  <2>3. CASE SchedPrepare(r)
    BY <2>0, <2>3, PrepareFlat DEF Over
  <2>4. CASE SchedExec(r)
    <3>1. sched[r].idx # i
      BY <2>4, SendHeld DEF Over
    <3> QED BY <2>0, <2>4, <3>1, SendHeld DEF Over
  <2>5. CASE SchedRecord(r) \/ SchedFails(r)
    <3>1. /\ sched'[r] = SchedDrop(sched[r], sched[r].idx) /\ sched[r].idx \in Idx
          /\ sched[r].idx # i /\ UNCHANGED execs
          /\ \E rec : Update(sched[r].idx, rec)
      BY <2>5 DEF SchedRecord, SchedFails, TypeOK, SchedHolds, Over
    <3>2. rows'[i] = rows[i]
      BY <3>1, UpdateFlat
    <3>3. sched'[r].copy[i] = NoRow
      BY <3>1, DropFlat DEF Over
    <3> QED BY <2>0, <3>1, <3>2, <3>3 DEF Over
  <2> QED BY <1>2, <2>1, <2>2, <2>3, <2>4, <2>5 DEF SchedNext
<1>3. ASSUME NEW p \in Stoppers, StopNext(p) PROVE Over(i, n)'
  <2>1. /\ UNCHANGED <<start, sched, finish, wire, execs>>
        /\ \A q \in Stoppers \ {p} : stop'[q] = stop[q]
    BY <1>3 DEF StopNext, StopRead, StopScheduled, StopAsk, StopWrite, StopWrites, TypeOK
  <2>2. ASSUME NEW j \in Idx, StopRead(p, j) PROVE Over(i, n)'
    <3>1. j # i /\ UNCHANGED rows
      BY <1>0, <2>2 DEF StopRead, Terminal, Live
    <3>2. stop'[p].idx = j
      BY <2>2 DEF StopRead, TypeOK, Idle
    <3> QED BY <2>1, <3>1, <3>2 DEF Over
  <2>3. CASE StopScheduled(p) \/ StopAsk(p) \/ StopWrite(p)
    <3>1. stop[p].idx \in Idx /\ stop[p].idx # i
      BY <2>3, StopParts DEF StopScheduled, StopAsk, StopWrite, Over
    <3>2. stop'[p].idx \in {None, stop[p].idx}
      <4>1. \A rec : [Idle EXCEPT !.pc = "write", !.idx = stop[p].idx, !.rec = rec].idx = stop[p].idx
        BY DEF Idle
      <4>2. CASE StopAsk(p)
        <5>1. stop' = [stop EXCEPT ![p] = Idle] \/ \E s : StopWrites(p, s)
          BY <4>2 DEF StopAsk
        <5>2. \E op : stop' = [stop EXCEPT ![p] = op] /\ op.idx \in {None, stop[p].idx}
          BY <1>0, <4>1, <5>1 DEF StopWrites
        <5> QED BY <5>2 DEF TypeOK
      <4>3. CASE StopScheduled(p) \/ StopWrite(p)
        BY <1>0, <4>3 DEF StopScheduled, StopWrite, TypeOK
      <4> QED BY <2>3, <4>2, <4>3
    <3>3. UNCHANGED rows \/ \E rec : Update(stop[p].idx, rec)
      BY <2>3 DEF StopScheduled, StopAsk, StopWrite
    <3>4. rows'[i] = rows[i]
      BY <3>1, <3>3, UpdateFlat
    <3> QED BY <1>0, <2>1, <3>1, <3>2, <3>4 DEF Over
  <2> QED BY <1>3, <2>2, <2>3 DEF StopNext
<1>4. ASSUME NEW r \in Replicas, FinishNext(r) PROVE Over(i, n)'
  <2>1. /\ UNCHANGED <<start, stop, sched, wire, execs>>
        /\ \A q \in Replicas \ {r} : finish'[q] = finish[q]
    BY <1>4 DEF FinishNext, FinishRead, FinishWrite, TypeOK
  <2>2. ASSUME NEW e \in events[r], FinishRead(r, e) PROVE Over(i, n)'
    <3>1. e.result \in Terminal
      BY DEF TypeOK, Event, Results, Terminal
    <3>2. UNCHANGED rows
      BY <2>2 DEF FinishRead
    <3>3. finish'[r] = finish[r] \/ finish'[r].rec.status \in Terminal
      <4> DEFINE rec == WithStatus(rows[e.idx], e.result)
      <4>1. e.idx \in Idx /\ rows[e.idx] \in Row
        BY DEF TypeOK, Event
      <4>2. rec.status \in Terminal
        BY <3>1, <4>1 DEF WithStatus, Row
      <4> HIDE DEF rec
      <4>3. \/ finish' = finish
            \/ finish' = [finish EXCEPT ![r] = [Idle EXCEPT !.pc = "read", !.idx = e.idx, !.rec = rec]]
        BY <2>2 DEF FinishRead, rec
      <4> QED BY <4>2, <4>3 DEF TypeOK, Idle
    <3> QED BY <2>1, <3>2, <3>3 DEF Over
  <2>3. CASE FinishWrite(r)
    <3>1. finish[r].pc = "read" /\ Update(finish[r].idx, finish[r].rec) /\ finish[r].idx \in Idx
      BY <2>3, FinishParts DEF FinishWrite
    <3>2. rows'[i].status \in Terminal \cup {"deleted"}
      <4>1. CASE finish[r].idx = i
        BY <1>0, <3>1, <4>1, UpdateFlat DEF Over
      <4>2. CASE finish[r].idx # i
        BY <1>0, <3>1, <4>2, UpdateFlat
      <4> QED BY <4>1, <4>2
    <3>3. finish'[r].idx # i
      BY <1>0, <2>3 DEF FinishWrite, TypeOK
    <3> QED BY <2>1, <3>2, <3>3 DEF Over
  <2> QED BY <1>4, <2>2, <2>3 DEF FinishNext
<1>5. ASSUME NEW j \in Idx, WireNext(j) PROVE Over(i, n)'
  <2>1. UNCHANGED <<start, stop, sched, finish, execs>>
    BY <1>5 DEF WireNext, PushContext, WireSkips, WireRead, WireStore
  <2>2. rows'[i].status \in Terminal \cup {"deleted"}
    <3>1. UNCHANGED rows \/ (wire[j].pc = "read" /\ Update(j, [wire[j].rec EXCEPT !.snap = TRUE]))
      BY <1>5 DEF WireNext, PushContext, WireSkips, WireRead, WireStore
    <3>2. [wire[j].rec EXCEPT !.snap = TRUE].status = wire[j].rec.status
      BY DEF TypeOK, WireOp, Row
    <3>3. CASE j = i
      BY <1>0, <3>1, <3>2, <3>3, UpdateFlat, ZenonT(60) DEF Over
    <3>4. CASE j # i
      BY <1>0, <3>1, <3>4, UpdateFlat
    <3> QED BY <3>3, <3>4
  <2>3. wire'[i].pc = "read" => wire'[i].rec.status \in Terminal
    <3>1. CASE PushContext(j) \/ WireSkips(j) \/ WireStore(j)
      BY <3>1, SMTT(60) DEF PushContext, WireSkips, WireStore, NoWire, Over, TypeOK, WireOp
    <3>2. CASE WireRead(j)
      <4>1. wire' = [wire EXCEPT ![j] = [pc |-> "read", rec |-> rows[j]]] /\ rows[j].status \notin Gone
        BY <3>2 DEF WireRead, ByPid, Exists
      <4> QED BY <1>0, <4>1 DEF Over, TypeOK, Gone
    <3> QED BY <1>5, <3>1, <3>2 DEF WireNext
  <2> QED BY <2>1, <2>2, <2>3 DEF Over
<1>6. CASE \/ \E j \in Idx : TimeReaches(j)
           \/ \E r \in Replicas : \E e \in events[r] : LoseEvent(r, e)
  BY <1>6, RestFlat DEF Over
<1>7. ASSUME NEW j \in Idx, DeleteRow(j) PROVE Over(i, n)'
  BY <1>7, DeleteFlat DEF Over
<1>8. CASE Restart
  <2>1. /\ \A c \in Callers : start'[c].idx # i
        /\ \A p \in Stoppers : stop'[p].idx # i
        /\ \A r \in Replicas : finish'[r].idx # i
    BY <1>0, <1>8 DEF Restart
  <2>2. wire'[i].pc # "read"
    BY <1>8, RestartFlat
  <2> QED BY <1>8, <2>1, <2>2, RestartFlat DEF Over
<1>9. CASE UNCHANGED vars
  BY <1>9 DEF Over, vars, history
<1> QED BY <1>1, <1>2, <1>3, <1>4, <1>5, <1>6, <1>7, <1>8, <1>9 DEF Next

\* A row with a final status that no handler holds a copy of is never live
\* again and never sent again, for any number of API processes, stops, deletes,
\* early dates, lost replies and restarts: what is left of its run, events and
\* the outcome of storeRunOutcome, writes its final status once more.
THEOREM OverStays == Spec => OverIsOver
<1> DEFINE Inv == TypeOK /\ SchedHolds
           Ended(i, n) == rows[i].status \in Terminal /\ ~Held(i) /\ execs[i] = n
           Stays(i, n) == rows[i].status \in Terminal \cup {"deleted"} /\ execs[i] = n
<1>1. Init => Inv
  BY TypeInit DEF Init, SchedHolds, SchedIdle
<1>2. Inv /\ [Next]_vars => Inv'
  BY TypeStep, SchedHoldsStep
<1>3. ASSUME NEW i \in Idx, NEW n \in 0..MaxExec
      PROVE  Spec => [](Ended(i, n) => []Stays(i, n))
  <2>1. Inv /\ Ended(i, n) => Over(i, n)
    BY DEF Over, Held
  <2>2. Inv /\ Over(i, n) /\ [Next]_vars => Over(i, n)'
    BY OverIsKept
  <2>3. Over(i, n) => Stays(i, n)
    BY DEF Over
  <2> HIDE DEF Inv, Ended, Stays
  <2> QED BY <1>1, <1>2, <2>1, <2>2, <2>3, PTL DEF Spec
<1> QED BY <1>3 DEF OverIsOver

=============================================================================
