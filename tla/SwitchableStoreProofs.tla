------------------------ MODULE SwitchableStoreProofs ------------------------
(* Theorems about the switchable store, for any number of databases,       *)
(* requests of the panel, schedulers and operations.                       *)
EXTENDS SwitchableStore, TLAPS

\* The request that holds the mutex is the one between Lock and its end.
Holder ==
  \A c \in Panel : panel[c].pc \in {"locked", "pointed", "set"} <=> lock = c

\* Between the two stores of a switch the live database is its target.
Pointing == \A c \in Panel : panel[c].pc \in {"pointed", "set"} => live = panel[c].target

\* Only between the two is the reported database another one.
Configured == up /\ (\A c \in Panel : panel[c].pc # "pointed") => cfg = live

\* What is saved, and what is about to be saved, has been run on.
Saving ==
  /\ SavedHasRun
  /\ \A c \in Panel :
       panel[c].pc \in {"pointed", "set", "save", "writing", "adrift"} => panel[c].target \in ran

\* Until a switch repoints the store, what a loop has read or sleeps on is
\* the live database's, unless a token waits for it.
Fresh ==
  (\A c \in Panel : panel[c].pc \notin {"pointed", "set"}) =>
    \A s \in Schedulers :
      sched[s].pc \in {"read", "asleep"} /\ ~wake[s] => sched[s].db \in {live, None}

\* Nothing of an instance outlives it.
Down ==
  ~up => /\ lock = None
         /\ \A c \in Panel : panel[c].pc = "idle"
         /\ \A s \in Schedulers : sched[s].pc = "off"

SwInv == SwTypeOK /\ Holder /\ Pointing /\ Configured /\ Saving /\ Fresh /\ Down

-----------------------------------------------------------------------------
\* Booting from what was saved establishes the invariant.
LEMMA SwInitial == Init => SwInv
<1> USE ConstantsOK
<1> SUFFICES ASSUME Init PROVE SwInv
  OBVIOUS
<1>1. SwTypeOK
  BY DEF Init, SwTypeOK, Resolved, Request, NoRequest, Loop, Off, Operation, NoOp
<1>2. Holder /\ Pointing /\ Configured /\ Down
  BY DEF Init, Holder, Pointing, Configured, Down, NoRequest, Off
<1>3. Saving
  BY DEF Init, Saving, SavedHasRun, NoRequest, Resolved
<1>4. Fresh
  BY DEF Init, Fresh, Off
<1> QED BY <1>1, <1>2, <1>3, <1>4 DEF SwInv

-----------------------------------------------------------------------------
\* Every step of a request of the panel preserves the invariant.
LEMMA PanelStep ==
  ASSUME SwInv, NEW c \in Panel, NEW d \in Db,
         \/ AskSwitch(c, d) \/ AskReset(c) \/ Lock(c) \/ RequestNext(c)
  PROVE  SwInv'
<1> USE ConstantsOK DEF SwInv, Step, Ends, store, runtime
<1>1. CASE AskSwitch(c, d)
  <2>1. SwTypeOK' BY <1>1 DEF AskSwitch, SwTypeOK, Request
  <2>2. Holder' /\ Pointing' /\ Configured' /\ Down'
    BY <1>1 DEF AskSwitch, SwTypeOK, Request, Holder, Pointing, Configured, Down
  <2>3. Saving' BY <1>1 DEF AskSwitch, SwTypeOK, Request, Saving, SavedHasRun
  <2>4. Fresh' BY <1>1 DEF AskSwitch, SwTypeOK, Request, Fresh
  <2> QED BY <2>1, <2>2, <2>3, <2>4
<1>2. CASE AskReset(c)
  <2>1. SwTypeOK' BY <1>2 DEF AskReset, SwTypeOK, Request
  <2>2. Holder' /\ Pointing' /\ Configured' /\ Down'
    BY <1>2 DEF AskReset, SwTypeOK, Request, Holder, Pointing, Configured, Down
  <2>3. Saving' BY <1>2 DEF AskReset, SwTypeOK, Request, Saving, SavedHasRun
  <2>4. Fresh' BY <1>2 DEF AskReset, SwTypeOK, Request, Fresh
  <2> QED BY <2>1, <2>2, <2>3, <2>4
<1>3. CASE Lock(c)
  <2>1. SwTypeOK' BY <1>3 DEF Lock, SwTypeOK, Request
  <2>2. Holder' /\ Pointing' /\ Configured' /\ Down'
    BY <1>3 DEF Lock, MutexFree, SwTypeOK, Request, Holder, Pointing, Configured, Down
  <2>3. Saving' BY <1>3 DEF Lock, SwTypeOK, Request, Saving, SavedHasRun
  <2>4. Fresh' BY <1>3 DEF Lock, SwTypeOK, Request, Fresh
  <2> QED BY <2>1, <2>2, <2>3, <2>4
<1>4. CASE OpenFails(c)
  <2>0. panel' = [panel EXCEPT ![c] = NoRequest] /\ trust' \in BOOLEAN
    BY <1>4 DEF OpenFails, AfterFailure, SwTypeOK
  <2>1. SwTypeOK' BY <1>4, <2>0 DEF OpenFails, SwTypeOK, Request, NoRequest
  <2>2. Holder' /\ Pointing' /\ Configured' /\ Down'
    BY <1>4, <2>0 DEF OpenFails, SwTypeOK, Request, NoRequest, Holder, Pointing, Configured, Down
  <2>3. Saving' BY <1>4, <2>0 DEF OpenFails, SwTypeOK, Request, NoRequest, Saving, SavedHasRun
  <2>4. Fresh' BY <1>4, <2>0 DEF OpenFails, SwTypeOK, Request, NoRequest, Fresh
  <2> QED BY <2>1, <2>2, <2>3, <2>4
<1>5. CASE Repoint(c)
  <2>1. SwTypeOK' BY <1>5 DEF Repoint, SwTypeOK, Request
  <2>2. Holder' /\ Pointing' /\ Configured' /\ Down'
    BY <1>5 DEF Repoint, SwTypeOK, Request, Holder, Pointing, Configured, Down
  <2>3. Saving' BY <1>5 DEF Repoint, SwTypeOK, Request, Saving, SavedHasRun
  <2>4. Fresh' BY <1>5 DEF Repoint, SwTypeOK, Request, Fresh
  <2> QED BY <2>1, <2>2, <2>3, <2>4
<1>6. CASE SetConfig(c)
  <2>1. SwTypeOK' BY <1>6 DEF SetConfig, SwTypeOK, Request
  <2>2. Holder' /\ Pointing' /\ Configured' /\ Down'
    BY <1>6 DEF SetConfig, SwTypeOK, Request, Holder, Pointing, Configured, Down
  <2>3. Saving' BY <1>6 DEF SetConfig, SwTypeOK, Request, Saving, SavedHasRun
  <2>4. Fresh' BY <1>6 DEF SetConfig, SwTypeOK, Request, Fresh
  <2> QED BY <2>1, <2>2, <2>3, <2>4
<1>7. CASE RunHooks(c)
  <2>0. PICK pc \in {"idle", "save"}, r \in Request :
          /\ panel' = [panel EXCEPT ![c] = r] /\ r.pc = pc
          /\ pc = "save" => r.target = panel[c].target
          /\ trust' \in BOOLEAN
    <3>1. CASE panel[c].reset
      BY <1>7, <3>1 DEF RunHooks, SwTypeOK, Request, NoRequest
    <3>2. CASE ~panel[c].reset
      <4> DEFINE q == [panel[c] EXCEPT !.pc = "save"]
      <4>1. q \in Request /\ q.pc = "save" /\ q.target = panel[c].target
        BY DEF SwTypeOK, Request
      <4>2. panel' = [panel EXCEPT ![c] = q]
        BY <1>7, <3>2 DEF RunHooks, SwTypeOK, Request
      <4>3. trust' \in BOOLEAN BY <1>7, <3>2 DEF RunHooks, SwTypeOK
      <4> QED BY <4>1, <4>2, <4>3
    <3> QED BY <3>1, <3>2
  <2>1. SwTypeOK' BY <1>7, <2>0 DEF RunHooks, Notified, SwTypeOK
  <2>2. Holder' /\ Pointing' /\ Configured' /\ Down'
    BY <1>7, <2>0 DEF RunHooks, SwTypeOK, Holder, Pointing, Configured, Down
  <2>3. Saving' BY <1>7, <2>0 DEF RunHooks, SwTypeOK, Saving, SavedHasRun
  <2>4. Fresh' BY <1>7 DEF RunHooks, Notified, SwTypeOK, Fresh
  <2> QED BY <2>1, <2>2, <2>3, <2>4
<1>8. CASE SaveBegins(c)
  <2>1. SwTypeOK' BY <1>8 DEF SaveBegins, SwTypeOK, Request
  <2>2. Holder' /\ Pointing' /\ Configured' /\ Down'
    BY <1>8 DEF SaveBegins, SwTypeOK, Request, Holder, Pointing, Configured, Down
  <2>3. Saving' BY <1>8 DEF SaveBegins, SwTypeOK, Request, Saving, SavedHasRun
  <2>4. Fresh' BY <1>8 DEF SaveBegins, SwTypeOK, Request, Fresh
  <2> QED BY <2>1, <2>2, <2>3, <2>4
<1>9. CASE SaveEnds(c)
  <2>0. file' \in {file, panel[c].target, Torn}
    BY <1>9 DEF SaveEnds
  <2>1. SwTypeOK' BY <1>9, <2>0 DEF SaveEnds, SwTypeOK, Request, NoRequest
  <2>2. Holder' /\ Pointing' /\ Configured' /\ Down'
    BY <1>9 DEF SaveEnds, SwTypeOK, Request, NoRequest, Holder, Pointing, Configured, Down
  <2>3. Saving' BY <1>9, <2>0 DEF SaveEnds, SwTypeOK, Request, NoRequest, Saving, SavedHasRun
  <2>4. Fresh' BY <1>9 DEF SaveEnds, SwTypeOK, Request, NoRequest, Fresh
  <2> QED BY <2>1, <2>2, <2>3, <2>4
<1>10. CASE SaveFails(c)
  <2>1. SwTypeOK' BY <1>10 DEF SaveFails, SwTypeOK, Request, NoRequest
  <2>2. Holder' /\ Pointing' /\ Configured' /\ Down'
    BY <1>10 DEF SaveFails, SwTypeOK, Request, NoRequest, Holder, Pointing, Configured, Down
  <2>3. Saving' BY <1>10 DEF SaveFails, SwTypeOK, Request, NoRequest, Saving, SavedHasRun
  <2>4. Fresh' BY <1>10 DEF SaveFails, SwTypeOK, Request, NoRequest, Fresh
  <2> QED BY <2>1, <2>2, <2>3, <2>4
<1> QED
  BY <1>1, <1>2, <1>3, <1>4, <1>5, <1>6, <1>7, <1>8, <1>9, <1>10 DEF RequestNext

\* Every step of a loop preserves the invariant.
LEMMA LoopStep ==
  ASSUME SwInv, NEW s \in Schedulers, LoopNext(s)
  PROVE  SwInv'
<1> USE ConstantsOK DEF SwInv, SetLoop, store
<1>1. PICK rec \in Loop :
        /\ sched' = [sched EXCEPT ![s] = rec]
        /\ up \/ sched[s].pc # "off"
        /\ \/ rec.pc = "pass"
           \/ rec.pc = "read" /\ rec.db \in {live, None}
           \/ /\ rec.pc = "asleep" /\ rec.db = sched[s].db
              /\ sched[s].pc = "read" /\ wake' = wake
  <2>1. CASE StartScheduler(s)
    <3> DEFINE q == [pc |-> "pass", db |-> None]
    <3>1. q \in Loop /\ q.pc = "pass" BY DEF Loop
    <3> QED BY <2>1, <3>1 DEF StartScheduler
  <2>2. CASE PassReads(s)
    <3>1. CASE SetLoop(s, [pc |-> "read", db |-> live])
      <4> DEFINE q == [pc |-> "read", db |-> live]
      <4>1. q \in Loop /\ q.pc = "read" /\ q.db = live BY DEF Loop, SwTypeOK
      <4> QED BY <2>2, <3>1, <4>1 DEF PassReads
    <3>2. CASE SetLoop(s, [pc |-> "read", db |-> None])
      <4> DEFINE q == [pc |-> "read", db |-> None]
      <4>1. q \in Loop /\ q.pc = "read" /\ q.db = None BY DEF Loop
      <4> QED BY <2>2, <3>2, <4>1 DEF PassReads
    <3> QED BY <2>2, <3>1, <3>2 DEF PassReads
  <2>3. CASE Sleep(s)
    <3> DEFINE q == [sched[s] EXCEPT !.pc = "asleep"]
    <3>1. q \in Loop /\ q.pc = "asleep" /\ q.db = sched[s].db BY DEF Loop, SwTypeOK
    <3> QED BY <2>3, <3>1 DEF Sleep
  <2>4. CASE Wakes(s)
    <3> DEFINE q == [pc |-> "pass", db |-> None]
    <3>1. q \in Loop /\ q.pc = "pass" BY DEF Loop
    <3> QED BY <2>4, <3>1 DEF Wakes
  <2> QED BY <2>1, <2>2, <2>3, <2>4 DEF LoopNext
<1>2. UNCHANGED <<up, live, cfg, file, lock, panel, op, rows, ran, crowd, trust>>
  BY DEF LoopNext, StartScheduler, PassReads, Sleep, Wakes
<1>3. wake' \in [Schedulers -> BOOLEAN] /\ \A l \in Schedulers \ {s} : wake'[l] = wake[l]
  BY DEF LoopNext, StartScheduler, PassReads, Sleep, Wakes, SwTypeOK
<1>4. SwTypeOK' BY <1>1, <1>2, <1>3 DEF SwTypeOK
<1>5. Holder' /\ Pointing' /\ Configured' /\ Saving'
  BY <1>2 DEF Holder, Pointing, Configured, Saving, SavedHasRun
<1>6. Down' BY <1>1, <1>2 DEF Down, SwTypeOK
<1>7. Fresh'
  <2> SUFFICES ASSUME \A c \in Panel : panel[c].pc \notin {"pointed", "set"},
                      NEW l \in Schedulers,
                      sched'[l].pc \in {"read", "asleep"}, ~wake'[l]
               PROVE  sched'[l].db \in {live, None}
    BY <1>2 DEF Fresh
  <2>1. CASE l # s BY <1>1, <1>3, <2>1 DEF Fresh, SwTypeOK
  <2>2. CASE l = s
    <3>1. sched'[s] = rec BY <1>1 DEF SwTypeOK
    <3> QED BY <1>1, <2>2, <3>1 DEF Fresh
  <2> QED BY <2>1, <2>2
<1> QED BY <1>4, <1>5, <1>6, <1>7

\* Operations touch nothing the invariant is about but their own data.
LEMMA OpStep ==
  ASSUME SwInv, NEW o \in Ops, (\E r \in RowIds : OpReads(o, r)) \/ OpWrites(o)
  PROVE  SwInv'
<1> USE ConstantsOK DEF SwInv
<1>1. ASSUME NEW r \in RowIds, OpReads(o, r) PROVE SwInv'
  <2>1. SwTypeOK' BY <1>1 DEF OpReads, SwTypeOK, Operation
  <2> QED BY <1>1, <2>1 DEF OpReads, Holder, Pointing, Configured, Saving, SavedHasRun, Fresh, Down
<1>2. CASE OpWrites(o)
  <2>1. SwTypeOK' BY <1>2 DEF OpWrites, SwTypeOK, Operation, NoOp
  <2> QED BY <1>2, <2>1 DEF OpWrites, Holder, Pointing, Configured, Saving, SavedHasRun, Fresh, Down
<1> QED BY <1>1, <1>2

\* So do a crash and the next start.
LEMMA RestartStep == SwInv /\ (Crash \/ Boot) => SwInv'
<1> USE ConstantsOK DEF SwInv
<1>1. ASSUME SwInv, Crash PROVE SwInv'
  <2>1. SwTypeOK'
    BY <1>1 DEF Crash, SwTypeOK, Request, NoRequest, Loop, Off, Operation, NoOp
  <2> QED
    BY <1>1, <2>1 DEF Crash, NoRequest, Off, Holder, Pointing, Configured, Saving,
       SavedHasRun, Fresh, Down
<1>2. ASSUME SwInv, Boot PROVE SwInv'
  <2>1. SwTypeOK' BY <1>2 DEF Boot, runtime, Resolved, SwTypeOK
  <2>2. Holder' /\ Pointing' /\ Configured' /\ Down' /\ Fresh'
    BY <1>2 DEF Boot, runtime, Holder, Pointing, Configured, Down, Fresh
  <2>3. Saving' BY <1>2 DEF Boot, Resolved, Saving, SavedHasRun
  <2> QED BY <2>1, <2>2, <2>3
<1> QED BY <1>1, <1>2

-----------------------------------------------------------------------------
\* The inductive invariant, for every value of the constants.
LEMMA SwInductive == Spec => []SwInv
<1>1. SwInv /\ [Next]_vars => SwInv'
  <2> SUFFICES ASSUME SwInv, [Next]_vars PROVE SwInv'
    OBVIOUS
  <2>1. CASE Next
    <3>1. CASE \E c \in Panel, d \in Db : AskSwitch(c, d) \/ AskReset(c) \/ Lock(c) \/ RequestNext(c)
      BY <3>1, PanelStep
    <3>2. CASE \E s \in Schedulers : LoopNext(s)
      BY <3>2, LoopStep
    <3>3. CASE \E o \in Ops : (\E r \in RowIds : OpReads(o, r)) \/ OpWrites(o)
      BY <3>3, OpStep
    <3>4. CASE Crash \/ Boot
      BY <3>4, RestartStep
    <3> QED BY <2>1, <3>1, <3>2, <3>3, <3>4, ConstantsOK DEF Next
  <2>2. CASE UNCHANGED vars
    BY <2>2 DEF vars, SwInv, SwTypeOK, Holder, Pointing, Configured, Saving, SavedHasRun,
       Fresh, Down
  <2> QED BY <2>1, <2>2
<1> QED BY SwInitial, <1>1, PTL DEF Spec

\* Whatever the panel asks for, and whichever step of it fails or is cut off
\* by a crash, the database Config() reports outside a switch is the one the
\* calls of every repository go to.
THEOREM ReportedIsLive == Spec => []ConfigIsLive
<1>1. SwInv => ConfigIsLive
  BY ConstantsOK DEF SwInv, ConfigIsLive, Configured, Holder
<1> QED BY SwInductive, <1>1, PTL

\* The selection a restart reads was always run on by some instance.
THEOREM SavedWasRun == Spec => []SavedHasRun
<1>1. SwInv => SavedHasRun BY DEF SwInv, Saving
<1> QED BY SwInductive, <1>1, PTL

\* Outside a switch no scheduler sleeps on the old database's time, however
\* the loop's steps and the switch's interleave.
THEOREM TimersAreFresh == Spec => []FreshTimers
<1>1. SwInv => FreshTimers
  <2> SUFFICES ASSUME SwInv, lock = None PROVE FreshTimers
    BY DEF FreshTimers
  <2>1. \A c \in Panel : panel[c].pc \notin {"pointed", "set"}
    BY ConstantsOK DEF SwInv, Holder
  <2> QED BY <2>1 DEF SwInv, Fresh, FreshTimers
<1> QED BY SwInductive, <1>1, PTL

-----------------------------------------------------------------------------
(* What a restart comes back on.  A second invariant, on top of the first: *)
(* it follows the lone request from its asking to its end.                 *)

\* While no two requests of late have overlapped, at most one is under way.
Lone == ~crowd => \A c \in Panel : panel[c].pc # "idle" => Alone(c)

\* A reset goes to the environment's database, and saves nothing.
Resetting ==
  \A c \in Panel : panel[c].reset =>
    panel[c].pc \in {"asked", "locked", "pointed", "set"} /\ panel[c].target = Env

\* Nobody interferes with the lone request: a reset finds the file removed
\* and a switch finds its own target live and its own text in the file.
Undisturbed ==
  ~crowd => \A c \in Panel :
    /\ panel[c].reset => file = None
    /\ panel[c].pc \in {"save", "writing"} => live = panel[c].target
    /\ panel[c].pc = "writing" => file = Torn
    /\ panel[c].pc # "adrift"

\* A request from which on its end decides whether the selection is trusted.
Decides(c) ==
  \/ panel[c].reset
  \/ panel[c].pc \in {"pointed", "set", "save", "writing", "adrift"}

\* Without such a request, what was trusted still is: a request that has not
\* repointed the store has changed neither the file nor the live database.
Trusted == up /\ trust /\ (\A c \in Panel : ~Decides(c)) => Resolved = live

SelInv == Lone /\ Resetting /\ Undisturbed /\ Trusted

\* An instance that has just booted is on what was saved, whatever that is.
LEMMA SelInitial == Init => SelInv
  BY ConstantsOK DEF Init, SelInv, Lone, Resetting, Undisturbed, Trusted, Decides, NoRequest,
     Alone, Others

\* What a request ends on: a failed one distrusts, one that worked alone has
\* left the selection on the live database.
LEMMA SelRequest ==
  ASSUME SwInv, SelInv, NEW c \in Panel, RequestNext(c)
  PROVE  SelInv'
<1> USE ConstantsOK DEF SelInv, Step, Ends, runtime, Alone, Others
<1>0. panel \in [Panel -> Request] /\ trust \in BOOLEAN
  BY DEF SwInv, SwTypeOK
<1>1. CASE OpenFails(c)
  <2>1. panel' = [panel EXCEPT ![c] = NoRequest]
    BY <1>1 DEF OpenFails, AfterFailure
  <2>2. Lone' /\ Resetting' /\ Undisturbed'
    BY <1>0, <1>1, <2>1 DEF OpenFails, Request, NoRequest, Lone, Resetting, Undisturbed
  <2>3. trust' => trust /\ ~panel[c].reset
    BY <1>1 DEF OpenFails, AfterFailure
  <2>4. Trusted'
    BY <1>0, <1>1, <2>1, <2>3 DEF OpenFails, Request, NoRequest, Trusted, Decides, Resolved
  <2> QED BY <2>2, <2>4
<1>2. CASE Repoint(c)
  <2>1. Lone' /\ Resetting' /\ Undisturbed'
    BY <1>0, <1>2 DEF Repoint, Request, Lone, Resetting, Undisturbed
  <2>2. Trusted' BY <1>0, <1>2 DEF Repoint, Request, Trusted, Decides
  <2> QED BY <2>1, <2>2
<1>3. CASE SetConfig(c)
  <2>1. Lone' /\ Resetting' /\ Undisturbed'
    BY <1>0, <1>3 DEF SetConfig, Request, Lone, Resetting, Undisturbed
  <2>2. Trusted' BY <1>0, <1>3 DEF SetConfig, Request, Trusted, Decides
  <2> QED BY <2>1, <2>2
<1>4. CASE RunHooks(c)
  <2>1. live = panel[c].target
    BY <1>4 DEF RunHooks, SwInv, Pointing
  <2>2. CASE panel[c].reset
    <3>1. panel' = [panel EXCEPT ![c] = NoRequest] /\ (trust' => ~crowd)
      BY <1>4, <2>2 DEF RunHooks
    <3>2. Lone' /\ Resetting' /\ Undisturbed'
      BY <1>0, <1>4, <3>1 DEF RunHooks, Request, NoRequest, Lone, Resetting, Undisturbed
    <3>3. Trusted'
      <4>1. ~crowd => file = None /\ live = Env
        BY <2>1, <2>2 DEF Undisturbed, Resetting
      <4> QED BY <1>4, <3>1, <4>1 DEF RunHooks, Trusted, Resolved
    <3> QED BY <3>2, <3>3
  <2>3. CASE ~panel[c].reset
    <3>1. panel' = [panel EXCEPT ![c].pc = "save"] /\ trust' = trust
      BY <1>4, <2>3 DEF RunHooks
    <3>2. Lone' /\ Resetting'
      BY <1>0, <1>4, <2>3, <3>1 DEF RunHooks, Request, Lone, Resetting
    <3>3. Undisturbed'
      BY <1>0, <1>4, <2>1, <3>1 DEF RunHooks, Request, Undisturbed
    <3>4. Trusted' BY <1>0, <1>4, <3>1 DEF RunHooks, Request, Trusted, Decides
    <3> QED BY <3>2, <3>3, <3>4
  <2> QED BY <2>2, <2>3
<1>5. CASE SaveBegins(c)
  <2>1. ~panel[c].reset BY <1>5 DEF SaveBegins, Resetting
  <2>2. Lone' /\ Resetting'
    BY <1>0, <1>5, <2>1 DEF SaveBegins, Request, Lone, Resetting
  <2>3. Undisturbed'
    BY <1>0, <1>5, <2>1 DEF SaveBegins, Request, Undisturbed, Resetting, Lone
  <2>4. Trusted' BY <1>0, <1>5 DEF SaveBegins, Request, Trusted, Decides
  <2> QED BY <2>2, <2>3, <2>4
<1>6. CASE SaveEnds(c)
  <2>1. panel' = [panel EXCEPT ![c] = NoRequest] /\ (trust' => ~crowd)
    BY <1>6 DEF SaveEnds
  <2>2. Lone' /\ Resetting'
    BY <1>0, <1>6, <2>1 DEF SaveEnds, Request, NoRequest, Lone, Resetting
  <2>3. ASSUME ~crowd
        PROVE  /\ panel[c].pc = "writing" /\ file' = panel[c].target
               /\ live = panel[c].target
               /\ \A o \in Others(c) : panel[o].pc = "idle"
    BY <1>6, <2>3 DEF SaveEnds, Undisturbed, Lone
  <2>4. Undisturbed'
    BY <1>0, <1>6, <2>1, <2>3 DEF SaveEnds, Request, NoRequest, Undisturbed, Resetting
  <2>5. Trusted'
    BY <1>0, <1>6, <2>1, <2>3 DEF SaveEnds, Request, Trusted, Resolved
  <2> QED BY <2>2, <2>4, <2>5
<1>7. CASE SaveFails(c)
  <2>1. panel' = [panel EXCEPT ![c] = NoRequest] /\ ~trust'
    BY <1>7 DEF SaveFails
  <2>2. Lone' /\ Resetting' /\ Undisturbed'
    BY <1>0, <1>7, <2>1 DEF SaveFails, Request, NoRequest, Lone, Resetting, Undisturbed
  <2> QED BY <2>1, <2>2 DEF Trusted
<1> QED BY <1>1, <1>2, <1>3, <1>4, <1>5, <1>6, <1>7 DEF RequestNext

\* A request that is asked for, or let in, decides nothing yet, unless it is
\* a reset, which has removed the file.
LEMMA SelAsk ==
  ASSUME SwInv, SelInv, NEW c \in Panel, NEW d \in Db,
         AskSwitch(c, d) \/ AskReset(c) \/ Lock(c)
  PROVE  SelInv'
<1> USE ConstantsOK DEF SelInv, Step, runtime, Alone, Others
<1>0. panel \in [Panel -> Request]
  BY DEF SwInv, SwTypeOK
<1>1. CASE AskSwitch(c, d)
  <2>1. Lone' /\ Resetting' /\ Undisturbed'
    BY <1>0, <1>1, ZenonT(60) DEF AskSwitch, Request, Lone, Resetting, Undisturbed
  <2>2. Trusted' BY <1>0, <1>1 DEF AskSwitch, Request, Trusted, Decides, Resolved, Resetting
  <2> QED BY <2>1, <2>2
<1>2. CASE AskReset(c)
  <2>1. panel'[c].reset BY <1>0, <1>2 DEF AskReset
  <2>2. Lone' /\ Resetting'
    BY <1>0, <1>2 DEF AskReset, Request, Lone, Resetting
  <2>3. Undisturbed'
    BY <1>0, <1>2 DEF AskReset, Request, Undisturbed, Resetting
  <2>4. Trusted' BY <2>1 DEF Trusted, Decides
  <2> QED BY <2>2, <2>3, <2>4
<1>3. CASE Lock(c)
  <2>1. Lone' /\ Resetting' /\ Undisturbed'
    BY <1>0, <1>3 DEF Lock, Request, Lone, Resetting, Undisturbed
  <2>2. Trusted' BY <1>0, <1>3 DEF Lock, Request, Trusted, Decides, Resolved
  <2> QED BY <2>1, <2>2
<1> QED BY <1>1, <1>2, <1>3

\* A crash ends every request where it is; the next instance runs on what the
\* file then says.
LEMMA SelRestart == SwInv /\ SelInv /\ (Crash \/ Boot) => SelInv'
<1> USE DEF SelInv, Lone, Resetting, Undisturbed, Trusted, Decides, Resolved, Alone, Others
<1>1. SwInv /\ SelInv /\ Crash => SelInv'
  BY DEF Crash, NoRequest
<1>2. SwInv /\ SelInv /\ Boot => SelInv'
  BY DEF Boot, SwInv, Down
<1> QED BY <1>1, <1>2

\* Nothing else touches the file, the requests or the live database.
LEMMA SelInductive == Spec => []SelInv
<1>1. SwInv /\ SelInv /\ [Next]_vars => SelInv'
  <2> SUFFICES ASSUME SwInv, SelInv, [Next]_vars PROVE SelInv'
    OBVIOUS
  <2>1. CASE UNCHANGED <<up, live, file, panel, crowd, trust>>
    BY <2>1 DEF SelInv, Lone, Resetting, Undisturbed, Trusted, Decides, Resolved, Alone, Others
  <2>2. CASE \E c \in Panel, d \in Db : AskSwitch(c, d) \/ AskReset(c) \/ Lock(c)
    BY <2>2, SelAsk
  <2>3. CASE \E c \in Panel : RequestNext(c)
    BY <2>3, SelRequest
  <2>4. CASE Crash \/ Boot
    BY <2>4, SelRestart
  <2>5. CASE \E s \in Schedulers : LoopNext(s)
    BY <2>1, <2>5 DEF LoopNext, StartScheduler, PassReads, Sleep, Wakes, store
  <2>6. CASE \E o \in Ops : (\E r \in RowIds : OpReads(o, r)) \/ OpWrites(o)
    BY <2>1, <2>6 DEF OpReads, OpWrites
  <2> QED BY <2>1, <2>2, <2>3, <2>4, <2>5, <2>6, ConstantsOK DEF Next, vars
<1> QED BY SelInitial, SwInductive, <1>1, PTL DEF Spec

\* Once a switch or a reset that ran alone has been answered without an error
\* or a warning, a restart at any later moment comes back on the database
\* that is live, whatever requests fail, overlap or are cut off before that.
THEOREM RestartComesBack == Spec => []SelectionSurvives
<1>1. SwInv /\ SelInv => SelectionSurvives
  BY DEF SelInv, Trusted, Decides, Resetting, SelectionSurvives
<1> QED BY SwInductive, SelInductive, <1>1, PTL

=============================================================================
