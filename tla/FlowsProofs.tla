------------------------------ MODULE FlowsProofs ------------------------------
(* Theorems about flows: the recurring scheduler that starts them, for any *)
(* number of triggers, specs, clients and restarts and any length of time, *)
(* and the files they travel in, for any installs, plugins, profiles and   *)
(* documents and any number of changes to them.                            *)
EXTENDS TriggerScheduler, FlowFiles, FiniteSetTheorems, NaturalsInduction, TLAPS


\* The clocks of the loop and of the program agree, and a program that is
\* down has no timers.
ClocksAgree ==
  /\ booted <= now
  /\ sched.pc = "loop" => booted <= sched.at /\ sched.at <= now
  /\ sched.pc # "loop" => sched.list = NoList
  /\ sched.pc = "down" => \A t \in Trigger : armed[t] = 0

\* A schedule that is stored or being stored has a spec.
HasSpec ==
  /\ \A t \in Trigger : rows[t].state \in {"on", "off"} => rows[t].spec # NoSpec
  /\ \A c \in Clients : saves[c] # NoSave =>
       (saves[c].row.state \in {"on", "off"} => saves[c].row.spec # NoSpec)

\* As long as nobody has signalled, the pass under way has every enabled
\* schedule on its list or armed, and the one before has left it armed.
Covered ==
  ~wake => \A t \in Trigger : Enabled(t) =>
    /\ sched.pc = "loop" => t \in sched.seen /\ (sched.list[t] # NoSpec \/ armed[t] # 0)
    /\ sched.pc = "asleep" /\ sched.listed => armed[t] # 0

\* The wait of a pass is no longer than to the next fire of what it visited,
\* and so is the sleep, but for the time the pass took.
WaitFits ==
  /\ sched.pc = "loop" => \A t \in sched.seen :
       sched.list[t] = NoSpec => armed[t] > sched.at /\ sched.at + sched.wait <= armed[t]
  /\ sched.pc = "asleep" /\ sched.listed => \A t \in Trigger :
       armed[t] # 0 => sched.until <= armed[t] + sched.took

\* What fired late is neither enabled nor on the list any more.
LateIsOver ==
  \A t \in Trigger : late[t] # 0 => late[t] = 1 /\ ~Enabled(t) /\ sched.list[t] = NoSpec

\* Where no save gives a trigger another spec, the row, the saves under way,
\* the list, the map and the last fire all go by one.
OneSpec ==
  /\ \A c \in Clients : saves[c] # NoSave =>
       rows[saves[c].trigger].spec \in {NoSpec, saves[c].row.spec}
  /\ \A c, d \in Clients : saves[c] # NoSave /\ saves[d] # NoSave =>
       (saves[c].trigger = saves[d].trigger => saves[c].row.spec = saves[d].row.spec)
  /\ \A t \in Trigger : sched.list[t] # NoSpec => sched.list[t] = rows[t].spec
  /\ \A t \in Trigger : armed[t] # 0 =>
       rows[t].spec # NoSpec /\ armed[t] <= NextFire(rows[t].spec, now)
  /\ \A t \in Trigger : last[t].spec # NoSpec =>
       /\ last[t].spec = rows[t].spec
       /\ last[t].at <= now
       /\ sched.pc = "loop" => last[t].at <= sched.at
       /\ armed[t] # 0 => Occurs(last[t].spec, last[t].at, armed[t])

\* With one client a flow that is being given a trigger has no other.
OneClient == \A c, d \in Clients : c = d
OneTrigger ==
  /\ \A s, t \in Trigger :
       Exists(s) /\ Exists(t) /\ rows[s].flow = rows[t].flow => s = t
  /\ \A c \in Clients : saves[c] # NoSave => Single(saves[c].trigger, saves[c].row.flow)

TriggersInv ==
  /\ TTypeOK /\ ClocksAgree /\ HasSpec /\ Covered /\ SkipsMissed /\ WaitFits /\ LateIsOver
  /\ ~EditsSpec => OneSpec
  /\ OneClient => OneTrigger

-----------------------------------------------------------------------------
(* Fires of a spec                                                         *)

LEMMA DivBounds ==
  ASSUME NEW a \in Nat, NEW p \in Nat \ {0}
  PROVE  a \div p \in Nat /\ (a \div p) * p <= a /\ a < (a \div p + 1) * p
  OBVIOUS

LEMMA TimesGrows ==
  ASSUME NEW a \in Nat, NEW b \in Nat, NEW p \in Nat, a <= b
  PROVE  a * p <= b * p
  OBVIOUS

LEMMA DivGrows ==
  ASSUME NEW a \in Nat, NEW b \in Nat, NEW p \in Nat \ {0}, a <= b
  PROVE  a \div p <= b \div p
<1> DEFINE x == a \div p
           y == b \div p
<1>1. x \in Nat /\ y \in Nat /\ x * p <= a /\ b < (y + 1) * p BY DivBounds
<1> HIDE DEF x, y
<1>2. SUFFICES ASSUME y + 1 <= x PROVE FALSE BY <1>1
<1>3. (y + 1) * p <= x * p BY <1>1, <1>2, TimesGrows
<1>4. x * p \in Nat /\ (y + 1) * p \in Nat BY <1>1
<1> QED BY <1>1, <1>3, <1>4

LEMMA TimesDivides ==
  ASSUME NEW a \in Nat, NEW p \in Nat \ {0} PROVE (a * p) % p = 0
  OBVIOUS

\* A spec of the table is an interval or a cron, with a period.
LEMMA SpecTypes ==
  /\ NoSpec \notin Specs
  /\ \A spec \in Specs : spec.every \in BOOLEAN /\ spec.period \in Nat \ {0}
  BY TriggersOK DEF TriggersOK, NoSpec

\* The next fire is ahead, and no earlier the later one asks.
LEMMA NextFireAhead ==
  ASSUME NEW spec \in Specs, NEW at \in Nat
  PROVE  NextFire(spec, at) \in Nat /\ NextFire(spec, at) > at
<1> DEFINE p == spec.period
<1>1. p \in Nat \ {0} BY SpecTypes
<1> HIDE DEF p
<1>2. at + p \in Nat /\ at + p > at BY <1>1
<1>3. (at \div p + 1) * p \in Nat /\ (at \div p + 1) * p > at BY <1>1, DivBounds
<1> QED BY <1>2, <1>3 DEF NextFire, p

LEMMA NextFireGrows ==
  ASSUME NEW spec \in Specs, NEW a \in Nat, NEW b \in Nat, a <= b
  PROVE  NextFire(spec, a) <= NextFire(spec, b)
<1> DEFINE p == spec.period
<1>1. p \in Nat \ {0} BY SpecTypes
<1> HIDE DEF p
<1>2. a + p <= b + p BY <1>1
<1>3. a \div p <= b \div p /\ a \div p \in Nat /\ b \div p \in Nat BY <1>1, DivGrows, DivBounds
<1>4. (a \div p + 1) * p <= (b \div p + 1) * p
  <2> DEFINE x == a \div p + 1
             y == b \div p + 1
  <2>1. x \in Nat /\ y \in Nat /\ x <= y BY <1>3
  <2> HIDE DEF x, y
  <2>2. x * p <= y * p BY <1>1, <2>1, TimesGrows
  <2> QED BY <2>2 DEF x, y
<1> QED BY <1>2, <1>4 DEF NextFire, p

\* The next fire is an occurrence, and what occurred by one time has by a
\* later one.
LEMMA NextFireOccurs ==
  ASSUME NEW spec \in Specs, NEW i \in Nat, NEW at \in Nat, i <= at
  PROVE  Occurs(spec, i, NextFire(spec, at))
<1> DEFINE p == spec.period
<1>1. p \in Nat \ {0} /\ spec.every \in BOOLEAN BY SpecTypes
<1> HIDE DEF p
<1>2. CASE spec.every
  <2>1. at + p >= i + p BY <1>1
  <2> QED BY <1>2, <2>1 DEF Occurs, NextFire, p
<1>3. CASE ~spec.every
  <2> DEFINE k == (at \div p + 1) * p
  <2>1. k \in Nat /\ k > at BY <1>1, DivBounds
  <2>2. k % p = 0
    <3>1. at \div p + 1 \in Nat BY <1>1, DivBounds
    <3> QED BY <1>1, <3>1, TimesDivides
  <2> HIDE DEF k
  <2>3. k \in (i + 1)..k BY <2>1
  <2>4. \E n \in (i + 1)..k : n % p = 0 BY <2>2, <2>3
  <2>5. NextFire(spec, at) = k BY <1>3 DEF NextFire, p, k
  <2> QED BY <1>3, <2>4, <2>5 DEF Occurs, p
<1> QED BY <1>2, <1>3

LEMMA OccursLater ==
  ASSUME NEW spec \in Specs, NEW i \in Nat, NEW j \in Nat, NEW k \in Nat, j <= k,
         Occurs(spec, i, j)
  PROVE  Occurs(spec, i, k)
<1> DEFINE p == spec.period
<1>1. p \in Nat \ {0} BY SpecTypes
<1> HIDE DEF p
<1>2. CASE spec.every
  <2>1. j >= i + p BY <1>2 DEF Occurs, p
  <2>2. k >= i + p BY <1>1, <2>1
  <2> QED BY <1>2, <2>2 DEF Occurs, p
<1>3. CASE ~spec.every
  <2>1. PICK n \in (i + 1)..j : n % p = 0 BY <1>3 DEF Occurs, p
  <2>2. n \in (i + 1)..k BY <2>1
  <2>3. \E m \in (i + 1)..k : m % p = 0 BY <2>1, <2>2
  <2> QED BY <1>3, <2>3 DEF Occurs, p
<1> QED BY <1>2, <1>3


-----------------------------------------------------------------------------
\* An empty table and a loop about to make its first pass.
LEMMA TriggersInitial == Init => TriggersInv
<1> SUFFICES ASSUME Init PROVE TriggersInv
  OBVIOUS
<1>1. /\ now = 0 /\ saved = 0 /\ restarts = 0 /\ booted = 0 /\ wake = FALSE
      /\ rows = [t \in Trigger |-> NoRow] /\ saves = [c \in Clients |-> NoSave]
      /\ sched = Started /\ armed = [t \in Trigger |-> 0]
      /\ last = [t \in Trigger |-> [at |-> 0, spec |-> NoSpec]]
      /\ late = [t \in Trigger |-> 0]
  BY DEF Init
<1>2. NoRow \in Row /\ NoRow.state = "none" /\ NoRow.spec = NoSpec
  BY TriggersOK DEF TriggersOK, NoRow, Row
<1>3. 0 \in 0..MaxTime /\ 0 \in 0..MaxSaves /\ 0 \in 0..MaxRestarts /\ 0 \in 0..Fallback
  BY TriggersOK DEF TriggersOK
<1>4. Started \in Sched BY <1>3 DEF Started, Sched, NoList
<1>5. TTypeOK BY <1>1, <1>2, <1>3, <1>4 DEF TTypeOK
<1>6. ClocksAgree BY <1>1 DEF ClocksAgree, Started
<1>7. HasSpec BY <1>1, <1>2 DEF HasSpec
<1>8. Covered /\ WaitFits BY <1>1 DEF Covered, WaitFits, Started
<1>9. SkipsMissed /\ LateIsOver BY <1>1 DEF SkipsMissed, LateIsOver
<1>10. OneSpec BY <1>1, <1>2 DEF OneSpec, Started, NoList
<1>11. OneTrigger BY <1>1, <1>2 DEF OneTrigger, Exists
<1> QED BY <1>5, <1>6, <1>7, <1>8, <1>9, <1>10, <1>11 DEF TriggersInv

\* A stored spec is one of Specs, or none.
LEMMA StoredSpecs ==
  ASSUME TriggersInv, NEW t \in Trigger
  PROVE  /\ rows[t] \in Row /\ rows[t].spec \in Specs \cup {NoSpec}
         /\ sched \in Sched /\ sched.list[t] \in Specs \cup {NoSpec}
         /\ last[t] \in [at : 0..MaxTime, spec : Specs \cup {NoSpec}]
         /\ last[t].at \in Nat /\ last[t].spec \in Specs \cup {NoSpec}
         /\ armed[t] \in Nat /\ late[t] \in Nat
<1>1. /\ rows[t] \in Row /\ sched \in Sched /\ armed[t] \in Nat /\ late[t] \in Nat
      /\ last[t] \in [at : 0..MaxTime, spec : Specs \cup {NoSpec}]
  BY DEF TriggersInv, TTypeOK
<1>2. rows[t].spec \in Specs \cup {NoSpec} BY <1>1 DEF Row
<1>3. sched.list[t] \in Specs \cup {NoSpec} BY <1>1 DEF Sched
<1>4. last[t].at \in Nat /\ last[t].spec \in Specs \cup {NoSpec} BY <1>1
<1> QED BY <1>1, <1>2, <1>3, <1>4

LEMMA ClockTypes ==
  ASSUME TriggersInv
  PROVE  /\ MaxTime \in Nat /\ Fallback \in Nat
         /\ now \in Nat /\ now <= MaxTime /\ booted \in Nat /\ booted <= now
         /\ sched.at \in Nat /\ sched.at <= MaxTime
         /\ sched.wait \in Nat /\ sched.wait <= Fallback
         /\ sched.took \in Nat /\ sched.until \in Nat
<1>1. MaxTime \in Nat /\ Fallback \in Nat BY TriggersOK DEF TriggersOK
<1>2. /\ now \in 0..MaxTime /\ booted \in 0..MaxTime
      /\ sched.at \in 0..MaxTime /\ sched.wait \in 0..Fallback
      /\ sched.took \in 0..MaxTime /\ sched.until \in Nat
  BY DEF TriggersInv, TTypeOK, Sched
<1>3. booted <= now BY DEF TriggersInv, ClocksAgree
<1> QED BY <1>1, <1>2, <1>3

\* Time passes: what was armed in time still is.
LEMMA TickStep == ASSUME TriggersInv, Tick PROVE TriggersInv'
<1>1. /\ UNCHANGED <<rows, saves, saved, wake, sched, armed, restarts, booted, last, late>>
      /\ now < MaxTime /\ now' = now + 1
  BY DEF Tick
<1>2. now' \in Nat /\ now' \in 0..MaxTime /\ now <= now' BY <1>1, ClockTypes
<1>3. TTypeOK' BY <1>1, <1>2 DEF TriggersInv, TTypeOK
<1>4. ClocksAgree'
  <2>1. booted' <= now' BY <1>1, <1>2, ClockTypes
  <2>2. sched.pc = "loop" => sched.at <= now'
    <3>1. sched.pc = "loop" => sched.at <= now BY DEF TriggersInv, ClocksAgree
    <3> QED BY <1>1, <1>2, <3>1, ClockTypes
  <2> QED BY <1>1, <2>1, <2>2 DEF TriggersInv, ClocksAgree
<1>5. HasSpec' BY <1>1 DEF TriggersInv, HasSpec
<1>6. Covered' BY <1>1 DEF TriggersInv, Covered, Enabled
<1>7. SkipsMissed' BY <1>1 DEF TriggersInv, SkipsMissed
<1>8. WaitFits' BY <1>1 DEF TriggersInv, WaitFits
<1>9. LateIsOver' BY <1>1 DEF TriggersInv, LateIsOver, Enabled
<1>10. ASSUME ~EditsSpec PROVE OneSpec'
  <2>1. OneSpec BY <1>10 DEF TriggersInv
  <2>2. ASSUME NEW t \in Trigger, armed[t] # 0
        PROVE  rows[t].spec # NoSpec /\ armed[t] <= NextFire(rows[t].spec, now')
    <3>1. rows[t].spec # NoSpec /\ armed[t] <= NextFire(rows[t].spec, now)
      BY <2>1, <2>2 DEF OneSpec
    <3>2. rows[t].spec \in Specs BY <3>1, StoredSpecs
    <3>3. /\ NextFire(rows[t].spec, now) <= NextFire(rows[t].spec, now')
          /\ NextFire(rows[t].spec, now) \in Nat /\ NextFire(rows[t].spec, now') \in Nat
      BY <1>2, <3>2, ClockTypes, NextFireGrows, NextFireAhead
    <3> QED BY <3>1, <3>3, StoredSpecs
  <2>3. ASSUME NEW t \in Trigger, last[t].spec # NoSpec PROVE last[t].at <= now'
    <3>1. last[t].at <= now BY <2>1, <2>3 DEF OneSpec
    <3> QED BY <1>2, <3>1, StoredSpecs, ClockTypes
  <2> QED BY <1>1, <2>1, <2>2, <2>3 DEF OneSpec
<1>11. OneClient => OneTrigger' BY <1>1 DEF TriggersInv, OneTrigger, Exists, Single
<1> QED BY <1>3, <1>4, <1>5, <1>6, <1>7, <1>8, <1>9, <1>10, <1>11 DEF TriggersInv

\* A save that has passed its checks.
LEMMA BeginSaveStep ==
  ASSUME TriggersInv, NEW c \in Clients, NEW t \in Trigger, NEW row \in Row,
         BeginSave(c, t, row)
  PROVE  TriggersInv'
<1> DEFINE save == [trigger |-> t, row |-> row]
<1>1. /\ UNCHANGED <<now, rows, wake, sched, armed, restarts, booted, last, late>>
      /\ saves' = [saves EXCEPT ![c] = save]
      /\ saves[c] = NoSave
      /\ saved < MaxSaves /\ saved' = saved + 1
      /\ row.state \in {"on", "off"} => row.spec # NoSpec
      /\ ~EditsSpec => SameSpec(t, row.spec)
      /\ Single(t, row.flow)
  BY DEF BeginSave
<1>2. save \in Save /\ save.trigger = t /\ save.row = row BY DEF Save
<1> HIDE DEF save
<1>3. /\ saves' \in [Clients -> Save \cup {NoSave}] /\ saves'[c] = save
      /\ \A d \in Clients : d # c => saves'[d] = saves[d]
  BY <1>1, <1>2 DEF TriggersInv, TTypeOK
<1>4. saved' \in 0..MaxSaves
  <2>1. MaxSaves \in Nat /\ saved \in 0..MaxSaves BY TriggersOK DEF TriggersOK, TriggersInv, TTypeOK
  <2> QED BY <1>1, <2>1
<1>5. TTypeOK' BY <1>1, <1>3, <1>4 DEF TriggersInv, TTypeOK
<1>6. ClocksAgree' BY <1>1 DEF TriggersInv, ClocksAgree
<1>7. HasSpec'
  <2>1. \A d \in Clients : saves'[d] # NoSave =>
          (saves'[d].row.state \in {"on", "off"} => saves'[d].row.spec # NoSpec)
    <3> TAKE d \in Clients
    <3>1. CASE d = c BY <1>1, <1>2, <1>3, <3>1
    <3>2. CASE d # c BY <1>3, <3>2 DEF TriggersInv, HasSpec
    <3> QED BY <3>1, <3>2
  <2> QED BY <1>1, <2>1 DEF TriggersInv, HasSpec
<1>8. Covered' BY <1>1 DEF TriggersInv, Covered, Enabled
<1>9. SkipsMissed' BY <1>1 DEF TriggersInv, SkipsMissed
<1>10. WaitFits' BY <1>1 DEF TriggersInv, WaitFits
<1>11. LateIsOver' BY <1>1 DEF TriggersInv, LateIsOver, Enabled
<1>12. ASSUME ~EditsSpec PROVE OneSpec'
  <2>1. OneSpec BY <1>12 DEF TriggersInv
  <2>2. /\ rows[t].spec \in {NoSpec, row.spec}
        /\ \A d \in Clients : saves[d].trigger = t => saves[d].row.spec = row.spec
    BY <1>1, <1>12 DEF SameSpec
  <2>3. \A d \in Clients : saves'[d] # NoSave =>
          rows[saves'[d].trigger].spec \in {NoSpec, saves'[d].row.spec}
    <3> TAKE d \in Clients
    <3>1. CASE d = c BY <1>2, <1>3, <2>2, <3>1
    <3>2. CASE d # c BY <1>3, <2>1, <3>2 DEF OneSpec
    <3> QED BY <3>1, <3>2
  <2>4. \A d, e \in Clients : saves'[d] # NoSave /\ saves'[e] # NoSave =>
          (saves'[d].trigger = saves'[e].trigger => saves'[d].row.spec = saves'[e].row.spec)
    <3> TAKE d, e \in Clients
    <3>1. CASE d # c /\ e # c BY <1>3, <2>1, <3>1 DEF OneSpec
    <3>2. CASE d = c \/ e = c BY <1>2, <1>3, <2>2, <3>2
    <3> QED BY <3>1, <3>2
  <2> QED BY <1>1, <2>1, <2>3, <2>4 DEF OneSpec
<1>13. ASSUME OneClient PROVE OneTrigger'
  <2>1. \A d \in Clients : saves'[d].trigger = t /\ saves'[d].row = row
    BY <1>2, <1>3, <1>13 DEF OneClient
  <2>2. \A s \in Trigger \ {t} : Exists(s)' => rows'[s].flow # row.flow
    BY <1>1 DEF Single, Exists
  <2>3. \A d \in Clients : Single(saves[d].trigger, saves[d].row.flow)'
    BY <2>1, <2>2 DEF Single
  <2> QED BY <1>1, <1>13, <2>3 DEF TriggersInv, OneTrigger, Exists
<1> QED BY <1>5, <1>6, <1>7, <1>8, <1>9, <1>10, <1>11, <1>12, <1>13 DEF TriggersInv

\* The row of a save is written; a schedule wakes the loop.
LEMMA WriteSaveStep ==
  ASSUME TriggersInv, NEW c \in Clients, WriteSave(c)
  PROVE  TriggersInv'
<1> DEFINE t == saves[c].trigger
           row == saves[c].row
<1>1. /\ UNCHANGED <<now, saved, sched, armed, restarts, booted, last>>
      /\ saves[c] # NoSave
      /\ rows' = [rows EXCEPT ![t] = row]
      /\ saves' = [saves EXCEPT ![c] = NoSave]
      /\ wake' = (wake \/ Notifies(row))
      /\ late' = [late EXCEPT ![t] = 0]
  BY DEF WriteSave
<1>2. saves[c] \in Save /\ t \in Trigger /\ row \in Row
  <2>1. saves[c] \in Save BY <1>1 DEF TriggersInv, TTypeOK
  <2> QED BY <2>1 DEF Save
<1>3. row.state \in {"on", "off"} => row.spec # NoSpec BY <1>1 DEF TriggersInv, HasSpec
<1>4. ~EditsSpec => rows[t].spec \in {NoSpec, row.spec} BY <1>1 DEF TriggersInv, OneSpec
<1>5. OneClient => Single(t, row.flow) BY <1>1 DEF TriggersInv, OneTrigger
<1>6. ~EditsSpec => \A d \in Clients : saves[d] # NoSave =>
         (saves[d].trigger = t => saves[d].row.spec = row.spec)
  BY <1>1 DEF TriggersInv, OneSpec
<1> HIDE DEF t, row
<1>7. /\ rows' \in [Trigger -> Row] /\ rows'[t] = row
      /\ \A s \in Trigger : s # t => rows'[s] = rows[s]
  BY <1>1, <1>2 DEF TriggersInv, TTypeOK
<1>8. /\ saves' \in [Clients -> Save \cup {NoSave}] /\ saves'[c] = NoSave
      /\ \A d \in Clients : d # c => saves'[d] = saves[d]
  BY <1>1 DEF TriggersInv, TTypeOK
<1>9. /\ late' \in [Trigger -> Nat] /\ late'[t] = 0
      /\ \A s \in Trigger : s # t => late'[s] = late[s]
  BY <1>1, <1>2 DEF TriggersInv, TTypeOK
<1>10. ~wake' => ~wake /\ row.state = "webhook" BY <1>1 DEF Notifies
<1>11. TTypeOK'
  <2>1. wake' \in BOOLEAN BY <1>1 DEF TriggersInv, TTypeOK, Notifies
  <2> QED BY <1>1, <1>7, <1>8, <1>9, <2>1 DEF TriggersInv, TTypeOK
<1>12. ClocksAgree' BY <1>1 DEF TriggersInv, ClocksAgree
<1>13. HasSpec'
  <2>1. \A s \in Trigger : rows'[s].state \in {"on", "off"} => rows'[s].spec # NoSpec
    BY <1>3, <1>7 DEF TriggersInv, HasSpec
  <2> QED BY <1>8, <2>1 DEF TriggersInv, HasSpec
<1>14. Covered'
  <2> SUFFICES ASSUME ~wake', NEW s \in Trigger, Enabled(s)'
               PROVE  /\ sched.pc = "loop" => s \in sched.seen /\ (sched.list[s] # NoSpec \/ armed[s] # 0)
                      /\ sched.pc = "asleep" /\ sched.listed => armed[s] # 0
    BY <1>1 DEF Covered
  <2>1. s # t /\ Enabled(s) BY <1>7, <1>10 DEF Enabled
  <2> QED BY <1>10, <2>1 DEF TriggersInv, Covered
<1>15. SkipsMissed' BY <1>1 DEF TriggersInv, SkipsMissed
<1>16. WaitFits' BY <1>1 DEF TriggersInv, WaitFits
<1>17. LateIsOver' BY <1>1, <1>7, <1>9 DEF TriggersInv, LateIsOver, Enabled
<1>18. ASSUME ~EditsSpec PROVE OneSpec'
  <2>1. OneSpec BY <1>18 DEF TriggersInv
  <2>2. \A s \in Trigger : rows[s].spec # NoSpec => rows'[s].spec = rows[s].spec
    BY <1>4, <1>7, <1>18
  <2>3. \A d \in Clients : saves'[d] # NoSave =>
          rows'[saves'[d].trigger].spec \in {NoSpec, saves'[d].row.spec}
    <3> SUFFICES ASSUME NEW d \in Clients, saves'[d] # NoSave
                 PROVE  rows'[saves'[d].trigger].spec \in {NoSpec, saves'[d].row.spec}
      OBVIOUS
    <3>1. d # c /\ saves'[d] = saves[d] /\ saves[d] # NoSave BY <1>8
    <3>2. saves[d].trigger \in Trigger
      BY <3>1 DEF TriggersInv, TTypeOK, Save
    <3>3. CASE saves[d].trigger = t BY <1>6, <1>7, <1>18, <3>1, <3>3
    <3>4. CASE saves[d].trigger # t BY <1>7, <2>1, <3>1, <3>2, <3>4 DEF OneSpec
    <3> QED BY <3>3, <3>4
  <2>4. \A d, e \in Clients : saves'[d] # NoSave /\ saves'[e] # NoSave =>
          (saves'[d].trigger = saves'[e].trigger => saves'[d].row.spec = saves'[e].row.spec)
    BY <1>8, <2>1 DEF OneSpec
  <2>5. \A s \in Trigger : sched.list[s] # NoSpec => sched.list[s] = rows'[s].spec
    BY <2>1, <2>2 DEF OneSpec
  <2>6. \A s \in Trigger : armed[s] # 0 =>
          rows'[s].spec # NoSpec /\ armed[s] <= NextFire(rows'[s].spec, now)
    BY <2>1, <2>2 DEF OneSpec
  <2>7. \A s \in Trigger : last[s].spec # NoSpec => last[s].spec = rows'[s].spec
    BY <2>1, <2>2 DEF OneSpec
  <2> QED BY <1>1, <2>1, <2>3, <2>4, <2>5, <2>6, <2>7 DEF OneSpec
<1>19. ASSUME OneClient PROVE OneTrigger'
  <2>1. OneTrigger BY <1>19 DEF TriggersInv
  <2>2. \A d \in Clients : saves'[d] = NoSave BY <1>8, <1>19 DEF OneClient
  <2>3. \A s \in Trigger : s # t /\ Exists(s)' => rows'[s].flow # row.flow
    BY <1>5, <1>7, <1>19 DEF Single, Exists
  <2>4. \A s \in Trigger : s # t => (Exists(s)' <=> Exists(s)) /\ rows'[s].flow = rows[s].flow
    BY <1>7 DEF Exists
  <2>5. \A s, u \in Trigger : Exists(s)' /\ Exists(u)' /\ rows'[s].flow = rows'[u].flow => s = u
    <3> SUFFICES ASSUME NEW s \in Trigger, NEW u \in Trigger, Exists(s)', Exists(u)',
                        rows'[s].flow = rows'[u].flow
                 PROVE  s = u
      OBVIOUS
    <3>1. CASE s # t /\ u # t BY <2>1, <2>4, <3>1 DEF OneTrigger
    <3>2. CASE s = t \/ u = t BY <1>7, <2>3, <3>2
    <3> QED BY <3>1, <3>2
  <2> QED BY <2>2, <2>5 DEF OneTrigger
<1> QED BY <1>11, <1>12, <1>13, <1>14, <1>15, <1>16, <1>17, <1>18, <1>19 DEF TriggersInv


\* A trigger is deleted, and the loop woken.
LEMMA DeleteTriggerStep ==
  ASSUME TriggersInv, NEW t \in Trigger, DeleteTrigger(t)
  PROVE  TriggersInv'
<1> DEFINE row == [rows[t] EXCEPT !.state = "gone"]
<1>1. /\ UNCHANGED <<now, saves, saved, sched, armed, restarts, booted, last>>
      /\ rows' = [rows EXCEPT ![t] = row] /\ wake' = TRUE
      /\ late' = [late EXCEPT ![t] = 0]
  BY DEF DeleteTrigger
<1>2. /\ row \in Row /\ row.state = "gone" /\ row.spec = rows[t].spec /\ row.flow = rows[t].flow
  BY StoredSpecs DEF Row
<1> HIDE DEF row
<1>3. /\ rows' \in [Trigger -> Row] /\ rows'[t] = row
      /\ \A s \in Trigger : s # t => rows'[s] = rows[s]
  BY <1>1, <1>2 DEF TriggersInv, TTypeOK
<1>4. /\ late' \in [Trigger -> Nat] /\ late'[t] = 0
      /\ \A s \in Trigger : s # t => late'[s] = late[s]
  BY <1>1 DEF TriggersInv, TTypeOK
<1>5. \A s \in Trigger : rows'[s].spec = rows[s].spec /\ rows'[s].flow = rows[s].flow
  BY <1>2, <1>3
<1>6. TTypeOK' BY <1>1, <1>3, <1>4 DEF TriggersInv, TTypeOK
<1>7. ClocksAgree' BY <1>1 DEF TriggersInv, ClocksAgree
<1>8. HasSpec'
  <2>1. \A s \in Trigger : rows'[s].state \in {"on", "off"} => rows'[s].spec # NoSpec
    BY <1>2, <1>3 DEF TriggersInv, HasSpec
  <2> QED BY <1>1, <2>1 DEF TriggersInv, HasSpec
<1>9. Covered' BY <1>1 DEF Covered
<1>10. SkipsMissed' BY <1>1 DEF TriggersInv, SkipsMissed
<1>11. WaitFits' BY <1>1 DEF TriggersInv, WaitFits
<1>12. LateIsOver' BY <1>1, <1>3, <1>4 DEF TriggersInv, LateIsOver, Enabled
<1>13. ASSUME ~EditsSpec PROVE OneSpec'
  <2>1. OneSpec BY <1>13 DEF TriggersInv
  <2>2. \A c \in Clients : saves'[c] # NoSave =>
          rows'[saves'[c].trigger].spec \in {NoSpec, saves'[c].row.spec}
    <3> SUFFICES ASSUME NEW c \in Clients, saves[c] # NoSave
                 PROVE  rows'[saves[c].trigger].spec \in {NoSpec, saves[c].row.spec}
      BY <1>1
    <3>1. saves[c].trigger \in Trigger BY DEF TriggersInv, TTypeOK, Save
    <3>2. rows[saves[c].trigger].spec \in {NoSpec, saves[c].row.spec} BY <2>1 DEF OneSpec
    <3> QED BY <1>5, <3>1, <3>2
  <2>3. \A s \in Trigger : sched.list[s] # NoSpec => sched.list[s] = rows'[s].spec
    BY <1>5, <2>1 DEF OneSpec
  <2>4. \A s \in Trigger : armed[s] # 0 =>
          rows'[s].spec # NoSpec /\ armed[s] <= NextFire(rows'[s].spec, now)
    BY <1>5, <2>1 DEF OneSpec
  <2>5. \A s \in Trigger : last[s].spec # NoSpec => last[s].spec = rows'[s].spec
    BY <1>5, <2>1 DEF OneSpec
  <2> QED BY <1>1, <2>1, <2>2, <2>3, <2>4, <2>5 DEF OneSpec
<1>14. ASSUME OneClient PROVE OneTrigger'
  <2>1. OneTrigger BY <1>14 DEF TriggersInv
  <2>2. \A s \in Trigger : Exists(s)' => Exists(s) /\ rows'[s].flow = rows[s].flow
    BY <1>2, <1>3 DEF Exists
  <2> QED BY <1>1, <2>1, <2>2 DEF OneTrigger, Single
<1> QED BY <1>6, <1>7, <1>8, <1>9, <1>10, <1>11, <1>12, <1>13, <1>14 DEF TriggersInv

\* A pass begins with the enabled schedules as they are stored.
LEMMA BeginPassStep == ASSUME TriggersInv, BeginPass PROVE TriggersInv'
<1> DEFINE list == [t \in Trigger |-> IF t \in EnabledSchedules THEN rows[t].spec ELSE NoSpec]
<1>1. /\ UNCHANGED <<now, rows, saves, saved, armed, restarts, booted, last, late>>
      /\ sched.pc = "asleep" /\ wake' = FALSE
      /\ sched' = [sched EXCEPT !.pc = "loop", !.at = now, !.wait = Fallback,
                               !.seen = EnabledSchedules, !.until = 0, !.took = 0,
                               !.listed = FALSE, !.list = list]
  BY DEF BeginPass
<1>2. list \in [Trigger -> Specs \cup {NoSpec}] BY StoredSpecs
<1>3. \A t \in Trigger : list[t] = IF Enabled(t) THEN rows[t].spec ELSE NoSpec
  BY DEF EnabledSchedules
<1> HIDE DEF list
<1>4. sched \in Sched /\ now \in 0..MaxTime /\ 0 \in 0..MaxTime /\ Fallback \in 0..Fallback
  <2>1. sched \in Sched /\ now \in 0..MaxTime BY DEF TriggersInv, TTypeOK
  <2> QED BY <2>1, ClockTypes
<1>5. EnabledSchedules \subseteq Trigger BY DEF EnabledSchedules
<1>6. /\ sched' \in Sched /\ sched'.pc = "loop" /\ sched'.at = now
      /\ sched'.seen = EnabledSchedules /\ sched'.list = list /\ sched'.wait = Fallback
  BY <1>1, <1>2, <1>4, <1>5 DEF Sched
<1>7. \A t \in Trigger : Enabled(t) => list[t] # NoSpec
  BY <1>3 DEF TriggersInv, HasSpec, Enabled
<1>8. TTypeOK' BY <1>1, <1>6 DEF TriggersInv, TTypeOK
<1>9. ClocksAgree' BY <1>1, <1>6, ClockTypes DEF ClocksAgree
<1>10. HasSpec' BY <1>1 DEF TriggersInv, HasSpec
<1>11. Covered' BY <1>1, <1>6, <1>7 DEF Covered, Enabled, EnabledSchedules
<1>12. SkipsMissed' BY <1>1 DEF TriggersInv, SkipsMissed
<1>13. WaitFits' BY <1>6, <1>7 DEF WaitFits, EnabledSchedules
<1>14. LateIsOver' BY <1>1, <1>3, <1>6 DEF TriggersInv, LateIsOver, Enabled
<1>15. ASSUME ~EditsSpec PROVE OneSpec'
  <2>1. OneSpec BY <1>15 DEF TriggersInv
  <2>2. \A t \in Trigger : sched'.list[t] # NoSpec => sched'.list[t] = rows'[t].spec
    BY <1>1, <1>3, <1>6
  <2> QED BY <1>1, <1>6, <2>1, <2>2 DEF OneSpec
<1>16. OneClient => OneTrigger' BY <1>1 DEF TriggersInv, OneTrigger, Exists, Single
<1> QED BY <1>8, <1>9, <1>10, <1>11, <1>12, <1>13, <1>14, <1>15, <1>16 DEF TriggersInv

\* The loop sleeps with nothing on its list: after a failed listing, when it
\* starts, and while the program is down.
LEMMA NothingListed ==
  ASSUME TriggersInv, UNCHANGED <<now, rows, saved, last, late>>,
         sched' \in Sched, sched'.pc \in {"asleep", "down"}, sched'.list = NoList, ~sched'.listed,
         wake' \in BOOLEAN, restarts' \in 0..MaxRestarts, booted' \in {booted, now},
         saves' \in {saves, [c \in Clients |-> NoSave]},
         \/ armed' = [t \in Trigger |-> 0]
         \/ armed' = armed /\ sched'.pc = "asleep" /\ booted' = booted
  PROVE  TriggersInv'
<1>1. /\ armed' \in [Trigger -> Nat]
      /\ \A t \in Trigger : armed'[t] \in {0, armed[t]} /\ (sched'.pc = "down" => armed'[t] = 0)
      /\ booted' # booted => \A t \in Trigger : armed'[t] = 0
  BY StoredSpecs DEF TriggersInv, TTypeOK
<1>2. /\ saves' \in [Clients -> Save \cup {NoSave}]
      /\ \A c \in Clients : saves'[c] # NoSave => saves'[c] = saves[c]
  BY DEF TriggersInv, TTypeOK
<1>3. \A t \in Trigger : sched'.list[t] = NoSpec BY DEF NoList
<1>4. booted' \in 0..MaxTime /\ booted' <= now
  BY ClockTypes DEF TriggersInv, TTypeOK
<1>5. TTypeOK' BY <1>1, <1>2, <1>4 DEF TriggersInv, TTypeOK
<1>6. ClocksAgree' BY <1>1, <1>4 DEF ClocksAgree
<1>7. HasSpec' BY <1>2 DEF TriggersInv, HasSpec
<1>8. Covered' /\ WaitFits' BY DEF Covered, WaitFits
<1>9. SkipsMissed' BY <1>1 DEF TriggersInv, SkipsMissed
<1>10. LateIsOver' BY <1>3 DEF TriggersInv, LateIsOver, Enabled
<1>11. ASSUME ~EditsSpec PROVE OneSpec'
  <2>1. OneSpec BY <1>11 DEF TriggersInv
  <2>2. \A c \in Clients : saves'[c] # NoSave =>
          rows'[saves'[c].trigger].spec \in {NoSpec, saves'[c].row.spec}
    BY <1>2, <2>1 DEF OneSpec
  <2>3. \A c, d \in Clients : saves'[c] # NoSave /\ saves'[d] # NoSave =>
          (saves'[c].trigger = saves'[d].trigger => saves'[c].row.spec = saves'[d].row.spec)
    BY <1>2, <2>1 DEF OneSpec
  <2>4. \A t \in Trigger : armed'[t] # 0 =>
          rows'[t].spec # NoSpec /\ armed'[t] <= NextFire(rows'[t].spec, now')
    BY <1>1, <2>1 DEF OneSpec
  <2>5. \A t \in Trigger : last'[t].spec # NoSpec =>
          /\ last'[t].spec = rows'[t].spec
          /\ last'[t].at <= now'
          /\ armed'[t] # 0 => Occurs(last'[t].spec, last'[t].at, armed'[t])
    BY <1>1, <2>1 DEF OneSpec
  <2> QED BY <1>3, <2>2, <2>3, <2>4, <2>5 DEF OneSpec
<1>12. ASSUME OneClient PROVE OneTrigger'
  <2>1. OneTrigger BY <1>12 DEF TriggersInv
  <2>2. \A t \in Trigger : Exists(t)' <=> Exists(t) BY DEF Exists
  <2>3. \A c \in Clients : saves'[c] # NoSave => Single(saves'[c].trigger, saves'[c].row.flow)
    BY <1>2, <2>1 DEF OneTrigger
  <2> QED BY <2>1, <2>2, <2>3 DEF OneTrigger, Single
<1> QED BY <1>5, <1>6, <1>7, <1>8, <1>9, <1>10, <1>11, <1>12 DEF TriggersInv

LEMMA StartedTypes ==
  /\ Started \in Sched /\ Started.pc = "asleep" /\ Started.list = NoList /\ Started.listed = FALSE
<1>1. 0 \in 0..MaxTime /\ 0 \in 0..Fallback BY TriggersOK DEF TriggersOK
<1>2. NoList \in [Trigger -> Specs \cup {NoSpec}] BY DEF NoList
<1> QED BY <1>1, <1>2 DEF Started, Sched

LEMMA PassFailsStep == ASSUME TriggersInv, PassFails PROVE TriggersInv'
<1>1. /\ UNCHANGED <<now, rows, saves, saved, armed, restarts, booted, last, late>>
      /\ wake' = FALSE /\ sched' = [Started EXCEPT !.until = now + Fallback]
  BY DEF PassFails
<1>4. sched' \in Sched /\ sched'.pc = "asleep" /\ sched'.list = NoList /\ ~sched'.listed
  BY <1>1, ClockTypes, StartedTypes DEF Sched
<1>5. restarts \in 0..MaxRestarts BY DEF TriggersInv, TTypeOK
<1> QED BY <1>1, <1>4, <1>5, NothingListed

LEMMA GoDownStep == ASSUME TriggersInv, GoDown PROVE TriggersInv'
<1>1. /\ UNCHANGED <<now, rows, saved, booted, last, late>>
      /\ restarts < MaxRestarts /\ restarts' = restarts + 1
      /\ saves' = [c \in Clients |-> NoSave] /\ armed' = [t \in Trigger |-> 0]
      /\ wake' = FALSE /\ sched' = [Started EXCEPT !.pc = "down"]
  BY DEF GoDown
<1>4. sched' \in Sched /\ sched'.pc = "down" /\ sched'.list = NoList /\ ~sched'.listed
  BY <1>1, ClockTypes, StartedTypes DEF Sched
<1>5. restarts' \in 0..MaxRestarts
  <2>1. MaxRestarts \in Nat /\ restarts \in 0..MaxRestarts
    BY TriggersOK DEF TriggersOK, TriggersInv, TTypeOK
  <2> QED BY <1>1, <2>1
<1> QED BY <1>1, <1>4, <1>5, NothingListed

LEMMA BootStep == ASSUME TriggersInv, Boot PROVE TriggersInv'
<1>1. /\ UNCHANGED <<now, rows, saves, saved, wake, armed, restarts, last, late>>
      /\ sched.pc = "down" /\ sched' = Started /\ booted' = now
  BY DEF Boot
<1>4. sched' \in Sched /\ sched'.pc = "asleep" /\ sched'.list = NoList /\ ~sched'.listed
  BY <1>1, ClockTypes, StartedTypes DEF Sched
<1>5. restarts \in 0..MaxRestarts /\ wake \in BOOLEAN BY DEF TriggersInv, TTypeOK
<1>6. armed' = [t \in Trigger |-> 0]
  BY <1>1 DEF TriggersInv, TTypeOK, ClocksAgree
<1> QED BY <1>1, <1>4, <1>5, <1>6, NothingListed


\* The loop has dealt with a listed trigger, armed for `next`.
LEMMA VisitStep ==
  ASSUME TriggersInv, NEW t \in Trigger, NEW next \in Nat,
         sched.pc = "loop", sched.list[t] # NoSpec, next > sched.at,
         UNCHANGED <<now, rows, saves, saved, wake, restarts, booted>>,
         armed' = [armed EXCEPT ![t] = next], Visited(t, next),
         \/ UNCHANGED <<last, late>>
         \/ /\ last' = [last EXCEPT ![t] = [at |-> sched.at, spec |-> sched.list[t]]]
            /\ late' = [late EXCEPT ![t] = IF Enabled(t) THEN 0 ELSE @ + 1],
         ~EditsSpec => /\ next <= NextFire(rows[t].spec, now)
                       /\ last'[t].spec # NoSpec =>
                            Occurs(last'[t].spec, last'[t].at, next)
  PROVE  TriggersInv'
<1> DEFINE wait == ShortestWait(sched.wait, Minus(next, now))
           list == [sched.list EXCEPT ![t] = NoSpec]
<1>1. sched' = [sched EXCEPT !.list = list, !.wait = wait]
  BY StoredSpecs DEF Visited, Sched
<1>2. wait \in 0..Fallback /\ wait <= sched.wait /\ sched.at + wait <= next
  <2>1. sched.at <= now BY DEF TriggersInv, ClocksAgree
  <2> QED BY <2>1, ClockTypes DEF ShortestWait, Minus
<1>3. /\ list \in [Trigger -> Specs \cup {NoSpec}] /\ list[t] = NoSpec
      /\ \A s \in Trigger : s # t => list[s] = sched.list[s]
  BY StoredSpecs DEF Sched
<1> HIDE DEF wait, list
<1>4. /\ sched' \in Sched /\ sched'.list = list /\ sched'.wait = wait /\ sched'.pc = "loop"
      /\ sched'.at = sched.at /\ sched'.seen = sched.seen
  BY <1>1, <1>2, <1>3, StoredSpecs DEF Sched
<1>5. /\ armed' \in [Trigger -> Nat] /\ armed'[t] = next
      /\ \A s \in Trigger : s # t => armed'[s] = armed[s]
  BY DEF TriggersInv, TTypeOK
<1>6. next # 0 BY ClockTypes
<1>7. /\ last' \in [Trigger -> [at : 0..MaxTime, spec : Specs \cup {NoSpec}]]
      /\ \A s \in Trigger : s # t => last'[s] = last[s]
      /\ last'[t] = last[t] \/ (last'[t].at = sched.at /\ last'[t].spec = sched.list[t])
  <2>1. [at |-> sched.at, spec |-> sched.list[t]] \in [at : 0..MaxTime, spec : Specs \cup {NoSpec}]
    BY StoredSpecs DEF Sched
  <2> QED BY <2>1 DEF TriggersInv, TTypeOK
<1>8. late[t] = 0 BY DEF TriggersInv, LateIsOver
<1>9. /\ late' \in [Trigger -> Nat]
      /\ \A s \in Trigger : s # t => late'[s] = late[s]
      /\ late'[t] # 0 => late'[t] = 1 /\ ~Enabled(t)
  <2>1. late \in [Trigger -> Nat] BY DEF TriggersInv, TTypeOK
  <2>2. CASE late' = late BY <1>8, <2>1, <2>2
  <2>3. CASE late' = [late EXCEPT ![t] = IF Enabled(t) THEN 0 ELSE @ + 1]
    <3>1. CASE Enabled(t)
      <4>1. late' = [late EXCEPT ![t] = 0] BY <2>3, <3>1
      <4> QED BY <2>1, <4>1
    <3>2. CASE ~Enabled(t)
      <4>1. late' = [late EXCEPT ![t] = 1] BY <1>8, <2>1, <2>3, <3>2
      <4> QED BY <2>1, <3>2, <4>1
    <3> QED BY <3>1, <3>2
  <2> QED BY <2>2, <2>3
<1>10. TTypeOK' BY <1>4, <1>5, <1>7, <1>9 DEF TriggersInv, TTypeOK
<1>11. ClocksAgree' BY <1>4 DEF TriggersInv, ClocksAgree
<1>12. HasSpec' BY DEF TriggersInv, HasSpec
<1>13. Covered' BY <1>3, <1>4, <1>5, <1>6 DEF TriggersInv, Covered, Enabled
<1>14. SkipsMissed'
  <2>1. booted <= sched.at BY DEF TriggersInv, ClocksAgree
  <2>2. next > booted BY <2>1, ClockTypes
  <2> QED BY <1>5, <2>2 DEF TriggersInv, SkipsMissed
<1>15. WaitFits'
  <2> SUFFICES ASSUME NEW s \in sched.seen, list[s] = NoSpec
               PROVE  armed'[s] > sched.at /\ sched.at + wait <= armed'[s]
    BY <1>4 DEF WaitFits
  <2>1. CASE s = t BY <1>2, <1>5, <2>1
  <2>2. CASE s # t
    <3>1. s \in Trigger BY StoredSpecs DEF Sched
    <3>2. armed[s] > sched.at /\ sched.at + sched.wait <= armed[s]
      BY <1>3, <2>2, <3>1 DEF TriggersInv, WaitFits
    <3> QED BY <1>2, <1>5, <2>2, <3>1, <3>2, ClockTypes, StoredSpecs
  <2> QED BY <2>1, <2>2
<1>16. LateIsOver' BY <1>3, <1>4, <1>9 DEF TriggersInv, LateIsOver, Enabled
<1>17. ASSUME ~EditsSpec PROVE OneSpec'
  <2>1. OneSpec BY <1>17 DEF TriggersInv
  <2>2. sched.list[t] = rows[t].spec BY <2>1 DEF OneSpec
  <2>3. \A s \in Trigger : sched'.list[s] # NoSpec => sched'.list[s] = rows'[s].spec
    BY <1>3, <1>4, <2>1 DEF OneSpec
  <2>4. \A s \in Trigger : armed'[s] # 0 =>
          rows'[s].spec # NoSpec /\ armed'[s] <= NextFire(rows'[s].spec, now')
    BY <1>5, <1>17, <2>1, <2>2 DEF OneSpec
  <2>5. sched.at <= now BY DEF TriggersInv, ClocksAgree
  <2>6. ASSUME NEW s \in Trigger, last'[s].spec # NoSpec
        PROVE  /\ last'[s].spec = rows'[s].spec
               /\ last'[s].at <= now'
               /\ last'[s].at <= sched'.at
               /\ armed'[s] # 0 => Occurs(last'[s].spec, last'[s].at, armed'[s])
    <3>1. CASE s # t BY <1>4, <1>5, <1>7, <2>1, <2>6, <3>1 DEF OneSpec
    <3>2. CASE s = t
      <4>1. Occurs(last'[s].spec, last'[s].at, armed'[s]) BY <1>5, <1>17, <2>6, <3>2
      <4>2. last'[s].spec = rows'[s].spec /\ last'[s].at <= sched.at
        <5>1. CASE last'[t] = last[t] BY <2>1, <2>6, <3>2, <5>1 DEF OneSpec
        <5>2. CASE last'[t].at = sched.at /\ last'[t].spec = sched.list[t]
          BY <2>2, <3>2, <5>2, ClockTypes
        <5> QED BY <1>7, <5>1, <5>2
      <4>3. last'[s].at \in Nat BY <1>7
      <4> QED BY <1>4, <2>5, <4>1, <4>2, <4>3, ClockTypes
    <3> QED BY <3>1, <3>2
  <2> QED BY <2>1, <2>3, <2>4, <2>6 DEF OneSpec
<1>18. OneClient => OneTrigger' BY DEF TriggersInv, OneTrigger, Exists, Single
<1> QED BY <1>10, <1>11, <1>12, <1>13, <1>14, <1>15, <1>16, <1>17, <1>18 DEF TriggersInv

\* The next fire of a listed spec, from the pass's now.
LEMMA ListedFire ==
  ASSUME TriggersInv, NEW t \in Trigger, sched.pc = "loop", sched.list[t] # NoSpec
  PROVE  LET next == NextFire(sched.list[t], sched.at)
         IN /\ next \in Nat /\ next > sched.at
            /\ ~EditsSpec =>
                 /\ sched.list[t] = rows[t].spec
                 /\ next <= NextFire(rows[t].spec, now)
                 /\ Occurs(sched.list[t], sched.at, next)
                 /\ last[t].spec # NoSpec => Occurs(last[t].spec, last[t].at, next)
<1>1. sched.list[t] \in Specs BY StoredSpecs
<1>2. sched.at <= now BY DEF TriggersInv, ClocksAgree
<1>3. NextFire(sched.list[t], sched.at) \in Nat /\ NextFire(sched.list[t], sched.at) > sched.at
  BY <1>1, NextFireAhead, ClockTypes
<1>4. NextFire(sched.list[t], sched.at) <= NextFire(sched.list[t], now)
  BY <1>1, <1>2, NextFireGrows, ClockTypes
<1>5. Occurs(sched.list[t], sched.at, NextFire(sched.list[t], sched.at))
  <2>1. sched.at <= sched.at BY ClockTypes
  <2> QED BY <1>1, <2>1, NextFireOccurs, ClockTypes
<1>6. ASSUME ~EditsSpec
      PROVE  /\ sched.list[t] = rows[t].spec
             /\ last[t].spec # NoSpec => last[t].spec = rows[t].spec /\ last[t].at <= sched.at
  BY <1>6 DEF TriggersInv, OneSpec
<1>7. ASSUME ~EditsSpec, last[t].spec # NoSpec
      PROVE  Occurs(last[t].spec, last[t].at, NextFire(sched.list[t], sched.at))
  <2>1. last[t].spec = sched.list[t] /\ last[t].at <= sched.at /\ last[t].at \in Nat
    BY <1>6, <1>7, StoredSpecs
  <2>2. Occurs(sched.list[t], last[t].at, NextFire(sched.list[t], sched.at))
    BY <1>1, <2>1, NextFireOccurs, ClockTypes
  <2> QED BY <2>1, <2>2
<1> QED BY <1>3, <1>4, <1>5, <1>6, <1>7

LEMMA SkipStep == ASSUME TriggersInv, NEW t \in Trigger, Skip(t) PROVE TriggersInv'
<1> DEFINE next == IF armed[t] = 0 THEN NextFire(sched.list[t], sched.at) ELSE armed[t]
<1>1. /\ UNCHANGED <<now, rows, saves, saved, wake, restarts, booted, last, late>>
      /\ sched.pc = "loop" /\ sched.list[t] # NoSpec
      /\ armed' = [armed EXCEPT ![t] = next] /\ Visited(t, next)
  BY DEF Skip, FirstFire
<1>2. armed[t] # 0 => ~(armed[t] <= sched.at) BY DEF Skip, Due
<1>3. /\ next \in Nat /\ next > sched.at
      /\ ~EditsSpec => /\ next <= NextFire(rows[t].spec, now)
                       /\ last'[t].spec # NoSpec => Occurs(last'[t].spec, last'[t].at, next)
  <2>1. CASE armed[t] = 0 BY <1>1, <2>1, ListedFire
  <2>2. CASE armed[t] # 0
    <3>1. next = armed[t] /\ armed[t] \in Nat BY <2>2, StoredSpecs
    <3>2. armed[t] > sched.at BY <1>2, <2>2, <3>1, ClockTypes
    <3>3. ~EditsSpec => /\ armed[t] <= NextFire(rows[t].spec, now)
                        /\ last[t].spec # NoSpec => Occurs(last[t].spec, last[t].at, armed[t])
      BY <2>2 DEF TriggersInv, OneSpec
    <3> QED BY <1>1, <3>1, <3>2, <3>3
  <2> QED BY <2>1, <2>2
<1> HIDE DEF next
<1> QED BY <1>1, <1>3, VisitStep

LEMMA FireStep == ASSUME TriggersInv, NEW t \in Trigger, Fire(t) PROVE TriggersInv'
<1> DEFINE next == NextFire(sched.list[t], sched.at)
<1>1. /\ UNCHANGED <<now, rows, saves, saved, wake, restarts, booted>>
      /\ sched.pc = "loop" /\ sched.list[t] # NoSpec
      /\ armed' = [armed EXCEPT ![t] = next] /\ Visited(t, next)
      /\ \/ /\ last' = [last EXCEPT ![t] = [at |-> sched.at, spec |-> sched.list[t]]]
            /\ late' = [late EXCEPT ![t] = IF Enabled(t) THEN 0 ELSE @ + 1]
         \/ UNCHANGED <<last, late>>
  BY DEF Fire
<1>2. /\ next \in Nat /\ next > sched.at
      /\ ~EditsSpec => /\ next <= NextFire(rows[t].spec, now)
                       /\ Occurs(sched.list[t], sched.at, next)
                       /\ last[t].spec # NoSpec => Occurs(last[t].spec, last[t].at, next)
  BY <1>1, ListedFire
<1>3. \/ last'[t] = last[t]
      \/ last'[t].at = sched.at /\ last'[t].spec = sched.list[t]
  BY <1>1 DEF TriggersInv, TTypeOK
<1>4. ~EditsSpec /\ last'[t].spec # NoSpec => Occurs(last'[t].spec, last'[t].at, next)
  BY <1>2, <1>3
<1> HIDE DEF next
<1> QED BY <1>1, <1>2, <1>4, VisitStep

\* The pass is over: what was not listed is forgotten.
LEMMA EndPassStep == ASSUME TriggersInv, EndPass PROVE TriggersInv'
<1>1. /\ UNCHANGED <<now, rows, saves, saved, wake, restarts, booted, last, late>>
      /\ sched.pc = "loop" /\ sched.list = NoList
      /\ armed' = [t \in Trigger |-> IF t \in sched.seen THEN armed[t] ELSE 0]
      /\ sched' = [Started EXCEPT !.listed = TRUE, !.took = now - sched.at,
                                 !.until = now + sched.wait]
  BY DEF EndPass
<1>2. /\ now - sched.at \in 0..MaxTime /\ now + sched.wait \in Nat
      /\ sched.at <= now
  <2>1. sched.at <= now BY <1>1 DEF TriggersInv, ClocksAgree
  <2> QED BY <2>1, ClockTypes
<1>3. /\ sched' \in Sched /\ sched'.pc = "asleep" /\ sched'.list = NoList /\ sched'.listed
      /\ sched'.took = now - sched.at /\ sched'.until = now + sched.wait
  BY <1>1, <1>2, StartedTypes DEF Sched
<1>4. /\ armed' \in [Trigger -> Nat]
      /\ \A t \in Trigger : armed'[t] = IF t \in sched.seen THEN armed[t] ELSE 0
  BY <1>1, StoredSpecs
<1>5. \A t \in Trigger : sched.list[t] = NoSpec /\ sched'.list[t] = NoSpec
  BY <1>1, <1>3 DEF NoList
<1>6. TTypeOK' BY <1>1, <1>3, <1>4 DEF TriggersInv, TTypeOK
<1>7. ClocksAgree' BY <1>1, <1>3 DEF TriggersInv, ClocksAgree
<1>8. HasSpec' BY <1>1 DEF TriggersInv, HasSpec
<1>9. Covered' BY <1>1, <1>3, <1>4, <1>5 DEF TriggersInv, Covered, Enabled
<1>10. SkipsMissed' BY <1>1, <1>4 DEF TriggersInv, SkipsMissed
<1>11. WaitFits'
  <2> SUFFICES ASSUME NEW t \in Trigger, armed'[t] # 0
               PROVE  now + sched.wait <= armed'[t] + (now - sched.at)
    BY <1>3 DEF WaitFits
  <2>1. t \in sched.seen /\ armed'[t] = armed[t] BY <1>4
  <2>2. sched.at + sched.wait <= armed[t] BY <1>1, <1>5, <2>1 DEF TriggersInv, WaitFits
  <2> QED BY <1>2, <2>1, <2>2, ClockTypes, StoredSpecs
<1>12. LateIsOver' BY <1>1, <1>5 DEF TriggersInv, LateIsOver, Enabled
<1>13. ASSUME ~EditsSpec PROVE OneSpec'
  <2>1. OneSpec BY <1>13 DEF TriggersInv
  <2>2. \A t \in Trigger : armed'[t] # 0 => armed'[t] = armed[t] BY <1>4
  <2> QED BY <1>1, <1>3, <1>5, <2>1, <2>2 DEF OneSpec
<1>14. OneClient => OneTrigger' BY <1>1 DEF TriggersInv, OneTrigger, Exists, Single
<1> QED BY <1>6, <1>7, <1>8, <1>9, <1>10, <1>11, <1>12, <1>13, <1>14 DEF TriggersInv

LEMMA TriggersUnmoved == ASSUME TriggersInv, UNCHANGED vars PROVE TriggersInv'
<1>1. UNCHANGED <<now, rows, saves, saved, wake, sched, armed, restarts, booted, last, late>>
  BY DEF vars
<1>2. TTypeOK' BY <1>1 DEF TriggersInv, TTypeOK
<1>3. ClocksAgree' BY <1>1 DEF TriggersInv, ClocksAgree
<1>4. HasSpec' BY <1>1 DEF TriggersInv, HasSpec
<1>5. Covered' BY <1>1 DEF TriggersInv, Covered, Enabled
<1>6. SkipsMissed' /\ WaitFits' BY <1>1 DEF TriggersInv, SkipsMissed, WaitFits
<1>7. LateIsOver' BY <1>1 DEF TriggersInv, LateIsOver, Enabled
<1>8. ~EditsSpec => OneSpec' BY <1>1 DEF TriggersInv, OneSpec
<1>9. OneClient => OneTrigger' BY <1>1 DEF TriggersInv, OneTrigger, Exists, Single
<1> QED BY <1>2, <1>3, <1>4, <1>5, <1>6, <1>7, <1>8, <1>9 DEF TriggersInv

\* Every step keeps the invariant.
LEMMA TriggersStep == TriggersInv /\ [Next]_vars => TriggersInv'
<1> SUFFICES ASSUME TriggersInv, [Next]_vars PROVE TriggersInv'
  OBVIOUS
<1>1. CASE Tick BY <1>1, TickStep
<1>2. ASSUME NEW c \in Clients, NEW t \in Trigger, NEW row \in Row, BeginSave(c, t, row)
      PROVE  TriggersInv'
  BY <1>2, BeginSaveStep
<1>3. ASSUME NEW c \in Clients, WriteSave(c) PROVE TriggersInv' BY <1>3, WriteSaveStep
<1>4. ASSUME NEW t \in Trigger, DeleteTrigger(t) PROVE TriggersInv' BY <1>4, DeleteTriggerStep
<1>5. CASE BeginPass BY <1>5, BeginPassStep
<1>6. CASE PassFails BY <1>6, PassFailsStep
<1>7. ASSUME NEW t \in Trigger, Skip(t) \/ Fire(t) PROVE TriggersInv'
  BY <1>7, SkipStep, FireStep
<1>8. CASE EndPass BY <1>8, EndPassStep
<1>9. CASE GoDown BY <1>9, GoDownStep
<1>10. CASE Boot BY <1>10, BootStep
<1> QED BY <1>1, <1>2, <1>3, <1>4, <1>5, <1>6, <1>7, <1>8, <1>9, <1>10, TriggersUnmoved
        DEF Next, LoopNext

LEMMA TriggersAlways == Spec => []TriggersInv
  BY TriggersInitial, TriggersStep, PTL DEF Spec

-----------------------------------------------------------------------------
\* Where saves do not change the spec of a trigger, the sleeping loop has every
\* enabled schedule armed by its stored spec, in time for its next fire.
THEOREM SchedulesAreArmed == ASSUME ~EditsSpec PROVE Spec => []ArmedBySpec
<1>1. TriggersInv => ArmedBySpec
  <2> SUFFICES ASSUME TriggersInv, Resting, NEW t \in Trigger, Enabled(t)
               PROVE  armed[t] # 0 /\ armed[t] <= NextFire(rows[t].spec, now)
    BY DEF ArmedBySpec
  <2>1. armed[t] # 0 BY DEF Resting, TriggersInv, Covered
  <2> QED BY <2>1 DEF TriggersInv, OneSpec
<1> QED BY <1>1, TriggersAlways, PTL

\* The loop sleeps past no fire for longer than its pass took, and nothing is
\* armed for a time before the program came back, whatever is saved.
THEOREM WakesInTime == Spec => []NotOverslept
<1>1. TriggersInv => NotOverslept BY DEF TriggersInv, NotOverslept, WaitFits, Resting
<1> QED BY <1>1, TriggersAlways, PTL

\* A disabled or deleted trigger fires once more at most.
THEOREM LateOnce == Spec => []LateAtMostOnce
<1>1. TriggersInv => LateAtMostOnce
  <2> SUFFICES ASSUME TriggersInv, NEW t \in Trigger PROVE late[t] <= 1
    BY DEF LateAtMostOnce
  <2>1. late[t] = 0 \/ late[t] = 1 BY DEF TriggersInv, LateIsOver
  <2> QED BY <2>1
<1> QED BY <1>1, TriggersAlways, PTL

\* One client at a time never gives a workflow a second trigger.
THEOREM OneForEachFlow == ASSUME OneClient PROVE Spec => []OneTriggerPerFlow
<1>1. TriggersInv => OneTriggerPerFlow BY DEF TriggersInv, OneTriggerPerFlow, OneTrigger
<1> QED BY <1>1, TriggersAlways, PTL

\* Where saves do not change the spec of a trigger, an occurrence of it lies
\* between two fires.
THEOREM FiresOnSchedule == ASSUME ~EditsSpec PROVE Spec => OnSchedule
<1>1. ASSUME TriggersInv, [Next]_vars, NEW t \in Trigger, last'[t] # last[t],
             last'[t].spec = last[t].spec
      PROVE  Occurs(last[t].spec, last[t].at, last'[t].at)
  <2>1. Fire(t) /\ last'[t] = [at |-> sched.at, spec |-> sched.list[t]]
    <3>1. PICK s \in Trigger : Fire(s)
      BY <1>1 DEF Next, LoopNext, vars, Tick, BeginSave, WriteSave, DeleteTrigger, BeginPass,
                  PassFails, Skip, EndPass, GoDown, Boot
    <3>2. last' = [last EXCEPT ![s] = [at |-> sched.at, spec |-> sched.list[s]]]
      BY <1>1, <3>1 DEF Fire
    <3> QED BY <1>1, <3>1, <3>2 DEF TriggersInv, TTypeOK
  <2>2. /\ sched.list[t] # NoSpec /\ sched.list[t] = last[t].spec
        /\ armed[t] # 0 /\ armed[t] <= sched.at
    BY <1>1, <2>1 DEF Fire, Due
  <2>3. Occurs(last[t].spec, last[t].at, armed[t]) BY <1>1, <2>2 DEF TriggersInv, OneSpec
  <2>4. last[t].spec \in Specs /\ last[t].at \in Nat /\ armed[t] \in Nat /\ sched.at \in Nat
    BY <1>1, <2>2, StoredSpecs, ClockTypes
  <2>5. Occurs(last[t].spec, last[t].at, sched.at) BY <2>2, <2>3, <2>4, OccursLater
  <2> QED BY <2>1, <2>5
<1>2. TriggersInv /\ [Next]_vars => [Apart]_vars
  <2> SUFFICES ASSUME TriggersInv, [Next]_vars PROVE Apart
    OBVIOUS
  <2> QED BY <1>1 DEF Apart, FiredAgain
<1> QED BY <1>2, TriggersAlways, PTL DEF Spec, OnSchedule

-----------------------------------------------------------------------------
(* Flow files: lists and orders.  The least element of a set of numbers    *)
(* stands in for induction: a least counterexample is taken apart.         *)

LEMMA LeastNat ==
  ASSUME NEW T, T \subseteq Nat, T # {}
  PROVE  \E n \in T : \A m \in T : n <= m
<1> DEFINE R == OpToRel(<, Nat)
<1>1. IsWellFoundedOn(R, Nat)
  BY NatLessThanWellFounded
<1>2. \A x \in Nat, y \in Nat : y < x => <<y, x>> \in R
  BY DEF OpToRel
<1> HIDE DEF R
<1>3. \E x \in T : \A y \in T : ~ (<<y, x>> \in R)
  BY <1>1, WFMin
<1>4. PICK x \in T : \A y \in T : ~ (<<y, x>> \in R)
  BY <1>3
<1>5. ASSUME NEW y \in T PROVE x <= y
  <2>1. ~(y < x)
    BY <1>2, <1>4
  <2>2. x \in Nat /\ y \in Nat OBVIOUS
  <2> QED BY <2>1, <2>2
<1> QED BY <1>5

\* A list is empty or has a first element.
LEMMA ListStarts ==
  ASSUME NEW s, IsList(s)
  PROVE  /\ DOMAIN s = 1..Len(s) /\ Len(s) \in Nat
         /\ s # <<>> => 1 \in DOMAIN s
<1>1. Len(s) \in Nat /\ s = [k \in 1..Len(s) |-> s[k]] BY Zenon DEF IsList
<1> DEFINE n == Len(s)
<1> HIDE DEF n
<1>2. n \in Nat /\ s = [k \in 1..n |-> s[k]] BY <1>1, Zenon DEF n
<1>3. DOMAIN s = 1..n BY <1>2
<1>4. ASSUME n = 0 PROVE s = <<>>
  <2>1. s = [k \in {} |-> s[k]] BY <1>2, <1>4
  <2>2. \A f, g : f = [k \in {} |-> s[k]] /\ g = [k \in {} |-> g[k]] => f = g OBVIOUS
  <2>3. <<>> = [k \in {} |-> <<>>[k]] OBVIOUS
  <2> QED BY <2>1, <2>2, <2>3
<1>5. n # 0 => 1 \in 1..n BY <1>2
<1> QED BY <1>2, <1>3, <1>4, <1>5 DEF n

\* A function is not changed by being made once.
LEMMA MadeIs ==
  ASSUME NEW f
  PROVE  Made(f) = f
BY DEF Made

\* Of a finite set of numbers each place is taken.
LEMMA RankTaken ==
  ASSUME NEW S, IsFiniteSet(S), S \subseteq Nat, NEW k \in 1..Cardinality(S)
  PROVE  \E x \in S : Cardinality({y \in S : y < x}) = k - 1
<1>0. Cardinality(S) \in Nat BY FS_CardinalityType
<1> DEFINE Bad == {m \in 1..Cardinality(S) :
                     ~ \E x \in S : Cardinality({y \in S : y < x}) = m - 1}
<1>1. SUFFICES ASSUME Bad # {} PROVE FALSE
  OBVIOUS
<1>2. Bad \subseteq Nat BY <1>0
<1>3. PICK m \in Bad : \A l \in Bad : m <= l
  BY <1>1, <1>2, LeastNat
<1>4. m \in 1..Cardinality(S) /\ ~ \E x \in S : Cardinality({y \in S : y < x}) = m - 1
  BY <1>3
<1>5. CASE m = 1
  <2>1. S # {} BY <1>0, <1>4, FS_EmptySet
  <2>2. PICK x \in S : \A y \in S : x <= y BY <2>1, LeastNat
  <2>3. {y \in S : y < x} = {}
    <3>1. ASSUME NEW y \in S PROVE ~(y < x)
      <4>1. x \in Nat /\ y \in Nat /\ x <= y BY <2>2
      <4> QED BY <4>1
    <3> QED BY <3>1
  <2>4. Cardinality({y \in S : y < x}) = 0 BY <2>3, FS_EmptySet
  <2>5. m - 1 = 0 BY <1>5
  <2> QED BY <2>4, <2>5, <1>4
<1>6. CASE m # 1
  <2>1. m \in Nat /\ m - 1 \in 1..Cardinality(S) /\ m - 1 < m BY <1>0, <1>4, <1>6
  <2>2. m - 1 \notin Bad BY <1>2, <1>3, <2>1
  <2>3. PICK x \in S : Cardinality({y \in S : y < x}) = m - 2
    BY <2>1, <2>2
  <2> DEFINE B == {y \in S : y < x}
  <2>4. IsFiniteSet(B) BY FS_Subset
  <2>5. x \notin B OBVIOUS
  <2>6. IsFiniteSet(B \cup {x}) /\ Cardinality(B \cup {x}) = m - 1
    <3>1. IsFiniteSet(B \cup {x}) /\ Cardinality(B \cup {x}) = Cardinality(B) + 1
      <4> HIDE DEF B
      <4> QED BY <2>4, <2>5, FS_AddElement
    <3>2. Cardinality(B) + 1 = m - 1 BY <2>1, <2>3
    <3> QED BY <3>1, <3>2
  <2>7. S \ (B \cup {x}) # {}
    <3>1. SUFFICES ASSUME S \ (B \cup {x}) = {} PROVE FALSE OBVIOUS
    <3>2. S = B \cup {x} BY <3>1
    <3>3. Cardinality(S) = m - 1 BY <3>2, <2>6
    <3> HIDE DEF B, Bad
    <3> QED BY <3>3, <1>0, <1>4
  <2>8. PICK z \in S \ (B \cup {x}) : \A y \in S \ (B \cup {x}) : z <= y
    BY <2>7, LeastNat
  <2>9. {y \in S : y < z} = B \cup {x}
    <3>1. ASSUME NEW y \in S, y < z PROVE y \in B \cup {x} BY <2>8, <3>1
    <3>2. x < z BY <2>8
    <3>3. ASSUME NEW y \in B PROVE y \in S /\ y < z BY <3>2
    <3> HIDE DEF B
    <3> QED BY <3>1, <3>2, <3>3
  <2>10. Cardinality({y \in S : y < z}) = m - 1 BY <2>6, <2>9
  <2> QED BY <2>8, <2>10, <1>4
<1> QED BY <1>5, <1>6

\* InOrder lists the elements of the set.
LEMMA InOrderLists ==
  ASSUME NEW S, IsFiniteSet(S), S \subseteq Nat
  PROVE  /\ Cardinality(S) \in Nat
         /\ DOMAIN InOrder(S) = 1..Cardinality(S)
         /\ \A k \in DOMAIN InOrder(S) : InOrder(S)[k] \in S
<1> DEFINE list == [k \in 1..Cardinality(S) |->
                      CHOOSE x \in S : Cardinality({y \in S : y < x}) = k - 1]
<1>1. InOrder(S) = list BY MadeIs DEF InOrder
<1>2. Cardinality(S) \in Nat BY FS_CardinalityType
<1>3. ASSUME NEW k \in 1..Cardinality(S) PROVE list[k] \in S
  <2>1. \E x \in S : Cardinality({y \in S : y < x}) = k - 1 BY RankTaken
  <2> QED BY <2>1
<1> HIDE DEF list
<1>4. DOMAIN list = 1..Cardinality(S) BY DEF list
<1> QED BY <1>1, <1>2, <1>3, <1>4

\* A search stops at one of the places found, and at none after another.
LEMMA EarliestIs ==
  ASSUME NEW S, S \subseteq Nat, S # {}
  PROVE  Earliest(S) \in S /\ \A l \in S : Earliest(S) <= l
<1>1. \E k \in S : \A l \in S : k <= l BY LeastNat
<1> QED BY <1>1, Zenon DEF Earliest

\* Each number of a set has its place in the order.
LEMMA InOrderOnto ==
  ASSUME NEW S, IsFiniteSet(S), S \subseteq Nat, NEW x \in S
  PROVE  \E k \in DOMAIN InOrder(S) : InOrder(S)[k] = x
<1> DEFINE B(z) == {y \in S : y < z}
<1>1. ASSUME NEW z \in S, NEW w \in S, z < w
      PROVE  Cardinality(B(z)) < Cardinality(B(w))
  <2>1. IsFiniteSet(B(z)) /\ IsFiniteSet(B(w)) BY FS_Subset
  <2>2. B(z) \subseteq B(w) /\ w \notin B(w) /\ z \in B(w) /\ z \notin B(z)
    <3>1. ASSUME NEW y \in S, y < z PROVE y < w
      <4>1. y \in Nat /\ z \in Nat /\ w \in Nat OBVIOUS
      <4> QED BY <1>1, <3>1, <4>1
    <3>2. z \in Nat /\ w \in Nat /\ ~(w < w) /\ ~(z < z) BY SMT
    <3>3. B(z) \subseteq B(w) BY <3>1
    <3>4. w \notin B(w) /\ z \notin B(z) BY <3>2
    <3>5. z \in B(w) BY <1>1
    <3> QED BY <3>3, <3>4, <3>5
  <2>3. B(z) # B(w) BY <2>2
  <2> HIDE DEF B
  <2>4. Cardinality(B(z)) \in Nat /\ Cardinality(B(w)) \in Nat BY <2>1, FS_CardinalityType
  <2>5. Cardinality(B(z)) <= Cardinality(B(w)) /\ Cardinality(B(z)) # Cardinality(B(w))
    BY <2>1, <2>2, <2>3, FS_Subset
  <2> QED BY <2>4, <2>5
<1>2. IsFiniteSet(B(x)) /\ Cardinality(B(x)) \in Nat BY FS_Subset, FS_CardinalityType
<1>3. Cardinality(B(x)) < Cardinality(S) /\ Cardinality(S) \in Nat
  <2>1. B(x) \subseteq S /\ x \notin B(x)
    <3>1. x \in Nat OBVIOUS
    <3> QED BY <3>1
  <2>2. B(x) # S BY <2>1
  <2> HIDE DEF B
  <2>3. Cardinality(S) \in Nat BY FS_CardinalityType
  <2>4. Cardinality(B(x)) <= Cardinality(S) /\ Cardinality(B(x)) # Cardinality(S)
    BY <2>1, <2>2, FS_Subset
  <2> QED BY <1>2, <2>3, <2>4
<1> DEFINE k == Cardinality(B(x)) + 1
           list == [j \in 1..Cardinality(S) |->
                      CHOOSE z \in S : Cardinality({y \in S : y < z}) = j - 1]
<1>4. InOrder(S) = list BY MadeIs DEF InOrder
<1>5. k \in 1..Cardinality(S) /\ k - 1 = Cardinality(B(x)) BY <1>2, <1>3
<1> DEFINE z == CHOOSE z \in S : Cardinality(B(z)) = k - 1
<1>6. list[k] = z BY <1>5
<1>7. z \in S /\ Cardinality(B(z)) = k - 1
  <2> HIDE DEF B, k
  <2>1. \E y \in S : Cardinality(B(y)) = k - 1 BY <1>5
  <2> QED BY <2>1, Zenon
<1>8. z = x
  <2> HIDE DEF B, k, z
  <2>1. x \in Nat /\ z \in Nat BY <1>7
  <2>2. ~(z < x) BY <1>1, <1>2, <1>5, <1>7
  <2>3. ~(x < z) BY <1>1, <1>2, <1>5, <1>7
  <2> QED BY <2>1, <2>2, <2>3
<1>9. DOMAIN list = 1..Cardinality(S) OBVIOUS
<1> HIDE DEF list, z, k
<1> QED BY <1>4, <1>5, <1>6, <1>8, <1>9

\* EdgesInOrder lists the edges.
LEMMA EdgesListed ==
  ASSUME NEW E, IsFiniteSet({e.id : e \in E}), {e.id : e \in E} \subseteq Nat
  PROVE  \E n \in Nat : /\ DOMAIN EdgesInOrder(E) = 1..n
                        /\ \A k \in 1..n : EdgesInOrder(E)[k] \in E
<1> DEFINE ids == InOrder({e.id : e \in E})
           es == [k \in DOMAIN ids |-> CHOOSE e \in E : e.id = ids[k]]
<1>1. EdgesInOrder(E) = es BY MadeIs DEF EdgesInOrder
<1>2. /\ Cardinality({e.id : e \in E}) \in Nat
      /\ DOMAIN ids = 1..Cardinality({e.id : e \in E})
      /\ \A k \in DOMAIN ids : ids[k] \in {e.id : e \in E}
  BY InOrderLists
<1> HIDE DEF ids
<1>3. ASSUME NEW k \in DOMAIN ids PROVE es[k] \in E
  <2>1. \E e \in E : e.id = ids[k] BY <1>2
  <2> QED BY <2>1
<1>4. DOMAIN es = DOMAIN ids OBVIOUS
<1> HIDE DEF es
<1> QED BY <1>1, <1>2, <1>3, <1>4

\* No two edges of one id.
OneEach(E) == \A e, d \in E : e.id = d.id => e = d

\* Where ids tell edges apart, each edge has its place in their order.
LEMMA EdgesOnto ==
  ASSUME NEW E, IsFiniteSet({e.id : e \in E}), {e.id : e \in E} \subseteq Nat, OneEach(E),
         NEW e \in E
  PROVE  \E k \in DOMAIN EdgesInOrder(E) : EdgesInOrder(E)[k] = e
<1> DEFINE I == {d.id : d \in E}
           ids == InOrder(I)
           es == [k \in DOMAIN ids |-> CHOOSE d \in E : d.id = ids[k]]
<1>1. EdgesInOrder(E) = es BY MadeIs DEF EdgesInOrder
<1>2. e.id \in I OBVIOUS
<1> HIDE DEF I
<1>3. PICK k \in DOMAIN ids : ids[k] = e.id BY <1>2, InOrderOnto DEF I
<1> DEFINE d == CHOOSE d \in E : d.id = ids[k]
<1>4. es[k] = d OBVIOUS
<1>5. d \in E /\ d.id = ids[k]
  <2>1. \E c \in E : c.id = ids[k] BY <1>3
  <2> HIDE DEF ids
  <2> QED BY <2>1, Zenon
<1>6. DOMAIN es = DOMAIN ids OBVIOUS
<1> HIDE DEF ids, d, es
<1>7. d = e BY <1>3, <1>5 DEF OneEach
<1> QED BY <1>1, <1>3, <1>4, <1>6, <1>7

-----------------------------------------------------------------------------
(* The identities of a node, and what leaves them alone.                   *)

\* What is said of a plugin node with an action on install i: it is bound to
\* one of the install's, or its plugin is missing, or the pick is left open.
Decided(d) ==
  \/ d.plugin # NoId /\ d.missing = FALSE /\ d.bind = ""
  \/ d.plugin = NoId /\ d.missing = TRUE /\ d.bind = ""
  \/ d.plugin = NoId /\ d.missing = FALSE /\ d.bind = "manual"
Local(i, kind, d) ==
  /\ d.plugin # NoId => d.plugin[1] = i
  /\ kind = "plugin" /\ "action" \in d.has => Decided(d)

\* e is d with other marks of an identity, and other ports.
Remarked(d, e, p, m, b) ==
  /\ DOMAIN e = DOMAIN d
  /\ e.body = d.body /\ e.profile = d.profile /\ e.has = d.has
  /\ e.settings = d.settings /\ e.bodySettings = d.bodySettings
  /\ e.action = d.action /\ e.object = d.object
  /\ e.plugin = p /\ e.missing = m /\ e.bind = b

\* The ways the stamp writes a node's data.
LEMMA MarksOnly ==
  ASSUME NEW d, DOMAIN d = DataFields
  PROVE  /\ \A p, m, r : LET e == [d EXCEPT !.plugin = p, !.missing = m, !.rows = r]
                         IN Remarked(d, e, p, m, d.bind)
         /\ \A p, r, b : LET e == [d EXCEPT !.plugin = p, !.rows = r, !.bind = b]
                         IN Remarked(d, e, p, d.missing, b)
         /\ \A m, b : LET e == [d EXCEPT !.missing = m, !.bind = b]
                      IN Remarked(d, e, d.plugin, m, b)
         /\ \A b : LET e == [d EXCEPT !.bind = b]
                   IN Remarked(d, e, d.plugin, d.missing, b)
         /\ \A p : LET e == [d EXCEPT !.plugin = p]
                   IN Remarked(d, e, p, d.missing, d.bind)
BY DEF DataFields, Remarked

LEMMA MarkedTwice ==
  ASSUME NEW d, NEW e, NEW f, NEW p, NEW m, NEW b, NEW q, NEW n, NEW c,
         Remarked(d, e, p, m, b), Remarked(e, f, q, n, c)
  PROVE  Remarked(d, f, q, n, c)
BY DEF Remarked

LEMMA UnstampedMarks ==
  ASSUME NEW d, DOMAIN d = DataFields
  PROVE  Remarked(d, Unstamped(d), NoId, FALSE, d.bind)
<1>1. \A p, m, r : Remarked(d, [d EXCEPT !.plugin = p, !.missing = m, !.rows = r], p, m, d.bind)
  BY MarksOnly
<1> QED BY <1>1, Zenon DEF Unstamped

LEMMA BoundMarks ==
  ASSUME NEW d, DOMAIN d = DataFields, NEW i, NEW p
  PROVE  Remarked(d, Bound(i, d, p), IdOf(i, p), FALSE, "")
<1> DEFINE u == Unstamped(d)
<1>1. Remarked(d, u, NoId, FALSE, d.bind) BY UnstampedMarks
<1>2. DOMAIN u = DataFields BY <1>1 DEF Remarked
<1> HIDE DEF u
<1>3. \A q, r, b : Remarked(u, [u EXCEPT !.plugin = q, !.rows = r, !.bind = b], q, u.missing, b)
  BY <1>2, MarksOnly
<1>4. u.missing = FALSE BY <1>1, Zenon DEF Remarked
<1>5. Bound(i, d, p) = [u EXCEPT !.plugin = IdOf(i, p), !.rows = PortsFor[p], !.bind = ""]
  BY Zenon DEF Bound, u
<1>6. Remarked(u, [u EXCEPT !.plugin = IdOf(i, p), !.rows = PortsFor[p], !.bind = ""],
               IdOf(i, p), u.missing, "")
  BY <1>3, Zenon
<1>7. Remarked(u, Bound(i, d, p), IdOf(i, p), FALSE, "") BY <1>4, <1>5, <1>6, Zenon
<1> QED BY <1>1, <1>7, MarkedTwice, Zenon

\* The stamp decides each plugin node, and leaves the rest of its data.
LEMMA StampDecides ==
  ASSUME NEW i, NEW d, DOMAIN d = DataFields
  PROVE  \E p, m, b : /\ Remarked(d, StampPlugin(i, d), p, m, b)
                      /\ p # NoId => p[1] = i
                      /\ "action" \in d.has => Decided(StampPlugin(i, d))
<1> DEFINE e == StampPlugin(i, d)
           cands == Serving(i, d.action)
           exact == {p \in cands : IdOf(i, p) = d.plugin}
           only == IF d.bind # "manual" /\ Cardinality(cands) = 1 THEN cands ELSE {}
           u == Unstamped(d)
<1>1. Remarked(d, u, NoId, FALSE, d.bind) BY UnstampedMarks
<1>2. DOMAIN u = DataFields BY <1>1 DEF Remarked
<1>3. ASSUME NEW p, NEW m, NEW b, Remarked(d, e, p, m, b), p # NoId => p[1] = i,
             \/ "action" \notin d.has
             \/ p # NoId /\ m = FALSE /\ b = ""
             \/ p = NoId /\ m = TRUE /\ b = ""
             \/ p = NoId /\ m = FALSE /\ b = "manual"
      PROVE  \E q, n, c : /\ Remarked(d, e, q, n, c)
                          /\ q # NoId => q[1] = i
                          /\ "action" \in d.has => Decided(e)
  <2> HIDE DEF e
  <2>1. e.plugin = p /\ e.missing = m /\ e.bind = b BY <1>3, Zenon DEF Remarked
  <2>2. "action" \in d.has => Decided(e) BY <1>3, <2>1, Zenon DEF Decided
  <2> QED BY <1>3, <2>2, Zenon
<1>4. CASE "action" \notin d.has
  <2>1. e = u BY <1>4, Zenon DEF StampPlugin
  <2> HIDE DEF e, u
  <2>2. Remarked(d, e, NoId, FALSE, d.bind) BY <1>1, <2>1, Zenon
  <2> QED BY <1>3, <1>4, <2>2, Zenon DEF e
<1>5. ASSUME NEW p, e = Bound(i, d, p)
      PROVE  Remarked(d, e, IdOf(i, p), FALSE, "") /\ IdOf(i, p) # NoId /\ IdOf(i, p)[1] = i
  <2>1. Remarked(d, e, IdOf(i, p), FALSE, "") BY <1>5, BoundMarks, Zenon
  <2>2. IdOf(i, p) # NoId /\ IdOf(i, p)[1] = i BY DEF IdOf, NoId
  <2> QED BY <2>1, <2>2, Zenon
<1>6. CASE "action" \in d.has /\ exact # {}
  <2>1. e = Bound(i, d, CHOOSE p \in exact : TRUE) BY <1>6, Zenon DEF StampPlugin
  <2> DEFINE p == CHOOSE q \in exact : TRUE
  <2> HIDE DEF e, u, p
  <2>2. Remarked(d, e, IdOf(i, p), FALSE, "") /\ IdOf(i, p) # NoId /\ IdOf(i, p)[1] = i
    BY <1>5, <2>1, Zenon DEF p
  <2> QED BY <1>3, <2>2, Zenon DEF e
<1>7. CASE "action" \in d.has /\ exact = {} /\ only # {}
  <2>1. e = Bound(i, d, CHOOSE p \in only : TRUE) BY <1>7, Zenon DEF StampPlugin
  <2> DEFINE p == CHOOSE q \in only : TRUE
  <2> HIDE DEF e, u, p
  <2>2. Remarked(d, e, IdOf(i, p), FALSE, "") /\ IdOf(i, p) # NoId /\ IdOf(i, p)[1] = i
    BY <1>5, <2>1, Zenon DEF p
  <2> QED BY <1>3, <2>2, Zenon DEF e
<1>8. CASE "action" \in d.has /\ exact = {} /\ only = {} /\ cands = {}
  <2>1. e = [u EXCEPT !.missing = TRUE, !.bind = ""] BY <1>8, Zenon DEF StampPlugin
  <2> HIDE DEF e, u
  <2>2. \A m, b : Remarked(u, [u EXCEPT !.missing = m, !.bind = b], u.plugin, m, b)
    BY <1>2, MarksOnly
  <2>3. Remarked(u, [u EXCEPT !.missing = TRUE, !.bind = ""], u.plugin, TRUE, "")
    BY <2>2, Zenon
  <2>4. u.plugin = NoId BY <1>1, Zenon DEF Remarked
  <2>5. Remarked(u, e, NoId, TRUE, "") BY <2>1, <2>3, <2>4, Zenon
  <2>6. Remarked(d, e, NoId, TRUE, "") BY <1>1, <2>5, MarkedTwice, Zenon
  <2> QED BY <1>3, <2>6, Zenon DEF e
<1>9. CASE "action" \in d.has /\ exact = {} /\ only = {} /\ cands # {}
  <2>1. e = [u EXCEPT !.bind = "manual"] BY <1>9, Zenon DEF StampPlugin
  <2> HIDE DEF e, u
  <2>2. \A b : Remarked(u, [u EXCEPT !.bind = b], u.plugin, u.missing, b)
    BY <1>2, MarksOnly
  <2>3. Remarked(u, [u EXCEPT !.bind = "manual"], u.plugin, u.missing, "manual")
    BY <2>2, Zenon
  <2>4. u.plugin = NoId /\ u.missing = FALSE BY <1>1, Zenon DEF Remarked
  <2>5. Remarked(u, e, NoId, FALSE, "manual") BY <2>1, <2>3, <2>4, Zenon
  <2>6. Remarked(d, e, NoId, FALSE, "manual") BY <1>1, <2>5, MarkedTwice, Zenon
  <2> QED BY <1>3, <2>6, Zenon DEF e
<1> HIDE DEF e, cands, exact, only, u
<1>10. \/ "action" \notin d.has
       \/ "action" \in d.has /\ exact # {}
       \/ "action" \in d.has /\ exact = {} /\ only # {}
       \/ "action" \in d.has /\ exact = {} /\ only = {} /\ cands = {}
       \/ "action" \in d.has /\ exact = {} /\ only = {} /\ cands # {}
  OBVIOUS
<1> QED BY <1>4, <1>6, <1>7, <1>8, <1>9, <1>10, Zenon

\* What a node of a flow saved on install i is held to.
FlowNodeOK(i, n) ==
  /\ DOMAIN n = {"kind", "title", "data"} /\ n.kind \in Catalog \cup {"plugin"}
  /\ DataOK(n.kind, n.data) /\ Local(i, n.kind, n.data)

\* Remarked, the data are still what their kind asks for.
LEMMA RemarkedOK ==
  ASSUME NEW kind \in PluginKinds, NEW d, NEW e, NEW p, NEW m, NEW b,
         DataOK(kind, d), Remarked(d, e, p, m, b)
  PROVE  DataOK(kind, e)
BY Zenon DEF DataOK, Remarked

LEMMA KeptOK ==
  ASSUME NEW kind, NEW d, NEW e, NEW i, Remarked(d, e, d.plugin, d.missing, d.bind)
  PROVE  /\ DataOK(kind, d) => DataOK(kind, e)
         /\ Local(i, kind, d) => Local(i, kind, e)
BY Zenon DEF DataOK, Remarked, Local, Decided

\* The stamp makes a node the install's.
LEMMA StampLocal ==
  ASSUME NEW i, NEW n, DOMAIN n = {"ref", "kind", "title", "data"},
         DataOK(n.kind, n.data)
  PROVE  LET m == Stamp(i, n)
         IN /\ DOMAIN m = DOMAIN n /\ m.kind = n.kind /\ m.title = n.title /\ m.ref = n.ref
            /\ DataOK(n.kind, m.data) /\ Local(i, n.kind, m.data)
<1> DEFINE m == Stamp(i, n)
           new == IF n.kind = "plugin" THEN StampPlugin(i, n.data)
                  ELSE IF n.kind \in PluginKinds
                    THEN [n.data EXCEPT !.plugin = IdOf(i, n.kind)] ELSE n.data
<1>1. m = [n EXCEPT !.data = new] BY Zenon DEF Stamp
<1>2. DOMAIN n.data = DataFields BY Zenon DEF DataOK
<1>3. DataOK(n.kind, new) /\ Local(i, n.kind, new)
  <2>1. CASE n.kind = "plugin"
    <3>1. new = StampPlugin(i, n.data) BY <2>1, Zenon
    <3>2. PICK p, q, b : /\ Remarked(n.data, StampPlugin(i, n.data), p, q, b)
                         /\ p # NoId => p[1] = i
                         /\ "action" \in n.data.has => Decided(StampPlugin(i, n.data))
      BY <1>2, StampDecides, Zenon
    <3> HIDE DEF new
    <3>3. Remarked(n.data, new, p, q, b) BY <3>1, <3>2, Zenon
    <3>4. n.kind \in PluginKinds BY <2>1 DEF PluginKinds
    <3>5. DataOK(n.kind, new) BY <3>3, <3>4, RemarkedOK, Zenon
    <3>6. new.plugin = p /\ new.has = n.data.has BY <3>3, Zenon DEF Remarked
    <3>7. Local(i, n.kind, new) BY <3>1, <3>2, <3>6, Zenon DEF Local
    <3> QED BY <3>5, <3>7
  <2>2. CASE n.kind # "plugin" /\ n.kind \in PluginKinds
    <3>1. new = [n.data EXCEPT !.plugin = IdOf(i, n.kind)] BY <2>2, Zenon
    <3>2. \A p : Remarked(n.data, [n.data EXCEPT !.plugin = p], p, n.data.missing, n.data.bind)
      BY <1>2, MarksOnly
    <3> HIDE DEF new
    <3>3. Remarked(n.data, new, IdOf(i, n.kind), n.data.missing, n.data.bind)
      BY <3>1, <3>2, Zenon
    <3>4. new.plugin = IdOf(i, n.kind) BY <3>3, Zenon DEF Remarked
    <3>5. new.plugin[1] = i BY <3>4 DEF IdOf
    <3>6. DataOK(n.kind, new) BY <2>2, <3>3, RemarkedOK, Zenon
    <3> QED BY <2>2, <3>5, <3>6, Zenon DEF Local
  <2>3. CASE n.kind # "plugin" /\ n.kind \notin PluginKinds
    <3>1. new = n.data BY <2>3, Zenon
    <3> HIDE DEF new
    <3>2. n.data.plugin = NoId BY <2>3, Zenon DEF DataOK
    <3> QED BY <2>3, <3>1, <3>2, Zenon DEF Local
  <2> QED BY <2>1, <2>2, <2>3
<1> HIDE DEF new, m
<1>4. /\ DOMAIN m = DOMAIN n /\ m.kind = n.kind /\ m.title = n.title /\ m.ref = n.ref
      /\ m.data = new
  BY <1>1
<1>5. /\ DOMAIN m = DOMAIN n /\ m.kind = n.kind /\ m.title = n.title /\ m.ref = n.ref
      /\ DataOK(n.kind, m.data) /\ Local(i, n.kind, m.data)
  BY <1>3, <1>4, Zenon
<1> QED BY <1>5, Zenon DEF m

\* What the planner fills in is none of it.
LEMMA MergeKeeps ==
  ASSUME NEW n, DOMAIN n.data = DataFields, NEW k
  PROVE  Remarked(n.data, MergeData(n, k), n.data.plugin, n.data.missing, n.data.bind)
<1> DEFINE d == n.data
<1>1. \A s, m, r : Remarked(d, [d EXCEPT !.scope = s, !.msgs = m, !.rows = r],
                            d.plugin, d.missing, d.bind)
  BY DEF DataFields, Remarked
<1>2. PICK s, m, r : MergeData(n, k) = [d EXCEPT !.scope = s, !.msgs = m, !.rows = r]
  BY Zenon DEF MergeData
<1>3. Remarked(d, [d EXCEPT !.scope = s, !.msgs = m, !.rows = r],
               d.plugin, d.missing, d.bind)
  BY <1>1, Zenon
<1> QED BY <1>2, <1>3, Zenon

\* The profile is resolved into the settings, and nothing else changes.
LEMMA ProfileResolved ==
  ASSUME NEW i, NEW n, FlowNodeOK(i, n)
  PROVE  /\ FlowNodeOK(i, ResolveProfile(i, n))
         /\ ResolveProfile(i, n).kind = n.kind
         /\ ResolveProfile(i, n).title = n.title
         /\ n.data.profile # "none" =>
              ResolveProfile(i, n).data.settings =
                IF n.kind # "hitl" /\ n.data.profile \in profiles[i]
                  THEN n.data.profile ELSE "none"
         /\ ResolveProfile(i, n).data.profile = n.data.profile
<1> DEFINE v == IF n.kind # "hitl" /\ n.data.profile \in profiles[i]
                  THEN n.data.profile ELSE "none"
           d == [n.data EXCEPT !.settings = v]
<1>1. CASE n.data.profile = "none"
  BY <1>1, Zenon DEF ResolveProfile
<1>2. CASE n.data.profile # "none"
  <2>1. ResolveProfile(i, n) = [n EXCEPT !.data = d] BY <1>2 DEF ResolveProfile
  <2>2. DOMAIN n.data = DataFields /\ DOMAIN n = {"kind", "title", "data"}
    BY Zenon DEF FlowNodeOK, DataOK
  <2>3. /\ DOMAIN d = DOMAIN n.data /\ d.settings = v
        /\ d.plugin = n.data.plugin /\ d.missing = n.data.missing /\ d.bind = n.data.bind
        /\ d.has = n.data.has /\ d.body = n.data.body /\ d.profile = n.data.profile
        /\ d.bodySettings = n.data.bodySettings
    <3> HIDE DEF v
    <3> QED BY <2>2 DEF DataFields
  <2>4. DataOK(n.kind, d) /\ Local(i, n.kind, d)
    <3> HIDE DEF d, v
    <3> QED BY <2>3, Zenon DEF FlowNodeOK, DataOK, Local, Decided
  <2> HIDE DEF d
  <2> DEFINE r == ResolveProfile(i, n)
  <2> HIDE DEF r
  <2>5. r = [n EXCEPT !.data = d] BY <2>1 DEF r
  <2>6. DOMAIN r = DOMAIN n /\ r.kind = n.kind /\ r.title = n.title /\ r.data = d
    BY <2>2, <2>5
  <2>7. FlowNodeOK(i, r) BY <2>4, <2>6, Zenon DEF FlowNodeOK
  <2>8. r.data.settings = v /\ r.data.profile = n.data.profile BY <2>3, <2>6, Zenon
  <2> QED BY <1>2, <2>6, <2>7, <2>8, Zenon DEF r
<1> QED BY <1>1, <1>2

\* The builders write into a body they share: of a plugin's node, its settings.
LEMMA BuildWrites ==
  ASSUME NEW i, NEW n, FlowNodeOK(i, n)
  PROVE  LET m == [n EXCEPT !.data = AfterBuild(n.kind, @)]
         IN /\ FlowNodeOK(i, m) /\ m.kind = n.kind
            /\ m.data.settings = n.data.settings /\ m.data.profile = n.data.profile
            /\ m.data.action = n.data.action /\ m.data.plugin = n.data.plugin
            /\ m.data.has = n.data.has
<1> DEFINE d == AfterBuild(n.kind, n.data)
           m == [n EXCEPT !.data = d]
<1>1. DOMAIN n.data = DataFields /\ DOMAIN n = {"kind", "title", "data"}
  BY Zenon DEF FlowNodeOK, DataOK
<1>2. (\E b : d = [n.data EXCEPT !.bodySettings = b] /\ n.kind = "plugin") \/ d = n.data
  BY Zenon DEF AfterBuild
<1>3. /\ DOMAIN d = DOMAIN n.data
      /\ d.plugin = n.data.plugin /\ d.missing = n.data.missing /\ d.bind = n.data.bind
      /\ d.has = n.data.has /\ d.body = n.data.body /\ d.profile = n.data.profile
      /\ d.settings = n.data.settings /\ d.action = n.data.action
      /\ n.kind # "plugin" => d.bodySettings = n.data.bodySettings
  <2> HIDE DEF d
  <2> QED BY <1>1, <1>2 DEF DataFields
<1> HIDE DEF d
<1>4. DataOK(n.kind, d) /\ Local(i, n.kind, d)
  BY <1>3, Zenon DEF FlowNodeOK, DataOK, Local, Decided
<1>5. DOMAIN m = DOMAIN n /\ m.kind = n.kind /\ m.data = d
  BY <1>1
<1> HIDE DEF m
<1>6. FlowNodeOK(i, m) BY <1>4, <1>5, Zenon DEF FlowNodeOK
<1>7. /\ FlowNodeOK(i, m) /\ m.kind = n.kind
      /\ m.data.settings = n.data.settings /\ m.data.profile = n.data.profile
      /\ m.data.action = n.data.action /\ m.data.plugin = n.data.plugin
      /\ m.data.has = n.data.has
  BY <1>3, <1>5, <1>6, Zenon
<1> QED BY <1>7, Zenon DEF m, d

-----------------------------------------------------------------------------
(* The planner: a graph of the install from a document that is stamped.    *)

\* A patch the planner can be given: as a document, its nodes this install's.
PatchOK(i, patch) ==
  /\ \E n \in Nat : DOMAIN patch.nodes = 1..n
  /\ \E n \in Nat : DOMAIN patch.edges = 1..n
  /\ \A k \in DOMAIN patch.nodes :
       DataOK(patch.nodes[k].kind, patch.nodes[k].data)
       /\ Local(i, patch.nodes[k].kind, patch.nodes[k].data)

\* A graph on install i: finitely many nodes, and edges between them.
GraphOK(i, graph) ==
  /\ DOMAIN graph.nodes \subseteq Nat /\ IsFiniteSet(DOMAIN graph.nodes)
  /\ \A k \in DOMAIN graph.nodes : FlowNodeOK(i, graph.nodes[k])
  /\ \A e \in graph.edges : {e.from, e.to} \subseteq DOMAIN graph.nodes
  /\ {e.id : e \in graph.edges} \subseteq Nat /\ IsFiniteSet({e.id : e \in graph.edges})
  /\ IsFiniteSet(graph.edges)

\* Each ref names a node of a known kind.
LEMMA ByRefKnown ==
  ASSUME NEW patch, NEW n \in Nat, DOMAIN patch.nodes = 1..n
  PROVE  \A r \in DOMAIN ByRef(patch) :
           ByRef(patch)[r] \in 1..n /\ Known(patch.nodes[ByRef(patch)[r]].kind)
<1> DEFINE known == {k \in DOMAIN patch.nodes : Known(patch.nodes[k].kind)}
           first(r) == CHOOSE k \in known : /\ RefOf(patch, k) = r
                                            /\ \A j \in known : RefOf(patch, j) = r => k <= j
           refs == [r \in {RefOf(patch, k) : k \in known} |-> first(r)]
<1>1. ByRef(patch) = refs BY MadeIs DEF ByRef
<1>2. ASSUME NEW r \in {RefOf(patch, k) : k \in known} PROVE first(r) \in known
  <2> DEFINE T == {k \in known : RefOf(patch, k) = r}
  <2>1. T # {} /\ T \subseteq Nat OBVIOUS
  <2>2. PICK k \in T : \A j \in T : k <= j
    <3> HIDE DEF T
    <3> QED BY <2>1, LeastNat
  <2>3. \E j \in known : /\ RefOf(patch, j) = r
                         /\ \A l \in known : RefOf(patch, l) = r => j <= l
    BY <2>2
  <2> HIDE DEF known
  <2> QED BY <2>3
<1>3. ASSUME NEW r \in DOMAIN refs PROVE refs[r] \in known
  BY <1>2
<1> HIDE DEF refs
<1>4. \A k \in known : k \in 1..n /\ Known(patch.nodes[k].kind) OBVIOUS
<1> HIDE DEF known
<1> QED BY <1>1, <1>3, <1>4

\* The planned nodes are this install's.
LEMMA PlannedNodesOK ==
  ASSUME NEW i, NEW patch, PatchOK(i, patch)
  PROVE  LET nodes == PlannedNodes(patch, ByRef(patch))
         IN /\ DOMAIN nodes = Range(ByRef(patch))
            /\ DOMAIN nodes \subseteq Nat /\ IsFiniteSet(DOMAIN nodes)
            /\ \A k \in DOMAIN nodes : FlowNodeOK(i, nodes[k])
<1> DEFINE refs == ByRef(patch)
           nodes == PlannedNodes(patch, refs)
<1>1. PICK n \in Nat : DOMAIN patch.nodes = 1..n BY DEF PatchOK
<1>2. \A r \in DOMAIN refs : refs[r] \in 1..n /\ Known(patch.nodes[refs[r]].kind)
  BY <1>1, ByRefKnown
<1> HIDE DEF refs
<1>3. nodes = [k \in Range(refs) |->
          [kind |-> patch.nodes[k].kind, title |-> patch.nodes[k].title,
           data |-> MergeData(patch.nodes[k], k)]]
  BY MadeIs DEF PlannedNodes
<1>4. \A k \in Range(refs) : k \in 1..n /\ Known(patch.nodes[k].kind)
  BY <1>2 DEF Range
<1>5. Range(refs) \subseteq Nat /\ IsFiniteSet(Range(refs))
  <2>1. IsFiniteSet(1..n) BY FS_Interval
  <2>2. Range(refs) \subseteq 1..n BY <1>4
  <2> QED BY <2>1, <2>2, FS_Subset
<1>6. ASSUME NEW k \in Range(refs)
      PROVE  FlowNodeOK(i, nodes[k])
  <2> DEFINE m == patch.nodes[k]
  <2>1. /\ DOMAIN nodes[k] = {"kind", "title", "data"} /\ nodes[k].kind = m.kind
        /\ nodes[k].data = MergeData(m, k)
    BY <1>3
  <2>2. DataOK(m.kind, m.data) /\ Local(i, m.kind, m.data)
    BY <1>1, <1>4 DEF PatchOK
  <2>3. m.kind \in Catalog \cup {"plugin"} BY <1>4 DEF Known
  <2> HIDE DEF m, nodes
  <2>4. DOMAIN m.data = DataFields BY <2>2, Zenon DEF DataOK
  <2>5. Remarked(m.data, MergeData(m, k), m.data.plugin, m.data.missing, m.data.bind)
    BY <2>4, MergeKeeps, Zenon
  <2>6. DataOK(m.kind, MergeData(m, k)) /\ Local(i, m.kind, MergeData(m, k))
    BY <2>2, <2>5, KeptOK, Zenon
  <2> QED BY <2>1, <2>3, <2>6, Zenon DEF FlowNodeOK
<1>7. DOMAIN nodes = Range(refs) BY <1>3
<1> HIDE DEF nodes
<1>8. /\ DOMAIN nodes = Range(refs)
      /\ DOMAIN nodes \subseteq Nat /\ IsFiniteSet(DOMAIN nodes)
      /\ \A k \in DOMAIN nodes : FlowNodeOK(i, nodes[k])
  BY <1>5, <1>6, <1>7
<1> QED BY <1>8, Zenon DEF nodes, refs

\* An edge the planner keeps is between planned nodes.
LEMMA PlannedEdgeOK ==
  ASSUME NEW nodes, NEW refs, NEW k, NEW e, NEW p, p = PlanEdge(nodes, refs, k, e)
  PROVE  /\ p.id = k /\ p.level \in {"ok", "warn", "error"}
         /\ p.level # "error" =>
              p.edge.id = k /\ p.edge.from \in Range(refs) /\ p.edge.to \in Range(refs)
<1> DEFINE ends == {e.from, e.to} \subseteq DOMAIN refs
           src == nodes[refs[e.from]]
           found == IF ends THEN ResolvePort(PortsOf(src.kind, src.data), e.port)
                    ELSE [port |-> NoPort, level |-> "error"]
<1>1. p = [id |-> k, level |-> found.level,
           edge |-> IF found.level = "error" THEN << >>
                    ELSE [id |-> k, from |-> refs[e.from], to |-> refs[e.to],
                          handle |-> found.port.id, tags |-> found.port.tags]]
  BY Zenon DEF PlanEdge
<1>2. \A ports, want : ResolvePort(ports, want).level \in {"ok", "warn", "error"}
  <2> TAKE ports, want
  <2> DEFINE hits == {j \in DOMAIN ports : Answers(ports[j], want)}
  <2> HIDE DEF hits
  <2>1. ResolvePort(ports, want) =
          CASE ports = <<>> /\ want = <<>>  -> [port |-> NoPort, level |-> "ok"]
            [] ports = <<>> /\ want # <<>>  -> [port |-> NoPort, level |-> "warn"]
            [] ports # <<>> /\ (want = <<>> \/ hits = {})
                                     -> [port |-> NoPort, level |-> "error"]
            [] OTHER -> [port |-> ports[Earliest(hits)], level |-> "ok"]
    BY Zenon DEF ResolvePort, hits
  <2> QED BY <2>1
<1>3. found.level \in {"ok", "warn", "error"} BY <1>2
<1>4. found.level # "error" => ends OBVIOUS
<1> HIDE DEF found
<1>5. /\ p.id = k /\ p.level = found.level
      /\ found.level # "error" =>
           p.edge.id = k /\ p.edge.from = refs[e.from] /\ p.edge.to = refs[e.to]
  BY <1>1
<1> QED BY <1>3, <1>4, <1>5 DEF Range

\* The plan is a graph of the install, and its problems are errors or warnings.
LEMMA PlanOK ==
  ASSUME NEW i, NEW patch, PatchOK(i, patch)
  PROVE  /\ GraphOK(i, [nodes |-> PlanPatch(patch).nodes, edges |-> PlanPatch(patch).edges])
         /\ \A x \in PlanPatch(patch).problems : x.level \in {"error", "warn"}
<1> DEFINE refs == ByRef(patch)
           nodes == PlannedNodes(patch, refs)
           planned == PlannedEdges(patch, nodes, refs)
           edges == {p.edge : p \in {q \in planned : q.level # "error"}}
           problems == NodeProblems(patch, nodes) \cup EdgeProblems(planned)
                         \cup Convergence([k \in DOMAIN nodes |-> nodes[k].kind], edges)
<1>1. PlanPatch(patch) = [nodes |-> nodes, edges |-> edges, problems |-> problems]
  BY Zenon DEF PlanPatch
<1>2. /\ DOMAIN nodes = Range(refs)
      /\ DOMAIN nodes \subseteq Nat /\ IsFiniteSet(DOMAIN nodes)
      /\ \A k \in DOMAIN nodes : FlowNodeOK(i, nodes[k])
  BY PlannedNodesOK, Zenon
<1>3. PICK n \in Nat : DOMAIN patch.edges = 1..n BY DEF PatchOK
<1> HIDE DEF refs, nodes
<1>4. ASSUME NEW p \in planned
      PROVE  /\ p.level \in {"ok", "warn", "error"}
             /\ p.level # "error" =>
                  p.edge.id \in 1..n /\ p.edge.from \in Range(refs) /\ p.edge.to \in Range(refs)
  <2>1. PICK k \in 1..n : p = PlanEdge(nodes, refs, k, patch.edges[k])
    BY <1>3 DEF PlannedEdges
  <2>2. /\ p.id = k /\ p.level \in {"ok", "warn", "error"}
        /\ p.level # "error" =>
             p.edge.id = k /\ p.edge.from \in Range(refs) /\ p.edge.to \in Range(refs)
    BY <2>1, PlannedEdgeOK
  <2> QED BY <2>2
<1> HIDE DEF planned
<1>5. ASSUME NEW e \in edges
      PROVE  e.id \in 1..n /\ {e.from, e.to} \subseteq DOMAIN nodes
  <2>1. PICK p \in planned : p.level # "error" /\ e = p.edge OBVIOUS
  <2> QED BY <2>1, <1>2, <1>4
<1>6. {e.id : e \in edges} \subseteq Nat /\ IsFiniteSet({e.id : e \in edges})
  <2>1. IsFiniteSet(1..n) BY FS_Interval
  <2> HIDE DEF edges
  <2>2. {e.id : e \in edges} \subseteq 1..n BY <1>5
  <2> QED BY <2>1, <2>2, FS_Subset
<1>7. IsFiniteSet(edges)
  <2> DEFINE F == [k \in 1..n |-> PlanEdge(nodes, refs, k, patch.edges[k]).edge]
             T == {F[k] : k \in 1..n}
  <2>1. F \in Surjection(1..n, T) BY DEF Surjection
  <2>2. IsFiniteSet(1..n) BY FS_Interval
  <2>3. IsFiniteSet(T)
    <3> HIDE DEF F, T
    <3> QED BY <2>1, <2>2, FS_Surjection
  <2>4. edges \subseteq T
    <3>1. ASSUME NEW e \in edges PROVE e \in T
      <4>1. PICK p \in planned : e = p.edge OBVIOUS
      <4>2. PICK k \in 1..n : p = PlanEdge(nodes, refs, k, patch.edges[k])
        BY <1>3 DEF PlannedEdges, planned
      <4>3. e = F[k] BY <4>1, <4>2
      <4> QED BY <4>3
    <3> QED BY <3>1
  <2> HIDE DEF edges, T
  <2> QED BY <2>3, <2>4, FS_Subset
<1>8. ASSUME NEW x \in problems PROVE x.level \in {"error", "warn"}
  <2> HIDE DEF edges
  <2>1. CASE x \in NodeProblems(patch, nodes) BY <2>1 DEF NodeProblems
  <2>2. CASE x \in EdgeProblems(planned)
    <3>1. PICK q \in planned : q.level # "ok" /\ x.level = q.level
      BY <2>2 DEF EdgeProblems
    <3> QED BY <3>1, <1>4
  <2>3. ASSUME NEW kinds, x \in Convergence(kinds, edges) PROVE x.level \in {"error", "warn"}
    BY <2>3 DEF Convergence
  <2> QED BY <2>1, <2>2, <2>3
<1> HIDE DEF edges, problems
<1>9. GraphOK(i, [nodes |-> nodes, edges |-> edges])
  BY <1>2, <1>5, <1>6, <1>7 DEF GraphOK
<1> QED BY <1>1, <1>8, <1>9

-----------------------------------------------------------------------------
(* Documents, and what an export makes of a flow.                          *)

\* The document in hand, an author's or an exported one.
FileOK(doc) ==
  /\ DOMAIN doc = {"nodes", "edges"}
  /\ \E n \in Nat : DOMAIN doc.nodes = 1..n
  /\ \E n \in Nat : DOMAIN doc.edges = 1..n
  /\ \A k \in DOMAIN doc.nodes :
       /\ DOMAIN doc.nodes[k] = {"ref", "kind", "title", "data"}
       /\ DataOK(doc.nodes[k].kind, doc.nodes[k].data)

\* The documents that are brought are such.
LEMMA DocumentsFit ==
  ASSUME NEW doc \in Documents
  PROVE  FileOK(doc)
<1>1. DocumentOK(doc) BY DocumentsOK
<1>2. /\ DOMAIN doc = {"nodes", "edges"}
      /\ Len(doc.nodes) \in Nat /\ DOMAIN doc.nodes = 1..Len(doc.nodes)
      /\ Len(doc.edges) \in Nat /\ DOMAIN doc.edges = 1..Len(doc.edges)
      /\ \A k \in DOMAIN doc.nodes :
           /\ DOMAIN doc.nodes[k] = {"ref", "kind", "title", "data"}
           /\ DataOK(doc.nodes[k].kind, doc.nodes[k].data)
  BY <1>1, ListStarts, Zenon DEF DocumentOK
<1> QED BY <1>2, Zenon DEF FileOK

\* Stamped, the document in hand can be planned.
LEMMA StampedOK ==
  ASSUME NEW i, NEW doc, FileOK(doc)
  PROVE  PatchOK(i, StampIdentities(i, doc))
<1> DEFINE nodes == [k \in DOMAIN doc.nodes |-> Stamp(i, doc.nodes[k])]
           patch == StampIdentities(i, doc)
<1>1. patch = [doc EXCEPT !.nodes = nodes] BY MadeIs DEF StampIdentities
<1>2. ASSUME NEW k \in DOMAIN doc.nodes
      PROVE  /\ DataOK(nodes[k].kind, nodes[k].data)
             /\ Local(i, nodes[k].kind, nodes[k].data)
  <2> DEFINE n == doc.nodes[k]
  <2>1. DOMAIN n = {"ref", "kind", "title", "data"} /\ DataOK(n.kind, n.data)
    BY DEF FileOK
  <2> HIDE DEF n
  <2>2. /\ Stamp(i, n).kind = n.kind
        /\ DataOK(n.kind, Stamp(i, n).data) /\ Local(i, n.kind, Stamp(i, n).data)
    BY <2>1, StampLocal, Zenon
  <2>3. nodes[k] = Stamp(i, n) BY DEF n
  <2> HIDE DEF nodes
  <2> QED BY <2>2, <2>3, Zenon
<1>3. DOMAIN nodes = DOMAIN doc.nodes OBVIOUS
<1> HIDE DEF nodes, patch
<1>4. DOMAIN doc = {"nodes", "edges"} BY Zenon DEF FileOK
<1>5. patch.nodes = nodes /\ patch.edges = doc.edges BY <1>1, <1>4
<1>6. PatchOK(i, patch) BY <1>2, <1>3, <1>5, Zenon DEF PatchOK, FileOK
<1> QED BY <1>6, Zenon DEF patch

\* What an export leaves of a node's data.
Ported(d, e) ==
  /\ DOMAIN e = DOMAIN d /\ e.plugin = NoId /\ e.body = d.body /\ e.has = d.has
  /\ e.profile = d.profile /\ e.bodySettings = d.bodySettings

\* Of what an export writes nothing is lost that a document is held to.
LEMMA PortableOK ==
  ASSUME NEW kind, NEW d, DataOK(kind, d)
  PROVE  DataOK(kind, PortableData(kind, d))
<1>1. DOMAIN d = DataFields BY Zenon DEF DataOK
<1>2. \A s, m, b, c, r :
        Ported(d, [d EXCEPT !.plugin = NoId, !.settings = s, !.missing = m, !.bind = b,
                            !.scope = c, !.rows = r])
  BY <1>1 DEF DataFields, Ported
<1>3. \E c, r : PortableData(kind, d) =
        [d EXCEPT !.plugin = NoId, !.settings = "none", !.missing = FALSE, !.bind = "",
                  !.scope = c, !.rows = r]
  BY Zenon DEF PortableData
<1>4. PICK c, r : PortableData(kind, d) =
        [d EXCEPT !.plugin = NoId, !.settings = "none", !.missing = FALSE, !.bind = "",
                  !.scope = c, !.rows = r]
  BY <1>3, Zenon
<1> DEFINE e == [d EXCEPT !.plugin = NoId, !.settings = "none", !.missing = FALSE,
                          !.bind = "", !.scope = c, !.rows = r]
<1>5. Ported(d, e) BY <1>2, Zenon
<1>6. PortableData(kind, d) = e BY <1>4, Zenon
<1> HIDE DEF e
<1>7. DataOK(kind, e) BY <1>5, Zenon DEF DataOK, Ported
<1> QED BY <1>6, <1>7, Zenon

\* An exported flow is a document.
LEMMA ExportedOK ==
  ASSUME NEW i, NEW graph, GraphOK(i, graph), NEW slugs, NEW portable,
         \A k \in DOMAIN graph.nodes :
           portable[k] = PortableData(graph.nodes[k].kind, graph.nodes[k].data)
  PROVE  FileOK(GraphToPatch(graph, slugs, portable))
<1> DEFINE ids == InOrder(DOMAIN graph.nodes)
           refs == UniqueRefs([k \in DOMAIN ids |-> slugs[ids[k]]])
           E == {e \in graph.edges : {e.from, e.to} \subseteq Range(ids)}
           es == EdgesInOrder(E)
           doc == GraphToPatch(graph, slugs, portable)
<1>1. /\ Cardinality(DOMAIN graph.nodes) \in Nat
      /\ DOMAIN ids = 1..Cardinality(DOMAIN graph.nodes)
      /\ \A k \in DOMAIN ids : ids[k] \in DOMAIN graph.nodes
  BY InOrderLists DEF GraphOK
<1>2. \E n \in Nat : DOMAIN es = 1..n
  <2>1. {e.id : e \in graph.edges} \subseteq Nat /\ IsFiniteSet({e.id : e \in graph.edges})
    BY Zenon DEF GraphOK
  <2>2. {e.id : e \in E} \subseteq {e.id : e \in graph.edges} OBVIOUS
  <2> HIDE DEF E
  <2>3. IsFiniteSet({e.id : e \in E}) /\ {e.id : e \in E} \subseteq Nat
    BY <2>1, <2>2, FS_Subset
  <2> QED BY <2>3, EdgesListed
<1> HIDE DEF ids, refs, es
<1>3. /\ DOMAIN doc = {"nodes", "edges"}
      /\ DOMAIN doc.nodes = DOMAIN ids /\ DOMAIN doc.edges = DOMAIN es
      /\ \A k \in DOMAIN ids :
           doc.nodes[k] = [ref |-> refs[k], kind |-> graph.nodes[ids[k]].kind,
                           title |-> graph.nodes[ids[k]].title, data |-> portable[ids[k]]]
  BY DEF GraphToPatch, ids, refs, es
<1> HIDE DEF doc
<1>4. ASSUME NEW k \in DOMAIN ids
      PROVE  /\ DOMAIN doc.nodes[k] = {"ref", "kind", "title", "data"}
             /\ DataOK(doc.nodes[k].kind, doc.nodes[k].data)
  <2> DEFINE n == graph.nodes[ids[k]]
  <2> DEFINE m == doc.nodes[k]
  <2> HIDE DEF n
  <2>0. m = [ref |-> refs[k], kind |-> n.kind, title |-> n.title, data |-> portable[ids[k]]]
    BY <1>3, Zenon DEF n
  <2>1. /\ DOMAIN m = {"ref", "kind", "title", "data"}
        /\ m.kind = n.kind /\ m.data = portable[ids[k]]
    <3> HIDE DEF m
    <3> QED BY <2>0
  <2>3. portable[ids[k]] = PortableData(n.kind, n.data) BY <1>1, Zenon DEF n
  <2>2. DataOK(n.kind, n.data) BY <1>1, Zenon DEF GraphOK, FlowNodeOK, n
  <2>4. DataOK(n.kind, PortableData(n.kind, n.data)) BY <2>2, PortableOK, Zenon
  <2> HIDE DEF m
  <2>5. DataOK(m.kind, m.data) BY <2>1, <2>3, <2>4
  <2> QED BY <2>1, <2>5, Zenon DEF m
<1>5. FileOK(doc) BY <1>1, <1>2, <1>3, <1>4 DEF FileOK
<1> QED BY <1>5, Zenon DEF doc

-----------------------------------------------------------------------------
(* The flow an import saves, and the one the canvas saves.                 *)

\* A node's profile is resolved as the install has it.
Resolved(i, n) ==
  n.data.profile # "none" =>
    n.data.settings = IF n.kind # "hitl" /\ n.data.profile \in profiles[i]
                        THEN n.data.profile ELSE "none"

\* A flow's list of plugins is its graph's.
LEMMA PluginsOfGraph ==
  ASSUME NEW f, NEW g, f.nodes = g.nodes, f.edges = g.edges
  PROVE  FlowPlugins(f) = FlowPlugins(g)
BY Zenon DEF FlowPlugins

\* What the compiler says are errors and warnings.
LEMMA IssueLevels ==
  ASSUME NEW graph, NEW guard, NEW connected, NEW x \in CompileFlow(graph, guard, connected).issues
  PROVE  x.level \in {"error", "warn"}
<1>1. CASE Starts(graph) = {}
  BY <1>1 DEF CompileFlow
<1>2. CASE Starts(graph) # {}
  <2> DEFINE w == Walk(graph, connected)
             build == BuildIssue(w)
             guarded == IF ~guard THEN {} ELSE ValidateDepends(graph, w.lowered)
             far == IF ~guard \/ w.stop # 0 THEN {} ELSE Unreachable(graph, w.lowered)
  <2>1. CompileFlow(graph, guard, connected) =
          [start |-> GetStartNodeId(graph), lowered |-> w.lowered,
           depends |-> Depends(graph, w.lowered),
           issues |-> build \cup guarded \cup far]
    BY <1>2, Zenon DEF CompileFlow
  <2>2. ASSUME x \in build PROVE x.level \in {"error", "warn"}
    BY <2>2 DEF BuildIssue
  <2>3. ASSUME x \in guarded PROVE x.level \in {"error", "warn"}
    BY <2>3 DEF ValidateDepends
  <2>4. ASSUME x \in far PROVE x.level \in {"error", "warn"}
    BY <2>4 DEF Unreachable
  <2> HIDE DEF w, build, guarded, far
  <2>5. x \in build \/ x \in guarded \/ x \in far BY <2>1
  <2> QED BY <2>2, <2>3, <2>4, <2>5
<1> QED BY <1>1, <1>2

\* The flow an import saves: a graph of the install, its profiles resolved, and
\* the list of its plugins.
LEMMA ImportedOK ==
  ASSUME NEW i, NEW plan, GraphOK(i, [nodes |-> plan.nodes, edges |-> plan.edges]),
         NEW graph, NEW lowered, NEW f,
         graph = [nodes |-> Made([k \in DOMAIN plan.nodes |-> ResolveProfile(i, plan.nodes[k])]),
                  edges |-> plan.edges],
         f = Saved([graph EXCEPT !.nodes = Built(graph, lowered)])
  PROVE  /\ GraphOK(i, f) /\ f.plugins = FlowPlugins(f)
         /\ \A k \in DOMAIN f.nodes : Resolved(i, f.nodes[k])
<1> DEFINE read == [k \in DOMAIN plan.nodes |-> ResolveProfile(i, plan.nodes[k])]
           built == Built(graph, lowered)
           g == [graph EXCEPT !.nodes = built]
<1>1. graph = [nodes |-> read, edges |-> plan.edges] BY MadeIs
<1>2. /\ DOMAIN plan.nodes \subseteq Nat /\ IsFiniteSet(DOMAIN plan.nodes)
      /\ \A k \in DOMAIN plan.nodes : FlowNodeOK(i, plan.nodes[k])
      /\ \A e \in plan.edges : {e.from, e.to} \subseteq DOMAIN plan.nodes
      /\ {e.id : e \in plan.edges} \subseteq Nat /\ IsFiniteSet({e.id : e \in plan.edges})
      /\ IsFiniteSet(plan.edges)
  BY DEF GraphOK
<1>3. DOMAIN read = DOMAIN plan.nodes OBVIOUS
<1>4. ASSUME NEW k \in DOMAIN plan.nodes
      PROVE  FlowNodeOK(i, read[k]) /\ Resolved(i, read[k])
  <2> DEFINE n == plan.nodes[k]
  <2>1. read[k] = ResolveProfile(i, n) OBVIOUS
  <2>2. FlowNodeOK(i, n) BY <1>2, Zenon
  <2> DEFINE r == ResolveProfile(i, n)
  <2> HIDE DEF n, read
  <2>3. /\ FlowNodeOK(i, r) /\ r.kind = n.kind /\ r.data.profile = n.data.profile
        /\ n.data.profile # "none" =>
             r.data.settings = IF n.kind # "hitl" /\ n.data.profile \in profiles[i]
                                 THEN n.data.profile ELSE "none"
    BY <2>2, ProfileResolved, Zenon
  <2> HIDE DEF r
  <2>4. Resolved(i, r) BY <2>3, Zenon DEF Resolved
  <2> QED BY <2>1, <2>3, <2>4, Zenon DEF r
<1> HIDE DEF read
<1>5. graph.nodes = read /\ graph.edges = plan.edges BY <1>1
<1>6. built = [k \in DOMAIN read |->
                 IF k \in lowered THEN [read[k] EXCEPT !.data = AfterBuild(read[k].kind, @)]
                 ELSE read[k]]
  BY <1>5 DEF Built
<1>7. ASSUME NEW k \in DOMAIN read
      PROVE  FlowNodeOK(i, built[k]) /\ Resolved(i, built[k])
  <2> DEFINE n == read[k]
             m == [n EXCEPT !.data = AfterBuild(n.kind, @)]
  <2>1. FlowNodeOK(i, n) /\ Resolved(i, n) BY <1>3, <1>4, Zenon
  <2>2. /\ FlowNodeOK(i, m) /\ m.kind = n.kind
        /\ m.data.settings = n.data.settings /\ m.data.profile = n.data.profile
    BY <2>1, BuildWrites, Zenon
  <2>3. Resolved(i, m)
    <3> HIDE DEF n, m
    <3> QED BY <2>1, <2>2, Zenon DEF Resolved
  <2>4. built[k] = m \/ built[k] = n BY <1>6
  <2> HIDE DEF n, m, built
  <2> QED BY <2>1, <2>2, <2>3, <2>4, Zenon
<1>8. DOMAIN built = DOMAIN read BY <1>6
<1> HIDE DEF built
<1>9. g.nodes = built /\ g.edges = plan.edges BY <1>1
<1> HIDE DEF g
<1>10. f.nodes = built /\ f.edges = plan.edges /\ f.plugins = FlowPlugins(g)
  <2>1. f = Saved(g) BY Zenon DEF g, built
  <2> QED BY <2>1, <1>9 DEF Saved
<1>11. f.plugins = FlowPlugins(f) BY <1>9, <1>10, PluginsOfGraph, Zenon
<1>12. GraphOK(i, f) BY <1>2, <1>3, <1>7, <1>8, <1>10, ZenonT(60) DEF GraphOK
<1>13. \A k \in DOMAIN f.nodes : Resolved(i, f.nodes[k])
  BY <1>7, <1>8, <1>10, Zenon
<1> QED BY <1>11, <1>12, <1>13

\* A graph with other data on a node is the same graph otherwise.
LEMMA CanvasOK ==
  ASSUME NEW i, NEW f, GraphOK(i, f), NEW k \in DOMAIN f.nodes, NEW data, NEW g,
         DataOK(f.nodes[k].kind, data), Local(i, f.nodes[k].kind, data),
         g = Saved([nodes |-> [f.nodes EXCEPT ![k].data = data], edges |-> f.edges])
  PROVE  GraphOK(i, g) /\ g.plugins = FlowPlugins(g)
<1> DEFINE n == f.nodes[k]
           m == [n EXCEPT !.data = data]
           nodes == [f.nodes EXCEPT ![k].data = data]
<1>1. FlowNodeOK(i, n) BY Zenon DEF GraphOK
<1>2. DOMAIN n = {"kind", "title", "data"} BY <1>1, Zenon DEF FlowNodeOK
<1>3. DOMAIN m = DOMAIN n /\ m.kind = n.kind /\ m.data = data
  <2> HIDE DEF n
  <2> QED BY <1>2
<1>4. FlowNodeOK(i, m)
  <2> HIDE DEF m
  <2> QED BY <1>1, <1>3, Zenon DEF FlowNodeOK
<1>5. /\ DOMAIN nodes = DOMAIN f.nodes /\ nodes[k] = m
      /\ \A l \in DOMAIN f.nodes : l # k => nodes[l] = f.nodes[l]
  <2> HIDE DEF m
  <2>1. nodes = [f.nodes EXCEPT ![k] = m] BY DEF m
  <2> HIDE DEF nodes
  <2> QED BY <2>1
<1> HIDE DEF nodes, m
<1>6. g.nodes = nodes /\ g.edges = f.edges /\ g.plugins = FlowPlugins([nodes |-> nodes, edges |-> f.edges])
  BY DEF Saved, nodes
<1>7. \A l \in DOMAIN nodes : FlowNodeOK(i, nodes[l])
  BY <1>4, <1>5, Zenon DEF GraphOK
<1>8. GraphOK(i, g) BY <1>5, <1>6, <1>7, Zenon DEF GraphOK
<1>9. g.plugins = FlowPlugins(g) BY <1>6, PluginsOfGraph
<1> QED BY <1>8, <1>9

-----------------------------------------------------------------------------
(* The invariant of the installs.                                          *)

\* What each install's flow and its last report are, and, as long as nothing has
\* changed on an install, that its flow's profiles are resolved.
FlowOK(i) == GraphOK(i, flows[i]) /\ flows[i].plugins = FlowPlugins(flows[i])
ReportOK(i) ==
  \A x \in report[i].problems \cup report[i].issues : x.level \in {"error", "warn"}
ProfilesOK(i) ==
  left = MaxChanges => \A k \in DOMAIN flows[i].nodes : Resolved(i, flows[i].nodes[k])

FlowInv ==
  /\ ext \in [Install -> SUBSET Plugin] /\ profiles \in [Install -> SUBSET Profile]
  /\ left \in 0..MaxChanges /\ FileOK(file)
  /\ DOMAIN flows = Install /\ DOMAIN report = Install
  /\ \A i \in Install : FlowOK(i) /\ ReportOK(i) /\ ProfilesOK(i)

\* An install starts without a flow.
LEMMA EmptyFlow ==
  ASSUME NEW i
  PROVE  /\ GraphOK(i, NoFlow) /\ NoFlow.plugins = FlowPlugins(NoFlow)
         /\ DOMAIN NoFlow.nodes = {}
<1>1. NoFlow.nodes = << >> /\ NoFlow.edges = {} /\ NoFlow.plugins = {} BY DEF NoFlow
<1>2. DOMAIN << >> = {} OBVIOUS
<1>3. IsFiniteSet({}) BY FS_EmptySet
<1> DEFINE f == NoFlow
<1> HIDE DEF f
<1>4. f.nodes = << >> /\ f.edges = {} /\ f.plugins = {} BY <1>1 DEF f
<1>5. DOMAIN f.nodes = {} BY <1>2, <1>4
<1>6. {e.id : e \in f.edges} = {} BY <1>4
<1>7. GraphOK(i, f) BY <1>3, <1>4, <1>5, <1>6 DEF GraphOK
<1>8. FlowPlugins(f) = {}
  <2>1. \A S : S \cap DOMAIN f.nodes = {} BY <1>5
  <2>2. {x \in {} : TRUE} = {} OBVIOUS
  <2> QED BY <1>5 DEF FlowPlugins
<1> QED BY <1>4, <1>5, <1>7, <1>8 DEF f

LEMMA FlowsInitial == FInit => FlowInv
<1> SUFFICES ASSUME FInit PROVE FlowInv OBVIOUS
<1>1. FileOK(file) BY DocumentsFit DEF FInit
<1>2. left \in 0..MaxChanges BY FlowFilesOK DEF FInit
<1>3. ext \in [Install -> SUBSET Plugin] BY DEF FInit
<1>4. profiles \in [Install -> SUBSET Profile] BY DEF FInit
<1>5. /\ DOMAIN flows = Install /\ DOMAIN report = Install
      /\ \A i \in Install : flows[i] = NoFlow /\ report[i] = NoReport
  BY DEF FInit
<1>6. ASSUME NEW i \in Install PROVE FlowOK(i) /\ ReportOK(i) /\ ProfilesOK(i)
  <2>1. GraphOK(i, NoFlow) /\ NoFlow.plugins = FlowPlugins(NoFlow) /\ DOMAIN NoFlow.nodes = {}
    BY EmptyFlow
  <2>2. flows[i] = NoFlow /\ report[i] = NoReport BY <1>5
  <2>3. NoReport.problems \cup NoReport.issues = {} BY DEF NoReport
  <2> QED BY <2>1, <2>2, <2>3, Zenon DEF FlowOK, ReportOK, ProfilesOK
<1> QED BY <1>1, <1>2, <1>3, <1>4, <1>5, <1>6 DEF FlowInv

\* An install a step leaves alone.
LEMMA OtherFlows ==
  ASSUME FlowInv, NEW j \in Install, flows'[j] = flows[j], report'[j] = report[j],
         profiles'[j] = profiles[j], left' = left \/ left' # MaxChanges
  PROVE  FlowOK(j)' /\ ReportOK(j)' /\ ProfilesOK(j)'
<1>1. FlowOK(j) /\ ReportOK(j) /\ ProfilesOK(j) BY DEF FlowInv
<1>2. FlowOK(j)' BY <1>1 DEF FlowOK, GraphOK, FlowNodeOK, FlowPlugins
<1>3. ReportOK(j)' BY <1>1 DEF ReportOK
<1>4. ProfilesOK(j)' BY <1>1 DEF ProfilesOK, Resolved
<1> QED BY <1>2, <1>3, <1>4

\* The import stamps, plans, resolves and builds.
LEMMA ImportKeeps ==
  ASSUME FlowInv, NEW i \in Install, Import(i)
  PROVE  FlowInv'
<1> DEFINE plan == PlanPatch(StampIdentities(i, file))
           graph == [nodes |-> Made([k \in DOMAIN plan.nodes |-> ResolveProfile(i, plan.nodes[k])]),
                     edges |-> plan.edges]
           compiled == CompileFlow(graph, TRUE, i \in Connected)
           f == Saved([graph EXCEPT !.nodes = Built(graph, compiled.lowered)])
<1>1. /\ flows' = [flows EXCEPT ![i] = f]
      /\ \E m, u : report' = [report EXCEPT ![i] =
           [problems |-> plan.problems, issues |-> compiled.issues, missing |-> m, unbound |-> u]]
      /\ UNCHANGED <<ext, profiles, file, origin, left>>
  BY Zenon DEF Import
<1>2. PatchOK(i, StampIdentities(i, file)) BY StampedOK DEF FlowInv
<1>3. /\ GraphOK(i, [nodes |-> plan.nodes, edges |-> plan.edges])
      /\ \A x \in plan.problems : x.level \in {"error", "warn"}
  BY <1>2, PlanOK, Zenon
<1>4. \A x \in compiled.issues : x.level \in {"error", "warn"} BY IssueLevels, Zenon
<1>5. /\ GraphOK(i, f) /\ f.plugins = FlowPlugins(f)
      /\ \A k \in DOMAIN f.nodes : Resolved(i, f.nodes[k])
  <2> HIDE DEF plan, compiled
  <2> QED BY <1>3, ImportedOK, Zenon
<1> HIDE DEF plan, graph, compiled, f
<1>6. /\ DOMAIN flows' = Install /\ flows'[i] = f
      /\ DOMAIN report' = Install
      /\ report'[i].problems = plan.problems /\ report'[i].issues = compiled.issues
      /\ \A j \in Install \ {i} : flows'[j] = flows[j] /\ report'[j] = report[j]
  BY <1>1 DEF FlowInv
<1>7. ASSUME NEW j \in Install PROVE FlowOK(j)' /\ ReportOK(j)' /\ ProfilesOK(j)'
  <2>1. CASE j # i BY <1>1, <1>6, <2>1, OtherFlows
  <2>2. CASE j = i
    <3>1. FlowOK(i)' BY <1>5, <1>6 DEF FlowOK, GraphOK, FlowNodeOK, FlowPlugins
    <3>2. ReportOK(i)' BY <1>3, <1>4, <1>6 DEF ReportOK
    <3>3. ProfilesOK(i)' BY <1>1, <1>5, <1>6 DEF ProfilesOK, Resolved
    <3> QED BY <2>2, <3>1, <3>2, <3>3
  <2> QED BY <2>1, <2>2
<1> QED BY <1>1, <1>6, <1>7 DEF FlowInv, FileOK

\* The export writes a document.
LEMMA ExportKeeps ==
  ASSUME FlowInv, NEW i \in Install, Export(i)
  PROVE  FlowInv'
<1> DEFINE nodes == flows[i].nodes
           portable == [k \in DOMAIN nodes |-> PortableData(nodes[k].kind, nodes[k].data)]
           slugs == [k \in DOMAIN nodes |-> SlugOf(nodes[k])]
<1>1. file' = GraphToPatch(flows[i], slugs, portable) BY Zenon DEF Export
<1>2. UNCHANGED <<ext, profiles, flows, report, left>> BY DEF Export
<1>3. FileOK(GraphToPatch(flows[i], slugs, portable))
  <2>1. GraphOK(i, flows[i]) BY DEF FlowInv, FlowOK
  <2>2. \A k \in DOMAIN flows[i].nodes :
          portable[k] = PortableData(flows[i].nodes[k].kind, flows[i].nodes[k].data)
    OBVIOUS
  <2> HIDE DEF slugs, portable
  <2> QED BY <2>1, <2>2, ExportedOK, Zenon
<1> HIDE DEF slugs, portable
<1>4. FileOK(file)' BY <1>1, <1>3 DEF FileOK
<1>5. ASSUME NEW j \in Install PROVE FlowOK(j)' /\ ReportOK(j)' /\ ProfilesOK(j)'
  BY <1>2, OtherFlows
<1> QED BY <1>2, <1>4, <1>5 DEF FlowInv

\* A change is one fewer that may happen.
LEMMA ChangesLeft ==
  ASSUME FlowInv, Changes
  PROVE  left' \in 0..MaxChanges /\ left' # MaxChanges
BY FlowFilesOK DEF FlowInv, Changes

\* Plugins and profiles that come and go leave the flows as they are saved.
LEMMA SettingsKeep ==
  ASSUME FlowInv, NEW i \in Install,
         \/ \E p \in Plugin : SyncPlugin(i, p)
         \/ \E f \in Profile : EditProfile(i, f)
  PROVE  FlowInv'
<1>1. left' \in 0..MaxChanges /\ left' # MaxChanges
  BY ChangesLeft DEF SyncPlugin, EditProfile
<1>2. /\ ext' \in [Install -> SUBSET Plugin] /\ profiles' \in [Install -> SUBSET Profile]
      /\ UNCHANGED <<flows, file, report>>
  BY DEF SyncPlugin, EditProfile, FlowInv
<1>3. ASSUME NEW j \in Install PROVE FlowOK(j)' /\ ReportOK(j)' /\ ProfilesOK(j)'
  <2>1. FlowOK(j) /\ ReportOK(j) BY DEF FlowInv
  <2>2. FlowOK(j)' /\ ReportOK(j)'
    BY <1>2, <2>1 DEF FlowOK, GraphOK, FlowNodeOK, FlowPlugins, ReportOK
  <2> QED BY <1>1, <2>2 DEF ProfilesOK
<1> QED BY <1>1, <1>2, <1>3 DEF FlowInv, FileOK

\* The operator's picks on the canvas.
LEMMA PicksKeep ==
  ASSUME FlowInv, NEW i \in Install, NEW k \in DOMAIN flows[i].nodes, NEW data,
         DataOK(flows[i].nodes[k].kind, data), Local(i, flows[i].nodes[k].kind, data),
         Changes, SaveCanvas(i, k, data), UNCHANGED <<ext, profiles, file, report>>
  PROVE  FlowInv'
<1> DEFINE f == flows[i]
           g == Saved([nodes |-> [f.nodes EXCEPT ![k].data = data], edges |-> f.edges])
<1>1. flows' = [flows EXCEPT ![i] = g] BY DEF SaveCanvas
<1>2. left' \in 0..MaxChanges /\ left' # MaxChanges BY ChangesLeft
<1>3. GraphOK(i, f) BY DEF FlowInv, FlowOK
<1>4. GraphOK(i, g) /\ g.plugins = FlowPlugins(g)
  <2>1. k \in DOMAIN f.nodes /\ DataOK(f.nodes[k].kind, data) /\ Local(i, f.nodes[k].kind, data)
    OBVIOUS
  <2> DEFINE h == g
  <2>2. h = Saved([nodes |-> [f.nodes EXCEPT ![k].data = data], edges |-> f.edges]) OBVIOUS
  <2> HIDE DEF f, h
  <2>3. GraphOK(i, h) /\ h.plugins = FlowPlugins(h) BY <1>3, <2>1, <2>2, CanvasOK
  <2> QED BY <2>3, Zenon DEF h, f
<1> HIDE DEF f, g
<1>5. /\ DOMAIN flows' = Install /\ flows'[i] = g
      /\ \A j \in Install \ {i} : flows'[j] = flows[j]
  BY <1>1 DEF FlowInv
<1>6. ASSUME NEW j \in Install PROVE FlowOK(j)' /\ ReportOK(j)' /\ ProfilesOK(j)'
  <2>1. CASE j # i BY <1>2, <1>5, <2>1, OtherFlows
  <2>2. CASE j = i
    <3>1. FlowOK(i)' BY <1>4, <1>5, SMTT(60) DEF FlowOK, GraphOK, FlowNodeOK, FlowPlugins
    <3>2. ReportOK(i)' BY DEF FlowInv, ReportOK
    <3>3. ProfilesOK(i)' BY <1>2 DEF ProfilesOK
    <3> QED BY <2>2, <3>1, <3>2, <3>3
  <2> QED BY <2>1, <2>2
<1> QED BY <1>2, <1>5, <1>6 DEF FlowInv, FileOK

\* Each step keeps the invariant.
LEMMA FlowsStep == FlowInv /\ [FNext]_fvars => FlowInv'
<1> SUFFICES ASSUME FlowInv, [FNext]_fvars PROVE FlowInv' OBVIOUS
<1>1. CASE UNCHANGED fvars
  <2>1. UNCHANGED <<ext, profiles, flows, file, report, left>> BY <1>1 DEF fvars
  <2>2. ASSUME NEW j \in Install PROVE FlowOK(j)' /\ ReportOK(j)' /\ ProfilesOK(j)'
    BY <2>1, OtherFlows
  <2> QED BY <2>1, <2>2 DEF FlowInv, FileOK
<1>2. ASSUME NEW i \in Install, Import(i) PROVE FlowInv' BY <1>2, ImportKeeps
<1>3. ASSUME NEW i \in Install, Export(i) PROVE FlowInv' BY <1>3, ExportKeeps
<1>4. ASSUME NEW i \in Install,
             \/ \E p \in Plugin : SyncPlugin(i, p)
             \/ \E f \in Profile : EditProfile(i, f)
      PROVE  FlowInv'
  BY <1>4, SettingsKeep
<1>5. ASSUME NEW i \in Install, NEW k \in DOMAIN flows[i].nodes, NEW p, PickPlugin(i, k, p)
      PROVE  FlowInv'
  <2> DEFINE n == flows[i].nodes[k]
             d == Bound(i, n.data, p)
  <2>1. n.kind = "plugin" /\ Changes /\ SaveCanvas(i, k, d) /\ UNCHANGED <<ext, profiles, file, report>>
    BY <1>5, Zenon DEF PickPlugin
  <2>2. DataOK(n.kind, n.data) BY Zenon DEF FlowInv, FlowOK, GraphOK, FlowNodeOK
  <2>3. Remarked(n.data, d, IdOf(i, p), FALSE, "") BY <2>2, BoundMarks, Zenon DEF DataOK
  <2>4. n.kind \in PluginKinds BY <2>1 DEF PluginKinds
  <2>5. DataOK(n.kind, d) BY <2>2, <2>3, <2>4, RemarkedOK, Zenon
  <2> HIDE DEF d
  <2>6. d.plugin = IdOf(i, p) /\ d.missing = FALSE /\ d.bind = "" BY <2>3, Zenon DEF Remarked
  <2>7. IdOf(i, p) # NoId /\ IdOf(i, p)[1] = i BY DEF IdOf, NoId
  <2>8. Local(i, n.kind, d) BY <2>6, <2>7, Zenon DEF Local, Decided
  <2> HIDE DEF n
  <2> QED BY <2>1, <2>5, <2>8, PicksKeep, Zenon DEF n
<1>6. ASSUME NEW i \in Install, NEW k \in DOMAIN flows[i].nodes, NEW f, PickProfile(i, k, f)
      PROVE  FlowInv'
  <2> DEFINE n == flows[i].nodes[k]
             d == [n.data EXCEPT !.profile = f, !.settings = f]
  <2>1. n.kind = "plugin" /\ Changes /\ SaveCanvas(i, k, d) /\ UNCHANGED <<ext, profiles, file, report>>
    BY <1>6, Zenon DEF PickProfile
  <2>2. DataOK(n.kind, n.data) /\ Local(i, n.kind, n.data)
    BY Zenon DEF FlowInv, FlowOK, GraphOK, FlowNodeOK
  <2>3. /\ DOMAIN d = DOMAIN n.data /\ d.plugin = n.data.plugin /\ d.missing = n.data.missing
        /\ d.bind = n.data.bind /\ d.has = n.data.has /\ d.bodySettings = n.data.bodySettings
        /\ d.body = n.data.body
    <3>1. DOMAIN n.data = DataFields BY <2>2, Zenon DEF DataOK
    <3> HIDE DEF n
    <3> QED BY <3>1 DEF DataFields
  <2> HIDE DEF d
  <2>4. n.kind # "hitl" /\ n.kind \in PluginKinds BY <2>1 DEF PluginKinds
  <2>5. DataOK(n.kind, d) BY <2>1, <2>2, <2>3, <2>4, Zenon DEF DataOK
  <2>6. Local(i, n.kind, d) BY <2>2, <2>3, Zenon DEF Local, Decided
  <2> HIDE DEF n
  <2> QED BY <2>1, <2>5, <2>6, PicksKeep, Zenon DEF n
<1> QED BY <1>1, <1>2, <1>3, <1>4, <1>5, <1>6 DEF FNext

\* IdentityIsLocal, of whatever the installs have and whatever documents come: a
\* saved flow's identities are its install's, and each plugin node is decided.
THEOREM IdentityStaysLocal == FSpec => []IdentityIsLocal
<1>1. ASSUME FlowInv PROVE FTypeOK
  <2>1. ASSUME NEW i \in Install
        PROVE  /\ \A k \in DOMAIN flows[i].nodes : flows[i].nodes[k].kind \in Catalog \cup {"plugin"}
               /\ \A e \in flows[i].edges : {e.from, e.to} \subseteq DOMAIN flows[i].nodes
               /\ \A x \in report[i].problems \cup report[i].issues : x.level \in {"error", "warn"}
    BY <1>1, Zenon DEF FlowInv, FlowOK, GraphOK, FlowNodeOK, ReportOK
  <2> QED BY <1>1, <2>1, Zenon DEF FTypeOK, FlowInv
<1>2. ASSUME FlowInv, NEW i \in Install, NEW k \in DOMAIN flows[i].nodes
      PROVE  LET node == flows[i].nodes[k]
                 d == node.data
             IN /\ d.plugin # NoId => d.plugin[1] = i
                /\ node.kind = "plugin" /\ "action" \in d.has
                     => Cardinality({w \in {"bound", "missing", "manual"} :
                          CASE w = "bound" -> d.plugin # NoId
                            [] w = "missing" -> d.missing
                            [] w = "manual" -> d.bind = "manual"}) = 1
  <2> DEFINE node == flows[i].nodes[k]
             d == node.data
             said == {w \in {"bound", "missing", "manual"} :
                          CASE w = "bound" -> d.plugin # NoId
                            [] w = "missing" -> d.missing
                            [] w = "manual" -> d.bind = "manual"}
  <2>1. Local(i, node.kind, d) BY <1>2, Zenon DEF FlowInv, FlowOK, GraphOK, FlowNodeOK
  <2>2. \A x : IsFiniteSet({x}) /\ Cardinality({x}) = 1 BY FS_Singleton
  <2>3. ASSUME Decided(d) PROVE \E x : said = {x}
    <3> HIDE DEF d
    <3>1. CASE d.plugin # NoId /\ d.missing = FALSE /\ d.bind = ""
      <4>1. said = {"bound"} BY <3>1
      <4> QED BY <4>1
    <3>2. CASE d.plugin = NoId /\ d.missing = TRUE /\ d.bind = ""
      <4>1. said = {"missing"} BY <3>2
      <4> QED BY <4>1
    <3>3. CASE d.plugin = NoId /\ d.missing = FALSE /\ d.bind = "manual"
      <4>1. said = {"manual"} BY <3>3
      <4> QED BY <4>1
    <3> QED BY <2>3, <3>1, <3>2, <3>3 DEF Decided
  <2> HIDE DEF said
  <2>4. Decided(d) => Cardinality(said) = 1 BY <2>2, <2>3
  <2>5. /\ d.plugin # NoId => d.plugin[1] = i
        /\ node.kind = "plugin" /\ "action" \in d.has => Cardinality(said) = 1
    BY <2>1, <2>4, Zenon DEF Local
  <2> QED BY <2>5, Zenon DEF said
<1>3. FlowInv => IdentityIsLocal BY <1>1, <1>2, Zenon DEF IdentityIsLocal
<1> QED BY FlowsInitial, FlowsStep, <1>3, PTL DEF FSpec

-----------------------------------------------------------------------------
(* The compiler's walk.  That its recursive definition has a function is   *)
(* shown here, and by taking a least counterexample what the walk lowers.  *)

\* The first n steps of the walk.
WalkTo(graph, connected, g, n) ==
  /\ DOMAIN g = 0..n /\ g[0] = WalkFrom(graph)
  /\ \A k \in 1..n : g[k] = WalkOn(graph, connected, g[k - 1])

\* Any number of steps can be walked,
LEMMA WalkGoesOn ==
  ASSUME NEW graph, NEW connected
  PROVE  \A n \in Nat : \E g : WalkTo(graph, connected, g, n)
<1> DEFINE Bad == {n \in Nat : ~ \E g : WalkTo(graph, connected, g, n)}
<1>1. SUFFICES ASSUME Bad # {} PROVE FALSE OBVIOUS
<1>2. PICK n \in Bad : \A m \in Bad : n <= m BY <1>1, LeastNat
<1>3. n \in Nat /\ ~ \E g : WalkTo(graph, connected, g, n) BY <1>2
<1>4. CASE n = 0
  <2> DEFINE g == [k \in 0..0 |-> WalkFrom(graph)]
  <2>1. DOMAIN g = 0..0 /\ g[0] = WalkFrom(graph) OBVIOUS
  <2>2. \A k \in 1..0 : FALSE OBVIOUS
  <2> HIDE DEF g
  <2>3. WalkTo(graph, connected, g, 0) BY <2>1, <2>2 DEF WalkTo
  <2> QED BY <1>3, <1>4, <2>3
<1>5. CASE n # 0
  <2>1. n - 1 \in Nat /\ n - 1 < n BY <1>3, <1>5
  <2>2. n - 1 \notin Bad BY <1>2, <1>3, <2>1
  <2>3. PICK g : WalkTo(graph, connected, g, n - 1) BY <2>1, <2>2
  <2> DEFINE h == [k \in 0..n |-> IF k = n THEN WalkOn(graph, connected, g[n - 1]) ELSE g[k]]
  <2>4. /\ DOMAIN g = 0..(n - 1) /\ g[0] = WalkFrom(graph)
        /\ \A k \in 1..(n - 1) : g[k] = WalkOn(graph, connected, g[k - 1])
    BY <2>3 DEF WalkTo
  <2>5. DOMAIN h = 0..n /\ h[0] = WalkFrom(graph) BY <1>3, <1>5, <2>4
  <2>6. ASSUME NEW k \in 1..n PROVE h[k] = WalkOn(graph, connected, h[k - 1])
    <3>1. k \in Nat /\ k - 1 \in 0..n /\ k - 1 # n BY <1>3
    <3>2. h[k - 1] = g[k - 1] BY <3>1
    <3>3. CASE k = n BY <1>3, <3>2, <3>3
    <3>4. CASE k # n
      <4>1. k \in 1..(n - 1) BY <1>3, <3>4
      <4>2. h[k] = g[k] BY <1>3, <3>4
      <4> QED BY <2>4, <3>2, <4>1, <4>2
    <3> QED BY <3>3, <3>4
  <2> HIDE DEF h
  <2>7. WalkTo(graph, connected, h, n) BY <2>5, <2>6 DEF WalkTo
  <2> QED BY <1>3, <2>7
<1> QED BY <1>4, <1>5

\* in one way.
LEMMA WalkIsOne ==
  ASSUME NEW graph, NEW connected, NEW g, NEW h, NEW n \in Nat, NEW m \in Nat,
         WalkTo(graph, connected, g, n), WalkTo(graph, connected, h, m), NEW k \in 0..n, k \in 0..m
  PROVE  g[k] = h[k]
<1> DEFINE Bad == {l \in Nat : l <= n /\ l <= m /\ g[l] # h[l]}
<1>1. SUFFICES ASSUME Bad # {} PROVE FALSE OBVIOUS
<1>2. PICK l \in Bad : \A j \in Bad : l <= j BY <1>1, LeastNat
<1>3. l \in Nat /\ l <= n /\ l <= m /\ g[l] # h[l] BY <1>2
<1>4. CASE l = 0 BY <1>3, <1>4 DEF WalkTo
<1>5. CASE l # 0
  <2>1. l - 1 \in Nat /\ l - 1 < l /\ l - 1 <= n /\ l - 1 <= m BY <1>3, <1>5
  <2>2. g[l - 1] = h[l - 1] BY <1>2, <1>3, <2>1
  <2>3. l \in 1..n /\ l \in 1..m BY <1>3, <1>5
  <2>4. g[l] = WalkOn(graph, connected, g[l - 1]) BY <2>3 DEF WalkTo
  <2>5. h[l] = WalkOn(graph, connected, h[l - 1]) BY <2>3 DEF WalkTo
  <2> QED BY <1>3, <2>2, <2>4, <2>5
<1> QED BY <1>4, <1>5

\* The walk is what its recursive definition says.
WalkStep(graph, connected, f, k) ==
  IF k = 0 THEN WalkFrom(graph) ELSE WalkOn(graph, connected, f[k - 1])
IsWalk(graph, connected, f) == f = [k \in Nat |-> WalkStep(graph, connected, f, k)]
LEMMA WalkExists ==
  ASSUME NEW graph, NEW connected
  PROVE  \E f : IsWalk(graph, connected, f)
<1> DEFINE upto(n) == CHOOSE g : WalkTo(graph, connected, g, n)
           f == [n \in Nat |-> upto(n)[n]]
           w == [k \in Nat |-> WalkStep(graph, connected, f, k)]
<1>1. \A n \in Nat : WalkTo(graph, connected, upto(n), n) BY WalkGoesOn, Zenon
<1> HIDE DEF upto
<1>2. ASSUME NEW n \in Nat PROVE f[n] = w[n]
  <2>1. WalkTo(graph, connected, upto(n), n) BY <1>1
  <2>2. CASE n = 0
    <3>1. upto(n)[0] = WalkFrom(graph) BY <2>1 DEF WalkTo
    <3> QED BY <2>2, <3>1 DEF WalkStep
  <2>3. CASE n # 0
    <3>1. n - 1 \in Nat /\ n \in 1..n BY <2>3
    <3>2. upto(n)[n] = WalkOn(graph, connected, upto(n)[n - 1]) BY <2>1, <3>1 DEF WalkTo
    <3>3. WalkTo(graph, connected, upto(n - 1), n - 1) BY <1>1, <3>1
    <3>4. n - 1 \in 0..n /\ n - 1 \in 0..(n - 1) BY <3>1
    <3>5. upto(n)[n - 1] = upto(n - 1)[n - 1] BY <2>1, <3>1, <3>3, <3>4, WalkIsOne
    <3>6. f[n - 1] = upto(n - 1)[n - 1] BY <3>1
    <3>7. f[n] = upto(n)[n] OBVIOUS
    <3> HIDE DEF f
    <3>8. w[n] = WalkOn(graph, connected, f[n - 1]) BY <2>3 DEF WalkStep
    <3> QED BY <3>2, <3>5, <3>6, <3>7, <3>8
  <2> QED BY <2>2, <2>3
<1>3. f = w
  <2>1. DOMAIN f = Nat /\ DOMAIN w = Nat OBVIOUS
  <2>2. f = [n \in Nat |-> f[n]] OBVIOUS
  <2>3. w = [n \in Nat |-> w[n]] OBVIOUS
  <2> HIDE DEF f, w
  <2> QED BY <1>2, <2>2, <2>3
<1>4. IsWalk(graph, connected, f) BY <1>3 DEF IsWalk
<1> HIDE DEF f
<1> QED BY <1>4, Zenon

\* Walk is such a function at the number it takes.
LEMMA WalkUnfolds ==
  ASSUME NEW graph, NEW connected, Cardinality(graph.edges) \in Nat
  PROVE  \E f : /\ Walk(graph, connected) = f[Cardinality(graph.edges) + 1]
                /\ f[0] = WalkFrom(graph)
                /\ \A k \in Nat \ {0} : f[k] = WalkOn(graph, connected, f[k - 1])
<1> DEFINE f == CHOOSE g : IsWalk(graph, connected, g)
<1>1. IsWalk(graph, connected, f)
  <2>1. PICK g : IsWalk(graph, connected, g) BY WalkExists, Zenon
  <2> QED BY <2>1, Zenon
<1>2. Walk(graph, connected) = f[Cardinality(graph.edges) + 1]
  BY Zenon DEF Walk, IsWalk, WalkStep
<1> HIDE DEF f
<1>3. \A k \in Nat : f[k] = WalkStep(graph, connected, f, k) BY <1>1 DEF IsWalk
<1>4. f[0] = WalkFrom(graph) BY <1>3 DEF WalkStep
<1>5. \A k \in Nat \ {0} : f[k] = WalkOn(graph, connected, f[k - 1])
  <2> SUFFICES ASSUME NEW k \in Nat \ {0} PROVE f[k] = WalkOn(graph, connected, f[k - 1])
    OBVIOUS
  <2>1. f[k] = WalkStep(graph, connected, f, k) BY <1>3
  <2> QED BY <2>1 DEF WalkStep
<1> QED BY <1>2, <1>4, <1>5, Zenon

\* Where the walk can come: the start and the target of an edge.
Ends(graph) == {GetStartNodeId(graph)} \cup {e.to : e \in graph.edges}

\* What it has lowered was built, and what it has to do is where it can come.
WalkOK(graph, connected, w) ==
  /\ DOMAIN w = {"todo", "lowered", "stop", "why"} /\ w.todo \in Seq(Ends(graph))
  /\ \A k \in w.lowered :
       k \in Ends(graph) /\ Build(graph.nodes[k], connected) = "node"

\* The targets of a node are where the walk can come.
LEMMA TargetsListed ==
  ASSUME NEW graph, NEW i, {e.id : e \in graph.edges} \subseteq Nat,
         IsFiniteSet({e.id : e \in graph.edges})
  PROVE  Targets(graph, i) \in Seq(Ends(graph))
<1> DEFINE E == {e \in graph.edges : e.from = i}
           outs == EdgesInOrder(E)
           T == [k \in DOMAIN outs |-> outs[k].to]
<1>1. {e.id : e \in E} \subseteq {e.id : e \in graph.edges} /\ E \subseteq graph.edges OBVIOUS
<1> HIDE DEF E
<1>2. IsFiniteSet({e.id : e \in E}) /\ {e.id : e \in E} \subseteq Nat
  BY <1>1, FS_Subset
<1>3. PICK n \in Nat : DOMAIN outs = 1..n /\ \A k \in 1..n : outs[k] \in E
  BY <1>2, EdgesListed
<1> HIDE DEF outs
<1>4. ASSUME NEW k \in 1..n PROVE outs[k].to \in Ends(graph)
  BY <1>1, <1>3 DEF Ends
<1>5. T = [k \in 1..n |-> outs[k].to] BY <1>3
<1>6. [k \in 1..n |-> outs[k].to] \in [1..n -> Ends(graph)] BY <1>4
<1>7. T \in Seq(Ends(graph)) BY <1>5, <1>6
<1> QED BY <1>7 DEF Targets, outs, E

\* A step of the walk keeps to that.
LEMMA WalkStepOK ==
  ASSUME NEW graph, {e.id : e \in graph.edges} \subseteq Nat,
         IsFiniteSet({e.id : e \in graph.edges}), NEW connected, NEW w,
         WalkOK(graph, connected, w)
  PROVE  WalkOK(graph, connected, WalkOn(graph, connected, w))
<1> DEFINE i == Head(w.todo)
           outcome == Build(graph.nodes[i], connected)
           v == WalkOn(graph, connected, w)
<1>0. DOMAIN w = {"todo", "lowered", "stop", "why"} /\ w.todo \in Seq(Ends(graph))
  BY DEF WalkOK
<1>1. CASE w.todo = <<>>
  BY <1>1, Zenon DEF WalkOn
<1>2. CASE w.todo # <<>> /\ i \in w.lowered
  <2>1. v = [w EXCEPT !.todo = Tail(w.todo)] BY <1>2, Zenon DEF WalkOn
  <2>2. Tail(w.todo) \in Seq(Ends(graph)) BY <1>0, <1>2
  <2> HIDE DEF v
  <2>3. DOMAIN v = DOMAIN w /\ v.todo = Tail(w.todo) /\ v.lowered = w.lowered
    BY <1>0, <2>1
  <2>4. WalkOK(graph, connected, v) BY <2>2, <2>3 DEF WalkOK
  <2> QED BY <2>4 DEF v
<1>3. CASE w.todo # <<>> /\ i \notin w.lowered /\ outcome # "node"
  <2>1. v = [w EXCEPT !.todo = <<>>, !.stop = i, !.why = outcome]
    BY <1>3, Zenon DEF WalkOn
  <2> HIDE DEF v, i, outcome
  <2>2. DOMAIN v = DOMAIN w /\ v.todo = <<>> /\ v.lowered = w.lowered
    BY <1>0, <2>1
  <2>3. << >> \in Seq(Ends(graph)) OBVIOUS
  <2>4. WalkOK(graph, connected, v) BY <2>2, <2>3 DEF WalkOK
  <2> QED BY <2>4 DEF v
<1>4. CASE w.todo # <<>> /\ i \notin w.lowered /\ outcome = "node"
  <2>1. v = [w EXCEPT !.lowered = w.lowered \cup {i},
                      !.todo = Targets(graph, i) \o Tail(w.todo)]
    BY <1>4, Zenon DEF WalkOn
  <2>2. i \in Ends(graph) /\ Tail(w.todo) \in Seq(Ends(graph)) BY <1>0, <1>4
  <2>3. Targets(graph, i) \in Seq(Ends(graph)) BY TargetsListed
  <2> HIDE DEF v, i
  <2>4. Targets(graph, i) \o Tail(w.todo) \in Seq(Ends(graph)) BY <2>2, <2>3
  <2>5. DOMAIN v = DOMAIN w /\ v.todo = Targets(graph, i) \o Tail(w.todo)
        /\ v.lowered = w.lowered \cup {i}
    BY <1>0, <2>1
  <2>6. WalkOK(graph, connected, v) BY <1>4, <2>2, <2>4, <2>5 DEF WalkOK, i
  <2> QED BY <2>6 DEF v, i
<1> QED BY <1>1, <1>2, <1>3, <1>4

\* So does the walk of a graph, from its first step to the one it ends with.
LEMMA WalkHolds ==
  ASSUME NEW i, NEW graph, GraphOK(i, graph), NEW connected
  PROVE  \E f : /\ Walk(graph, connected) = f[Cardinality(graph.edges) + 1]
                /\ Cardinality(graph.edges) + 1 \in Nat /\ f[0] = WalkFrom(graph)
                /\ \A k \in Nat \ {0} : f[k] = WalkOn(graph, connected, f[k - 1])
                /\ \A k \in Nat : WalkOK(graph, connected, f[k])
<1>1. /\ {e.id : e \in graph.edges} \subseteq Nat /\ IsFiniteSet({e.id : e \in graph.edges})
      /\ IsFiniteSet(graph.edges)
  BY DEF GraphOK
<1>2. Cardinality(graph.edges) \in Nat BY <1>1, FS_CardinalityType
<1>3. PICK f : /\ Walk(graph, connected) = f[Cardinality(graph.edges) + 1]
               /\ f[0] = WalkFrom(graph)
               /\ \A l \in Nat \ {0} : f[l] = WalkOn(graph, connected, f[l - 1])
  BY <1>2, WalkUnfolds
<1> DEFINE Bad == {l \in Nat : ~ WalkOK(graph, connected, f[l])}
<1>4. Bad = {}
  <2>1. SUFFICES ASSUME Bad # {} PROVE FALSE OBVIOUS
  <2>2. PICK l \in Bad : \A j \in Bad : l <= j BY <2>1, LeastNat
  <2>3. l \in Nat /\ ~ WalkOK(graph, connected, f[l]) BY <2>2
  <2>4. CASE l = 0
    <3>1. WalkOK(graph, connected, WalkFrom(graph)) BY DEF WalkOK, WalkFrom, Ends
    <3> QED BY <1>3, <2>3, <2>4, <3>1
  <2>5. CASE l # 0
    <3>1. l - 1 \in Nat /\ l - 1 < l BY <2>3, <2>5
    <3>2. WalkOK(graph, connected, f[l - 1]) BY <2>2, <2>3, <3>1
    <3>3. WalkOK(graph, connected, WalkOn(graph, connected, f[l - 1]))
      BY <1>1, <3>2, WalkStepOK
    <3>4. f[l] = WalkOn(graph, connected, f[l - 1]) BY <1>3, <2>3, <2>5
    <3> QED BY <2>3, <3>3, <3>4
  <2> QED BY <2>4, <2>5
<1>5. \A k \in Nat : WalkOK(graph, connected, f[k]) BY <1>4
<1> QED BY <1>2, <1>3, <1>5

\* What the compiler lowers is what the walk came to and could build.
LEMMA LoweredOK ==
  ASSUME NEW i, NEW graph, GraphOK(i, graph), NEW guard, NEW connected,
         NEW k \in CompileFlow(graph, guard, connected).lowered
  PROVE  /\ k \in DOMAIN graph.nodes /\ Build(graph.nodes[k], connected) = "node"
         /\ graph.nodes[k].kind = "startNode" \/ \E e \in graph.edges : e.to = k
<1>1. /\ DOMAIN graph.nodes \subseteq Nat
      /\ \A e \in graph.edges : {e.from, e.to} \subseteq DOMAIN graph.nodes
      /\ {e.id : e \in graph.edges} \subseteq Nat /\ IsFiniteSet({e.id : e \in graph.edges})
      /\ IsFiniteSet(graph.edges)
  BY DEF GraphOK
<1> DEFINE w == Walk(graph, connected)
<1>2. Starts(graph) # {} /\ k \in w.lowered
  <2>1. CASE Starts(graph) = {} BY <2>1 DEF CompileFlow
  <2>2. CASE Starts(graph) # {} BY <2>2 DEF CompileFlow
  <2> QED BY <2>1, <2>2
<1>3. GetStartNodeId(graph) \in Starts(graph)
  <2>1. Starts(graph) \subseteq Nat BY <1>1 DEF Starts
  <2>2. \E n \in Starts(graph) : \A m \in Starts(graph) : n <= m BY <1>2, <2>1, LeastNat
  <2> QED BY <1>2, <2>2 DEF GetStartNodeId
<1>4. PICK f : /\ w = f[Cardinality(graph.edges) + 1] /\ Cardinality(graph.edges) + 1 \in Nat
               /\ \A l \in Nat : WalkOK(graph, connected, f[l])
  BY WalkHolds
<1> HIDE DEF w
<1>5. WalkOK(graph, connected, w) BY <1>4
<1>6. k \in Ends(graph) /\ Build(graph.nodes[k], connected) = "node"
  BY <1>2, <1>5 DEF WalkOK
<1>7. CASE k = GetStartNodeId(graph)
  BY <1>3, <1>6, <1>7 DEF Starts
<1>8. CASE \E e \in graph.edges : e.to = k
  BY <1>1, <1>6, <1>8
<1> QED BY <1>6, <1>7, <1>8 DEF Ends

-----------------------------------------------------------------------------
(* What a run calls, and on which profile.                                 *)

\* What a plugin is sent is the profile the node's settings are of, unless the
\* body has settings of its own; an imported plugin's own give way to it.
LEMMA BodySettings ==
  ASSUME NEW d, d.settings # "none"
  PROVE  /\ SettingsSent("plugin", d) = d.settings
         /\ d.bodySettings = "none" /\ "settings" \notin d.body =>
              \A kind \in {"llm", "http", "ai-decision", "jev"} :
                SettingsSent(kind, d) = d.settings
<1> DEFINE own == OwnBody(d)
           profile == From({"settings"}, "profile")
<1> DEFINE Sent(f) == "settings" \in DOMAIN f /\ f["settings"] = "profile"
<1>1. \A f, g : /\ Sent(f) => Sent(f ++ g)
                /\ "settings" \notin DOMAIN f =>
                     /\ Sent(g) => Sent(f ++ g)
                     /\ "settings" \notin DOMAIN g => "settings" \notin DOMAIN (f ++ g)
  BY DEF ++
<1>2. \A keys, o : DOMAIN From(keys, o) = keys /\ \A k \in keys : From(keys, o)[k] = o
  BY DEF From
<1>3. ASSUME NEW kind, NEW body, BodyOf(kind, d) = body, Sent(body)
      PROVE  SettingsSent(kind, d) = d.settings
  BY <1>3, Zenon DEF SettingsSent
<1> HIDE DEF Sent
<1>4. SettingsSent("plugin", d) = d.settings
  <2> DEFINE body == ActionBody(d)
  <2>1. body = profile ++ own BY DEF ActionBody
  <2> HIDE DEF own, body, profile
  <2>2. Sent(profile) BY <1>2 DEF profile, Sent
  <2>3. Sent(body) BY <1>1, <2>1, <2>2, Zenon
  <2>4. BodyOf("plugin", d) = body BY DEF BodyOf, body
  <2> QED BY <1>3, <2>3, <2>4
<1>5. ASSUME d.bodySettings = "none", "settings" \notin d.body
      PROVE  /\ SettingsSent("llm", d) = d.settings /\ SettingsSent("http", d) = d.settings
             /\ SettingsSent("ai-decision", d) = d.settings /\ SettingsSent("jev", d) = d.settings
  <2>1. "settings" \notin DOMAIN own BY <1>2, <1>5 DEF OwnBody
  <2> DEFINE llm == LlmBody(d)
             http == HttpBody(d)
             asks == DecisionBody(d)
             evidence == From({"evidence"} \cap d.has, "rows")
             functions == From({"functions"}, "rows")
             questions == From({"questions"}, "rows")
  <2>2. /\ llm = (own ++ profile) ++ functions /\ http = own ++ profile
        /\ asks = ((evidence ++ own) ++ profile) ++ questions
    BY Zenon DEF LlmBody, HttpBody, DecisionBody
  <2> HIDE DEF own, llm, http, asks, evidence, functions, questions, profile
  <2>3. Sent(profile) BY <1>2 DEF profile, Sent
  <2>4. "settings" \notin DOMAIN evidence BY <1>2 DEF evidence
  <2>5. Sent(own ++ profile) BY <1>1, <2>1, <2>3, Zenon
  <2>6. Sent(llm) BY <1>1, <2>2, <2>5, Zenon
  <2>7. Sent(http) BY <2>2, <2>5, Zenon
  <2>8. "settings" \notin DOMAIN (evidence ++ own) BY <1>1, <2>1, <2>4, Zenon
  <2>9. Sent((evidence ++ own) ++ profile) BY <1>1, <2>3, <2>8, Zenon
  <2>10. Sent(asks) BY <1>1, <2>2, <2>9, Zenon
  <2>11. /\ BodyOf("llm", d) = llm /\ BodyOf("http", d) = http
         /\ BodyOf("ai-decision", d) = asks /\ BodyOf("jev", d) = asks
    BY DEF BodyOf, llm, http, asks
  <2> QED BY <1>3, <2>6, <2>7, <2>10, <2>11
<1> QED BY <1>4, <1>5

\* A node that can be built and has an edge on it is in the list of plugins.
LEMMA CalledIsListed ==
  ASSUME NEW i, NEW f, GraphOK(i, f), NEW k \in DOMAIN f.nodes,
         f.nodes[k].kind \in PluginKinds, Build(f.nodes[k], TRUE) = "node",
         \E e \in f.edges : e.to = k
  PROVE  Called(f.nodes[k]) \in FlowPlugins(f)
<1> DEFINE n == f.nodes[k]
           wired == {e.from : e \in f.edges} \cup {e.to : e \in f.edges}
           named(m) == m.data.plugin # NoId \/ "action" \in m.data.has
           key(m) == CASE m.kind = "jev" -> <<"builtin", "ai-decision">>
                       [] m.kind \notin {"jev", "plugin"} -> <<"builtin", m.kind>>
                       [] m.kind = "plugin" /\ m.data.plugin # NoId -> m.data.plugin
                       [] OTHER -> <<"action", m.data.action>>
           served == {l \in wired \cap DOMAIN f.nodes :
                        /\ f.nodes[l].kind \in PluginKinds
                        /\ f.nodes[l].kind = "plugin" => named(f.nodes[l])}
<1>1. FlowPlugins(f) = {key(f.nodes[l]) : l \in served} BY DEF FlowPlugins
<1>2. k \in wired OBVIOUS
<1>3. FlowNodeOK(i, n) BY DEF GraphOK
<1>4. n.kind = "plugin" => "action" \in n.data.has
  <2>1. SUFFICES ASSUME n.kind = "plugin", "action" \notin n.data.has PROVE FALSE OBVIOUS
  <2>2. "request" \notin n.data.has BY <1>3, <2>1, Zenon DEF FlowNodeOK, DataOK
  <2> HIDE DEF n
  <2>3. RequestOf(n.kind, n.data) = "none" BY <2>1, <2>2 DEF RequestOf
  <2>4. n.kind \in PluginKinds BY <2>1 DEF PluginKinds
  <2>5. Build(n, TRUE) # "node" BY <2>3, <2>4 DEF Build
  <2> QED BY <2>5 DEF n
<1>5. k \in served BY <1>2, <1>4
<1>6. key(n) = Called(n)
  <2> HIDE DEF n
  <2> QED BY DEF Called
<1> HIDE DEF served, key
<1>7. key(n) \in FlowPlugins(f) BY <1>1, <1>5
<1> QED BY <1>6, <1>7

\* RunMatchesFlow, of whatever comes to an install: what a run calls is in the
\* flow's list of plugins, and it runs on the profiles chosen.
THEOREM RunsAreMatched == FSpec => []RunMatchesFlow
<1>1. ASSUME FlowInv, NEW i \in Install, NEW k \in Lowered(i).lowered
      PROVE  LET n == flows[i].nodes[k]
             IN /\ n.kind \in PluginKinds => Called(n) \in flows[i].plugins
                /\ left = MaxChanges =>
                     /\ n.kind \in Sends /\ n.data.profile \in profiles[i]
                          => SettingsSent(n.kind, n.data) = n.data.profile
                     /\ n.kind = "hitl" /\ n.data.profile # "none"
                          => n.data.settings = "none" /\ "settingsId" \in PayloadOf("hitl", n.data)
  <2> DEFINE f == flows[i]
             n == f.nodes[k]
  <2>1. GraphOK(i, f) /\ f.plugins = FlowPlugins(f) /\ ProfilesOK(i)
    BY <1>1, Zenon DEF FlowInv, FlowOK
  <2>2. /\ k \in DOMAIN f.nodes /\ Build(n, TRUE) = "node"
        /\ n.kind = "startNode" \/ \E e \in f.edges : e.to = k
    <3>1. k \in CompileFlow(f, FALSE, TRUE).lowered BY Zenon DEF Lowered
    <3> DEFINE no == FALSE
               yes == TRUE
    <3>2. k \in CompileFlow(f, no, yes).lowered BY <3>1
    <3> HIDE DEF f, no, yes
    <3>3. /\ k \in DOMAIN f.nodes /\ Build(f.nodes[k], yes) = "node"
          /\ f.nodes[k].kind = "startNode" \/ \E e \in f.edges : e.to = k
      BY <2>1, <3>2, LoweredOK
    <3> QED BY <3>3, Zenon DEF yes
  <2>3. FlowNodeOK(i, n) BY <2>1, <2>2, Zenon DEF GraphOK
  <2>4. DataOK(n.kind, n.data) BY <2>3, Zenon DEF FlowNodeOK
  <2>5. n.kind \in PluginKinds => Called(n) \in f.plugins
    <3>1. "startNode" \notin PluginKinds BY DEF PluginKinds
    <3> HIDE DEF f
    <3> QED BY <2>1, <2>2, <3>1, CalledIsListed
  <2>6. left = MaxChanges => Resolved(i, n) BY <2>1, <2>2, Zenon DEF ProfilesOK
  <2>7. profiles[i] \subseteq Profile BY <1>1 DEF FlowInv
  <2> HIDE DEF n, f
  <2>8. ASSUME left = MaxChanges, n.kind \in Sends, n.data.profile \in profiles[i]
        PROVE  SettingsSent(n.kind, n.data) = n.data.profile
    <3>1. n.data.profile # "none" BY <2>7, <2>8, DocumentsOK
    <3>2. n.kind # "hitl" BY <2>8 DEF Sends
    <3>3. n.data.settings = n.data.profile BY <2>6, <2>8, <3>1, <3>2 DEF Resolved
    <3>4. CASE n.kind = "plugin" BY <3>1, <3>3, <3>4, BodySettings
    <3>5. CASE n.kind # "plugin"
      <4>1. n.kind \in {"llm", "http", "ai-decision", "jev"} BY <2>8, <3>5 DEF Sends
      <4>2. n.data.bodySettings = "none" /\ "settings" \notin n.data.body
        BY <2>4, <3>5, Zenon DEF DataOK
      <4> QED BY <3>1, <3>3, <4>1, <4>2, BodySettings
    <3> QED BY <3>4, <3>5
  <2>9. ASSUME left = MaxChanges, n.kind = "hitl", n.data.profile # "none"
        PROVE  n.data.settings = "none" /\ "settingsId" \in PayloadOf("hitl", n.data)
    <3>1. n.data.settings = "none" BY <2>6, <2>9 DEF Resolved
    <3>2. "settingsId" \in n.data.has BY <2>4, <2>9, Zenon DEF DataOK
    <3>3. "settingsId" \in HitlPayload(n.data) BY <3>2 DEF HitlPayload
    <3>4. PayloadOf("hitl", n.data) = HitlPayload(n.data) BY DEF PayloadOf
    <3> QED BY <3>1, <3>3, <3>4
  <2>10. /\ n.kind \in PluginKinds => Called(n) \in f.plugins
         /\ left = MaxChanges =>
              /\ n.kind \in Sends /\ n.data.profile \in profiles[i]
                   => SettingsSent(n.kind, n.data) = n.data.profile
              /\ n.kind = "hitl" /\ n.data.profile # "none"
                   => n.data.settings = "none" /\ "settingsId" \in PayloadOf("hitl", n.data)
    BY <2>5, <2>8, <2>9
  <2> QED BY <2>10, Zenon DEF n, f
<1>2. FlowInv => RunMatchesFlow BY <1>1, Zenon DEF RunMatchesFlow
<1> QED BY FlowsInitial, FlowsStep, <1>2, PTL DEF FSpec

-----------------------------------------------------------------------------
(* What a node reaches.                                                    *)

\* The search starts from the node itself.
Itself(n) == {n}

\* The first k rounds of the search from n.
ReachTo(E, n, g, k) ==
  /\ DOMAIN g = 0..k /\ g[0] = Itself(n)
  /\ \A l \in 1..k : g[l] = Next1(E, g[l - 1])

\* Any number of rounds can be searched,
LEMMA ReachGoesOn ==
  ASSUME NEW E, NEW n
  PROVE  \A k \in Nat : \E g : ReachTo(E, n, g, k)
<1> DEFINE Bad == {k \in Nat : ~ \E g : ReachTo(E, n, g, k)}
<1>1. SUFFICES ASSUME Bad # {} PROVE FALSE OBVIOUS
<1>2. PICK k \in Bad : \A m \in Bad : k <= m BY <1>1, LeastNat
<1>3. k \in Nat /\ ~ \E g : ReachTo(E, n, g, k) BY <1>2
<1>4. CASE k = 0
  <2> DEFINE g == [l \in 0..0 |-> Itself(n)]
  <2>1. DOMAIN g = 0..0 /\ g[0] = Itself(n) OBVIOUS
  <2>2. \A l \in 1..0 : FALSE OBVIOUS
  <2> HIDE DEF g
  <2>3. ReachTo(E, n, g, 0) BY <2>1, <2>2 DEF ReachTo
  <2> QED BY <1>3, <1>4, <2>3
<1>5. CASE k # 0
  <2>1. k - 1 \in Nat /\ k - 1 < k BY <1>3, <1>5
  <2>2. k - 1 \notin Bad BY <1>2, <1>3, <2>1
  <2>3. PICK g : ReachTo(E, n, g, k - 1) BY <2>1, <2>2
  <2> DEFINE h == [l \in 0..k |-> IF l = k THEN Next1(E, g[k - 1]) ELSE g[l]]
  <2>4. /\ DOMAIN g = 0..(k - 1) /\ g[0] = Itself(n)
        /\ \A l \in 1..(k - 1) : g[l] = Next1(E, g[l - 1])
    BY <2>3 DEF ReachTo
  <2>5. DOMAIN h = 0..k /\ h[0] = Itself(n) BY <1>3, <1>5, <2>4
  <2>6. ASSUME NEW l \in 1..k PROVE h[l] = Next1(E, h[l - 1])
    <3>1. l \in Nat /\ l - 1 \in 0..k /\ l - 1 # k BY <1>3
    <3>2. h[l - 1] = g[l - 1] BY <3>1
    <3>3. CASE l = k BY <1>3, <3>2, <3>3
    <3>4. CASE l # k
      <4>1. l \in 1..(k - 1) BY <1>3, <3>4
      <4>2. h[l] = g[l] BY <1>3, <3>4
      <4> QED BY <2>4, <3>2, <4>1, <4>2
    <3> QED BY <3>3, <3>4
  <2> HIDE DEF h
  <2>7. ReachTo(E, n, h, k) BY <2>5, <2>6 DEF ReachTo
  <2> QED BY <1>3, <2>7
<1> QED BY <1>4, <1>5

\* in one way.
LEMMA ReachIsOne ==
  ASSUME NEW E, NEW n, NEW g, NEW h, NEW k \in Nat, NEW m \in Nat,
         ReachTo(E, n, g, k), ReachTo(E, n, h, m), NEW l \in 0..k, l \in 0..m
  PROVE  g[l] = h[l]
<1> DEFINE Bad == {j \in Nat : j <= k /\ j <= m /\ g[j] # h[j]}
<1>1. SUFFICES ASSUME Bad # {} PROVE FALSE OBVIOUS
<1>2. PICK j \in Bad : \A o \in Bad : j <= o BY <1>1, LeastNat
<1>3. j \in Nat /\ j <= k /\ j <= m /\ g[j] # h[j] BY <1>2
<1>4. CASE j = 0 BY <1>3, <1>4 DEF ReachTo
<1>5. CASE j # 0
  <2>1. j - 1 \in Nat /\ j - 1 < j /\ j - 1 <= k /\ j - 1 <= m BY <1>3, <1>5
  <2>2. g[j - 1] = h[j - 1] BY <1>2, <1>3, <2>1
  <2>3. j \in 1..k /\ j \in 1..m BY <1>3, <1>5
  <2>4. g[j] = Next1(E, g[j - 1]) BY <2>3 DEF ReachTo
  <2>5. h[j] = Next1(E, h[j - 1]) BY <2>3 DEF ReachTo
  <2> QED BY <1>3, <2>2, <2>4, <2>5
<1> QED BY <1>4, <1>5

\* A search of any number of rounds.
Searches(E, n, f) == f = [k \in Nat |-> IF k = 0 THEN Itself(n) ELSE Next1(E, f[k - 1])]

\* The search is what its recursive definition says.
LEMMA ReachExists ==
  ASSUME NEW E, NEW n
  PROVE  \E f : Searches(E, n, f)
<1> DEFINE upto(k) == CHOOSE g : ReachTo(E, n, g, k)
           f == [k \in Nat |-> upto(k)[k]]
           w == [k \in Nat |-> IF k = 0 THEN Itself(n) ELSE Next1(E, f[k - 1])]
<1>1. \A k \in Nat : ReachTo(E, n, upto(k), k) BY ReachGoesOn, Zenon
<1> HIDE DEF upto
<1>2. ASSUME NEW k \in Nat PROVE f[k] = w[k]
  <2>1. ReachTo(E, n, upto(k), k) BY <1>1
  <2>2. CASE k = 0
    <3>1. upto(k)[0] = Itself(n) BY <2>1 DEF ReachTo
    <3> QED BY <2>2, <3>1
  <2>3. CASE k # 0
    <3>1. k - 1 \in Nat /\ k \in 1..k BY <2>3
    <3>2. upto(k)[k] = Next1(E, upto(k)[k - 1]) BY <2>1, <3>1 DEF ReachTo
    <3>3. ReachTo(E, n, upto(k - 1), k - 1) BY <1>1, <3>1
    <3>4. k - 1 \in 0..k /\ k - 1 \in 0..(k - 1) BY <3>1
    <3>5. upto(k)[k - 1] = upto(k - 1)[k - 1] BY <2>1, <3>1, <3>3, <3>4, ReachIsOne
    <3>6. f[k - 1] = upto(k - 1)[k - 1] BY <3>1
    <3>7. f[k] = upto(k)[k] OBVIOUS
    <3> HIDE DEF f
    <3>8. w[k] = Next1(E, f[k - 1]) BY <2>3
    <3> QED BY <3>2, <3>5, <3>6, <3>7, <3>8
  <2> QED BY <2>2, <2>3
<1>3. f = w
  <2>1. DOMAIN f = Nat /\ DOMAIN w = Nat OBVIOUS
  <2>2. f = [k \in Nat |-> f[k]] OBVIOUS
  <2>3. w = [k \in Nat |-> w[k]] OBVIOUS
  <2> HIDE DEF f, w
  <2> QED BY <1>2, <2>2, <2>3
<1> HIDE DEF f
<1>4. Searches(E, n, f) BY <1>3, Zenon DEF Searches
<1> QED BY <1>4, Zenon

\* Reach is such a function at the number of edges.
LEMMA ReachUnfolds ==
  ASSUME NEW E, NEW n
  PROVE  \E f : /\ Reach(E, n) = f[Cardinality(E)] /\ f[0] = {n}
                /\ \A k \in Nat \ {0} : f[k] = Next1(E, f[k - 1])
<1> DEFINE f == CHOOSE f : Searches(E, n, f)
<1>1. Reach(E, n) = f[Cardinality(E)] BY Zenon DEF Reach, Itself, Searches
<1>2. f = [k \in Nat |-> IF k = 0 THEN Itself(n) ELSE Next1(E, f[k - 1])]
  <2>1. Searches(E, n, f) BY ReachExists, Zenon
  <2> HIDE DEF f
  <2> QED BY <2>1, Zenon DEF Searches
<1> HIDE DEF f
<1>3. f[0] = {n} BY <1>2 DEF Itself
<1>4. \A k \in Nat \ {0} : f[k] = Next1(E, f[k - 1]) BY <1>2
<1> QED BY <1>1, <1>3, <1>4

\* A set an edge does not leave.
Closed(E, S) == \A e \in E : e.from \in S => e.to \in S

\* As many rounds as there are edges find all there is to reach: each round
\* that is not the last finds another node, and an edge leads to each.
LEMMA ReachClosed ==
  ASSUME NEW E, IsFiniteSet(E), NEW n
  PROVE  /\ n \in Reach(E, n) /\ Closed(E, Reach(E, n)) /\ IsFiniteSet(Reach(E, n))
         /\ \A S : n \in S /\ Closed(E, S) => Reach(E, n) \subseteq S
<1>1. PICK f : /\ Reach(E, n) = f[Cardinality(E)] /\ f[0] = {n}
               /\ \A k \in Nat \ {0} : f[k] = Next1(E, f[k - 1])
  BY ReachUnfolds
<1>2. Cardinality(E) \in Nat BY FS_CardinalityType
<1> DEFINE c == Cardinality(E)
           tos == {e.to : e \in E}
           all == {n} \cup tos
<1>3. IsFiniteSet(tos) /\ Cardinality(tos) <= c
  <2> DEFINE F == [e \in E |-> e.to]
  <2>1. F \in Surjection(E, tos) BY DEF Surjection
  <2> HIDE DEF F, tos
  <2> QED BY <2>1, FS_Surjection
<1>4. IsFiniteSet(all) /\ Cardinality(all) <= c + 1
  <2> HIDE DEF tos
  <2>1. IsFiniteSet(tos \cup {n}) /\ Cardinality(tos \cup {n}) <= Cardinality(tos) + 1
    <3>1. Cardinality(tos) \in Nat BY <1>3, FS_CardinalityType
    <3> QED BY <1>3, <3>1, FS_AddElement, SMTT(60)
  <2>2. all = tos \cup {n} OBVIOUS
  <2>3. Cardinality(tos) \in Nat /\ Cardinality(tos \cup {n}) \in Nat
    BY <1>3, <2>1, FS_CardinalityType
  <2> HIDE DEF all
  <2> QED BY <1>2, <1>3, <2>1, <2>2, <2>3
<1>5. Closed(E, all) BY DEF Closed
<1> HIDE DEF c, tos, all
<1>6. ASSUME NEW S, n \in S, Closed(E, S) PROVE \A k \in Nat : f[k] \subseteq S
  <2> DEFINE Bad == {k \in Nat : ~ (f[k] \subseteq S)}
  <2>1. SUFFICES ASSUME Bad # {} PROVE FALSE OBVIOUS
  <2>2. PICK k \in Bad : \A m \in Bad : k <= m BY <2>1, LeastNat
  <2>3. k \in Nat /\ ~ (f[k] \subseteq S) BY <2>2
  <2>4. k # 0 BY <1>1, <1>6, <2>3
  <2>5. k - 1 \in Nat /\ k - 1 < k BY <2>3, <2>4
  <2>6. f[k - 1] \subseteq S BY <2>2, <2>3, <2>5
  <2>7. f[k] = Next1(E, f[k - 1]) BY <1>1, <2>3, <2>4
  <2>8. Next1(E, f[k - 1]) \subseteq S BY <1>6, <2>6 DEF Next1, Closed
  <2> QED BY <2>3, <2>7, <2>8
<1>7. n \in all BY DEF all
<1>8. \A k \in Nat : f[k] \subseteq all BY <1>5, <1>6, <1>7
<1>9. \A k \in Nat : IsFiniteSet(f[k]) /\ Cardinality(f[k]) \in Nat
  BY <1>4, <1>8, FS_Subset, FS_CardinalityType
<1>10. \A k \in Nat : f[k + 1] = Next1(E, f[k])
  <2> TAKE k \in Nat
  <2>1. k + 1 \in Nat \ {0} /\ k + 1 - 1 = k OBVIOUS
  <2> QED BY <1>1, <2>1
<1>11. ASSUME NEW S PROVE S \subseteq Next1(E, S) /\ (Closed(E, S) <=> Next1(E, S) = S)
  BY DEF Next1, Closed
<1>12. ASSUME NEW k \in Nat PROVE Closed(E, f[k]) \/ Cardinality(f[k]) >= k + 1
  <2> DEFINE Bad == {l \in Nat : ~ (Closed(E, f[l]) \/ Cardinality(f[l]) >= l + 1)}
  <2>1. SUFFICES ASSUME Bad # {} PROVE FALSE OBVIOUS
  <2>2. PICK l \in Bad : \A m \in Bad : l <= m BY <2>1, LeastNat
  <2>3. l \in Nat /\ ~ Closed(E, f[l]) /\ ~ (Cardinality(f[l]) >= l + 1) BY <2>2
  <2>4. l # 0
    <3>1. Cardinality(f[0]) = 1 BY <1>1, FS_Singleton
    <3> QED BY <2>3, <3>1
  <2>5. l - 1 \in Nat /\ l - 1 < l /\ (l - 1) + 1 = l BY <2>3, <2>4
  <2>6. Closed(E, f[l - 1]) \/ Cardinality(f[l - 1]) >= l BY <2>2, <2>3, <2>5
  <2>7. f[l] = Next1(E, f[l - 1]) BY <1>1, <2>3, <2>4
  <2>8. ~ Closed(E, f[l - 1]) BY <1>11, <2>3, <2>7
  <2>9. f[l - 1] \subseteq f[l] /\ f[l - 1] # f[l] BY <1>11, <2>7, <2>8
  <2>10. Cardinality(f[l - 1]) <= Cardinality(f[l]) /\ Cardinality(f[l - 1]) # Cardinality(f[l])
    BY <1>9, <2>3, <2>9, FS_Subset
  <2>11. Cardinality(f[l - 1]) \in Nat /\ Cardinality(f[l]) \in Nat BY <1>9, <2>3, <2>5
  <2> QED BY <2>3, <2>6, <2>8, <2>10, <2>11
<1>13. Closed(E, f[c])
  <2>1. CASE Cardinality(f[c]) >= c + 1
    <3>1. f[c] \subseteq all /\ Cardinality(f[c]) \in Nat BY <1>2, <1>8, <1>9 DEF c
    <3>2. Cardinality(all) \in Nat BY <1>4, FS_CardinalityType
    <3>3. Cardinality(f[c]) <= Cardinality(all) /\ (Cardinality(all) = Cardinality(f[c]) => all = f[c])
      BY <1>4, <3>1, FS_Subset
    <3>4. c \in Nat BY <1>2 DEF c
    <3>5. all = f[c] BY <1>4, <2>1, <3>1, <3>2, <3>3, <3>4
    <3> QED BY <1>5, <3>5
  <2> QED BY <1>2, <1>12, <2>1 DEF c
<1>14. \A k \in Nat : n \in f[k]
  <2> DEFINE Bad == {k \in Nat : n \notin f[k]}
  <2>1. SUFFICES ASSUME Bad # {} PROVE FALSE OBVIOUS
  <2>2. PICK k \in Bad : \A m \in Bad : k <= m BY <2>1, LeastNat
  <2>3. k \in Nat /\ n \notin f[k] BY <2>2
  <2>4. k # 0 BY <1>1, <2>3
  <2>5. k - 1 \in Nat /\ k - 1 < k BY <2>3, <2>4
  <2>6. n \in f[k - 1] BY <2>2, <2>3, <2>5
  <2>7. f[k] = Next1(E, f[k - 1]) BY <1>1, <2>3, <2>4
  <2> QED BY <1>11, <2>3, <2>6, <2>7
<1>15. Reach(E, n) = f[c] /\ c \in Nat BY <1>1, <1>2 DEF c
<1> QED BY <1>6, <1>9, <1>13, <1>14, <1>15

\* Along an edge that closes no loop there is less to reach.
LEMMA ReachShrinks ==
  ASSUME NEW E, IsFiniteSet(E), NEW e \in E, e \notin LoopClosing(E)
  PROVE  /\ Cardinality(Reach(E, e.from)) \in Nat /\ Cardinality(Reach(E, e.to)) \in Nat
         /\ Cardinality(Reach(E, e.to)) < Cardinality(Reach(E, e.from))
<1> DEFINE A == Reach(E, e.from)
           B == Reach(E, e.to)
<1>1. e.from \in A /\ Closed(E, A) /\ IsFiniteSet(A) BY ReachClosed
<1>2. e.to \in A BY <1>1 DEF Closed
<1>3. B \subseteq A /\ IsFiniteSet(B) BY <1>1, <1>2, ReachClosed
<1>4. e.from \notin B BY DEF LoopClosing
<1> HIDE DEF A, B
<1>5. Cardinality(A) \in Nat /\ Cardinality(B) \in Nat BY <1>1, <1>3, FS_CardinalityType
<1>6. Cardinality(B) <= Cardinality(A) /\ (Cardinality(A) = Cardinality(B) => A = B)
  BY <1>1, <1>3, FS_Subset
<1>7. A # B BY <1>1, <1>4
<1>8. Cardinality(B) < Cardinality(A) BY <1>5, <1>6, <1>7
<1> QED BY <1>5, <1>8 DEF A, B

-----------------------------------------------------------------------------
(* The same walk on the graph that is saved.                               *)

\* Where nothing is refused, the walk goes by the edges alone.
LEMMA SameStep ==
  ASSUME NEW g, NEW c, NEW h, NEW d, NEW w, WalkOK(g, c, w), g.edges = h.edges,
         \A k \in Ends(g) : Build(g.nodes[k], c) = "node" /\ Build(h.nodes[k], d) = "node"
  PROVE  WalkOn(g, c, w) = WalkOn(h, d, w)
<1> DEFINE i == Head(w.todo)
<1>1. w.todo \in Seq(Ends(g)) BY DEF WalkOK
<1>2. CASE w.todo = <<>> BY <1>2, Zenon DEF WalkOn
<1>3. CASE w.todo # <<>> /\ i \in w.lowered BY <1>3, Zenon DEF WalkOn
<1>4. CASE w.todo # <<>> /\ i \notin w.lowered
  <2>1. i \in Ends(g) BY <1>1, <1>4
  <2>2. Build(g.nodes[i], c) = "node" /\ Build(h.nodes[i], d) = "node" BY <2>1
  <2>3. /\ WalkOn(g, c, w) = [w EXCEPT !.lowered = @ \cup {i}, !.todo = Targets(g, i) \o Tail(@)]
        /\ WalkOn(h, d, w) = [w EXCEPT !.lowered = @ \cup {i}, !.todo = Targets(h, i) \o Tail(@)]
    BY <1>4, <2>2, Zenon DEF WalkOn
  <2>4. Targets(g, i) = Targets(h, i) BY Zenon DEF Targets
  <2> HIDE DEF i
  <2> QED BY <2>3, <2>4, Zenon
<1> QED BY <1>2, <1>3, <1>4

\* A graph with the same edges and kinds all of whose nodes can be built is
\* lowered to the same nodes.
LEMMA SameWalk ==
  ASSUME NEW i, NEW g, GraphOK(i, g), NEW c, NEW h, NEW d, GraphOK(i, h),
         g.edges = h.edges, DOMAIN g.nodes = DOMAIN h.nodes,
         \A k \in DOMAIN g.nodes : g.nodes[k].kind = h.nodes[k].kind,
         Starts(g) # {},
         \A k \in DOMAIN g.nodes :
           Build(g.nodes[k], c) = "node" /\ Build(h.nodes[k], d) = "node"
  PROVE  Walk(g, c).lowered = Walk(h, d).lowered
<1>1. Starts(g) = Starts(h) BY DEF Starts
<1>2. GetStartNodeId(g) = GetStartNodeId(h)
  <2> DEFINE First(S) == IF S = {} THEN 0 ELSE CHOOSE k \in S : \A j \in S : k <= j
  <2>1. GetStartNodeId(g) = First(Starts(g)) /\ GetStartNodeId(h) = First(Starts(h))
    BY Zenon DEF GetStartNodeId
  <2> HIDE DEF First
  <2> QED BY <1>1, <2>1, Zenon
<1>3. GetStartNodeId(g) \in DOMAIN g.nodes
  <2>1. Starts(g) \subseteq Nat /\ Starts(g) \subseteq DOMAIN g.nodes BY DEF GraphOK, Starts
  <2>2. \E n \in Starts(g) : \A m \in Starts(g) : n <= m BY <2>1, LeastNat
  <2>3. GetStartNodeId(g) \in Starts(g) BY <2>2 DEF GetStartNodeId
  <2> QED BY <2>1, <2>3
<1>4. Ends(g) \subseteq DOMAIN g.nodes BY <1>3 DEF Ends, GraphOK
<1>5. PICK f : /\ Walk(g, c) = f[Cardinality(g.edges) + 1]
               /\ Cardinality(g.edges) + 1 \in Nat /\ f[0] = WalkFrom(g)
               /\ \A k \in Nat \ {0} : f[k] = WalkOn(g, c, f[k - 1])
               /\ \A k \in Nat : WalkOK(g, c, f[k])
  BY WalkHolds
<1>6. PICK o : /\ Walk(h, d) = o[Cardinality(h.edges) + 1] /\ o[0] = WalkFrom(h)
               /\ \A k \in Nat \ {0} : o[k] = WalkOn(h, d, o[k - 1])
  BY WalkHolds
<1> DEFINE Bad == {l \in Nat : f[l] # o[l]}
<1>7. Bad = {}
  <2>1. SUFFICES ASSUME Bad # {} PROVE FALSE OBVIOUS
  <2>2. PICK l \in Bad : \A j \in Bad : l <= j BY <2>1, LeastNat
  <2>3. l \in Nat /\ f[l] # o[l] BY <2>2
  <2>4. CASE l = 0
    <3>1. WalkFrom(g) = WalkFrom(h) BY <1>2, Zenon DEF WalkFrom
    <3> QED BY <1>5, <1>6, <2>3, <2>4, <3>1
  <2>5. CASE l # 0
    <3>1. l - 1 \in Nat /\ l - 1 < l BY <2>3, <2>5
    <3>2. f[l - 1] = o[l - 1] BY <2>2, <2>3, <3>1
    <3>3. WalkOK(g, c, f[l - 1]) BY <1>5, <3>1
    <3>4. WalkOn(g, c, f[l - 1]) = WalkOn(h, d, f[l - 1]) BY <1>4, <3>3, SameStep
    <3>5. f[l] = WalkOn(g, c, f[l - 1]) /\ o[l] = WalkOn(h, d, o[l - 1])
      BY <1>5, <1>6, <2>3, <2>5
    <3> QED BY <2>3, <3>2, <3>4, <3>5
  <2> QED BY <2>4, <2>5
<1>8. f[Cardinality(g.edges) + 1] = o[Cardinality(g.edges) + 1] BY <1>5, <1>7
<1> QED BY <1>5, <1>6, <1>8

-----------------------------------------------------------------------------
(* How often the nodes of a graph without loops run.                       *)

\* Of one edge the sum is what its source has.
LEMMA SumOfOne ==
  ASSUME NEW f, NEW e
  PROVE  FoldSet(LAMBDA x, n : n + f[x.from], 0, {e}) = 0 + f[e.from]
<1> DEFINE Is(g) == g = [s \in SUBSET {e} |->
                           IF s = {} THEN 0
                           ELSE LET x == CHOOSE y \in s : TRUE
                                IN g[s \ {x}] + f[x.from]]
           fold == CHOOSE g : Is(g)
           one == [s \in SUBSET {e} |-> IF s = {} THEN 0 ELSE 0 + f[e.from]]
<1>1. FoldSet(LAMBDA x, n : n + f[x.from], 0, {e}) = fold[{e}]
  BY Zenon DEF FoldSet, MapThenFoldSet
<1>3. (CHOOSE y \in {e} : TRUE) = e OBVIOUS
<1>4. Is(one)
  <2> DEFINE w == [s \in SUBSET {e} |->
                     IF s = {} THEN 0
                     ELSE LET x == CHOOSE y \in s : TRUE IN one[s \ {x}] + f[x.from]]
  <2>1. ASSUME NEW s \in SUBSET {e} PROVE one[s] = w[s]
    <3>1. CASE s = {} BY <3>1
    <3>2. CASE s # {}
      <4>1. s = {e} /\ s \ {e} = {} BY <3>2
      <4>2. (CHOOSE y \in s : TRUE) = e BY <4>1
      <4>3. w[s] = one[s \ {e}] + f[e.from] BY <3>2, <4>2
      <4>4. one[s \ {e}] = 0 BY <4>1
      <4>5. one[s] = 0 + f[e.from] BY <3>2
      <4> HIDE DEF one, w
      <4> QED BY <4>3, <4>4, <4>5
    <3> QED BY <3>1, <3>2
  <2>2. DOMAIN one = SUBSET {e} /\ DOMAIN w = SUBSET {e} OBVIOUS
  <2>3. one = [s \in SUBSET {e} |-> one[s]] /\ w = [s \in SUBSET {e} |-> w[s]] OBVIOUS
  <2>4. one = w
    <3> HIDE DEF one, w
    <3> QED BY <2>1, <2>2, <2>3
  <2> HIDE DEF one
  <2> QED BY <2>4, Zenon DEF w
<1>5. Is(fold)
  <2> HIDE DEF Is, one
  <2> QED BY <1>4, Zenon
<1> HIDE DEF fold
<1>6. fold[{}] = 0 BY <1>5
<1>7. fold[{e}] = fold[{e} \ {e}] + f[e.from] BY <1>3, <1>5
<1>8. {e} \ {e} = {} OBVIOUS
<1>9. fold[{e}] = 0 + f[e.from] BY <1>6, <1>7, <1>8
<1> QED BY <1>1, <1>9, Zenon

\* Where the planner finds neither a node that runs twice nor a join of nothing,
\* a node has one edge into it or is a join of some.
LEMMA OneWayIn ==
  ASSUME NEW kinds, NEW E, IsFiniteSet(E), LoopClosing(E) = {}, Convergence(kinds, E) = {},
         NEW k \in DOMAIN kinds
  PROVE  /\ kinds[k] = "promissall" => \E e \in E : e.to = k
         /\ kinds[k] # "promissall" => \A e \in E : e.to = k => {d \in E : d.to = k} = {e}
<1> DEFINE I == {e \in E : e.to = k}
<1>1. Forward(E) = E BY DEF Forward
<1>2. Inbound(E, k) = Cardinality(I) BY DEF Inbound
<1>3. IsFiniteSet(I) BY FS_Subset
<1>4. Cardinality(I) \in Nat BY <1>3, FS_CardinalityType
<1>5. /\ {m \in {e.to : e \in E} : kinds[m] # "promissall" /\ Multi(E, m)} = {}
      /\ {m \in DOMAIN kinds : kinds[m] = "promissall" /\ Inbound(E, m) < 2} = {}
  <2> DEFINE F == Forward(E)
             A == {m \in {e.to : e \in E} : kinds[m] # "promissall" /\ Multi(F, m)}
             B == {m \in DOMAIN kinds : kinds[m] = "promissall" /\ Inbound(F, m) < 2}
             C == {d \in E : kinds[d.to] = "promissall" /\ Multi(F, d.from)}
  <2>1. Convergence(kinds, E) =
           {[level |-> "warn", at |-> n, what |-> "runsTwice"] : n \in A}
      \cup {[level |-> "warn", at |-> n, what |-> "joinsNothing"] : n \in B}
      \cup {[level |-> "error", at |-> e.from, what |-> "waitsForMany"] : e \in C}
    BY Zenon DEF Convergence
  <2> HIDE DEF A, B, C
  <2>2. A = {} /\ B = {} BY <2>1
  <2> QED BY <1>1, <2>2, Zenon DEF A, B
<1>6. ASSUME kinds[k] = "promissall" PROVE \E e \in E : e.to = k
  <2>1. ~ (Cardinality(I) < 2) BY <1>2, <1>5, <1>6
  <2>2. I # {} BY <1>3, <2>1, FS_EmptySet
  <2> QED BY <2>2
<1>7. ASSUME kinds[k] # "promissall", NEW e \in E, e.to = k PROVE I = {e}
  <2>1. ~ Multi(E, k) BY <1>5, <1>7
  <2>2. ~ (Cardinality(I) > 1) BY <1>2, <2>1 DEF Multi
  <2>3. I # {} BY <1>7
  <2>4. Cardinality(I) # 0 BY <1>3, <2>3, FS_EmptySet
  <2>5. Cardinality(I) = 1 BY <1>4, <2>2, <2>4
  <2>6. \E x : I = {x} BY <1>3, <2>5, FS_Singleton
  <2>7. e \in I BY <1>7
  <2> QED BY <2>6, <2>7
<1> QED BY <1>6, <1>7

\* A graph without loops that the planner is silent about, all of it lowered.
Quiet(g, c) ==
  /\ c.lowered = DOMAIN g.nodes /\ c.start = GetStartNodeId(g)
  /\ c.depends = Depends(g, DOMAIN g.nodes) /\ DOMAIN g.nodes \subseteq Ends(g)
  /\ LoopClosing(g.edges) = {}
  /\ Convergence([k \in DOMAIN g.nodes |-> g.nodes[k].kind], g.edges) = {}

\* It runs each of its nodes once: the counts that are all one are a solution
\* of the engine's equations, and of the nodes that another solution counts
\* otherwise the one that reaches most has only edges from nodes counted one.
LEMMA RunsOnce ==
  ASSUME NEW i, NEW g, GraphOK(i, g), NEW c, Quiet(g, c)
  PROVE  /\ EngineRuns(g, c) = [k \in DOMAIN g.nodes |-> 1]
         /\ ~ EngineStalls(g, c)
<1> DEFINE N == DOMAIN g.nodes
           E == g.edges
           Into(k) == {e \in E : e.to = k /\ e.from \in c.lowered}
           Least(S) == CHOOSE x \in S : \A y \in S : x <= y
           Runs(f, k) == IF k = c.start THEN 1
                         ELSE IF g.nodes[k].kind = "promissall"
                           THEN Least({f[d] : d \in c.depends[k]})
                           ELSE FoldSet(LAMBDA e, n : n + f[e.from], 0, Into(k))
           one == [k \in N |-> 1]
<1>1. /\ c.lowered = N /\ c.start = GetStartNodeId(g) /\ c.depends = Depends(g, N)
      /\ N \subseteq Ends(g) /\ LoopClosing(E) = {}
      /\ Convergence([k \in N |-> g.nodes[k].kind], E) = {}
  BY Zenon DEF Quiet
<1>2. IsFiniteSet(E) /\ IsFiniteSet(N) /\ \A e \in E : e.from \in N /\ e.to \in N
  BY DEF GraphOK
<1>3. \A k \in N : c.depends[k] = IF g.nodes[k].kind = "promissall" THEN InboundSources(g, k) ELSE {}
  <2>1. Depends(g, N) = [k \in N |-> IF g.nodes[k].kind = "promissall" THEN InboundSources(g, k) ELSE {}]
    BY MadeIs DEF Depends
  <2> QED BY <1>1, <2>1
<1>4. ASSUME NEW f, NEW k \in N, \A e \in E : e.to = k => f[e.from] = 1
      PROVE  Runs(f, k) = 1
  <2>1. CASE k = c.start BY <2>1
  <2>2. CASE k # c.start /\ g.nodes[k].kind = "promissall"
    <3>1. PICK e \in E : e.to = k
      <4> DEFINE kinds == [l \in N |-> g.nodes[l].kind]
      <4>1. k \in DOMAIN kinds /\ kinds[k] = "promissall" BY <2>2
      <4>2. Convergence(kinds, E) = {} BY <1>1
      <4> HIDE DEF kinds
      <4> QED BY <1>1, <1>2, <4>1, <4>2, OneWayIn
    <3>2. c.depends[k] = {d.from : d \in {l \in E : l.to = k}}
      BY <1>3, <2>2 DEF InboundSources
    <3>3. {f[d] : d \in c.depends[k]} = {1}
      <4>1. e.from \in c.depends[k] /\ f[e.from] = 1 BY <1>4, <3>1, <3>2
      <4>2. \A d \in c.depends[k] : f[d] = 1 BY <1>4, <3>2
      <4> QED BY <4>1, <4>2
    <3>4. Least({1}) = 1 OBVIOUS
    <3>5. Runs(f, k) = Least({f[d] : d \in c.depends[k]}) BY <2>2, Zenon
    <3> HIDE DEF Least, Runs
    <3> QED BY <3>3, <3>4, <3>5
  <2>3. CASE k # c.start /\ g.nodes[k].kind # "promissall"
    <3>1. PICK e \in E : e.to = k
      <4>1. k \in Ends(g) BY <1>1
      <4> QED BY <1>1, <2>3, <4>1 DEF Ends
    <3>2. {d \in E : d.to = k} = {e}
      <4> DEFINE kinds == [l \in N |-> g.nodes[l].kind]
      <4>1. k \in DOMAIN kinds /\ kinds[k] # "promissall" BY <2>3
      <4>2. Convergence(kinds, E) = {} BY <1>1
      <4> HIDE DEF kinds
      <4> QED BY <1>1, <1>2, <3>1, <4>1, <4>2, OneWayIn
    <3>3. Into(k) = {e} BY <1>1, <1>2, <3>2
    <3>4. Runs(f, k) = FoldSet(LAMBDA x, n : n + f[x.from], 0, {e})
      BY <2>3, <3>3, Zenon
    <3>5. Runs(f, k) = 0 + f[e.from] BY <3>4, SumOfOne, Zenon
    <3>6. f[e.from] = 1 BY <1>4, <3>1
    <3> HIDE DEF Runs
    <3> QED BY <3>5, <3>6
  <2> QED BY <2>1, <2>2, <2>3
<1> DEFINE runs == CHOOSE f : f = [k \in c.lowered |-> Runs(f, k)]
<1>5. EngineRuns(g, c) = runs BY Zenon DEF EngineRuns
<1> HIDE DEF Runs
<1>6. one = [k \in N |-> Runs(one, k)]
  <2>1. \A k \in N : Runs(one, k) = 1 BY <1>2, <1>4
  <2> HIDE DEF N
  <2> QED BY <2>1
<1>7. runs = [k \in N |-> Runs(runs, k)]
  <2>1. one = [k \in c.lowered |-> Runs(one, k)] BY <1>1, <1>6
  <2>2. runs = [k \in c.lowered |-> Runs(runs, k)]
    <3> HIDE DEF one
    <3> QED BY <2>1, Zenon
  <2> HIDE DEF runs
  <2> QED BY <1>1, <2>2
<1> HIDE DEF runs
<1>8. \A k \in N : runs[k] = 1
  <2> DEFINE Rank(k) == Cardinality(Reach(E, k))
             m == Cardinality(N)
             Bad == {k \in N : runs[k] # 1}
             T == {m - Rank(k) : k \in Bad}
  <2>1. SUFFICES ASSUME Bad # {} PROVE FALSE OBVIOUS
  <2>2. m \in Nat BY <1>2, FS_CardinalityType
  <2>3. \A k \in N : Rank(k) \in Nat /\ Rank(k) <= m
    <3> TAKE k \in N
    <3>1. Closed(E, N) BY <1>2 DEF Closed
    <3>2. IsFiniteSet(Reach(E, k)) /\ Reach(E, k) \subseteq N BY <1>2, <3>1, ReachClosed
    <3> QED BY <1>2, <3>2, FS_Subset, FS_CardinalityType
  <2> HIDE DEF Rank, m
  <2>4. T \subseteq Nat /\ T # {} BY <2>1, <2>2, <2>3
  <2>5. PICK t \in T : \A u \in T : t <= u BY <2>4, LeastNat
  <2>6. PICK k \in Bad : t = m - Rank(k) BY <2>5
  <2>7. k \in N /\ runs[k] # 1 BY <2>6
  <2>8. ASSUME NEW e \in E, e.to = k PROVE runs[e.from] = 1
    <3>1. Rank(e.to) < Rank(e.from) BY <1>1, <1>2, ReachShrinks DEF Rank
    <3>2. e.from \in N BY <1>2
    <3>3. m - Rank(e.from) < t BY <2>2, <2>3, <2>6, <2>7, <2>8, <3>1, <3>2
    <3>4. SUFFICES ASSUME e.from \in Bad PROVE FALSE BY <3>2
    <3>5. t <= m - Rank(e.from) BY <2>5, <3>4
    <3>6. t \in Nat /\ m - Rank(e.from) \in Nat BY <2>4, <2>5, <2>2, <2>3, <3>2
    <3> QED BY <3>3, <3>5, <3>6
  <2>9. Runs(runs, k) = 1 BY <1>4, <2>7, <2>8
  <2>10. runs[k] = Runs(runs, k) BY <1>7, <2>7
  <2> QED BY <2>7, <2>9, <2>10
<1>9. DOMAIN runs = N BY <1>7
<1>10. runs = one
  <2>1. runs = [k \in N |-> runs[k]] BY <1>7
  <2> QED BY <1>8, <2>1
<1>11. ASSUME NEW k \in N, NEW d \in c.depends[k] PROVE runs[d] = 1
  <2>1. d \in InboundSources(g, k) BY <1>3, <1>11
  <2>2. d \in N BY <1>2, <2>1 DEF InboundSources
  <2> QED BY <1>8, <2>2
<1>12. ~ EngineStalls(g, c)
  <2>1. EngineStalls(g, c) <=> \E k \in N : \E a, b \in c.depends[k] : runs[a] # runs[b]
    BY <1>1, <1>5, Zenon DEF EngineStalls
  <2> HIDE DEF N
  <2> QED BY <1>11, <2>1
<1> QED BY <1>5, <1>10, <1>12

-----------------------------------------------------------------------------
(* What a clean import leaves, and the picks keep.                         *)

\* A plugin's node can be built with other settings, and on an account.
LEMMA BuiltAgain ==
  ASSUME NEW n, NEW m, NEW c, NEW d, d, m.kind = n.kind,
         m.data.object = n.data.object, m.data.has = n.data.has,
         n.kind = "plugin" \/ m.data.lang = n.data.lang, Build(n, c) = "node"
  PROVE  Build(m, d) = "node"
<1>1. Asserted(m.kind, m.data) = Asserted(n.kind, n.data)
  <2>1. CASE n.kind = "plugin"
    <3>1. PrimitiveOf("plugin") = "plugin" BY DEF PrimitiveOf, PluginKinds
    <3> QED BY <2>1, <3>1 DEF Asserted
  <2>2. CASE m.data.lang = n.data.lang
    BY <2>2 DEF Asserted, CodeNeeds, GotoNeeds
  <2> QED BY <2>1, <2>2
<1>2. RequestOf(m.kind, m.data) = RequestOf(n.kind, n.data) BY DEF RequestOf, McpMode
<1>3. /\ n.data.object /\ Asserted(n.kind, n.data) \subseteq n.data.has
      /\ n.kind \in PluginKinds => RequestOf(n.kind, n.data) # "none"
  BY DEF Build
<1>4. /\ m.data.object /\ Asserted(m.kind, m.data) \subseteq m.data.has
      /\ m.kind \in PluginKinds => RequestOf(m.kind, m.data) # "none"
  BY <1>1, <1>2, <1>3
<1> QED BY <1>4 DEF Build

\* A graph the compiler lowers whole and the planner is silent about.
KindsOf(g) == [k \in DOMAIN g.nodes |-> g.nodes[k].kind]
CanBuild(g) == \A k \in DOMAIN g.nodes : Build(g.nodes[k], TRUE) = "node"
Calm(g) ==
  /\ Starts(g) # {} /\ DOMAIN g.nodes \subseteq Walk(g, TRUE).lowered /\ CanBuild(g)
  /\ Convergence(KindsOf(g), g.edges) = {}

\* It stays so when its nodes keep their kinds and can still be built.
LEMMA CalmKept ==
  ASSUME NEW i, NEW g, GraphOK(i, g), NEW c, NEW h, GraphOK(i, h),
         h.edges = g.edges, DOMAIN h.nodes = DOMAIN g.nodes,
         \A k \in DOMAIN g.nodes : h.nodes[k].kind = g.nodes[k].kind,
         Starts(g) # {}, DOMAIN g.nodes \subseteq Walk(g, c).lowered,
         \A k \in DOMAIN g.nodes : Build(g.nodes[k], c) = "node", CanBuild(h),
         Convergence(KindsOf(g), g.edges) = {}
  PROVE  Calm(h)
<1> DEFINE yes == TRUE
<1>1. \A k \in DOMAIN h.nodes : Build(h.nodes[k], yes) = "node" BY Zenon DEF CanBuild
<1> HIDE DEF yes
<1>2. \A k \in DOMAIN g.nodes : Build(g.nodes[k], c) = "node" /\ Build(h.nodes[k], yes) = "node"
  BY <1>1, Zenon
<1>3. Walk(g, c).lowered = Walk(h, yes).lowered BY <1>2, SameWalk
<1>4. Starts(h) # {} BY DEF Starts
<1>5. KindsOf(h) = KindsOf(g) BY DEF KindsOf
<1>6. Convergence(KindsOf(h), h.edges) = {} BY <1>5, Zenon
<1>7. DOMAIN h.nodes \subseteq Walk(h, yes).lowered BY <1>3, Zenon
<1> QED BY <1>4, <1>6, <1>7, Zenon DEF Calm, yes

\* Where the compiler and the planner have nothing to say of what an import
\* reads, what it saves is calm.
LEMMA ImportedCalm ==
  ASSUME NEW i, NEW plan, GraphOK(i, [nodes |-> plan.nodes, edges |-> plan.edges]),
         Convergence([k \in DOMAIN plan.nodes |-> plan.nodes[k].kind], plan.edges) = {},
         NEW graph, NEW guard, guard, NEW c, NEW lowered, NEW f,
         graph = [nodes |-> Made([k \in DOMAIN plan.nodes |-> ResolveProfile(i, plan.nodes[k])]),
                  edges |-> plan.edges],
         CompileFlow(graph, guard, c).issues = {}, CompileFlow(graph, guard, c).lowered = lowered,
         f = Saved([graph EXCEPT !.nodes = Built(graph, lowered)])
  PROVE  Calm(f)
<1> DEFINE read == [k \in DOMAIN plan.nodes |-> ResolveProfile(i, plan.nodes[k])]
           built == Built(graph, lowered)
<1>1. graph = [nodes |-> read, edges |-> plan.edges] BY MadeIs
<1>2. /\ DOMAIN plan.nodes \subseteq Nat /\ IsFiniteSet(DOMAIN plan.nodes)
      /\ \A k \in DOMAIN plan.nodes : FlowNodeOK(i, plan.nodes[k])
      /\ \A e \in plan.edges : {e.from, e.to} \subseteq DOMAIN plan.nodes
      /\ {e.id : e \in plan.edges} \subseteq Nat /\ IsFiniteSet({e.id : e \in plan.edges})
      /\ IsFiniteSet(plan.edges)
  BY DEF GraphOK
<1>3. DOMAIN read = DOMAIN plan.nodes OBVIOUS
<1>4. ASSUME NEW k \in DOMAIN plan.nodes
      PROVE  FlowNodeOK(i, read[k]) /\ read[k].kind = plan.nodes[k].kind
  <2> DEFINE n == plan.nodes[k]
  <2>1. read[k] = ResolveProfile(i, n) OBVIOUS
  <2>2. FlowNodeOK(i, n) BY <1>2, Zenon
  <2> HIDE DEF n, read
  <2>3. FlowNodeOK(i, ResolveProfile(i, n)) /\ ResolveProfile(i, n).kind = n.kind
    BY <2>2, ProfileResolved, Zenon
  <2> QED BY <2>1, <2>3, Zenon DEF n
<1> HIDE DEF read
<1>5. graph.nodes = read /\ graph.edges = plan.edges BY <1>1
<1>6. GraphOK(i, graph) BY <1>2, <1>3, <1>4, <1>5, Zenon DEF GraphOK
<1>7. Convergence(KindsOf(graph), graph.edges) = {}
  <2>1. KindsOf(graph) = [k \in DOMAIN plan.nodes |-> plan.nodes[k].kind]
    BY <1>3, <1>4, <1>5 DEF KindsOf
  <2> QED BY <1>5, <2>1, Zenon
<1>8. Starts(graph) # {} /\ DOMAIN graph.nodes \subseteq Walk(graph, c).lowered
      /\ lowered = Walk(graph, c).lowered
  <2> DEFINE w == Walk(graph, c)
             far == IF w.stop # 0 THEN {} ELSE Unreachable(graph, w.lowered)
             said == ValidateDepends(graph, w.lowered)
             compiled == CompileFlow(graph, guard, c)
  <2>1. compiled.issues = {} /\ compiled.lowered = lowered OBVIOUS
  <2>2. Starts(graph) = {} => compiled.issues # {} BY DEF CompileFlow
  <2>3. Starts(graph) # {} BY <2>1, <2>2
  <2>4. compiled = [start |-> GetStartNodeId(graph), lowered |-> w.lowered,
                    depends |-> Depends(graph, w.lowered),
                    issues |-> BuildIssue(w) \cup said \cup far]
    BY <2>3 DEF CompileFlow
  <2> HIDE DEF w, said, far, compiled
  <2>5. lowered = w.lowered /\ BuildIssue(w) = {} /\ far = {} BY <2>1, <2>4
  <2>6. w.stop = 0 BY <2>5 DEF BuildIssue
  <2>7. DOMAIN graph.nodes \ w.lowered = {} BY <2>5, <2>6, ZenonT(60) DEF Unreachable, far
  <2> QED BY <2>3, <2>5, <2>7 DEF w
<1>9. \A k \in DOMAIN graph.nodes : Build(graph.nodes[k], c) = "node"
  <2> TAKE k \in DOMAIN graph.nodes
  <2> DEFINE no == FALSE
  <2> HIDE DEF no
  <2>1. CompileFlow(graph, no, c).lowered = Walk(graph, c).lowered
    BY <1>8 DEF CompileFlow
  <2>2. k \in CompileFlow(graph, no, c).lowered BY <1>8, <2>1
  <2> QED BY <1>6, <2>2, LoweredOK
<1>10. built = [k \in DOMAIN read |->
                 IF k \in lowered
                   THEN [read[k] EXCEPT !.data = AfterBuild(read[k].kind, @)]
                   ELSE read[k]]
  BY <1>5, Zenon DEF Built
<1>11. DOMAIN built = DOMAIN read BY <1>10
<1>12. ASSUME NEW k \in DOMAIN read
       PROVE  built[k].kind = read[k].kind /\ Build(built[k], TRUE) = "node"
  <2> DEFINE n == read[k]
             d == AfterBuild(n.kind, n.data)
             m == [n EXCEPT !.data = d]
             yes == TRUE
  <2>1. FlowNodeOK(i, n) BY <1>3, <1>4, Zenon
  <2>2. DOMAIN n.data = DataFields /\ DOMAIN n = {"kind", "title", "data"}
    BY <2>1, Zenon DEF FlowNodeOK, DataOK
  <2>3. (\E b : d = [n.data EXCEPT !.bodySettings = b] /\ n.kind = "plugin") \/ d = n.data
    BY Zenon DEF AfterBuild
  <2>4. d.object = n.data.object /\ d.has = n.data.has /\ d.lang = n.data.lang
    <3> HIDE DEF d, n
    <3> QED BY <2>2, <2>3 DEF DataFields
  <2>5. built[k] = m \/ built[k] = n BY <1>10
  <2>6. Build(n, c) = "node" BY <1>5, <1>9
  <2>7. yes OBVIOUS
  <2> HIDE DEF d, n, built
  <2>8. m.kind = n.kind /\ m.data = d BY <2>2
  <2> HIDE DEF m, yes
  <2>9. Build(m, yes) = "node" BY <2>4, <2>6, <2>7, <2>8, BuiltAgain, ZenonT(60)
  <2>10. Build(n, yes) = "node" BY <2>6, <2>7, BuiltAgain, Zenon
  <2>11. built[k].kind = n.kind /\ Build(built[k], yes) = "node"
    BY <2>5, <2>8, <2>9, <2>10, Zenon
  <2> QED BY <2>11, Zenon DEF yes, n
<1> HIDE DEF built
<1> DEFINE g == [graph EXCEPT !.nodes = built]
<1>13. g.nodes = built /\ g.edges = plan.edges BY <1>1
<1>14. f.nodes = built /\ f.edges = plan.edges
  <2>1. f = Saved(g) BY Zenon DEF g, built
  <2> HIDE DEF g
  <2> QED BY <2>1, <1>13 DEF Saved
<1>15. GraphOK(i, f) BY ImportedOK, Zenon
<1>16. CanBuild(f) BY <1>11, <1>12, <1>14, Zenon DEF CanBuild
<1>17. /\ f.edges = graph.edges /\ DOMAIN f.nodes = DOMAIN graph.nodes
       /\ \A k \in DOMAIN graph.nodes : f.nodes[k].kind = graph.nodes[k].kind
  BY <1>5, <1>11, <1>12, <1>14, Zenon
<1> QED BY <1>6, <1>7, <1>8, <1>9, <1>15, <1>16, <1>17, CalmKept, SMTT(60)

\* A flow whose last import was clean is calm.
SilentInv == \A i \in Install : HasFlow(i) /\ Clean(i) => Calm(flows[i])

\* An install starts without a flow to be calm.
LEMMA SilentInitial == FInit => SilentInv
BY DEF FInit, SilentInv, HasFlow

\* An install a step leaves alone.
LEMMA OtherSilence ==
  ASSUME SilentInv, NEW j \in Install, flows'[j] = flows[j], report'[j] = report[j]
  PROVE  HasFlow(j)' /\ Clean(j)' => Calm(flows'[j])
<1>1. HasFlow(j) /\ Clean(j) => Calm(flows[j]) BY DEF SilentInv
<1>2. HasFlow(j)' => HasFlow(j) BY DEF HasFlow
<1>3. Clean(j)' => Clean(j) BY DEF Clean
<1> QED BY <1>1, <1>2, <1>3

\* An import about which nothing is said leaves a calm flow.
LEMMA ImportSilent ==
  ASSUME FlowInv, NEW i \in Install, Import(i), Clean(i)'
  PROVE  Calm(flows'[i])
<1> DEFINE plan == PlanPatch(StampIdentities(i, file))
           graph == [nodes |-> Made([k \in DOMAIN plan.nodes |-> ResolveProfile(i, plan.nodes[k])]),
                     edges |-> plan.edges]
           yes == TRUE
           here == i \in Connected
           compiled == CompileFlow(graph, yes, here)
           f == Saved([graph EXCEPT !.nodes = Built(graph, compiled.lowered)])
<1>1. /\ flows' = [flows EXCEPT ![i] = f]
      /\ \E m, u : report' = [report EXCEPT ![i] =
           [problems |-> plan.problems, issues |-> compiled.issues, missing |-> m, unbound |-> u]]
  BY Zenon DEF Import
<1>2. PatchOK(i, StampIdentities(i, file)) BY StampedOK DEF FlowInv
<1>3. GraphOK(i, [nodes |-> plan.nodes, edges |-> plan.edges]) BY <1>2, PlanOK, Zenon
<1>4. Convergence([k \in DOMAIN plan.nodes |-> plan.nodes[k].kind], plan.edges) \subseteq plan.problems
  <2> DEFINE patch == StampIdentities(i, file)
             refs == ByRef(patch)
             nodes == PlannedNodes(patch, refs)
             planned == PlannedEdges(patch, nodes, refs)
             edges == {p.edge : p \in {q \in planned : q.level # "error"}}
             said == NodeProblems(patch, nodes) \cup EdgeProblems(planned)
             converge == Convergence([k \in DOMAIN nodes |-> nodes[k].kind], edges)
  <2>1. plan = [nodes |-> nodes, edges |-> edges, problems |-> said \cup converge]
    BY Zenon DEF PlanPatch
  <2> HIDE DEF said, nodes, edges, plan
  <2>2. plan.nodes = nodes /\ plan.edges = edges /\ plan.problems = said \cup converge
    <3> HIDE DEF converge
    <3> QED BY <2>1
  <2>3. converge = Convergence([k \in DOMAIN plan.nodes |-> plan.nodes[k].kind], plan.edges)
    BY <2>2, Zenon
  <2> HIDE DEF converge
  <2> QED BY <2>2, <2>3
<1>5. flows'[i] = f /\ plan.problems = {} /\ compiled.issues = {}
  <2> HIDE DEF plan, compiled, f
  <2> QED BY <1>1 DEF FlowInv, Clean
<1>6. yes OBVIOUS
<1>7. Calm(f)
  <2> DEFINE lowered == compiled.lowered
  <2>1. f = Saved([graph EXCEPT !.nodes = Built(graph, lowered)]) OBVIOUS
  <2>2. CompileFlow(graph, yes, here).issues = {} /\ CompileFlow(graph, yes, here).lowered = lowered
    BY <1>5
  <2>3. Convergence([k \in DOMAIN plan.nodes |-> plan.nodes[k].kind], plan.edges) = {}
    BY <1>4, <1>5
  <2> DEFINE h == graph
  <2>4. h = [nodes |-> Made([k \in DOMAIN plan.nodes |-> ResolveProfile(i, plan.nodes[k])]),
             edges |-> plan.edges]
    OBVIOUS
  <2> HIDE DEF lowered, f, h, plan, yes, here
  <2> QED BY <1>3, <1>6, <2>1, <2>2, <2>3, <2>4, ImportedCalm
<1> QED BY <1>5, <1>7, Zenon

\* A pick on the canvas changes neither what can be built nor the wiring.
LEMMA PickSilent ==
  ASSUME FlowInv, SilentInv, NEW i \in Install, NEW k \in DOMAIN flows[i].nodes, NEW data,
         flows[i].nodes[k].kind = "plugin", HasFlow(i),
         data.object = flows[i].nodes[k].data.object, data.has = flows[i].nodes[k].data.has,
         DataOK(flows[i].nodes[k].kind, data), Local(i, flows[i].nodes[k].kind, data),
         SaveCanvas(i, k, data), report' = report
  PROVE  SilentInv'
<1> DEFINE f == flows[i]
           g == Saved([nodes |-> [f.nodes EXCEPT ![k].data = data], edges |-> f.edges])
           n == f.nodes[k]
           m == [n EXCEPT !.data = data]
           yes == TRUE
<1>1. flows' = [flows EXCEPT ![i] = g] BY DEF SaveCanvas
<1>2. GraphOK(i, f) BY DEF FlowInv, FlowOK
<1>3. FlowNodeOK(i, n) BY <1>2, Zenon DEF GraphOK
<1>4. m.kind = n.kind /\ m.data = data
  <2>1. DOMAIN n = {"kind", "title", "data"} BY <1>3, Zenon DEF FlowNodeOK
  <2> HIDE DEF n
  <2> QED BY <2>1
<1>5. /\ DOMAIN g.nodes = DOMAIN f.nodes /\ g.edges = f.edges /\ g.nodes[k] = m
      /\ \A l \in DOMAIN f.nodes : l # k => g.nodes[l] = f.nodes[l]
  <2> HIDE DEF f
  <2>1. [f.nodes EXCEPT ![k].data = data] = [f.nodes EXCEPT ![k] = m] OBVIOUS
  <2> HIDE DEF m
  <2>2. g.nodes = [f.nodes EXCEPT ![k] = m] /\ g.edges = f.edges BY <2>1 DEF Saved
  <2> HIDE DEF g
  <2>3. k \in DOMAIN f.nodes BY DEF f
  <2> QED BY <2>2, <2>3
<1>6. GraphOK(i, g)
  <2>1. k \in DOMAIN f.nodes /\ DataOK(f.nodes[k].kind, data) /\ Local(i, f.nodes[k].kind, data)
    OBVIOUS
  <2> DEFINE h == g
  <2>2. h = Saved([nodes |-> [f.nodes EXCEPT ![k].data = data], edges |-> f.edges]) OBVIOUS
  <2> HIDE DEF f, h
  <2>3. GraphOK(i, h) BY <1>2, <2>1, <2>2, CanvasOK
  <2> QED BY <2>3, Zenon DEF h, f
<1>7. ASSUME Clean(i) PROVE Calm(g)
  <2>1. Calm(f) BY <1>7 DEF SilentInv
  <2>2. \A l \in DOMAIN f.nodes : Build(f.nodes[l], yes) = "node" BY <2>1, Zenon DEF Calm, CanBuild
  <2>3. n.data.object = data.object /\ n.data.has = data.has /\ n.kind = "plugin" OBVIOUS
  <2>4. k \in DOMAIN f.nodes /\ yes OBVIOUS
  <2>5. Starts(f) # {} /\ DOMAIN f.nodes \subseteq Walk(f, yes).lowered
        /\ Convergence(KindsOf(f), f.edges) = {}
    BY <2>1, Zenon DEF Calm
  <2> HIDE DEF m, g, f, yes
  <2>6. Build(m, yes) = "node"
    <3>1. Build(n, yes) = "node" BY <2>2, <2>4
    <3>2. m.data.object = n.data.object /\ m.data.has = n.data.has BY <1>4, <2>3
    <3> HIDE DEF n
    <3> QED BY <1>4, <2>3, <2>4, <3>1, <3>2, BuiltAgain, ZenonT(60)
  <2>7. \A l \in DOMAIN g.nodes : Build(g.nodes[l], yes) = "node" BY <1>5, <2>2, <2>6, Zenon
  <2>8. CanBuild(g) BY <2>7, Zenon DEF CanBuild, yes
  <2>9. \A l \in DOMAIN f.nodes : g.nodes[l].kind = f.nodes[l].kind BY <1>4, <1>5, Zenon
  <2> QED BY <1>2, <1>5, <1>6, <2>2, <2>5, <2>8, <2>9, CalmKept
<1> HIDE DEF f, g, n, m
<1>8. ASSUME NEW j \in Install PROVE HasFlow(j)' /\ Clean(j)' => Calm(flows'[j])
  <2>1. CASE j # i
    <3>1. flows'[j] = flows[j] /\ report'[j] = report[j] BY <1>1, <2>1 DEF FlowInv
    <3> QED BY <3>1, OtherSilence
  <2>2. CASE j = i
    <3>1. flows'[i] = g BY <1>1 DEF FlowInv
    <3>2. Clean(i)' => Clean(i) BY DEF Clean
    <3> QED BY <1>7, <2>2, <3>1, <3>2
  <2> QED BY <2>1, <2>2
<1> QED BY <1>8 DEF SilentInv

\* Each step keeps it.
LEMMA SilentStep == FlowInv /\ SilentInv /\ [FNext]_fvars => SilentInv'
<1> SUFFICES ASSUME FlowInv, SilentInv, [FNext]_fvars PROVE SilentInv' OBVIOUS
<1>1. ASSUME flows' = flows, report' = report PROVE SilentInv'
  <2>1. ASSUME NEW j \in Install PROVE HasFlow(j)' /\ Clean(j)' => Calm(flows'[j])
    BY <1>1, OtherSilence
  <2> QED BY <2>1 DEF SilentInv
<1>2. ASSUME NEW i \in Install, Import(i) PROVE SilentInv'
  <2>1. ASSUME NEW j \in Install, j # i PROVE flows'[j] = flows[j] /\ report'[j] = report[j]
    BY <1>2, <2>1 DEF Import, FlowInv
  <2>2. ASSUME NEW j \in Install PROVE HasFlow(j)' /\ Clean(j)' => Calm(flows'[j])
    <3>1. CASE j # i BY <2>1, <3>1, OtherSilence
    <3>2. CASE j = i BY <1>2, <3>2, ImportSilent
    <3> QED BY <3>1, <3>2
  <2> QED BY <2>2 DEF SilentInv
<1>3. ASSUME NEW i \in Install, NEW k \in DOMAIN flows[i].nodes, NEW p, PickPlugin(i, k, p)
      PROVE  SilentInv'
  <2> DEFINE n == flows[i].nodes[k]
             d == Bound(i, n.data, p)
  <2>1. n.kind = "plugin" /\ HasFlow(i) /\ SaveCanvas(i, k, d) /\ report' = report
    BY <1>3, Zenon DEF PickPlugin
  <2>2. DataOK(n.kind, n.data) BY Zenon DEF FlowInv, FlowOK, GraphOK, FlowNodeOK
  <2>3. Remarked(n.data, d, IdOf(i, p), FALSE, "") BY <2>2, BoundMarks, Zenon DEF DataOK
  <2>4. n.kind \in PluginKinds BY <2>1 DEF PluginKinds
  <2>5. DataOK(n.kind, d) BY <2>2, <2>3, <2>4, RemarkedOK, Zenon
  <2> HIDE DEF d
  <2>6. /\ d.plugin = IdOf(i, p) /\ d.missing = FALSE /\ d.bind = ""
        /\ d.object = n.data.object /\ d.has = n.data.has
    BY <2>3, Zenon DEF Remarked
  <2>7. IdOf(i, p) # NoId /\ IdOf(i, p)[1] = i BY DEF IdOf, NoId
  <2>8. Local(i, n.kind, d) BY <2>6, <2>7, Zenon DEF Local, Decided
  <2> HIDE DEF n
  <2> QED BY <2>1, <2>5, <2>6, <2>8, PickSilent, Zenon DEF n
<1>4. ASSUME NEW i \in Install, NEW k \in DOMAIN flows[i].nodes, NEW f, PickProfile(i, k, f)
      PROVE  SilentInv'
  <2> DEFINE n == flows[i].nodes[k]
             d == [n.data EXCEPT !.profile = f, !.settings = f]
  <2>1. n.kind = "plugin" /\ HasFlow(i) /\ SaveCanvas(i, k, d) /\ report' = report
    BY <1>4, Zenon DEF PickProfile
  <2>2. DataOK(n.kind, n.data) /\ Local(i, n.kind, n.data)
    BY Zenon DEF FlowInv, FlowOK, GraphOK, FlowNodeOK
  <2>3. /\ DOMAIN d = DOMAIN n.data /\ d.plugin = n.data.plugin /\ d.missing = n.data.missing
        /\ d.bind = n.data.bind /\ d.has = n.data.has /\ d.bodySettings = n.data.bodySettings
        /\ d.body = n.data.body /\ d.object = n.data.object
    <3>1. DOMAIN n.data = DataFields BY <2>2, Zenon DEF DataOK
    <3> HIDE DEF n
    <3> QED BY <3>1 DEF DataFields
  <2> HIDE DEF d
  <2>4. n.kind # "hitl" /\ n.kind \in PluginKinds BY <2>1 DEF PluginKinds
  <2>5. DataOK(n.kind, d) BY <2>1, <2>2, <2>3, <2>4, Zenon DEF DataOK
  <2>6. Local(i, n.kind, d) BY <2>2, <2>3, Zenon DEF Local, Decided
  <2> HIDE DEF n
  <2> QED BY <2>1, <2>3, <2>5, <2>6, PickSilent, Zenon DEF n
<1>5. CASE UNCHANGED fvars BY <1>1, <1>5 DEF fvars
<1>6. ASSUME NEW i \in Install,
             \/ Export(i)
             \/ \E p \in Plugin : SyncPlugin(i, p)
             \/ \E f \in Profile : EditProfile(i, f)
      PROVE  SilentInv'
  BY <1>1, <1>6 DEF Export, SyncPlugin, EditProfile
<1> QED BY <1>2, <1>3, <1>4, <1>5, <1>6 DEF FNext

\* A calm graph without loops is lowered whole.
LEMMA CalmIsQuiet ==
  ASSUME NEW i, NEW g, GraphOK(i, g), Calm(g), LoopClosing(g.edges) = {}
  PROVE  Quiet(g, CompileFlow(g, FALSE, TRUE))
<1> DEFINE no == FALSE
           yes == TRUE
           w == Walk(g, yes)
           c == CompileFlow(g, no, yes)
           N == DOMAIN g.nodes
<1>1. /\ Starts(g) # {} /\ N \subseteq w.lowered
      /\ Convergence([k \in N |-> g.nodes[k].kind], g.edges) = {}
  BY Zenon DEF Calm, KindsOf
<1> HIDE DEF no, yes
<1>2. /\ c.lowered = w.lowered /\ c.start = GetStartNodeId(g)
      /\ c.depends = Depends(g, w.lowered)
  BY <1>1 DEF CompileFlow
<1>3. \A k \in c.lowered : k \in N BY LoweredOK
<1>4. \A k \in w.lowered : k \in Ends(g)
  <2>1. PICK f : /\ w = f[Cardinality(g.edges) + 1] /\ Cardinality(g.edges) + 1 \in Nat
                 /\ \A k \in Nat : WalkOK(g, yes, f[k])
    BY WalkHolds
  <2>2. WalkOK(g, yes, w) BY <2>1
  <2> QED BY <2>2 DEF WalkOK
<1> HIDE DEF w, c, N
<1>5. w.lowered = N BY <1>1, <1>2, <1>3
<1>6. c.lowered = N /\ c.start = GetStartNodeId(g) /\ c.depends = Depends(g, N) /\ N \subseteq Ends(g)
  BY <1>2, <1>4, <1>5
<1>7. Quiet(g, c) BY <1>1, <1>6, Zenon DEF Quiet, N
<1> QED BY <1>7, Zenon DEF c, no, yes

\* SilentFlowRunsOnce, of whatever documents come and whatever is picked on the
\* canvas after: a flow without loops the planner and the compiler are silent
\* about runs each of its nodes once, and no join of it waits for ever.
THEOREM SilenceIsRight == FSpec => []SilentFlowRunsOnce
<1>1. ASSUME FlowInv, SilentInv, NEW i \in Install, HasFlow(i), Clean(i),
             LoopClosing(flows[i].edges) = {}
      PROVE  /\ EngineRuns(flows[i], Lowered(i)) = [k \in DOMAIN flows[i].nodes |-> 1]
             /\ ~ EngineStalls(flows[i], Lowered(i))
  <2> DEFINE g == flows[i]
  <2>1. GraphOK(i, g) BY <1>1 DEF FlowInv, FlowOK
  <2>2. Calm(g) BY <1>1 DEF SilentInv
  <2>3. Quiet(g, Lowered(i)) BY <1>1, <2>1, <2>2, CalmIsQuiet, Zenon DEF Lowered
  <2> HIDE DEF g
  <2>4. EngineRuns(g, Lowered(i)) = [k \in DOMAIN g.nodes |-> 1] /\ ~ EngineStalls(g, Lowered(i))
    BY <2>1, <2>3, RunsOnce, Zenon
  <2> QED BY <2>4, Zenon DEF g
<1>2. FlowInv /\ SilentInv => SilentFlowRunsOnce BY <1>1, Zenon DEF SilentFlowRunsOnce
<1> QED BY FlowsInitial, FlowsStep, SilentInitial, SilentStep, <1>2, PTL DEF FSpec

-----------------------------------------------------------------------------
(* The refs an export gives: one for each node.                           *)

\* A ref is apart from those before it, and has a name.
LEMMA FreeRefIsFree ==
  ASSUME NEW w, NEW taken, IsFiniteSet(taken)
  PROVE  FreeRef(<<w>>, taken) \notin taken /\ FreeRef(<<w>>, taken) # <<>>
<1> DEFINE slug == <<w>>
           c == Cardinality(taken)
           T == {m \in 2..(c + 2) : Append(slug, m) \notin taken}
<1>1. c \in Nat BY FS_CardinalityType
<1>2. \A m : Append(slug, m)[2] = m /\ Append(slug, m) # <<>>
  <2>1. \A m : Append(slug, m)[2] = m /\ Len(Append(slug, m)) = 2 OBVIOUS
  <2>2. Len(<<>>) = 0 OBVIOUS
  <2> QED BY <2>1, <2>2
<1>3. T # {}
  <2>1. SUFFICES ASSUME T = {} PROVE FALSE OBVIOUS
  <2> DEFINE f == [m \in 2..(c + 2) |-> Append(slug, m)]
  <2>2. f \in [2..(c + 2) -> taken] BY <2>1
  <2>3. IsFiniteSet(2..(c + 2)) /\ Cardinality(2..(c + 2)) = c + 1 BY <1>1, FS_Interval
  <2>4. \A m, l \in 2..(c + 2) : f[m] = f[l] => m = l BY <1>2
  <2>5. c < Cardinality(2..(c + 2)) BY <1>1, <2>3
  <2> DEFINE D == 2..(c + 2)
  <2> HIDE DEF f, D, c
  <2>6. \E m, l \in D : m # l /\ f[m] = f[l]
    BY <2>2, <2>3, <2>5, FS_PigeonHole DEF c, D
  <2> QED BY <2>4, <2>6 DEF D
<1>4. PICK n \in T : \A m \in T : n <= m
  <2>1. T \subseteq Nat BY <1>1
  <2> HIDE DEF T
  <2> QED BY <1>3, <2>1, LeastNat
<1> DEFINE Fits(m) == Append(slug, m) \notin taken /\ \A l \in 2..(m - 1) : Append(slug, l) \in taken
           k == CHOOSE m \in 2..(c + 2) : Fits(m)
<1>5. n \in 2..(c + 2) /\ Fits(n)
  <2>1. ASSUME NEW l \in 2..(n - 1) PROVE Append(slug, l) \in taken
    <3>1. l \in 2..(c + 2) /\ ~(n <= l) BY <1>1, <1>4
    <3>2. l \notin T BY <1>4, <3>1
    <3> QED BY <3>1, <3>2
  <2> QED BY <1>4, <2>1
<1>6. k \in 2..(c + 2) /\ Fits(k)
  <2> HIDE DEF Fits
  <2> QED BY <1>5, Zenon
<1>7. FreeRef(slug, taken) = IF slug \notin taken THEN slug ELSE Append(slug, k)
  BY Zenon DEF FreeRef
<1>8. slug # <<>> /\ Append(slug, k) # <<>> BY <1>2
<1>9. Append(slug, k) \notin taken BY <1>6
<1> HIDE DEF slug, k
<1>10. FreeRef(slug, taken) \notin taken /\ FreeRef(slug, taken) # <<>>
  BY <1>7, <1>8, <1>9
<1> QED BY <1>10 DEF slug

\* The refs before one, and the first n refs.
Before(g, k) == {g[j] : j \in 1..(k - 1)}
RefsTo(slugs, g, n) ==
  DOMAIN g = 1..n /\ \A l \in 1..n : g[l] = FreeRef(slugs[l], Before(g, l))
InTurn(slugs, r) == r = [l \in DOMAIN slugs |-> FreeRef(slugs[l], Before(r, l))]

\* The refs before one are those of any list that starts alike.
LEMMA SameBefore ==
  ASSUME NEW g, NEW h, NEW n \in Nat, \A j \in 1..(n - 1) : g[j] = h[j]
  PROVE  Before(g, n) = Before(h, n)
BY DEF Before

\* Any number of nodes can be given refs,
LEMMA RefsGoOn ==
  ASSUME NEW slugs
  PROVE  \A k \in Nat : \E g : RefsTo(slugs, g, k)
<1> DEFINE Bad == {k \in Nat : ~ \E g : RefsTo(slugs, g, k)}
<1>1. SUFFICES ASSUME Bad # {} PROVE FALSE OBVIOUS
<1>2. PICK k \in Bad : \A m \in Bad : k <= m BY <1>1, LeastNat
<1>3. k \in Nat /\ ~ \E g : RefsTo(slugs, g, k) BY <1>2
<1>4. CASE k = 0
  <2> DEFINE g == [l \in 1..0 |-> l]
  <2>1. DOMAIN g = 1..0 OBVIOUS
  <2>2. \A l \in 1..0 : FALSE OBVIOUS
  <2> HIDE DEF g
  <2>3. RefsTo(slugs, g, 0) BY <2>1, <2>2 DEF RefsTo
  <2> QED BY <1>3, <1>4, <2>3
<1>5. CASE k # 0
  <2>1. k - 1 \in Nat /\ k - 1 < k BY <1>3, <1>5
  <2>2. k - 1 \notin Bad BY <1>2, <1>3, <2>1
  <2>3. PICK g : RefsTo(slugs, g, k - 1) BY <2>1, <2>2
  <2> DEFINE newest == FreeRef(slugs[k], Before(g, k))
             h == [l \in 1..k |-> IF l = k THEN newest ELSE g[l]]
  <2>4. DOMAIN g = 1..(k - 1) /\ \A l \in 1..(k - 1) : g[l] = FreeRef(slugs[l], Before(g, l))
    BY <2>3 DEF RefsTo
  <2> HIDE DEF newest
  <2>5. DOMAIN h = 1..k /\ h[k] = newest /\ \A j \in 1..(k - 1) : h[j] = g[j] BY <1>3, <1>5
  <2> HIDE DEF h
  <2>6. ASSUME NEW l \in 1..k PROVE h[l] = FreeRef(slugs[l], Before(h, l))
    <3>1. l \in Nat /\ \A j \in 1..(l - 1) : h[j] = g[j] BY <1>3, <2>5
    <3>2. Before(h, l) = Before(g, l) BY <3>1, SameBefore
    <3>3. CASE l = k BY <2>5, <3>2, <3>3 DEF newest
    <3>4. CASE l # k
      <4>1. l \in 1..(k - 1) BY <1>3, <3>4
      <4> QED BY <2>4, <2>5, <3>2, <4>1
    <3> QED BY <3>3, <3>4
  <2>7. RefsTo(slugs, h, k) BY <2>5, <2>6 DEF RefsTo
  <2> QED BY <1>3, <2>7
<1> QED BY <1>4, <1>5

\* UniqueRefs is what its recursive definition says.
LEMMA RefsUnfold ==
  ASSUME NEW slugs, NEW n \in Nat, DOMAIN slugs = 1..n
  PROVE  RefsTo(slugs, UniqueRefs(slugs), n)
<1>1. PICK g : RefsTo(slugs, g, n) BY RefsGoOn
<1>2. DOMAIN g = 1..n /\ \A l \in 1..n : g[l] = FreeRef(slugs[l], Before(g, l))
  BY <1>1 DEF RefsTo
<1> DEFINE h == [l \in 1..n |-> g[l]]
<1>3. InTurn(slugs, h)
  <2> DEFINE w == [l \in DOMAIN slugs |-> FreeRef(slugs[l], Before(h, l))]
  <2>1. ASSUME NEW l \in 1..n PROVE h[l] = FreeRef(slugs[l], Before(h, l))
    <3>1. l \in Nat /\ \A j \in 1..(l - 1) : h[j] = g[j] OBVIOUS
    <3>3. h[l] = g[l] OBVIOUS
    <3> HIDE DEF h
    <3>2. Before(h, l) = Before(g, l) BY <3>1, SameBefore
    <3> QED BY <1>2, <3>2, <3>3
  <2>2. DOMAIN h = 1..n /\ DOMAIN w = 1..n OBVIOUS
  <2>3. h = [l \in 1..n |-> h[l]] /\ w = [l \in 1..n |-> w[l]] OBVIOUS
  <2>4. \A l \in 1..n : w[l] = FreeRef(slugs[l], Before(h, l)) OBVIOUS
  <2> HIDE DEF h, w
  <2>5. h = w BY <2>1, <2>3, <2>4
  <2> QED BY <2>5, Zenon DEF w, InTurn
<1> HIDE DEF h
<1> DEFINE r == CHOOSE r : InTurn(slugs, r)
<1>4. InTurn(slugs, r) BY <1>3, Zenon
<1>5. UniqueRefs(slugs) = r
  <2>1. UniqueRefs(slugs) = Made(r) BY Zenon DEF UniqueRefs, Before, InTurn
  <2> QED BY <2>1, MadeIs
<1> HIDE DEF r
<1>6. DOMAIN r = 1..n /\ \A l \in 1..n : r[l] = FreeRef(slugs[l], Before(r, l)) BY <1>4 DEF InTurn
<1> QED BY <1>5, <1>6 DEF RefsTo

\* The refs of slugs have names, each its own.
LEMMA RefsAreUnique ==
  ASSUME NEW slugs, NEW n \in Nat, DOMAIN slugs = 1..n,
         \A k \in 1..n : \E w : slugs[k] = <<w>>
  PROVE  /\ DOMAIN UniqueRefs(slugs) = 1..n
         /\ \A k \in 1..n : UniqueRefs(slugs)[k] # <<>>
         /\ \A k, l \in 1..n : UniqueRefs(slugs)[k] = UniqueRefs(slugs)[l] => k = l
<1> DEFINE r == UniqueRefs(slugs)
<1>1. RefsTo(slugs, r, n) BY RefsUnfold
<1> HIDE DEF r
<1>2. DOMAIN r = 1..n /\ \A l \in 1..n : r[l] = FreeRef(slugs[l], Before(r, l)) BY <1>1 DEF RefsTo
<1>3. ASSUME NEW k \in 1..n PROVE r[k] \notin Before(r, k) /\ r[k] # <<>>
  <2>1. PICK w : slugs[k] = <<w>> OBVIOUS
  <2>2. IsFiniteSet(Before(r, k))
    <3> DEFINE F == [j \in 1..(k - 1) |-> r[j]]
    <3>1. F \in Surjection(1..(k - 1), Before(r, k)) BY DEF Surjection, Before
    <3>2. IsFiniteSet(1..(k - 1)) BY FS_Interval
    <3> HIDE DEF F
    <3> QED BY <3>1, <3>2, FS_Surjection
  <2> QED BY <1>2, <2>1, <2>2, FreeRefIsFree
<1>4. ASSUME NEW k \in 1..n, NEW l \in 1..n, k < l PROVE r[k] # r[l]
  <2>1. k \in 1..(l - 1) BY <1>4
  <2>2. r[k] \in Before(r, l) BY <2>1 DEF Before
  <2> QED BY <1>3, <2>2
<1>5. ASSUME NEW k \in 1..n, NEW l \in 1..n, r[k] = r[l] PROVE k = l
  <2>1. ~(k < l) /\ ~(l < k) BY <1>4, <1>5
  <2> QED BY <2>1
<1> QED BY <1>2, <1>3, <1>5 DEF r

-----------------------------------------------------------------------------
(* Messages, picked twice: the second pick changes nothing.               *)

\* A role has one message with a text, or none that could be used.
LEMMA PickedIs ==
  ASSUME NEW role, NEW short, NEW list, IsList(list)
  PROVE  \/ short = "blank" /\ Picked(role, short, list) = <<>>
         \/ \E t : t # "blank" /\ Picked(role, short, list) = <<[role |-> role, text |-> t]>>
<1> DEFINE said == {k \in DOMAIN list : list[k].text # "blank" /\ RoleOf(list[k]) = role}
<1>1. CASE short # "blank" BY <1>1 DEF Picked
<1>2. CASE short = "blank" /\ said = {} BY <1>2 DEF Picked
<1>3. CASE short = "blank" /\ said # {}
  <2>1. said \subseteq Nat BY ListStarts
  <2>2. Earliest(said) \in said BY <1>3, <2>1, EarliestIs
  <2>3. list[Earliest(said)].text # "blank" BY <2>2
  <2>4. Picked(role, short, list) = <<[role |-> role, text |-> list[Earliest(said)].text]>>
    BY <1>3 DEF Picked
  <2> QED BY <2>3, <2>4
<1> QED BY <1>1, <1>2, <1>3

\* The message of a role at one place of a list, where no other place has one.
LEMMA PickedAt ==
  ASSUME NEW role, NEW list, DOMAIN list \subseteq Nat, NEW k \in DOMAIN list,
         list[k].text # "blank", RoleOf(list[k]) = role,
         \A l \in DOMAIN list : RoleOf(list[l]) = role => l = k
  PROVE  Picked(role, "blank", list) = <<[role |-> role, text |-> list[k].text]>>
<1> DEFINE said == {l \in DOMAIN list : list[l].text # "blank" /\ RoleOf(list[l]) = role}
<1>1. said = {k} OBVIOUS
<1>2. Earliest(said) = k
  <2>1. said \subseteq Nat /\ said # {} BY <1>1
  <2>2. Earliest(said) \in said BY <2>1, EarliestIs
  <2> QED BY <1>1, <2>2
<1>3. said # {} BY <1>1
<1>4. Picked(role, "blank", list) = <<[role |-> role, text |-> list[Earliest(said)].text]>>
  BY <1>3 DEF Picked
<1> QED BY <1>1, <1>2, <1>4

\* Nothing is picked for a role nobody speaks in.
LEMMA PickedNone ==
  ASSUME NEW role, NEW list, \A l \in DOMAIN list : RoleOf(list[l]) # role
  PROVE  Picked(role, "blank", list) = <<>>
BY DEF Picked

\* Folded in, the messages of a body are folded in for good.
LEMMA MessagesSettle ==
  ASSUME NEW msgs, IsList(msgs.list), IsList(msgs.body)
  PROVE  PickMessages(InBodyOnly(PickMessages(msgs))) = PickMessages(msgs)
<1> DEFINE fromBody == msgs.list = NoMessages
           raw == IF fromBody THEN msgs.body ELSE msgs.list
           list == IF raw = NoMessages THEN <<>> ELSE raw
           sys == Picked("system", msgs.system, list)
           usr == Picked("user", msgs.prompt, list)
           picks == sys \o usr
           b == PickMessages(msgs)
           in == InBodyOnly(b)
           again == IF b = NoMessages THEN <<>> ELSE b
           both == Picked("system", "blank", again) \o Picked("user", "blank", again)
<1>1. b = CASE picks # <<>> -> picks
            [] picks = <<>> /\ ~fromBody -> <<>>
            [] OTHER -> msgs.body
  BY Zenon DEF PickMessages
<1>2. in.system = "blank" /\ in.prompt = "blank" /\ in.list = NoMessages /\ in.body = b
  BY DEF InBodyOnly
<1>3. PickMessages(in) = CASE both # <<>> -> both [] OTHER -> b
  <2> HIDE DEF b, in
  <2>1. PickMessages(in) =
          LET from == in.list = NoMessages
              some == IF from THEN in.body ELSE in.list
              all == IF some = NoMessages THEN <<>> ELSE some
              two == Picked("system", in.system, all) \o Picked("user", in.prompt, all)
          IN CASE two # <<>> -> two
               [] two = <<>> /\ ~from -> <<>>
               [] OTHER -> in.body
    BY Zenon DEF PickMessages
  <2> QED BY <1>2, <2>1
<1>4. IsList(list)
  <2>1. IsList(<<>>) BY DEF IsList
  <2> QED BY <2>1
<1>5. /\ \/ sys = <<>> /\ msgs.system = "blank"
         \/ \E t : t # "blank" /\ sys = <<[role |-> "system", text |-> t]>>
      /\ \/ usr = <<>> /\ msgs.prompt = "blank"
         \/ \E t : t # "blank" /\ usr = <<[role |-> "user", text |-> t]>>
  <2> HIDE DEF list
  <2> QED BY <1>4, PickedIs
<1> SUFFICES PickMessages(in) = b OBVIOUS
<1> HIDE DEF in, sys, usr
<1>6. CASE picks # <<>>
  <2>1. b = picks BY <1>1, <1>6
  <2>2. \A x, y : /\ DOMAIN (<<x>> \o <<y>>) = 1..2
                  /\ (<<x>> \o <<y>>)[1] = x /\ (<<x>> \o <<y>>)[2] = y
                  /\ DOMAIN (<<x>> \o <<>>) = 1..1 /\ (<<x>> \o <<>>)[1] = x
                  /\ DOMAIN (<<>> \o <<y>>) = 1..1 /\ (<<>> \o <<y>>)[1] = y
    OBVIOUS
  <2>3. \A k \in DOMAIN picks : picks[k].role # "none"
    BY <1>5
  <2>4. 1 \in DOMAIN picks BY <1>5, <1>6
  <2>5. picks # NoMessages
    <3>1. 1 \in DOMAIN NoMessages /\ NoMessages[1].role = "none" BY DEF NoMessages
    <3> QED BY <2>3, <2>4, <3>1
  <2>6. again = picks BY <2>1, <2>5
  <2>7. Picked("system", "blank", picks) = sys
    <3>1. CASE sys = <<>>
      <4>1. \A k \in DOMAIN picks : RoleOf(picks[k]) # "system" BY <1>5, <3>1 DEF RoleOf
      <4> QED BY <3>1, <4>1, PickedNone
    <3>2. CASE sys # <<>>
      <4>1. PICK t : t # "blank" /\ sys = <<[role |-> "system", text |-> t]>> BY <1>5, <3>2
      <4>2. /\ DOMAIN picks \subseteq Nat /\ 1 \in DOMAIN picks /\ picks[1].text = t
            /\ RoleOf(picks[1]) = "system"
            /\ \A k \in DOMAIN picks : RoleOf(picks[k]) = "system" => k = 1
        <5>1. CASE usr = <<>>
          <6>1. DOMAIN picks = 1..1 /\ picks[1] = [role |-> "system", text |-> t]
            BY <2>2, <4>1, <5>1
          <6> HIDE DEF picks
          <6> QED BY <6>1 DEF RoleOf
        <5>2. CASE usr # <<>>
          <6>1. PICK u : usr = <<[role |-> "user", text |-> u]>> BY <1>5, <5>2
          <6>2. DOMAIN picks = 1..2 /\ picks[1] = [role |-> "system", text |-> t]
                /\ picks[2] = [role |-> "user", text |-> u]
            BY <2>2, <4>1, <6>1
          <6> HIDE DEF picks
          <6> QED BY <6>2 DEF RoleOf
        <5> QED BY <5>1, <5>2
      <4> HIDE DEF picks
      <4>3. Picked("system", "blank", picks) = <<[role |-> "system", text |-> picks[1].text]>>
        BY <4>1, <4>2, PickedAt
      <4> QED BY <4>1, <4>2, <4>3
    <3> QED BY <3>1, <3>2
  <2>8. Picked("user", "blank", picks) = usr
    <3>1. CASE usr = <<>>
      <4>1. \A k \in DOMAIN picks : RoleOf(picks[k]) # "user" BY <1>5, <3>1 DEF RoleOf
      <4> QED BY <3>1, <4>1, PickedNone
    <3>2. CASE usr # <<>>
      <4>1. PICK t : t # "blank" /\ usr = <<[role |-> "user", text |-> t]>> BY <1>5, <3>2
      <4>2. \E j \in {1, 2} : /\ DOMAIN picks \subseteq Nat /\ j \in DOMAIN picks
              /\ picks[j].text = t /\ RoleOf(picks[j]) = "user"
              /\ \A k \in DOMAIN picks : RoleOf(picks[k]) = "user" => k = j
        <5>1. CASE sys = <<>>
          <6>1. DOMAIN picks = 1..1 /\ picks[1] = [role |-> "user", text |-> t]
            BY <2>2, <4>1, <5>1
          <6> HIDE DEF picks
          <6> QED BY <6>1 DEF RoleOf
        <5>2. CASE sys # <<>>
          <6>1. PICK u : sys = <<[role |-> "system", text |-> u]>> BY <1>5, <5>2
          <6>2. DOMAIN picks = 1..2 /\ picks[1] = [role |-> "system", text |-> u]
                /\ picks[2] = [role |-> "user", text |-> t]
            BY <2>2, <4>1, <6>1
          <6> HIDE DEF picks
          <6> QED BY <6>2 DEF RoleOf
        <5> QED BY <5>1, <5>2
      <4> HIDE DEF picks
      <4>3. PICK j \in {1, 2} : /\ DOMAIN picks \subseteq Nat /\ j \in DOMAIN picks
              /\ picks[j].text = t /\ RoleOf(picks[j]) = "user"
              /\ \A k \in DOMAIN picks : RoleOf(picks[k]) = "user" => k = j
        BY <4>2
      <4>4. Picked("user", "blank", picks) = <<[role |-> "user", text |-> picks[j].text]>>
        BY <4>1, <4>3, PickedAt
      <4> QED BY <4>1, <4>3, <4>4
    <3> QED BY <3>1, <3>2
  <2>9. both = picks BY <2>6, <2>7, <2>8
  <2> HIDE DEF both, picks
  <2> QED BY <1>3, <1>6, <2>1, <2>9
<1>7. CASE picks = <<>>
  <2>1. sys = <<>> /\ usr = <<>> /\ msgs.system = "blank" /\ msgs.prompt = "blank"
    BY <1>5, <1>7
  <2>2. both = <<>>
    <3>1. CASE fromBody
      <4>1. b = msgs.body BY <1>1, <1>7, <3>1
      <4>2. again = list BY <3>1, <4>1
      <4> QED BY <2>1, <4>2 DEF sys, usr
    <3>2. CASE ~fromBody
      <4>1. b = <<>> BY <1>1, <1>7, <3>2
      <4>2. again = <<>> BY <4>1
      <4>3. Picked("system", "blank", <<>>) = <<>> /\ Picked("user", "blank", <<>>) = <<>>
        BY PickedNone
      <4> QED BY <4>2, <4>3
    <3> QED BY <3>1, <3>2
  <2> HIDE DEF both
  <2> QED BY <1>3, <2>2
<1> QED BY <1>6, <1>7

-----------------------------------------------------------------------------
(* Ports, and the name of one read back.                                  *)

\* A port has an id, and a first tag that is not blank if it has tags.
PortOK(p) == p.id # <<>> /\ (p.tags # <<>> => 1 \in DOMAIN p.tags /\ p.tags[1] # <<>>)

\* The ports of a node: a list, empty or not, of such.
PortsOK(ports) ==
  \E n \in Nat : /\ DOMAIN ports = 1..n /\ (n = 0 => ports = <<>>)
                 /\ \A k \in 1..n : PortOK(ports[k])

\* A node's ports are a list, each with an id and no blank name.
LEMMA PortsListed ==
  ASSUME NEW kind, NEW data, RowsOK(data.rows)
  PROVE  PortsOK(PortsOf(kind, data))
<1> DEFINE R == {k \in DOMAIN data.rows : data.rows[k].routes}
           routed == InOrder(R)
           end == [id |-> Exception, tags |-> <<Exception>>]
           port(r) == [id |-> IF r.id # <<>> THEN r.id
                              ELSE IF r.tags # <<>> THEN r.tags[1] ELSE <<"row">>,
                       tags |-> r.tags]
           ports == [k \in DOMAIN routed |-> port(data.rows[routed[k]])]
           n == Cardinality(R)
<1>1. PortsOf(kind, data) =
        IF kind \notin Routing \/ DOMAIN routed = {} THEN <<>>
        ELSE IF kind \in {"rule", "plugin"} THEN ports ELSE Append(ports, end)
  <2>1. Made(ports) = ports BY MadeIs
  <2>2. PortsOf(kind, data) =
        IF kind \notin Routing \/ DOMAIN routed = {} THEN <<>>
        ELSE IF kind \in {"rule", "plugin"} THEN Made(ports) ELSE Append(Made(ports), end)
    BY Zenon DEF PortsOf
  <2> HIDE DEF ports, routed, end
  <2> QED BY <2>1, <2>2
<1>2. DOMAIN data.rows = 1..Len(data.rows) /\ Len(data.rows) \in Nat
  BY ListStarts DEF RowsOK
<1>3. IsFiniteSet(R) /\ R \subseteq Nat
  <2>1. IsFiniteSet(1..Len(data.rows)) BY <1>2, FS_Interval
  <2> QED BY <1>2, <2>1, FS_Subset
<1>4. n \in Nat /\ DOMAIN routed = 1..n /\ \A k \in 1..n : routed[k] \in R
  <2> HIDE DEF R
  <2> QED BY <1>3, InOrderLists
<1>5. ASSUME NEW r, IsList(r.tags), \A j \in DOMAIN r.tags : r.tags[j] # <<>>
      PROVE  PortOK(port(r))
  <2>1. r.tags # <<>> => 1 \in DOMAIN r.tags BY <1>5, ListStarts
  <2>2. r.tags # <<>> => r.tags[1] # <<>> BY <1>5, <2>1
  <2>3. port(r).tags = r.tags
        /\ port(r).id = IF r.id # <<>> THEN r.id
                        ELSE IF r.tags # <<>> THEN r.tags[1] ELSE <<"row">>
    OBVIOUS
  <2>4. <<"row">> # <<>> OBVIOUS
  <2> HIDE DEF port
  <2> QED BY <2>1, <2>2, <2>3, <2>4 DEF PortOK
<1>6. \A k \in 1..n : PortOK(port(data.rows[routed[k]]))
  <2> HIDE DEF port, routed, n
  <2>1. ASSUME NEW k \in 1..n PROVE PortOK(port(data.rows[routed[k]]))
    <3>1. routed[k] \in DOMAIN data.rows BY <1>4
    <3>2. IsList(data.rows[routed[k]].tags)
          /\ \A j \in DOMAIN data.rows[routed[k]].tags : data.rows[routed[k]].tags[j] # <<>>
      BY <3>1 DEF RowsOK
    <3> QED BY <1>5, <3>2
  <2> QED BY <2>1
<1>7. PortOK(end)
  <2>1. Exception # <<>> BY DEF Exception
  <2>2. end.id = Exception /\ end.tags = <<Exception>> /\ DOMAIN <<Exception>> = 1..1
        /\ <<Exception>>[1] = Exception
    OBVIOUS
  <2> HIDE DEF end
  <2> QED BY <2>1, <2>2 DEF PortOK
<1>8. PortsOK(<<>>)
  <2>1. DOMAIN (<<>>) = 1..0 OBVIOUS
  <2>2. \A k \in 1..0 : FALSE OBVIOUS
  <2> QED BY <2>1, <2>2 DEF PortsOK
<1> HIDE DEF port, routed, n, R, end
<1>9. DOMAIN ports = 1..n /\ \A k \in 1..n : ports[k] = port(data.rows[routed[k]])
  BY <1>4
<1>10. \A k \in 1..n : PortOK(ports[k]) BY <1>6, <1>9
<1> HIDE DEF ports
<1>11. CASE kind \in Routing /\ DOMAIN routed # {}
  <2>1. n # 0 BY <1>4, <1>11
  <2>2. PortsOK(ports) BY <1>4, <1>9, <1>10, <2>1 DEF PortsOK
  <2>3. PortsOK(Append(ports, end))
    <3> DEFINE S == {ports[k] : k \in 1..n} \cup {end}
               q == [k \in 1..n |-> ports[k]]
    <3>1. q \in Seq(S) /\ Len(q) = n BY <1>4
    <3>2. q = ports
      <4>1. ports = [k \in DOMAIN routed |-> port(data.rows[routed[k]])] BY DEF ports
      <4>2. ports = [k \in 1..n |-> port(data.rows[routed[k]])] BY <1>4, <4>1
      <4> QED BY <4>2
    <3> HIDE DEF q
    <3>3. end \in S OBVIOUS
    <3> HIDE DEF S
    <3>4. /\ DOMAIN Append(q, end) = 1..(n + 1) /\ Append(q, end)[n + 1] = end
          /\ \A k \in 1..n : Append(q, end)[k] = q[k]
      BY <3>1, <3>3
    <3>5. \A k \in 1..(n + 1) : PortOK(Append(q, end)[k])
      <4>1. \A k \in 1..(n + 1) : k \in 1..n \/ k = n + 1 BY <1>4
      <4> QED BY <1>7, <1>10, <3>2, <3>4, <4>1
    <3>6. n + 1 \in Nat /\ n + 1 # 0 BY <1>4
    <3> QED BY <3>2, <3>4, <3>5, <3>6 DEF PortsOK
  <2> QED BY <1>1, <1>11, <2>2, <2>3
<1>12. CASE ~(kind \in Routing /\ DOMAIN routed # {}) BY <1>1, <1>8, <1>12
<1> QED BY <1>11, <1>12

\* The ports of a node are those of its rows.
LEMMA PortsOfRows ==
  ASSUME NEW kind, NEW d, NEW e, d.rows = e.rows
  PROVE  PortsOf(kind, d) = PortsOf(kind, e)
BY Zenon DEF PortsOf

\* The ports of a node can be told apart by id and by name, and an edge is on one.
ToldApart(ports) ==
  \A a, b \in DOMAIN ports :
    a # b => ports[a].id # ports[b].id /\ ~Answers(ports[a], NameOf(ports[b]))
OnPort(ports, e) ==
  \/ ports = <<>> /\ e.handle = <<>> /\ e.tags = <<>>
  \/ \E a \in DOMAIN ports : ports[a].id = e.handle /\ ports[a].tags = e.tags

\* A port has a name, and answers to it.
LEMMA Answered ==
  ASSUME NEW p, PortOK(p)
  PROVE  NameOf(p) # <<>> /\ Answers(p, NameOf(p))
<1>1. CASE p.tags # <<>>
  <2>1. NameOf(p) = p.tags[1] BY <1>1 DEF NameOf
  <2>2. 1 \in DOMAIN p.tags /\ p.tags[1] # <<>> BY <1>1 DEF PortOK
  <2>3. SameFold(p.tags[1], p.tags[1]) BY DEF SameFold
  <2> QED BY <2>1, <2>2, <2>3 DEF Answers
<1>2. CASE p.tags = <<>>
  <2>1. NameOf(p) = p.id BY <1>2 DEF NameOf
  <2> QED BY <2>1 DEF Answers, PortOK
<1> QED BY <1>1, <1>2

\* The port an edge is on is found again by the name it is exported with.
LEMMA PortReturns ==
  ASSUME NEW ports, PortsOK(ports), ToldApart(ports), NEW e, OnPort(ports, e)
  PROVE  LET found == ResolvePort(ports, PortName(ports, e))
         IN found.level = "ok" /\ found.port.id = e.handle /\ found.port.tags = e.tags
<1>1. PICK n \in Nat : /\ DOMAIN ports = 1..n /\ (n = 0 => ports = <<>>)
                       /\ \A k \in 1..n : PortOK(ports[k])
  BY DEF PortsOK
<1> DEFINE byId == {k \in DOMAIN ports : e.handle # <<>> /\ ports[k].id = e.handle}
           byTag(t) == {k \in DOMAIN ports :
                          \E j \in DOMAIN ports[k].tags : SameFold(ports[k].tags[j], t)}
           tagged == {j \in DOMAIN e.tags : byTag(e.tags[j]) # {}}
<1>2. CASE ports = <<>> /\ e.handle = <<>> /\ e.tags = <<>>
  <2>1. DOMAIN ports = {} BY <1>2
  <2>2. byId = {} /\ tagged = {} BY <2>1
  <2>3. PortName(ports, e) = <<>>
    <3>1. PortName(ports, e) =
            CASE byId # {} -> NameOf(ports[Earliest(byId)])
              [] byId = {} /\ tagged # {} ->
                   NameOf(ports[Earliest(byTag(e.tags[Earliest(tagged)]))])
              [] OTHER -> <<>>
      BY Zenon DEF PortName
    <3> HIDE DEF byId, tagged
    <3> QED BY <2>2, <3>1
  <2>4. ResolvePort(ports, <<>>) = [port |-> NoPort, level |-> "ok"]
    BY <1>2 DEF ResolvePort
  <2> QED BY <1>2, <2>3, <2>4 DEF NoPort
<1>3. ASSUME NEW a \in DOMAIN ports, ports[a].id = e.handle, ports[a].tags = e.tags
      PROVE  LET found == ResolvePort(ports, PortName(ports, e))
             IN found.level = "ok" /\ found.port.id = e.handle /\ found.port.tags = e.tags
  <2>1. PortOK(ports[a]) BY <1>1
  <2> DEFINE name == NameOf(ports[a])
             hits == {k \in DOMAIN ports : Answers(ports[k], name)}
  <2>2. name # <<>> /\ Answers(ports[a], name) BY <2>1, Answered
  <2>3. byId = {a} BY <1>3, <2>1 DEF PortOK, ToldApart
  <2>4. hits = {a} BY <2>2 DEF ToldApart
  <2>5. DOMAIN ports \subseteq Nat BY <1>1
  <2>6. Earliest({a}) = a
    <3>1. {a} \subseteq Nat /\ {a} # {} BY <2>5
    <3>2. Earliest({a}) \in {a} BY <3>1, EarliestIs
    <3> QED BY <3>2
  <2>7. PortName(ports, e) = name
    <3>1. byId # {} => PortName(ports, e) = NameOf(ports[Earliest(byId)])
      BY Zenon DEF PortName
    <3> HIDE DEF byId
    <3> QED BY <2>3, <2>6, <3>1
  <2>8. ports # <<>>
    <3>1. DOMAIN (<<>>) = {} OBVIOUS
    <3> QED BY <3>1
  <2>9. ResolvePort(ports, name) = [port |-> ports[Earliest(hits)], level |-> "ok"]
    <3>1. hits # {} BY <2>4
    <3> HIDE DEF name, hits
    <3>2. ResolvePort(ports, name) =
            CASE ports = <<>> /\ name = <<>>  -> [port |-> NoPort, level |-> "ok"]
              [] ports = <<>> /\ name # <<>>  -> [port |-> NoPort, level |-> "warn"]
              [] ports # <<>> /\ (name = <<>> \/ hits = {})
                                            -> [port |-> NoPort, level |-> "error"]
              [] OTHER -> [port |-> ports[Earliest(hits)], level |-> "ok"]
      BY Zenon DEF ResolvePort, hits
    <3> QED BY <2>2, <2>8, <3>1, <3>2
  <2> HIDE DEF name
  <2>10. ResolvePort(ports, name) = [port |-> ports[a], level |-> "ok"] BY <2>4, <2>6, <2>9
  <2> QED BY <1>3, <2>7, <2>10
<1> QED BY <1>2, <1>3 DEF OnPort

-----------------------------------------------------------------------------
(* What the import makes of a node's design.                              *)

\* Rows that have been given ids keep them.
LEMMA StampedRows ==
  ASSUME NEW old, RowsOK(old), NEW i
  PROVE  /\ RowsOK(Stamped(old, i))
         /\ \A k \in DOMAIN Stamped(old, i) : Stamped(old, i)[k].id # <<>>
         /\ (\A k \in DOMAIN old : old[k].id # <<>>) => Stamped(old, i) = old
<1> DEFINE new(k) == IF old[k].id = <<>> THEN [old[k] EXCEPT !.id = <<"row", i, k>>]
                     ELSE old[k]
           s == [k \in DOMAIN old |-> new(k)]
           n == Len(old)
<1>1. Stamped(old, i) = s BY MadeIs DEF Stamped
<1>2. DOMAIN old = 1..n /\ n \in Nat BY ListStarts DEF RowsOK
<1>3. old = [k \in 1..n |-> old[k]] BY Zenon DEF RowsOK, IsList
<1>4. ASSUME NEW k \in DOMAIN old
      PROVE  /\ new(k).id # <<>> /\ DOMAIN new(k) = {"id", "tags", "routes"}
             /\ IsList(new(k).tags) /\ \A j \in DOMAIN new(k).tags : new(k).tags[j] # <<>>
  <2> DEFINE r == old[k]
  <2>1. /\ DOMAIN r = {"id", "tags", "routes"} /\ IsList(r.tags)
        /\ \A j \in DOMAIN r.tags : r.tags[j] # <<>>
    BY Zenon DEF RowsOK
  <2>2. CASE r.id # <<>>
    <3>1. new(k) = r BY <2>2
    <3> HIDE DEF new, r
    <3> QED BY <2>1, <2>2, <3>1
  <2>3. CASE r.id = <<>>
    <3> DEFINE m == [r EXCEPT !.id = <<"row", i, k>>]
    <3>1. new(k) = m BY <2>3
    <3>2. <<"row", i, k>> # <<>> OBVIOUS
    <3> HIDE DEF r
    <3>3. DOMAIN m = {"id", "tags", "routes"} /\ m.tags = r.tags /\ m.id = <<"row", i, k>> BY <2>1
    <3> HIDE DEF new, m
    <3> QED BY <2>1, <3>1, <3>2, <3>3
  <2> QED BY <2>2, <2>3
<1>5. (\A k \in DOMAIN old : old[k].id # <<>>) => s = old
  <2> SUFFICES ASSUME \A k \in DOMAIN old : old[k].id # <<>> PROVE s = old OBVIOUS
  <2>1. s = [k \in 1..n |-> old[k]] BY <1>2
  <2> QED BY <1>3, <2>1
<1> HIDE DEF new
<1>6. DOMAIN s = 1..n /\ \A k \in 1..n : s[k] = new(k) BY <1>2
<1>7. IsList(s)
  <2>1. s = [k \in 1..n |-> s[k]] BY <1>2
  <2>2. Len(s) = n BY <1>2, <1>6
  <2> HIDE DEF s, n
  <2> QED BY <1>2, <2>1, <2>2, Zenon DEF IsList
<1> HIDE DEF s, n
<1>8. ASSUME NEW k \in DOMAIN s
      PROVE  /\ s[k].id # <<>> /\ DOMAIN s[k] = {"id", "tags", "routes"}
             /\ IsList(s[k].tags) /\ \A j \in DOMAIN s[k].tags : s[k].tags[j] # <<>>
  BY <1>2, <1>4, <1>6, Zenon
<1>9. RowsOK(s) BY <1>7, <1>8, Zenon DEF RowsOK
<1> QED BY <1>1, <1>5, <1>8, <1>9, Zenon

\* No rows are rows.
LEMMA NoRows == RowsOK(<<>>)
<1>1. IsList(<<>>) BY DEF IsList
<1>2. DOMAIN (<<>>) = {} OBVIOUS
<1> QED BY <1>1, <1>2 DEF RowsOK

\* The node as a design: what is planned of it, and what it is bound to.
SameDesign(m, n) ==
  /\ m.kind = n.kind /\ m.title = n.title
  /\ m.data.scope = n.data.scope /\ m.data.msgs = n.data.msgs
  /\ m.data.rows = n.data.rows /\ m.data.plugin = n.data.plugin

\* A profile and a build leave it alone.
LEMMA ProfileKeepsDesign ==
  ASSUME NEW i, NEW n, FlowNodeOK(i, n)
  PROVE  SameDesign(ResolveProfile(i, n), n)
<1> DEFINE v == IF n.kind # "hitl" /\ n.data.profile \in profiles[i]
                  THEN n.data.profile ELSE "none"
           d == [n.data EXCEPT !.settings = v]
<1>1. CASE n.data.profile = "none"
  BY <1>1, Zenon DEF ResolveProfile, SameDesign
<1>2. CASE n.data.profile # "none"
  <2>1. ResolveProfile(i, n) = [n EXCEPT !.data = d] BY <1>2 DEF ResolveProfile
  <2>2. DOMAIN n.data = DataFields /\ DOMAIN n = {"kind", "title", "data"}
    BY Zenon DEF FlowNodeOK, DataOK
  <2>3. /\ d.scope = n.data.scope /\ d.msgs = n.data.msgs
        /\ d.rows = n.data.rows /\ d.plugin = n.data.plugin
    <3> HIDE DEF v
    <3> QED BY <2>2 DEF DataFields
  <2> HIDE DEF d
  <2> DEFINE r == ResolveProfile(i, n)
  <2> HIDE DEF r
  <2>5. r = [n EXCEPT !.data = d] BY <2>1 DEF r
  <2>6. r.kind = n.kind /\ r.title = n.title /\ r.data = d BY <2>2, <2>5
  <2> QED BY <2>3, <2>6, Zenon DEF r, SameDesign
<1> QED BY <1>1, <1>2

\* What the plugin builders write is no part of the design.
LEMMA BuildKeepsDesign ==
  ASSUME NEW i, NEW n, FlowNodeOK(i, n)
  PROVE  SameDesign([n EXCEPT !.data = AfterBuild(n.kind, @)], n)
<1> DEFINE d == AfterBuild(n.kind, n.data)
           m == [n EXCEPT !.data = d]
<1>1. DOMAIN n.data = DataFields /\ DOMAIN n = {"kind", "title", "data"}
  BY Zenon DEF FlowNodeOK, DataOK
<1>2. (\E b : d = [n.data EXCEPT !.bodySettings = b]) \/ d = n.data
  BY Zenon DEF AfterBuild
<1>3. /\ d.scope = n.data.scope /\ d.msgs = n.data.msgs
      /\ d.rows = n.data.rows /\ d.plugin = n.data.plugin
  <2> HIDE DEF d
  <2> QED BY <1>1, <1>2 DEF DataFields
<1> HIDE DEF d
<1>4. m.kind = n.kind /\ m.title = n.title /\ m.data = d BY <1>1
<1> HIDE DEF m
<1>5. SameDesign(m, n) BY <1>3, <1>4, Zenon DEF SameDesign
<1> QED BY <1>5, Zenon DEF m, d

\* What the stamp makes of the rows: a plugin's are those it declares.
StampFits(i, kind, d, e) ==
  /\ e.scope = d.scope /\ e.msgs = d.msgs
  /\ kind # "plugin" => e.rows = d.rows
  /\ kind = "plugin" => \/ e.plugin = NoId /\ e.rows = <<>>
                        \/ \E p \in Plugin : e.plugin = IdOf(i, p) /\ e.rows = PortsFor[p]

\* A plugin bound to a node brings the rows it declares.
LEMMA BoundRows ==
  ASSUME NEW i, NEW d, DOMAIN d = DataFields, NEW p
  PROVE  LET e == Bound(i, d, p)
         IN /\ e.scope = d.scope /\ e.msgs = d.msgs
            /\ e.plugin = IdOf(i, p) /\ e.rows = PortsFor[p]
<1> DEFINE u == Unstamped(d)
<1>1. DOMAIN u = DataFields /\ u.scope = d.scope /\ u.msgs = d.msgs
  BY DEF Unstamped, DataFields
<1> HIDE DEF u
<1>2. Bound(i, d, p) = [u EXCEPT !.plugin = IdOf(i, p), !.rows = PortsFor[p], !.bind = ""]
  BY Zenon DEF Bound, u
<1> QED BY <1>1, <1>2 DEF DataFields

\* However the stamp decides, the rows are the plugin's it names.
LEMMA PluginStampFits ==
  ASSUME NEW i, NEW d, DOMAIN d = DataFields, ext[i] \subseteq Plugin
  PROVE  StampFits(i, "plugin", d, StampPlugin(i, d))
<1> DEFINE e == StampPlugin(i, d)
           cands == Serving(i, d.action)
           exact == {p \in cands : IdOf(i, p) = d.plugin}
           only == IF d.bind # "manual" /\ Cardinality(cands) = 1 THEN cands ELSE {}
           u == Unstamped(d)
<1>1. u.scope = d.scope /\ u.msgs = d.msgs /\ u.plugin = NoId /\ u.rows = <<>> /\ DOMAIN u = DataFields
  BY DEF Unstamped, DataFields
<1>2. exact \subseteq Plugin /\ only \subseteq Plugin BY DEF Serving
<1>3. ASSUME NEW p \in Plugin, e = Bound(i, d, p) PROVE StampFits(i, "plugin", d, e)
  <2> DEFINE b == Bound(i, d, p)
  <2>1. b.scope = d.scope /\ b.msgs = d.msgs /\ b.plugin = IdOf(i, p) /\ b.rows = PortsFor[p]
    BY BoundRows
  <2> HIDE DEF b, e
  <2>2. e = b BY <1>3 DEF b
  <2> QED BY <2>1, <2>2, Zenon DEF StampFits
<1>4. ASSUME e.scope = u.scope, e.msgs = u.msgs, e.plugin = u.plugin, e.rows = u.rows
      PROVE  StampFits(i, "plugin", d, e)
  <2> HIDE DEF e, u
  <2> QED BY <1>1, <1>4 DEF StampFits
<1>5. CASE "action" \notin d.has
  <2>1. e = u BY <1>5, Zenon DEF StampPlugin
  <2> HIDE DEF e, u
  <2>2. e.scope = u.scope /\ e.msgs = u.msgs /\ e.plugin = u.plugin /\ e.rows = u.rows
    BY <2>1
  <2> QED BY <1>4, <2>2 DEF e
<1>6. CASE "action" \in d.has /\ exact # {}
  <2> DEFINE p == CHOOSE q \in exact : TRUE
  <2>1. e = Bound(i, d, p) BY <1>6, Zenon DEF StampPlugin
  <2>2. p \in Plugin BY <1>2, <1>6
  <2> HIDE DEF p
  <2> QED BY <1>3, <2>1, <2>2, Zenon
<1>7. CASE "action" \in d.has /\ exact = {} /\ only # {}
  <2> DEFINE p == CHOOSE q \in only : TRUE
  <2>1. e = Bound(i, d, p) BY <1>7, Zenon DEF StampPlugin
  <2>2. p \in Plugin BY <1>2, <1>7
  <2> HIDE DEF p
  <2> QED BY <1>3, <2>1, <2>2, Zenon
<1>8. CASE "action" \in d.has /\ exact = {} /\ only = {} /\ cands = {}
  <2>1. e = [u EXCEPT !.missing = TRUE, !.bind = ""] BY <1>8, Zenon DEF StampPlugin
  <2> HIDE DEF e, u
  <2>2. e.scope = u.scope /\ e.msgs = u.msgs /\ e.plugin = u.plugin /\ e.rows = u.rows
    BY <1>1, <2>1 DEF DataFields
  <2> QED BY <1>4, <2>2 DEF e
<1>9. CASE "action" \in d.has /\ exact = {} /\ only = {} /\ cands # {}
  <2>1. e = [u EXCEPT !.bind = "manual"] BY <1>9, Zenon DEF StampPlugin
  <2> HIDE DEF e, u
  <2>2. e.scope = u.scope /\ e.msgs = u.msgs /\ e.plugin = u.plugin /\ e.rows = u.rows
    BY <1>1, <2>1 DEF DataFields
  <2> QED BY <1>4, <2>2 DEF e
<1> HIDE DEF e, cands, exact, only, u
<1>10. \/ "action" \notin d.has
       \/ "action" \in d.has /\ exact # {}
       \/ "action" \in d.has /\ exact = {} /\ only # {}
       \/ "action" \in d.has /\ exact = {} /\ only = {} /\ cands = {}
       \/ "action" \in d.has /\ exact = {} /\ only = {} /\ cands # {}
  OBVIOUS
<1> QED BY <1>5, <1>6, <1>7, <1>8, <1>9, <1>10, Zenon DEF e

\* A node of another kind keeps its rows.
LEMMA AnyStampFits ==
  ASSUME NEW i, NEW n, DOMAIN n = {"ref", "kind", "title", "data"}, DOMAIN n.data = DataFields,
         ext[i] \subseteq Plugin
  PROVE  LET m == Stamp(i, n)
         IN /\ m.ref = n.ref /\ m.kind = n.kind /\ m.title = n.title
            /\ DOMAIN m.data = DataFields /\ StampFits(i, n.kind, n.data, m.data)
<1> DEFINE new == IF n.kind = "plugin" THEN StampPlugin(i, n.data)
                  ELSE IF n.kind \in PluginKinds
                    THEN [n.data EXCEPT !.plugin = IdOf(i, n.kind)] ELSE n.data
           m == Stamp(i, n)
<1>1. m = [n EXCEPT !.data = new] BY Zenon DEF Stamp
<1>2. DOMAIN new = DataFields /\ StampFits(i, n.kind, n.data, new)
  <2>1. CASE n.kind = "plugin"
    <3>1. new = StampPlugin(i, n.data) BY <2>1, Zenon
    <3>2. StampFits(i, "plugin", n.data, StampPlugin(i, n.data)) BY PluginStampFits, Zenon
    <3>3. PICK p, q, b : Remarked(n.data, StampPlugin(i, n.data), p, q, b)
      BY StampDecides, Zenon
    <3> HIDE DEF new
    <3> QED BY <2>1, <3>1, <3>2, <3>3, Zenon DEF Remarked
  <2>2. CASE n.kind # "plugin" /\ n.kind \in PluginKinds
    <3>1. new = [n.data EXCEPT !.plugin = IdOf(i, n.kind)] BY <2>2, Zenon
    <3> HIDE DEF new
    <3>2. /\ DOMAIN new = DataFields /\ new.scope = n.data.scope /\ new.msgs = n.data.msgs
          /\ new.rows = n.data.rows
      BY <3>1 DEF DataFields
    <3> QED BY <2>2, <3>2, Zenon DEF StampFits
  <2>3. CASE n.kind # "plugin" /\ n.kind \notin PluginKinds
    <3>1. new = n.data BY <2>3, Zenon
    <3> HIDE DEF new
    <3> QED BY <2>3, <3>1, Zenon DEF StampFits
  <2> QED BY <2>1, <2>2, <2>3
<1> HIDE DEF new, m
<1>4. m.kind = n.kind /\ m.title = n.title /\ m.ref = n.ref /\ m.data = new BY <1>1
<1>5. /\ m.ref = n.ref /\ m.kind = n.kind /\ m.title = n.title
      /\ DOMAIN m.data = DataFields /\ StampFits(i, n.kind, n.data, m.data)
  BY <1>2, <1>4, Zenon
<1> QED BY <1>5, Zenon DEF m

\* What the planner fills in.
LEMMA MergedIs ==
  ASSUME NEW n, DOMAIN n.data = DataFields, NEW k
  PROVE  LET d == MergeData(n, k)
         IN /\ d.scope = IF n.data.scope = "" THEN "$" ELSE n.data.scope
            /\ d.msgs = IF n.kind \in ModelKinds THEN InBodyOnly(PickMessages(n.data.msgs))
                        ELSE n.data.msgs
            /\ d.rows = IF n.kind \in Routing \ {"plugin"} THEN Stamped(n.data.rows, k)
                        ELSE n.data.rows
            /\ d.plugin = n.data.plugin
<1> DEFINE d == n.data
           s == IF d.scope = "" THEN "$" ELSE d.scope
           m == IF n.kind \in ModelKinds THEN InBodyOnly(PickMessages(d.msgs)) ELSE d.msgs
           r == IF n.kind \in Routing \ {"plugin"} THEN Stamped(d.rows, k) ELSE d.rows
           e == MergeData(n, k)
<1>1. e = [d EXCEPT !.scope = s, !.msgs = m, !.rows = r]
  <2>1. e = [d EXCEPT !.scope = IF d.scope = "" THEN "$" ELSE @,
                      !.msgs = IF n.kind \in ModelKinds THEN InBodyOnly(PickMessages(@)) ELSE @,
                      !.rows = IF n.kind \in Routing \ {"plugin"} THEN Stamped(@, k) ELSE @]
    BY Zenon DEF MergeData
  <2> QED BY <2>1, Zenon
<1> HIDE DEF s, m, r, e
<1>2. e.scope = s /\ e.msgs = m /\ e.rows = r /\ e.plugin = d.plugin BY <1>1 DEF DataFields
<1> QED BY <1>2, Zenon DEF s, m, r, e

\* A node's data in a document: its messages are settled once they are picked.
InHand(kind, d) ==
  /\ RowsOK(d.rows)
  /\ kind \in ModelKinds =>
       PickMessages(InBodyOnly(PickMessages(d.msgs))) = PickMessages(d.msgs)
\* A node's data on a canvas: what the planner would fill in is filled in, and a
\* bound plugin's rows are those it declares.
Normal(kind, d) ==
  /\ RowsOK(d.rows) /\ d.scope # ""
  /\ kind \in ModelKinds => InBodyOnly(PickMessages(d.msgs)) = d.msgs
  /\ kind \in Routing \ {"plugin"} => \A k \in DOMAIN d.rows : d.rows[k].id # <<>>
  /\ kind = "plugin" /\ d.plugin # NoId => d.rows = PortsFor[d.plugin[2]]

NormalNode(n) == Normal(n.kind, n.data)
DesignOK(g) == OneEach(g.edges) /\ \A k \in DOMAIN g.nodes : NormalNode(g.nodes[k])
HandOK(doc) == \A k \in DOMAIN doc.nodes : InHand(doc.nodes[k].kind, doc.nodes[k].data)

\* A document's node, stamped and planned, is as a canvas has it.
LEMMA PlannedNormal ==
  ASSUME NEW i, ext[i] \subseteq Plugin, NEW n, DOMAIN n = {"ref", "kind", "title", "data"},
         DOMAIN n.data = DataFields, InHand(n.kind, n.data), NEW k
  PROVE  Normal(n.kind, MergeData(Stamp(i, n), k))
<1> DEFINE m == Stamp(i, n)
           d == MergeData(m, k)
           kind == n.kind
<1>1. /\ m.kind = kind /\ DOMAIN m.data = DataFields /\ StampFits(i, kind, n.data, m.data)
  BY AnyStampFits, Zenon
<1>2. RowsOK(n.data.rows) BY Zenon DEF InHand
<1>3. /\ kind # "plugin" => m.data.rows = n.data.rows
      /\ kind = "plugin" => \/ m.data.plugin = NoId /\ m.data.rows = <<>>
                            \/ \E p \in Plugin : m.data.plugin = IdOf(i, p) /\ m.data.rows = PortsFor[p]
      /\ m.data.msgs = n.data.msgs
  BY <1>1, Zenon DEF StampFits
<1> HIDE DEF m
<1>4. RowsOK(m.data.rows)
  <2>1. CASE kind # "plugin" BY <1>2, <1>3, <2>1
  <2>2. CASE kind = "plugin"
    <3>1. CASE m.data.plugin = NoId /\ m.data.rows = <<>> BY <3>1, NoRows
    <3>2. ASSUME NEW p \in Plugin, m.data.rows = PortsFor[p] PROVE RowsOK(m.data.rows)
      BY <3>2, FlowFilesOK
    <3> QED BY <1>3, <2>2, <3>1, <3>2
  <2> QED BY <2>1, <2>2
<1>5. /\ d.scope = IF m.data.scope = "" THEN "$" ELSE m.data.scope
      /\ d.msgs = IF kind \in ModelKinds THEN InBodyOnly(PickMessages(m.data.msgs))
                  ELSE m.data.msgs
      /\ d.rows = IF kind \in Routing \ {"plugin"} THEN Stamped(m.data.rows, k)
                  ELSE m.data.rows
      /\ d.plugin = m.data.plugin
  BY <1>1, MergedIs, Zenon
<1> HIDE DEF d, kind
<1>6. d.scope # "" BY <1>5
<1>7. kind \in ModelKinds => InBodyOnly(PickMessages(d.msgs)) = d.msgs
  <2> SUFFICES ASSUME kind \in ModelKinds PROVE InBodyOnly(PickMessages(d.msgs)) = d.msgs
    OBVIOUS
  <2>1. d.msgs = InBodyOnly(PickMessages(n.data.msgs)) BY <1>3, <1>5
  <2>2. PickMessages(InBodyOnly(PickMessages(n.data.msgs))) = PickMessages(n.data.msgs)
    BY Zenon DEF InHand, kind
  <2> QED BY <2>1, <2>2, Zenon
<1>8. /\ RowsOK(Stamped(m.data.rows, k))
      /\ \A j \in DOMAIN Stamped(m.data.rows, k) : Stamped(m.data.rows, k)[j].id # <<>>
  BY <1>4, StampedRows, Zenon
<1>9. RowsOK(d.rows) BY <1>4, <1>5, <1>8, Zenon
<1>10. kind \in Routing \ {"plugin"} => \A j \in DOMAIN d.rows : d.rows[j].id # <<>>
  BY <1>5, <1>8, Zenon
<1>11. kind = "plugin" /\ d.plugin # NoId => d.rows = PortsFor[d.plugin[2]]
  <2> SUFFICES ASSUME kind = "plugin", d.plugin # NoId PROVE d.rows = PortsFor[d.plugin[2]]
    OBVIOUS
  <2>1. d.rows = m.data.rows /\ d.plugin = m.data.plugin BY <1>5
  <2>2. PICK p \in Plugin : d.plugin = IdOf(i, p) /\ d.rows = PortsFor[p]
    BY <1>3, <2>1, Zenon
  <2>3. IdOf(i, p)[2] = p BY DEF IdOf
  <2> QED BY <2>2, <2>3, Zenon
<1>12. Normal(kind, d) BY <1>6, <1>7, <1>9, <1>10, <1>11, Zenon DEF Normal
<1> QED BY <1>12, Zenon DEF d, kind, m

\* It is that for as long as its design stays.
LEMMA NormalKept ==
  ASSUME NEW m, NEW n, SameDesign(m, n), NormalNode(n)
  PROVE  NormalNode(m)
<1>1. /\ m.kind = n.kind /\ m.data.scope = n.data.scope /\ m.data.msgs = n.data.msgs
      /\ m.data.rows = n.data.rows /\ m.data.plugin = n.data.plugin
  BY Zenon DEF SameDesign
<1>2. Normal(n.kind, n.data) BY Zenon DEF NormalNode
<1>3. Normal(m.kind, m.data) BY <1>1, <1>2, Zenon DEF Normal
<1> QED BY <1>3, Zenon DEF NormalNode

\* The stamp is each node's own, and leaves the edges.
LEMMA StampedNodes ==
  ASSUME NEW i, NEW doc, DOMAIN doc = {"nodes", "edges"}
  PROVE  LET patch == StampIdentities(i, doc)
         IN /\ DOMAIN patch.nodes = DOMAIN doc.nodes
            /\ \A k \in DOMAIN doc.nodes : patch.nodes[k] = Stamp(i, doc.nodes[k])
            /\ patch.edges = doc.edges
<1> DEFINE nodes == [k \in DOMAIN doc.nodes |-> Stamp(i, doc.nodes[k])]
           patch == StampIdentities(i, doc)
<1>1. patch = [doc EXCEPT !.nodes = nodes] BY MadeIs DEF StampIdentities
<1>2. DOMAIN nodes = DOMAIN doc.nodes /\ \A k \in DOMAIN doc.nodes : nodes[k] = Stamp(i, doc.nodes[k])
  OBVIOUS
<1> HIDE DEF nodes, patch
<1>3. patch.nodes = nodes /\ patch.edges = doc.edges BY <1>1
<1> QED BY <1>2, <1>3, Zenon DEF patch

\* Which edges a plan has.
LEMMA PlanIs ==
  ASSUME NEW patch
  PROVE  LET refs == ByRef(patch)
             nodes == PlannedNodes(patch, refs)
             plan == PlanPatch(patch)
         IN /\ plan.nodes = nodes /\ DOMAIN nodes = Range(refs)
            /\ \A k \in Range(refs) :
                 nodes[k] = [kind |-> patch.nodes[k].kind, title |-> patch.nodes[k].title,
                             data |-> MergeData(patch.nodes[k], k)]
            /\ \A e \in plan.edges : \E k \in DOMAIN patch.edges :
                 LET p == PlanEdge(nodes, refs, k, patch.edges[k])
                 IN p.level # "error" /\ e = p.edge
            /\ \A k \in DOMAIN patch.edges :
                 LET p == PlanEdge(nodes, refs, k, patch.edges[k])
                 IN p.level # "error" => p.edge \in plan.edges
<1> DEFINE refs == ByRef(patch)
           nodes == PlannedNodes(patch, refs)
           planned == PlannedEdges(patch, nodes, refs)
           edges == {p.edge : p \in {q \in planned : q.level # "error"}}
           problems == NodeProblems(patch, nodes) \cup EdgeProblems(planned)
                         \cup Convergence([k \in DOMAIN nodes |-> nodes[k].kind], edges)
           plan == PlanPatch(patch)
<1>1. plan = [nodes |-> nodes, edges |-> edges, problems |-> problems]
  BY Zenon DEF PlanPatch
<1>2. nodes = [k \in Range(refs) |->
          [kind |-> patch.nodes[k].kind, title |-> patch.nodes[k].title,
           data |-> MergeData(patch.nodes[k], k)]]
  BY MadeIs, Zenon DEF PlannedNodes
<1>3. planned = {PlanEdge(nodes, refs, k, patch.edges[k]) : k \in DOMAIN patch.edges}
  BY Zenon DEF PlannedEdges
<1> HIDE DEF nodes, planned, problems, refs
<1>4. ASSUME NEW e \in edges
      PROVE  \E k \in DOMAIN patch.edges :
               LET p == PlanEdge(nodes, refs, k, patch.edges[k])
               IN p.level # "error" /\ e = p.edge
  BY <1>3
<1>5. ASSUME NEW k \in DOMAIN patch.edges,
             PlanEdge(nodes, refs, k, patch.edges[k]).level # "error"
      PROVE  PlanEdge(nodes, refs, k, patch.edges[k]).edge \in edges
  <2>1. PlanEdge(nodes, refs, k, patch.edges[k]) \in planned BY <1>3
  <2> QED BY <1>5, <2>1
<1> HIDE DEF edges, plan
<1>6. plan.nodes = nodes /\ plan.edges = edges BY <1>1
<1>7. /\ DOMAIN nodes = Range(refs)
      /\ \A k \in Range(refs) :
           nodes[k] = [kind |-> patch.nodes[k].kind, title |-> patch.nodes[k].title,
                       data |-> MergeData(patch.nodes[k], k)]
  BY <1>2
<1> QED BY <1>4, <1>5, <1>6, <1>7, Zenon DEF plan, nodes, refs

\* A plan's nodes are as a canvas has them, and its edges one for each id.
LEMMA PlanDesign ==
  ASSUME NEW i, ext[i] \subseteq Plugin, NEW doc, FileOK(doc), HandOK(doc)
  PROVE  LET patch == StampIdentities(i, doc)
             plan == PlanPatch(patch)
         IN /\ OneEach(plan.edges)
            /\ \A k \in DOMAIN plan.nodes : NormalNode(plan.nodes[k])
            /\ DOMAIN plan.nodes = Range(ByRef(patch))
            /\ \A k \in DOMAIN plan.nodes :
                 /\ k \in DOMAIN doc.nodes
                 /\ plan.nodes[k].kind = doc.nodes[k].kind
                 /\ plan.nodes[k].title = doc.nodes[k].title
                 /\ plan.nodes[k].data = MergeData(Stamp(i, doc.nodes[k]), k)
<1> DEFINE patch == StampIdentities(i, doc)
           plan == PlanPatch(patch)
           refs == ByRef(patch)
           nodes == PlannedNodes(patch, refs)
<1>1. DOMAIN doc = {"nodes", "edges"} /\ \E n \in Nat : DOMAIN doc.nodes = 1..n
  BY Zenon DEF FileOK
<1>2. /\ DOMAIN patch.nodes = DOMAIN doc.nodes
      /\ \A k \in DOMAIN doc.nodes : patch.nodes[k] = Stamp(i, doc.nodes[k])
  BY <1>1, StampedNodes, Zenon
<1>3. /\ plan.nodes = nodes /\ DOMAIN nodes = Range(refs)
      /\ \A k \in Range(refs) :
           nodes[k] = [kind |-> patch.nodes[k].kind, title |-> patch.nodes[k].title,
                       data |-> MergeData(patch.nodes[k], k)]
      /\ \A e \in plan.edges : \E k \in DOMAIN patch.edges :
           LET p == PlanEdge(nodes, refs, k, patch.edges[k])
           IN p.level # "error" /\ e = p.edge
  BY PlanIs, Zenon
<1>4. \A k \in Range(refs) : k \in DOMAIN doc.nodes
  <2>1. PICK n \in Nat : DOMAIN doc.nodes = 1..n BY <1>1
  <2>2. \A r \in DOMAIN refs : refs[r] \in 1..n BY <1>2, <2>1, ByRefKnown
  <2> HIDE DEF refs
  <2> QED BY <2>1, <2>2 DEF Range
<1> HIDE DEF patch, plan, refs, nodes
<1>5. OneEach(plan.edges)
  <2> SUFFICES ASSUME NEW e \in plan.edges, NEW d \in plan.edges, e.id = d.id PROVE e = d
    BY Zenon DEF OneEach
  <2> DEFINE P(k) == PlanEdge(nodes, refs, k, patch.edges[k])
  <2>1. PICK k : P(k).level # "error" /\ e = P(k).edge BY <1>3, Zenon
  <2>2. PICK l : P(l).level # "error" /\ d = P(l).edge BY <1>3, Zenon
  <2>3. ASSUME NEW j, P(j).level # "error" PROVE P(j).edge.id = j
    <3> DEFINE p == P(j)
    <3>1. p = PlanEdge(nodes, refs, j, patch.edges[j]) OBVIOUS
    <3> HIDE DEF p
    <3>2. p.level # "error" => p.edge.id = j BY <3>1, PlannedEdgeOK
    <3>3. p.level # "error" BY <2>3 DEF p
    <3>4. p.edge.id = j BY <3>2, <3>3
    <3> QED BY <3>4 DEF p
  <2> HIDE DEF P
  <2>4. e.id = k /\ d.id = l BY <2>1, <2>2, <2>3
  <2> QED BY <2>1, <2>2, <2>4
<1>6. ASSUME NEW k \in DOMAIN plan.nodes
      PROVE  /\ k \in DOMAIN doc.nodes
             /\ plan.nodes[k].kind = doc.nodes[k].kind
             /\ plan.nodes[k].title = doc.nodes[k].title
             /\ plan.nodes[k].data = MergeData(Stamp(i, doc.nodes[k]), k)
             /\ NormalNode(plan.nodes[k])
  <2> DEFINE n == doc.nodes[k]
             m == Stamp(i, n)
             a == plan.nodes[k]
  <2>1. k \in Range(refs) /\ k \in DOMAIN doc.nodes BY <1>3, <1>4
  <2>2. DOMAIN n = {"ref", "kind", "title", "data"} /\ DOMAIN n.data = DataFields
    BY <2>1, Zenon DEF FileOK, DataOK
  <2>3. InHand(n.kind, n.data) BY <2>1, Zenon DEF HandOK
  <2>4. m.kind = n.kind /\ m.title = n.title BY <2>2, AnyStampFits, Zenon
  <2>5. Normal(n.kind, MergeData(m, k)) BY <2>2, <2>3, PlannedNormal, Zenon
  <2>6. patch.nodes[k] = m BY <1>2, <2>1
  <2>7. a = [kind |-> m.kind, title |-> m.title, data |-> MergeData(m, k)]
    BY <1>3, <2>1, <2>6
  <2> HIDE DEF a, m, n
  <2>8. a.kind = m.kind /\ a.title = m.title /\ a.data = MergeData(m, k) BY <2>7
  <2>9. NormalNode(a) BY <2>4, <2>5, <2>8, Zenon DEF NormalNode
  <2> QED BY <2>1, <2>4, <2>8, <2>9, Zenon DEF a, m, n
<1>7. DOMAIN plan.nodes = Range(refs) BY <1>3
<1> QED BY <1>5, <1>6, <1>7, Zenon DEF plan, patch, refs

\* An import saves the plan's edges, and the design of each node of it.
LEMMA ImportedDesign ==
  ASSUME NEW i, NEW plan, GraphOK(i, [nodes |-> plan.nodes, edges |-> plan.edges]),
         NEW graph, NEW lowered, NEW f,
         graph = [nodes |-> Made([k \in DOMAIN plan.nodes |-> ResolveProfile(i, plan.nodes[k])]),
                  edges |-> plan.edges],
         f = Saved([graph EXCEPT !.nodes = Built(graph, lowered)])
  PROVE  /\ f.edges = plan.edges /\ DOMAIN f.nodes = DOMAIN plan.nodes
         /\ \A k \in DOMAIN plan.nodes : SameDesign(f.nodes[k], plan.nodes[k])
<1> DEFINE read == [k \in DOMAIN plan.nodes |-> ResolveProfile(i, plan.nodes[k])]
           built == Built(graph, lowered)
           g == [graph EXCEPT !.nodes = built]
<1>1. graph = [nodes |-> read, edges |-> plan.edges] BY MadeIs
<1>2. \A k \in DOMAIN plan.nodes : FlowNodeOK(i, plan.nodes[k]) BY DEF GraphOK
<1>3. DOMAIN read = DOMAIN plan.nodes OBVIOUS
<1>4. ASSUME NEW k \in DOMAIN plan.nodes
      PROVE  FlowNodeOK(i, read[k]) /\ SameDesign(read[k], plan.nodes[k])
  <2> DEFINE n == plan.nodes[k]
  <2>1. read[k] = ResolveProfile(i, n) OBVIOUS
  <2>2. FlowNodeOK(i, n) BY <1>2, Zenon
  <2> HIDE DEF n, read
  <2>3. FlowNodeOK(i, ResolveProfile(i, n)) BY <2>2, ProfileResolved, Zenon
  <2>4. SameDesign(ResolveProfile(i, n), n) BY <2>2, ProfileKeepsDesign, Zenon
  <2> QED BY <2>1, <2>3, <2>4, Zenon DEF n
<1> HIDE DEF read
<1>5. graph.nodes = read /\ graph.edges = plan.edges BY <1>1
<1>6. built = [k \in DOMAIN read |->
                 IF k \in lowered THEN [read[k] EXCEPT !.data = AfterBuild(read[k].kind, @)]
                 ELSE read[k]]
  BY <1>5 DEF Built
<1>7. ASSUME NEW k \in DOMAIN plan.nodes
      PROVE  SameDesign(built[k], plan.nodes[k])
  <2> DEFINE n == read[k]
             m == [n EXCEPT !.data = AfterBuild(n.kind, @)]
  <2>1. FlowNodeOK(i, n) /\ SameDesign(n, plan.nodes[k]) BY <1>4, Zenon
  <2>2. SameDesign(m, n) BY <2>1, BuildKeepsDesign, Zenon
  <2>3. built[k] = m \/ built[k] = n BY <1>3, <1>6
  <2> HIDE DEF n, m, built
  <2>4. SameDesign(m, plan.nodes[k]) BY <2>1, <2>2, Zenon DEF SameDesign
  <2> QED BY <2>1, <2>3, <2>4, Zenon
<1>8. DOMAIN built = DOMAIN read BY <1>6
<1> HIDE DEF built
<1>9. g.nodes = built /\ g.edges = plan.edges BY <1>1
<1> HIDE DEF g
<1>10. f.nodes = built /\ f.edges = plan.edges
  <2>1. f = Saved(g) BY Zenon DEF g, built
  <2> QED BY <2>1, <1>9 DEF Saved
<1> QED BY <1>3, <1>7, <1>8, <1>10

-----------------------------------------------------------------------------
(* The document of a graph.                                               *)

\* The document an export makes of a graph.
PatchOf(g) ==
  GraphToPatch(g, [k \in DOMAIN g.nodes |-> SlugOf(g.nodes[k])],
               [k \in DOMAIN g.nodes |-> PortableData(g.nodes[k].kind, g.nodes[k].data)])

\* A document is of the nodes and edges alone.
LEMMA PatchOfSame ==
  ASSUME NEW f, NEW g, f.nodes = g.nodes, f.edges = g.edges
  PROVE  PatchOf(f) = PatchOf(g)
<1> DEFINE slugs == [k \in DOMAIN g.nodes |-> SlugOf(g.nodes[k])]
           portable == [k \in DOMAIN g.nodes |-> PortableData(g.nodes[k].kind, g.nodes[k].data)]
<1>1. PatchOf(f) = GraphToPatch(f, slugs, portable) BY Zenon DEF PatchOf
<1>2. PatchOf(g) = GraphToPatch(g, slugs, portable) BY Zenon DEF PatchOf
<1> HIDE DEF slugs, portable
<1>3. GraphToPatch(f, slugs, portable) = GraphToPatch(g, slugs, portable)
  BY Zenon DEF GraphToPatch
<1> QED BY <1>1, <1>2, <1>3

\* No place is taken twice.
LEMMA InOrderApart ==
  ASSUME NEW S, IsFiniteSet(S), S \subseteq Nat,
         NEW k \in DOMAIN InOrder(S), NEW l \in DOMAIN InOrder(S), InOrder(S)[k] = InOrder(S)[l]
  PROVE  k = l
<1> DEFINE B(z) == Cardinality({y \in S : y < z})
           list == [j \in 1..Cardinality(S) |-> CHOOSE x \in S : B(x) = j - 1]
<1>1. InOrder(S) = list BY MadeIs DEF InOrder
<1>2. Cardinality(S) \in Nat BY FS_CardinalityType
<1>3. DOMAIN list = 1..Cardinality(S) OBVIOUS
<1>4. k \in 1..Cardinality(S) /\ l \in 1..Cardinality(S) BY <1>1, <1>3
<1>5. ASSUME NEW j \in 1..Cardinality(S) PROVE B(list[j]) = j - 1
  <2>1. \E x \in S : B(x) = j - 1 BY RankTaken
  <2>2. list[j] = CHOOSE x \in S : B(x) = j - 1 OBVIOUS
  <2> HIDE DEF B, list
  <2> QED BY <2>1, <2>2, Zenon
<1> HIDE DEF B, list
<1>6. list[k] = list[l] BY <1>1
<1>7. k - 1 = l - 1 BY <1>4, <1>5, <1>6
<1> QED BY <1>2, <1>4, <1>7

\* The portable data: what of a design it keeps.
LEMMA PortedIs ==
  ASSUME NEW kind, NEW d, DOMAIN d = DataFields
  PROVE  LET e == PortableData(kind, d)
         IN /\ e.scope = (IF d.scope = "$" THEN "" ELSE d.scope)
            /\ e.msgs = d.msgs
            /\ e.rows = (IF kind = "plugin" THEN <<>> ELSE d.rows)
            /\ DOMAIN e = DataFields
<1> DEFINE s == IF d.scope = "$" THEN "" ELSE d.scope
           r == IF kind = "plugin" THEN <<>> ELSE d.rows
           e == PortableData(kind, d)
<1>1. e = [d EXCEPT !.plugin = NoId, !.settings = "none", !.missing = FALSE, !.bind = "",
                    !.scope = s, !.rows = r]
  BY Zenon DEF PortableData
<1> HIDE DEF s, r, e
<1>2. e.scope = s /\ e.msgs = d.msgs /\ e.rows = r /\ DOMAIN e = DataFields
  BY <1>1 DEF DataFields
<1> QED BY <1>2, Zenon DEF s, r, e

\* How an edge of the graph is written: by the refs of its ends and the name of
\* the port it is on.
Place(ids, x) == CHOOSE k \in DOMAIN ids : ids[k] = x
Said(g, e) == PortName(PortsOf(g.nodes[e.from].kind, g.nodes[e.from].data), e)
Written(g, ids, doc, e) ==
  [from |-> doc.nodes[Place(ids, e.from)].ref, to |-> doc.nodes[Place(ids, e.to)].ref,
   port |-> Said(g, e)]

\* The document of a graph of n nodes: each written in its place, under a ref of
\* its own, and each edge.
Writes(g, ids, doc, n) ==
  /\ DOMAIN doc = {"nodes", "edges"} /\ DOMAIN ids = 1..n /\ DOMAIN doc.nodes = 1..n
  /\ \A k \in 1..n : LET m == doc.nodes[k]
                         o == g.nodes[ids[k]]
                     IN /\ DOMAIN m = {"ref", "kind", "title", "data"}
                        /\ m.kind = o.kind /\ m.title = o.title
                        /\ m.data = PortableData(o.kind, o.data)
                        /\ m.ref # <<>> /\ ids[k] \in DOMAIN g.nodes
  /\ \A k, l \in 1..n : doc.nodes[k].ref = doc.nodes[l].ref => k = l
  /\ \A x \in DOMAIN g.nodes : Place(ids, x) \in 1..n /\ ids[Place(ids, x)] = x
  /\ \A k \in 1..n : Place(ids, ids[k]) = k
  /\ \A k \in DOMAIN doc.edges : \E e \in g.edges : doc.edges[k] = Written(g, ids, doc, e)
  /\ \A e \in g.edges : \E k \in DOMAIN doc.edges : doc.edges[k] = Written(g, ids, doc, e)

\* That is the document an export makes.
LEMMA PatchIs ==
  ASSUME NEW i, NEW g, GraphOK(i, g), OneEach(g.edges)
  PROVE  \E n \in Nat : Writes(g, InOrder(DOMAIN g.nodes), PatchOf(g), n)
<1> DEFINE ids == InOrder(DOMAIN g.nodes)
           at(x) == Place(ids, x)
           slugs == [k \in DOMAIN g.nodes |-> SlugOf(g.nodes[k])]
           portable == [k \in DOMAIN g.nodes |-> PortableData(g.nodes[k].kind, g.nodes[k].data)]
           refs == UniqueRefs([k \in DOMAIN ids |-> slugs[ids[k]]])
           E == {e \in g.edges : {e.from, e.to} \subseteq Range(ids)}
           es == EdgesInOrder(E)
           doc == PatchOf(g)
           named(x) == doc.nodes[at(x)].ref
           said(e) == Said(g, e)
<1> DEFINE n == Cardinality(DOMAIN g.nodes)
<1>1. /\ DOMAIN g.nodes \subseteq Nat /\ IsFiniteSet(DOMAIN g.nodes)
      /\ \A e \in g.edges : {e.from, e.to} \subseteq DOMAIN g.nodes
      /\ {e.id : e \in g.edges} \subseteq Nat /\ IsFiniteSet({e.id : e \in g.edges})
  BY Zenon DEF GraphOK
<1>2. n \in Nat /\ DOMAIN ids = 1..n /\ \A k \in DOMAIN ids : ids[k] \in DOMAIN g.nodes
  BY <1>1, InOrderLists
<1>3. \A x \in DOMAIN g.nodes : \E k \in DOMAIN ids : ids[k] = x BY <1>1, InOrderOnto
<1>4. \A k, l \in DOMAIN ids : ids[k] = ids[l] => k = l BY <1>1, InOrderApart
<1> HIDE DEF ids, n
<1>5. ASSUME NEW x \in DOMAIN g.nodes PROVE at(x) \in 1..n /\ ids[at(x)] = x
  <2>1. at(x) \in DOMAIN ids /\ ids[at(x)] = x BY <1>3, Zenon DEF Place
  <2> QED BY <1>2, <2>1
<1>6. ASSUME NEW k \in 1..n PROVE at(ids[k]) = k
  <2>1. ids[k] \in DOMAIN g.nodes BY <1>2
  <2>2. at(ids[k]) \in 1..n /\ ids[at(ids[k])] = ids[k] BY <1>5, <2>1
  <2> QED BY <1>2, <1>4, <2>2
<1> HIDE DEF at
<1>7. Range(ids) = DOMAIN g.nodes BY <1>2, <1>3 DEF Range
<1>8. E = g.edges BY <1>1, <1>7
<1>9. /\ \A k \in DOMAIN es : es[k] \in g.edges
      /\ \A e \in g.edges : \E k \in DOMAIN es : es[k] = e
  <2>1. \E m \in Nat : DOMAIN EdgesInOrder(g.edges) = 1..m
                       /\ \A k \in 1..m : EdgesInOrder(g.edges)[k] \in g.edges
    BY <1>1, EdgesListed, Zenon
  <2>2. \A e \in g.edges : \E k \in DOMAIN EdgesInOrder(g.edges) : EdgesInOrder(g.edges)[k] = e
    BY <1>1, EdgesOnto, Zenon
  <2>3. es = EdgesInOrder(g.edges) BY <1>8
  <2> HIDE DEF es
  <2> QED BY <2>1, <2>2, <2>3
<1>10. /\ \A k \in 1..n : refs[k] # <<>>
       /\ \A k, l \in 1..n : refs[k] = refs[l] => k = l
  <2> DEFINE list == [k \in DOMAIN ids |-> slugs[ids[k]]]
  <2>1. DOMAIN list = 1..n BY <1>2
  <2>2. ASSUME NEW k \in 1..n PROVE \E w : list[k] = <<w>>
    <3>1. list[k] = <<g.nodes[ids[k]].title>> BY <1>2 DEF SlugOf
    <3> QED BY <3>1, Zenon
  <2> HIDE DEF list
  <2> QED BY <1>2, <2>1, <2>2, RefsAreUnique, Zenon DEF list
<1>11. doc = GraphToPatch(g, slugs, portable) BY Zenon DEF PatchOf
<1>12. /\ doc.nodes = [k \in DOMAIN ids |->
             [ref |-> refs[k], kind |-> g.nodes[ids[k]].kind, title |-> g.nodes[ids[k]].title,
              data |-> portable[ids[k]]]]
       /\ doc.edges = [k \in DOMAIN es |->
             [from |-> refs[at(es[k].from)], to |-> refs[at(es[k].to)], port |-> said(es[k])]]
       /\ DOMAIN doc = {"nodes", "edges"}
  <2> DEFINE nn == [k \in DOMAIN ids |->
             [ref |-> refs[k], kind |-> g.nodes[ids[k]].kind, title |-> g.nodes[ids[k]].title,
              data |-> portable[ids[k]]]]
             ee == [k \in DOMAIN es |->
             [from |-> refs[at(es[k].from)], to |-> refs[at(es[k].to)], port |-> said(es[k])]]
  <2> HIDE DEF doc, slugs, portable
  <2>1. doc = [nodes |-> nn, edges |-> ee]
    BY <1>11, Zenon DEF GraphToPatch, ids, at, refs, es, E, said, Place, Said
  <2> HIDE DEF nn, ee
  <2>2. doc.nodes = nn /\ doc.edges = ee /\ DOMAIN doc = {"nodes", "edges"} BY <2>1
  <2> QED BY <2>2, Zenon DEF nn, ee
<1>13. \A x \in DOMAIN g.nodes : portable[x] = PortableData(g.nodes[x].kind, g.nodes[x].data)
  OBVIOUS
<1> HIDE DEF doc, slugs, portable, refs, es, E, said
<1>14. DOMAIN doc.nodes = 1..n /\ DOMAIN doc.edges = DOMAIN es BY <1>2, <1>12
<1>15. ASSUME NEW k \in 1..n
       PROVE  LET m == doc.nodes[k]
                  o == g.nodes[ids[k]]
              IN /\ DOMAIN m = {"ref", "kind", "title", "data"}
                 /\ m.kind = o.kind /\ m.title = o.title
                 /\ m.data = PortableData(o.kind, o.data)
                 /\ m.ref = refs[k] /\ m.ref # <<>> /\ ids[k] \in DOMAIN g.nodes
  <2> DEFINE m == doc.nodes[k]
             o == g.nodes[ids[k]]
  <2>1. m = [ref |-> refs[k], kind |-> o.kind, title |-> o.title, data |-> portable[ids[k]]]
    BY <1>2, <1>12
  <2>2. ids[k] \in DOMAIN g.nodes BY <1>2
  <2>3. portable[ids[k]] = PortableData(o.kind, o.data) BY <1>13, <2>2
  <2> HIDE DEF m, o
  <2>4. /\ DOMAIN m = {"ref", "kind", "title", "data"} /\ m.kind = o.kind /\ m.title = o.title
        /\ m.data = portable[ids[k]] /\ m.ref = refs[k]
    BY <2>1
  <2> QED BY <1>10, <2>2, <2>3, <2>4, Zenon DEF m, o
<1>16. ASSUME NEW e \in g.edges PROVE named(e.from) = refs[at(e.from)] /\ named(e.to) = refs[at(e.to)]
  <2>1. e.from \in DOMAIN g.nodes /\ e.to \in DOMAIN g.nodes BY <1>1
  <2>2. at(e.from) \in 1..n /\ at(e.to) \in 1..n BY <1>5, <2>1
  <2> QED BY <1>15, <2>2, Zenon
<1>17. ASSUME NEW k \in DOMAIN es
       PROVE  doc.edges[k] = [from |-> named(es[k].from), to |-> named(es[k].to), port |-> said(es[k])]
  <2>1. es[k] \in g.edges BY <1>9
  <2>2. named(es[k].from) = refs[at(es[k].from)] /\ named(es[k].to) = refs[at(es[k].to)]
    BY <1>16, <2>1
  <2>3. doc.edges[k] = [from |-> refs[at(es[k].from)], to |-> refs[at(es[k].to)], port |-> said(es[k])]
    BY <1>12
  <2> HIDE DEF named
  <2> QED BY <2>2, <2>3
<1>18. \A k, l \in 1..n : doc.nodes[k].ref = doc.nodes[l].ref => k = l
  <2>1. \A k \in 1..n : doc.nodes[k].ref = refs[k] BY <1>15, Zenon
  <2> QED BY <1>10, <2>1
<1> HIDE DEF named
<1>19. ASSUME NEW k \in DOMAIN doc.edges
       PROVE  \E e \in g.edges :
                doc.edges[k] = [from |-> named(e.from), to |-> named(e.to), port |-> said(e)]
  BY <1>9, <1>14, <1>17, Zenon
<1>20. ASSUME NEW e \in g.edges
       PROVE  \E k \in DOMAIN doc.edges :
                doc.edges[k] = [from |-> named(e.from), to |-> named(e.to), port |-> said(e)]
  <2>1. PICK k \in DOMAIN es : es[k] = e BY <1>9
  <2> QED BY <1>14, <1>17, <2>1, Zenon
<1>21. /\ \A x \in DOMAIN g.nodes : Place(ids, x) \in 1..n /\ ids[Place(ids, x)] = x
       /\ \A k \in 1..n : Place(ids, ids[k]) = k
  BY <1>5, <1>6, Zenon DEF at
<1>22. /\ \A k \in DOMAIN doc.edges : \E e \in g.edges : doc.edges[k] = Written(g, ids, doc, e)
       /\ \A e \in g.edges : \E k \in DOMAIN doc.edges : doc.edges[k] = Written(g, ids, doc, e)
  BY <1>19, <1>20, Zenon DEF Written, named, said, at
<1>23. Writes(g, ids, doc, n)
  BY <1>2, <1>12, <1>14, <1>15, <1>18, <1>21, <1>22, Zenon DEF Writes
<1> QED BY <1>2, <1>23, Zenon DEF ids, doc

-----------------------------------------------------------------------------
(* Designs on the installs and in the document in hand.                   *)

\* An exported flow's messages are settled, and no row of it is lost to a node
\* that is no plugin's.
LEMMA ExportedInHand ==
  ASSUME NEW i, NEW g, GraphOK(i, g), DesignOK(g)
  PROVE  HandOK(PatchOf(g))
<1> DEFINE ids == InOrder(DOMAIN g.nodes)
           doc == PatchOf(g)
<1>1. PICK n \in Nat :
        /\ DOMAIN doc.nodes = 1..n
        /\ \A k \in 1..n : LET m == doc.nodes[k]
                               o == g.nodes[ids[k]]
                           IN /\ m.kind = o.kind /\ m.data = PortableData(o.kind, o.data)
                              /\ ids[k] \in DOMAIN g.nodes
  <2>1. PICK n \in Nat : Writes(g, ids, doc, n) BY PatchIs, Zenon DEF DesignOK
  <2> QED BY <2>1, Zenon DEF Writes
<1> HIDE DEF ids, doc
<1>2. ASSUME NEW k \in DOMAIN doc.nodes PROVE InHand(doc.nodes[k].kind, doc.nodes[k].data)
  <2> DEFINE o == g.nodes[ids[k]]
             e == PortableData(o.kind, o.data)
  <2>1. /\ doc.nodes[k].kind = o.kind /\ doc.nodes[k].data = e /\ ids[k] \in DOMAIN g.nodes
    BY <1>1, Zenon
  <2>2. Normal(o.kind, o.data) BY <2>1, Zenon DEF DesignOK, NormalNode
  <2>3. DOMAIN o.data = DataFields BY <2>1, Zenon DEF GraphOK, FlowNodeOK, DataOK
  <2>4. e.msgs = o.data.msgs /\ e.rows = (IF o.kind = "plugin" THEN <<>> ELSE o.data.rows)
    BY <2>3, PortedIs, ZenonT(60)
  <2> HIDE DEF e, o
  <2>5. RowsOK(e.rows)
    <3>1. RowsOK(o.data.rows) BY <2>2, Zenon DEF Normal
    <3> QED BY <2>4, <3>1, NoRows, Zenon
  <2>6. o.kind \in ModelKinds =>
          PickMessages(InBodyOnly(PickMessages(e.msgs))) = PickMessages(e.msgs)
    BY <2>2, <2>4, Zenon DEF Normal
  <2>7. InHand(o.kind, e) BY <2>5, <2>6, Zenon DEF InHand
  <2> QED BY <2>1, <2>7, Zenon
<1>3. HandOK(doc) BY <1>2, Zenon DEF HandOK
<1> QED BY <1>3 DEF doc

\* What holds of designs: the document in hand and every saved flow are as the
\* planner leaves them, and the document is the one made of the graph exported last.
Exported ==
  origin.install \in Install =>
    /\ GraphOK(origin.install, origin) /\ DesignOK(origin) /\ file = PatchOf(origin)
DesignInv ==
  /\ HandOK(file) /\ Exported
  /\ \A i \in Install : DesignOK(flows[i])

\* It holds of the documents that are brought, and of no flow.
LEMMA DesignsInitial == FInit => DesignInv
<1> SUFFICES ASSUME FInit PROVE DesignInv OBVIOUS
<1>1. HandOK(file)
  <2>1. DocumentOK(file) BY DocumentsOK, Zenon DEF FInit
  <2>2. ASSUME NEW k \in DOMAIN file.nodes PROVE InHand(file.nodes[k].kind, file.nodes[k].data)
    <3> DEFINE d == file.nodes[k].data
    <3>1. RowsOK(d.rows) /\ IsList(d.msgs.list) /\ IsList(d.msgs.body)
      BY <2>1, Zenon DEF DocumentOK, ListsOK
    <3>2. PickMessages(InBodyOnly(PickMessages(d.msgs))) = PickMessages(d.msgs)
      BY <3>1, MessagesSettle, Zenon
    <3> QED BY <3>1, <3>2, Zenon DEF InHand
  <2> QED BY <2>2, Zenon DEF HandOK
<1>2. Exported
  <2>1. origin.install = "none" BY DEF FInit, NoOrigin
  <2> QED BY <2>1, FlowFilesOK DEF Exported
<1>3. ASSUME NEW i \in Install PROVE DesignOK(flows[i])
  <2>1. flows[i] = NoFlow BY DEF FInit
  <2>2. DOMAIN NoFlow.nodes = {} /\ NoFlow.edges = {} BY DEF NoFlow
  <2> QED BY <2>1, <2>2, Zenon DEF DesignOK, OneEach
<1> QED BY <1>1, <1>2, <1>3 DEF DesignInv

\* What an import saves.
LEMMA ImportedIs ==
  ASSUME FlowInv, DesignInv, NEW i \in Install, Import(i)
  PROVE  LET plan == PlanPatch(StampIdentities(i, file))
             f == flows'[i]
         IN /\ \A j \in Install \ {i} : flows'[j] = flows[j]
            /\ UNCHANGED <<file, origin>>
            /\ f.edges = plan.edges /\ DOMAIN f.nodes = DOMAIN plan.nodes
            /\ \A k \in DOMAIN plan.nodes : SameDesign(f.nodes[k], plan.nodes[k])
            /\ OneEach(plan.edges) /\ \A k \in DOMAIN plan.nodes : NormalNode(plan.nodes[k])
<1> DEFINE plan == PlanPatch(StampIdentities(i, file))
           graph == [nodes |-> Made([k \in DOMAIN plan.nodes |-> ResolveProfile(i, plan.nodes[k])]),
                     edges |-> plan.edges]
           compiled == CompileFlow(graph, TRUE, i \in Connected)
           f == Saved([graph EXCEPT !.nodes = Built(graph, compiled.lowered)])
<1>1. flows' = [flows EXCEPT ![i] = f] /\ UNCHANGED <<file, origin>>
  BY Zenon DEF Import
<1>2. PatchOK(i, StampIdentities(i, file)) BY StampedOK DEF FlowInv
<1>3. GraphOK(i, [nodes |-> plan.nodes, edges |-> plan.edges]) BY <1>2, PlanOK, Zenon
<1>4. ext[i] \subseteq Plugin /\ FileOK(file) /\ HandOK(file) BY DEF FlowInv, DesignInv
<1>5. OneEach(plan.edges) /\ \A k \in DOMAIN plan.nodes : NormalNode(plan.nodes[k])
  BY <1>4, PlanDesign, Zenon
<1>6. /\ f.edges = plan.edges /\ DOMAIN f.nodes = DOMAIN plan.nodes
      /\ \A k \in DOMAIN plan.nodes : SameDesign(f.nodes[k], plan.nodes[k])
  <2> HIDE DEF plan, compiled
  <2> QED BY <1>3, ImportedDesign, Zenon
<1> HIDE DEF plan, graph, compiled, f
<1>7. flows'[i] = f /\ \A j \in Install \ {i} : flows'[j] = flows[j] BY <1>1 DEF FlowInv
<1> QED BY <1>1, <1>5, <1>6, <1>7, Zenon DEF plan

\* An import leaves the document, and saves a flow as planned.
LEMMA ImportDesign ==
  ASSUME FlowInv, DesignInv, NEW i \in Install, Import(i)
  PROVE  DesignInv'
<1> DEFINE plan == PlanPatch(StampIdentities(i, file))
           f == flows'[i]
<1>1. /\ \A j \in Install \ {i} : flows'[j] = flows[j]
      /\ UNCHANGED <<file, origin>>
      /\ f.edges = plan.edges /\ DOMAIN f.nodes = DOMAIN plan.nodes
      /\ \A k \in DOMAIN plan.nodes : SameDesign(f.nodes[k], plan.nodes[k])
      /\ OneEach(plan.edges) /\ \A k \in DOMAIN plan.nodes : NormalNode(plan.nodes[k])
  BY ImportedIs, Zenon
<1> HIDE DEF plan
<1>2. DesignOK(f)
  <2>1. ASSUME NEW k \in DOMAIN f.nodes PROVE NormalNode(f.nodes[k])
    BY <1>1, NormalKept, Zenon
  <2>2. OneEach(f.edges) BY <1>1
  <2> HIDE DEF f
  <2> QED BY <2>1, <2>2, Zenon DEF DesignOK
<1>3. ASSUME NEW j \in Install PROVE DesignOK(flows'[j])
  <2>1. CASE j = i BY <1>2, <2>1
  <2>2. CASE j # i
    <3>1. flows'[j] = flows[j] /\ DesignOK(flows[j]) BY <1>1, <2>2 DEF DesignInv
    <3> QED BY <3>1
  <2> QED BY <2>1, <2>2
<1>4. Exported' BY <1>1, Zenon DEF DesignInv, Exported
<1>5. HandOK(file') BY <1>1 DEF DesignInv
<1> QED BY <1>3, <1>4, <1>5 DEF DesignInv

\* An export writes the flow it exports.
LEMMA ExportDesign ==
  ASSUME FlowInv, DesignInv, NEW i \in Install, Export(i)
  PROVE  DesignInv'
<1> DEFINE f == flows[i]
<1>1. /\ file' = PatchOf(f) /\ flows' = flows
      /\ origin' = [install |-> i, nodes |-> f.nodes, edges |-> f.edges]
  BY Zenon DEF Export, PatchOf
<1>2. GraphOK(i, f) /\ DesignOK(f) BY DEF FlowInv, FlowOK, DesignInv
<1> HIDE DEF f
<1>3. origin'.install = i /\ origin'.nodes = f.nodes /\ origin'.edges = f.edges BY <1>1
<1>4. GraphOK(i, origin') /\ DesignOK(origin') BY <1>2, <1>3, Zenon DEF GraphOK, DesignOK
<1>5. PatchOf(origin') = PatchOf(f) BY <1>3, PatchOfSame, Zenon
<1>6. Exported' BY <1>1, <1>3, <1>4, <1>5 DEF Exported
<1>7. HandOK(file') BY <1>1, <1>2, ExportedInHand, Zenon
<1> QED BY <1>1, <1>6, <1>7 DEF DesignInv

\* A pick changes no messages, and a plugin's rows with its plugin.
LEMMA PickDesign ==
  ASSUME FlowInv, DesignInv, NEW i \in Install, NEW k \in DOMAIN flows[i].nodes, NEW data,
         flows[i].nodes[k].kind = "plugin", Normal("plugin", data),
         SaveCanvas(i, k, data), UNCHANGED <<file, origin>>
  PROVE  DesignInv'
<1> DEFINE f == flows[i]
           nodes == [f.nodes EXCEPT ![k].data = data]
           g == Saved([nodes |-> nodes, edges |-> f.edges])
<1>1. flows' = [flows EXCEPT ![i] = g] BY DEF SaveCanvas
<1>2. GraphOK(i, f) /\ DesignOK(f) BY DEF FlowInv, FlowOK, DesignInv
<1>3. g.nodes = nodes /\ g.edges = f.edges BY DEF Saved
<1>4. k \in DOMAIN f.nodes /\ f.nodes[k].kind = "plugin" OBVIOUS
<1> HIDE DEF f
<1>5. DOMAIN f.nodes[k] = {"kind", "title", "data"} BY <1>2, <1>4, Zenon DEF GraphOK, FlowNodeOK
<1>6. /\ DOMAIN nodes = DOMAIN f.nodes /\ nodes[k].kind = "plugin" /\ nodes[k].data = data
      /\ \A j \in DOMAIN f.nodes \ {k} : nodes[j] = f.nodes[j]
  BY <1>4, <1>5
<1> HIDE DEF nodes, g
<1>7. ASSUME NEW j \in DOMAIN nodes PROVE NormalNode(nodes[j])
  <2>1. CASE j = k BY <1>6, <2>1 DEF NormalNode
  <2>2. CASE j # k
    <3>1. nodes[j] = f.nodes[j] /\ NormalNode(f.nodes[j]) BY <1>2, <1>6, <2>2 DEF DesignOK
    <3> QED BY <3>1
  <2> QED BY <2>1, <2>2
<1>8. DesignOK(g) BY <1>2, <1>3, <1>7, Zenon DEF DesignOK
<1>9. flows'[i] = g /\ \A j \in Install \ {i} : flows'[j] = flows[j] BY <1>1 DEF FlowInv
<1>10. ASSUME NEW j \in Install PROVE DesignOK(flows'[j])
  <2>1. CASE j = i BY <1>8, <1>9, <2>1
  <2>2. CASE j # i
    <3>1. flows'[j] = flows[j] /\ DesignOK(flows[j]) BY <1>9, <2>2 DEF DesignInv
    <3> QED BY <3>1
  <2> QED BY <2>1, <2>2
<1>11. Exported' BY Zenon DEF DesignInv, Exported
<1>12. HandOK(file') BY DEF DesignInv
<1> QED BY <1>10, <1>11, <1>12 DEF DesignInv

\* Each step keeps what holds of designs.
LEMMA DesignsStep == FlowInv /\ DesignInv /\ [FNext]_fvars => DesignInv'
<1> SUFFICES ASSUME FlowInv, DesignInv, [FNext]_fvars PROVE DesignInv' OBVIOUS
<1>1. ASSUME UNCHANGED <<flows, file, origin>> PROVE DesignInv'
  BY <1>1, Zenon DEF DesignInv, Exported
<1>2. ASSUME NEW i \in Install, Import(i) PROVE DesignInv' BY <1>2, ImportDesign
<1>3. ASSUME NEW i \in Install, Export(i) PROVE DesignInv' BY <1>3, ExportDesign
<1>4. ASSUME NEW i \in Install, NEW p \in Plugin, SyncPlugin(i, p) PROVE DesignInv'
  BY <1>1, <1>4 DEF SyncPlugin
<1>5. ASSUME NEW i \in Install, NEW f, EditProfile(i, f) PROVE DesignInv'
  BY <1>1, <1>5 DEF EditProfile
<1>6. ASSUME NEW i \in Install, NEW k \in DOMAIN flows[i].nodes
      PROVE  LET n == flows[i].nodes[k]
             IN DOMAIN n.data = DataFields /\ Normal(n.kind, n.data)
  BY Zenon DEF FlowInv, FlowOK, GraphOK, FlowNodeOK, DataOK, DesignInv, DesignOK, NormalNode
<1>7. ASSUME NEW i \in Install, NEW k \in DOMAIN flows[i].nodes, NEW p \in Plugin,
             PickPlugin(i, k, p)
      PROVE  DesignInv'
  <2> DEFINE n == flows[i].nodes[k]
             d == Bound(i, n.data, p)
  <2>1. n.kind = "plugin" /\ SaveCanvas(i, k, d) /\ UNCHANGED <<file, origin>>
    BY <1>7, Zenon DEF PickPlugin
  <2>2. DOMAIN n.data = DataFields /\ Normal(n.kind, n.data) BY <1>6, Zenon
  <2>3. d.scope = n.data.scope /\ d.plugin = IdOf(i, p) /\ d.rows = PortsFor[p]
    <3> HIDE DEF n
    <3> QED BY <2>2, BoundRows
  <2>4. IdOf(i, p)[2] = p BY DEF IdOf
  <2>5. RowsOK(PortsFor[p]) BY FlowFilesOK, Zenon
  <2>6. "plugin" \notin ModelKinds /\ "plugin" \notin Routing \ {"plugin"} BY DEF ModelKinds
  <2> HIDE DEF d, n
  <2>7. n.data.scope # "" BY <2>2, Zenon DEF Normal
  <2>8. Normal("plugin", d) BY <2>3, <2>4, <2>5, <2>6, <2>7, Zenon DEF Normal
  <2> QED BY <2>1, <2>8, PickDesign, Zenon DEF n
<1>8. ASSUME NEW i \in Install, NEW k \in DOMAIN flows[i].nodes, NEW f, PickProfile(i, k, f)
      PROVE  DesignInv'
  <2> DEFINE n == flows[i].nodes[k]
             d == [n.data EXCEPT !.profile = f, !.settings = f]
  <2>1. n.kind = "plugin" /\ SaveCanvas(i, k, d) /\ UNCHANGED <<file, origin>>
    BY <1>8, Zenon DEF PickProfile
  <2>2. DOMAIN n.data = DataFields /\ Normal(n.kind, n.data) BY <1>6, Zenon
  <2> HIDE DEF n
  <2>3. /\ d.scope = n.data.scope /\ d.plugin = n.data.plugin /\ d.rows = n.data.rows
        /\ d.msgs = n.data.msgs
    BY <2>2 DEF DataFields
  <2> HIDE DEF d
  <2>4. Normal("plugin", n.data) BY <2>1, <2>2
  <2>5. Normal("plugin", d) BY <2>3, <2>4, Zenon DEF Normal
  <2> QED BY <2>1, <2>5, PickDesign, Zenon DEF n
<1>9. CASE UNCHANGED fvars BY <1>1, <1>9 DEF fvars
<1> QED BY <1>2, <1>3, <1>4, <1>5, <1>7, <1>8, <1>9 DEF FNext

-----------------------------------------------------------------------------
(* The way back: a document planned again by its install.                 *)

\* Where the refs are told apart, each names its own node.
LEMMA RefsReturn ==
  ASSUME NEW patch, NEW n \in Nat, DOMAIN patch.nodes = 1..n,
         \A k \in 1..n : patch.nodes[k].ref # <<>> /\ Known(patch.nodes[k].kind),
         \A k, l \in 1..n : patch.nodes[k].ref = patch.nodes[l].ref => k = l
  PROVE  /\ \A k \in 1..n : /\ patch.nodes[k].ref \in DOMAIN ByRef(patch)
                            /\ ByRef(patch)[patch.nodes[k].ref] = k
         /\ Range(ByRef(patch)) = 1..n
<1> DEFINE known == {k \in DOMAIN patch.nodes : Known(patch.nodes[k].kind)}
           first(r) == CHOOSE k \in known : /\ RefOf(patch, k) = r
                                            /\ \A j \in known : RefOf(patch, j) = r => k <= j
           refs == [r \in {RefOf(patch, k) : k \in known} |-> first(r)]
<1>1. ByRef(patch) = refs BY MadeIs DEF ByRef
<1>2. known = 1..n OBVIOUS
<1> HIDE DEF known
<1>3. \A k \in 1..n : RefOf(patch, k) = patch.nodes[k].ref BY DEF RefOf
<1>4. ASSUME NEW k \in 1..n
      PROVE  patch.nodes[k].ref \in DOMAIN refs /\ refs[patch.nodes[k].ref] = k
  <2> DEFINE r == patch.nodes[k].ref
  <2>1. r = RefOf(patch, k) /\ r \in {RefOf(patch, j) : j \in known} BY <1>2, <1>3
  <2>2. \A j \in known : RefOf(patch, j) = r => j = k BY <1>2, <1>3
  <2>3. refs[r] = first(r) BY <2>1
  <2> HIDE DEF r
  <2>4. k \in known /\ RefOf(patch, k) = r /\ \A j \in known : RefOf(patch, j) = r => k <= j
    BY <1>2, <2>1, <2>2
  <2>5. first(r) = k
    <3>1. first(r) \in known /\ RefOf(patch, first(r)) = r BY <2>4, Zenon
    <3> HIDE DEF first
    <3> QED BY <2>2, <3>1
  <2> QED BY <2>1, <2>3, <2>5 DEF r
<1>5. DOMAIN refs = {RefOf(patch, k) : k \in 1..n} BY <1>2
<1> HIDE DEF refs
<1>6. Range(refs) = 1..n
  <2>1. ASSUME NEW r \in DOMAIN refs PROVE refs[r] \in 1..n
    <3>1. PICK k \in 1..n : r = RefOf(patch, k) BY <1>5
    <3>2. refs[r] = k BY <1>3, <1>4, <3>1
    <3> QED BY <3>2
  <2>2. ASSUME NEW k \in 1..n PROVE \E r \in DOMAIN refs : refs[r] = k BY <1>4
  <2> QED BY <2>1, <2>2 DEF Range
<1> QED BY <1>1, <1>4, <1>6

\* An edge planned again from its names.
LEMMA EdgeReturns ==
  ASSUME NEW nodes, NEW refs, NEW k, NEW a \in DOMAIN refs, NEW b \in DOMAIN refs,
         NEW ports, PortsOf(nodes[refs[a]].kind, nodes[refs[a]].data) = ports,
         PortsOK(ports), ToldApart(ports), NEW e, OnPort(ports, e)
  PROVE  LET p == PlanEdge(nodes, refs, k, [from |-> a, to |-> b, port |-> PortName(ports, e)])
         IN /\ p.level # "error"
            /\ p.edge = [id |-> k, from |-> refs[a], to |-> refs[b],
                         handle |-> e.handle, tags |-> e.tags]
<1> DEFINE x == [from |-> a, to |-> b, port |-> PortName(ports, e)]
           src == nodes[refs[x.from]]
           ends == {x.from, x.to} \subseteq DOMAIN refs
           found == IF ends THEN ResolvePort(PortsOf(src.kind, src.data), x.port)
                    ELSE [port |-> NoPort, level |-> "error"]
           hit == ResolvePort(ports, PortName(ports, e))
           p == PlanEdge(nodes, refs, k, x)
<1>1. x.from = a /\ x.to = b /\ x.port = PortName(ports, e) OBVIOUS
<1>2. p = [id |-> k, level |-> found.level,
           edge |-> IF found.level = "error" THEN << >>
                    ELSE [id |-> k, from |-> refs[x.from], to |-> refs[x.to],
                          handle |-> found.port.id, tags |-> found.port.tags]]
  BY Zenon DEF PlanEdge
<1>3. hit.level = "ok" /\ hit.port.id = e.handle /\ hit.port.tags = e.tags
  BY PortReturns, Zenon
<1> HIDE DEF x, p, hit
<1>4. found = hit BY <1>1 DEF hit
<1> HIDE DEF found
<1>5. /\ p.level # "error"
      /\ p.edge = [id |-> k, from |-> refs[a], to |-> refs[b],
                   handle |-> e.handle, tags |-> e.tags]
  BY <1>1, <1>2, <1>3, <1>4
<1> QED BY <1>5, Zenon DEF p, x

\* A node planned again from what was written of it.
LEMMA NodeReturns ==
  ASSUME NEW i, ext[i] \subseteq Plugin, NEW o, FlowNodeOK(i, o), NormalNode(o),
         NEW m, DOMAIN m = {"ref", "kind", "title", "data"}, m.kind = o.kind, m.title = o.title,
         m.data = PortableData(o.kind, o.data), NEW k,
         NEW a, a.kind = m.kind, a.title = m.title, a.data = MergeData(Stamp(i, m), k),
         NEW f, SameDesign(f, a), Rebound(o, f)
  PROVE  SameNode(o, f) /\ a.data.rows = o.data.rows /\ a.kind = o.kind
<1> DEFINE d == o.data
           w == m.data
           s == Stamp(i, m)
           e == MergeData(s, k)
<1>1. Normal(o.kind, d) BY Zenon DEF NormalNode
<1>2. DOMAIN d = DataFields BY Zenon DEF FlowNodeOK, DataOK
<1>3. /\ w.scope = (IF d.scope = "$" THEN "" ELSE d.scope) /\ w.msgs = d.msgs
      /\ w.rows = (IF o.kind = "plugin" THEN <<>> ELSE d.rows) /\ DOMAIN w = DataFields
  <2> DEFINE v == PortableData(o.kind, d)
  <2> HIDE DEF d
  <2>1. /\ v.scope = (IF d.scope = "$" THEN "" ELSE d.scope) /\ v.msgs = d.msgs
        /\ v.rows = (IF o.kind = "plugin" THEN <<>> ELSE d.rows) /\ DOMAIN v = DataFields
    BY <1>2, PortedIs, ZenonT(60)
  <2>2. w = v BY DEF d
  <2> HIDE DEF v, w
  <2> QED BY <2>1, <2>2
<1>4. /\ s.kind = o.kind /\ DOMAIN s.data = DataFields /\ StampFits(i, o.kind, w, s.data)
  BY <1>3, AnyStampFits, Zenon
<1> HIDE DEF s, w
<1>5. /\ e.scope = IF s.data.scope = "" THEN "$" ELSE s.data.scope
      /\ e.msgs = IF s.kind \in ModelKinds THEN InBodyOnly(PickMessages(s.data.msgs))
                  ELSE s.data.msgs
      /\ e.rows = IF s.kind \in Routing \ {"plugin"} THEN Stamped(s.data.rows, k)
                  ELSE s.data.rows
      /\ e.plugin = s.data.plugin
  BY <1>4, MergedIs, Zenon
<1>6. a.data = e BY Zenon DEF s
<1> HIDE DEF e, d
<1>7. s.data.scope = w.scope /\ s.data.msgs = w.msgs BY <1>4, Zenon DEF StampFits
<1>8. e.scope = d.scope
  <2>1. d.scope # "" BY <1>1, Zenon DEF Normal
  <2> QED BY <1>3, <1>5, <1>7, <2>1
<1>9. e.msgs = d.msgs
  <2>1. o.kind \in ModelKinds => InBodyOnly(PickMessages(d.msgs)) = d.msgs
    BY <1>1, Zenon DEF Normal
  <2>2. s.data.msgs = d.msgs BY <1>3, <1>7
  <2> QED BY <1>4, <1>5, <2>1, <2>2, Zenon
<1>10. /\ f.kind = a.kind /\ f.title = a.title /\ f.data.scope = e.scope /\ f.data.msgs = e.msgs
       /\ f.data.rows = e.rows /\ f.data.plugin = e.plugin
  BY <1>6, Zenon DEF SameDesign
<1>11. e.rows = d.rows
  <2>1. CASE o.kind = "plugin"
    <3>1. d.plugin = f.data.plugin /\ f.data.plugin # NoId BY <2>1, Zenon DEF Rebound, d
    <3>2. d.rows = PortsFor[d.plugin[2]] BY <1>1, <2>1, <3>1, Zenon DEF Normal
    <3>3. \/ s.data.plugin = NoId
          \/ \E p \in Plugin : s.data.plugin = IdOf(i, p) /\ s.data.rows = PortsFor[p]
      BY <1>4, <2>1, Zenon DEF StampFits
    <3>4. s.data.plugin = d.plugin /\ s.data.plugin # NoId BY <1>5, <1>10, <3>1
    <3>5. PICK p \in Plugin : d.plugin = IdOf(i, p) /\ s.data.rows = PortsFor[p]
      BY <3>3, <3>4, Zenon
    <3>6. IdOf(i, p)[2] = p BY DEF IdOf
    <3>7. d.rows = s.data.rows BY <3>2, <3>5, <3>6, Zenon
    <3> QED BY <1>4, <1>5, <2>1, <3>7
  <2>2. CASE o.kind # "plugin"
    <3>1. s.data.rows = d.rows BY <1>3, <1>4, <2>2, Zenon DEF StampFits
    <3>2. CASE o.kind \in Routing \ {"plugin"}
      <4>1. RowsOK(d.rows) /\ \A j \in DOMAIN d.rows : d.rows[j].id # <<>>
        BY <1>1, <3>2, Zenon DEF Normal
      <4>2. Stamped(d.rows, k) = d.rows BY <4>1, StampedRows, Zenon
      <4> QED BY <1>4, <1>5, <3>1, <3>2, <4>2, Zenon
    <3>3. CASE o.kind \notin Routing \ {"plugin"} BY <1>4, <1>5, <3>1, <3>3, Zenon
    <3> QED BY <3>2, <3>3
  <2> QED BY <2>1, <2>2
<1>12. SameNode(o, f) BY <1>8, <1>9, <1>10, <1>11, Zenon DEF SameNode, d
<1> QED BY <1>6, <1>11, <1>12 DEF d

\* A flow as it was planned.
Planned(new, plan) ==
  /\ new.edges = plan.edges /\ DOMAIN new.nodes = DOMAIN plan.nodes
  /\ \A k \in DOMAIN plan.nodes : SameDesign(new.nodes[k], plan.nodes[k])

\* What an install exported, planned by it again, is the design that was exported.
LEMMA DesignReturns ==
  ASSUME NEW i, ext[i] \subseteq Plugin, NEW g, GraphOK(i, g), DesignOK(g), Nameable(g),
         FileOK(PatchOf(g)), HandOK(PatchOf(g)),
         NEW new, Planned(new, PlanPatch(StampIdentities(i, PatchOf(g))))
  PROVE  LET was == InOrder(DOMAIN g.nodes)
         IN /\ DOMAIN new.nodes = DOMAIN was
            /\ (\A k \in DOMAIN was : Rebound(g.nodes[was[k]], new.nodes[k]))
                 => /\ \A k \in DOMAIN was : SameNode(g.nodes[was[k]], new.nodes[k])
                    /\ {Wire(e, e.from, e.to) : e \in new.edges}
                       = {Wire(e, Place(was, e.from), Place(was, e.to)) : e \in g.edges}
<1> DEFINE was == InOrder(DOMAIN g.nodes)
           at(x) == Place(was, x)
           doc == PatchOf(g)
           named(x) == doc.nodes[at(x)].ref
           patch == StampIdentities(i, doc)
           plan == PlanPatch(patch)
           refs == ByRef(patch)
           written(e) == Written(g, was, doc, e)
<1>1. GraphOK(i, g) /\ DesignOK(g) /\ OneEach(g.edges) BY Zenon DEF DesignOK
<1>2. ext[i] \subseteq Plugin OBVIOUS
<1>3. FileOK(doc) /\ HandOK(doc) OBVIOUS
<1>4. PICK n \in Nat :
        /\ DOMAIN doc = {"nodes", "edges"} /\ DOMAIN was = 1..n /\ DOMAIN doc.nodes = 1..n
        /\ \A k \in 1..n : LET m == doc.nodes[k]
                               o == g.nodes[was[k]]
                           IN /\ DOMAIN m = {"ref", "kind", "title", "data"}
                              /\ m.kind = o.kind /\ m.title = o.title
                              /\ m.data = PortableData(o.kind, o.data)
                              /\ m.ref # <<>> /\ was[k] \in DOMAIN g.nodes
        /\ \A k, l \in 1..n : doc.nodes[k].ref = doc.nodes[l].ref => k = l
        /\ \A x \in DOMAIN g.nodes : at(x) \in 1..n /\ was[at(x)] = x
        /\ \A k \in 1..n : at(was[k]) = k
        /\ \A k \in DOMAIN doc.edges : \E e \in g.edges : doc.edges[k] = written(e)
        /\ \A e \in g.edges : \E k \in DOMAIN doc.edges : doc.edges[k] = written(e)
  <2>1. PICK n \in Nat : Writes(g, was, doc, n) BY <1>1, PatchIs, Zenon
  <2> QED BY <2>1, Zenon DEF Writes
<1>5. /\ new.edges = plan.edges /\ DOMAIN new.nodes = DOMAIN plan.nodes
      /\ \A k \in DOMAIN plan.nodes : SameDesign(new.nodes[k], plan.nodes[k])
  BY Zenon DEF Planned
<1> HIDE DEF doc
<1>6. /\ DOMAIN patch.nodes = 1..n /\ patch.edges = doc.edges
      /\ \A k \in 1..n : patch.nodes[k] = Stamp(i, doc.nodes[k])
  <2>1. DOMAIN doc = {"nodes", "edges"} /\ DOMAIN doc.nodes = 1..n BY <1>4
  <2>2. /\ DOMAIN patch.nodes = DOMAIN doc.nodes
        /\ \A k \in DOMAIN doc.nodes : patch.nodes[k] = Stamp(i, doc.nodes[k])
        /\ patch.edges = doc.edges
    BY <2>1, StampedNodes, Zenon
  <2> QED BY <2>1, <2>2, Zenon
<1>7. /\ DOMAIN plan.nodes = Range(refs)
      /\ \A k \in DOMAIN plan.nodes :
           /\ plan.nodes[k].kind = doc.nodes[k].kind
           /\ plan.nodes[k].title = doc.nodes[k].title
           /\ plan.nodes[k].data = MergeData(Stamp(i, doc.nodes[k]), k)
  <2>1. /\ OneEach(plan.edges)
        /\ \A k \in DOMAIN plan.nodes : NormalNode(plan.nodes[k])
        /\ DOMAIN plan.nodes = Range(refs)
        /\ \A k \in DOMAIN plan.nodes :
             /\ k \in DOMAIN doc.nodes
             /\ plan.nodes[k].kind = doc.nodes[k].kind
             /\ plan.nodes[k].title = doc.nodes[k].title
             /\ plan.nodes[k].data = MergeData(Stamp(i, doc.nodes[k]), k)
    BY <1>2, <1>3, PlanDesign, ZenonT(60)
  <2> HIDE DEF plan, refs
  <2> QED BY <2>1
<1>8. /\ \A e \in plan.edges : \E k \in DOMAIN patch.edges :
           LET p == PlanEdge(plan.nodes, refs, k, patch.edges[k])
           IN p.level # "error" /\ e = p.edge
      /\ \A k \in DOMAIN patch.edges :
           LET p == PlanEdge(plan.nodes, refs, k, patch.edges[k])
           IN p.level # "error" => p.edge \in plan.edges
  <2> DEFINE nodes == PlannedNodes(patch, refs)
  <2>1. /\ plan.nodes = nodes
        /\ \A e \in plan.edges : \E k \in DOMAIN patch.edges :
             LET p == PlanEdge(nodes, refs, k, patch.edges[k])
             IN p.level # "error" /\ e = p.edge
        /\ \A k \in DOMAIN patch.edges :
             LET p == PlanEdge(nodes, refs, k, patch.edges[k])
             IN p.level # "error" => p.edge \in plan.edges
    BY PlanIs, Zenon
  <2> HIDE DEF nodes, plan, refs, patch
  <2> QED BY <2>1
<1> HIDE DEF plan, refs, patch, was
<1>9. ASSUME NEW k \in 1..n
      PROVE  /\ patch.nodes[k].ref = doc.nodes[k].ref /\ patch.nodes[k].ref # <<>>
             /\ Known(patch.nodes[k].kind)
             /\ FlowNodeOK(i, g.nodes[was[k]]) /\ NormalNode(g.nodes[was[k]])
  <2> DEFINE m == doc.nodes[k]
             o == g.nodes[was[k]]
             s == Stamp(i, m)
  <2>1. /\ DOMAIN m = {"ref", "kind", "title", "data"} /\ m.kind = o.kind
        /\ m.ref # <<>> /\ was[k] \in DOMAIN g.nodes
    BY <1>4, Zenon
  <2>2. FlowNodeOK(i, o) /\ NormalNode(o) BY <1>1, <2>1, Zenon DEF GraphOK, DesignOK
  <2>3. DataOK(m.kind, m.data) BY <1>3, <1>4, Zenon DEF FileOK
  <2>4. s.ref = m.ref /\ s.kind = m.kind BY <2>1, <2>3, StampLocal, ZenonT(60)
  <2>5. o.kind \in Catalog \cup {"plugin"} BY <2>2, Zenon DEF FlowNodeOK
  <2>6. patch.nodes[k] = s BY <1>6
  <2> HIDE DEF m, o, s
  <2>7. Known(o.kind) BY <2>5 DEF Known
  <2> QED BY <2>1, <2>2, <2>4, <2>6, <2>7 DEF m, o
<1>10. /\ \A k \in 1..n : doc.nodes[k].ref \in DOMAIN refs /\ refs[doc.nodes[k].ref] = k
       /\ Range(refs) = 1..n
  <2>1. \A k \in 1..n : patch.nodes[k].ref = doc.nodes[k].ref BY <1>9
  <2>2. \A k, l \in 1..n : patch.nodes[k].ref = patch.nodes[l].ref => k = l
    BY <1>4, <2>1
  <2>3. \A k \in 1..n : patch.nodes[k].ref # <<>> /\ Known(patch.nodes[k].kind) BY <1>9
  <2>4. /\ \A k \in 1..n : /\ patch.nodes[k].ref \in DOMAIN ByRef(patch)
                           /\ ByRef(patch)[patch.nodes[k].ref] = k
        /\ Range(ByRef(patch)) = 1..n
    BY <1>6, <2>2, <2>3, RefsReturn, ZenonT(60)
  <2> QED BY <2>1, <2>4 DEF refs
<1>11. DOMAIN new.nodes = DOMAIN was BY <1>4, <1>5, <1>7, <1>10
<1>12. ASSUME \A k \in DOMAIN was : Rebound(g.nodes[was[k]], new.nodes[k])
       PROVE  /\ \A k \in DOMAIN was : SameNode(g.nodes[was[k]], new.nodes[k])
              /\ {Wire(e, e.from, e.to) : e \in new.edges}
                 = {Wire(e, at(e.from), at(e.to)) : e \in g.edges}
  <2>1. ASSUME NEW k \in 1..n
        PROVE  /\ SameNode(g.nodes[was[k]], new.nodes[k])
               /\ plan.nodes[k].data.rows = g.nodes[was[k]].data.rows
               /\ plan.nodes[k].kind = g.nodes[was[k]].kind
    <3> DEFINE o == g.nodes[was[k]]
               m == doc.nodes[k]
               a == plan.nodes[k]
               f == new.nodes[k]
    <3>1. FlowNodeOK(i, o) /\ NormalNode(o) BY <1>9
    <3>2. /\ DOMAIN m = {"ref", "kind", "title", "data"} /\ m.kind = o.kind /\ m.title = o.title
          /\ m.data = PortableData(o.kind, o.data)
      BY <1>4, Zenon
    <3>3. k \in DOMAIN plan.nodes BY <1>7, <1>10
    <3>4. a.kind = m.kind /\ a.title = m.title /\ a.data = MergeData(Stamp(i, m), k)
      BY <1>7, <3>3, Zenon
    <3>5. SameDesign(f, a) BY <1>5, <3>3, Zenon
    <3>6. Rebound(o, f) BY <1>4, <1>12
    <3> HIDE DEF o, m, a, f
    <3>7. SameNode(o, f) /\ a.data.rows = o.data.rows /\ a.kind = o.kind
      BY <1>2, <3>1, <3>2, <3>4, <3>5, <3>6, NodeReturns
    <3> QED BY <3>7 DEF o, a, f
  <2> DEFINE ports(e) == PortsOf(g.nodes[e.from].kind, g.nodes[e.from].data)
  <2>2. ASSUME NEW e \in g.edges
        PROVE  /\ e.from \in DOMAIN g.nodes /\ e.to \in DOMAIN g.nodes
               /\ at(e.from) \in 1..n /\ at(e.to) \in 1..n /\ was[at(e.from)] = e.from
               /\ PortsOK(ports(e)) /\ ToldApart(ports(e)) /\ OnPort(ports(e), e)
    <3>1. e.from \in DOMAIN g.nodes /\ e.to \in DOMAIN g.nodes BY <1>1 DEF GraphOK
    <3>2. at(e.from) \in 1..n /\ at(e.to) \in 1..n /\ was[at(e.from)] = e.from BY <1>4, <3>1
    <3>3. RowsOK(g.nodes[e.from].data.rows)
      BY <1>1, <3>1, Zenon DEF DesignOK, NormalNode, Normal
    <3>4. PortsOK(ports(e)) BY <3>3, PortsListed, Zenon
    <3>5. ToldApart(ports(e)) BY <3>1, Zenon DEF Nameable, ToldApart
    <3>6. OnPort(ports(e), e) BY Zenon DEF Nameable, OnPort
    <3> QED BY <3>1, <3>2, <3>4, <3>5, <3>6, Zenon
  <2> DEFINE planned(k, e) ==
               [id |-> k, from |-> at(e.from), to |-> at(e.to), handle |-> e.handle, tags |-> e.tags]
  <2>3. ASSUME NEW e \in g.edges, NEW k, patch.edges[k] = written(e)
        PROVE  LET p == PlanEdge(plan.nodes, refs, k, patch.edges[k])
               IN p.level # "error" /\ p.edge = planned(k, e)
    <3> DEFINE a == named(e.from)
               b == named(e.to)
               src == plan.nodes[at(e.from)]
               o == g.nodes[e.from]
    <3>1. /\ at(e.from) \in 1..n /\ at(e.to) \in 1..n /\ was[at(e.from)] = e.from
          /\ PortsOK(ports(e)) /\ ToldApart(ports(e)) /\ OnPort(ports(e), e)
      BY <2>2, Zenon
    <3>2. /\ a \in DOMAIN refs /\ refs[a] = at(e.from) /\ b \in DOMAIN refs /\ refs[b] = at(e.to)
      BY <1>10, <3>1, Zenon
    <3>3. src.data.rows = o.data.rows /\ src.kind = o.kind BY <2>1, <3>1, Zenon
    <3>4. PortsOf(src.kind, src.data) = ports(e)
      <4> HIDE DEF src, o
      <4>1. PortsOf(src.kind, src.data) = PortsOf(o.kind, o.data) BY <3>3, PortsOfRows, Zenon
      <4> QED BY <4>1 DEF o
    <3>5. PortsOf(plan.nodes[refs[a]].kind, plan.nodes[refs[a]].data) = ports(e)
      BY <3>2, <3>4, Zenon
    <3> DEFINE q == ports(e)
               x == [from |-> a, to |-> b, port |-> PortName(q, e)]
               p == PlanEdge(plan.nodes, refs, k, x)
    <3>6. patch.edges[k] = x BY <2>3, Zenon DEF Written, Said
    <3>7. /\ PortsOK(q) /\ ToldApart(q) /\ OnPort(q, e)
          /\ PortsOf(plan.nodes[refs[a]].kind, plan.nodes[refs[a]].data) = q
      BY <3>1, <3>5
    <3>8. p.level # "error" /\ p.edge = [id |-> k, from |-> refs[a], to |-> refs[b],
                                         handle |-> e.handle, tags |-> e.tags]
      <4>1. a \in DOMAIN refs /\ b \in DOMAIN refs BY <3>2
      <4> HIDE DEF a, b, q
      <4> QED BY <3>7, <4>1, EdgeReturns
    <3> HIDE DEF p, x
    <3> HIDE DEF a, b
    <3>9. p.edge = planned(k, e) BY <3>2, <3>8
    <3> QED BY <3>6, <3>8, <3>9, Zenon DEF p
  <2>4. ASSUME NEW k, NEW e
        PROVE  Wire(planned(k, e), planned(k, e).from, planned(k, e).to)
                 = Wire(e, at(e.from), at(e.to))
    BY DEF Wire
  <2> DEFINE cmp(e) == Wire(e, e.from, e.to)
             old(e) == Wire(e, at(e.from), at(e.to))
  <2>5. \A k, e : cmp(planned(k, e)) = old(e) BY <2>4, Zenon
  <2> HIDE DEF planned, written
  <2>6. ASSUME NEW d \in new.edges PROVE \E e \in g.edges : cmp(d) = old(e)
    <3>1. PICK k \in DOMAIN patch.edges :
            LET p == PlanEdge(plan.nodes, refs, k, patch.edges[k])
            IN p.level # "error" /\ d = p.edge
      BY <1>5, <1>8, Zenon
    <3>2. k \in DOMAIN doc.edges /\ patch.edges[k] = doc.edges[k] BY <1>6
    <3>3. PICK e \in g.edges : doc.edges[k] = written(e) BY <1>4, <3>2, Zenon
    <3>4. patch.edges[k] = written(e) BY <3>2, <3>3
    <3>5. d = planned(k, e) BY <2>3, <3>1, <3>4, Zenon
    <3> QED BY <2>5, <3>5
  <2>7. ASSUME NEW e \in g.edges PROVE \E d \in new.edges : old(e) = cmp(d)
    <3>1. PICK k \in DOMAIN patch.edges : patch.edges[k] = written(e) BY <1>4, <1>6, Zenon
    <3> DEFINE p == PlanEdge(plan.nodes, refs, k, patch.edges[k])
    <3>2. p.level # "error" /\ p.edge = planned(k, e) BY <2>3, <3>1, Zenon
    <3>3. p.edge \in plan.edges BY <1>8, <3>2, Zenon
    <3> HIDE DEF p
    <3>4. planned(k, e) \in new.edges BY <1>5, <3>2, <3>3
    <3> QED BY <2>5, <3>4
  <2> HIDE DEF cmp, old
  <2>8. {cmp(e) : e \in new.edges} = {old(e) : e \in g.edges} BY <2>6, <2>7
  <2>9. \A k \in DOMAIN was : SameNode(g.nodes[was[k]], new.nodes[k]) BY <1>4, <2>1
  <2> QED BY <2>8, <2>9, Zenon DEF cmp, old
<1> QED BY <1>11, <1>12, Zenon DEF was

\* An import of what this install exported.
LEMMA ExportedReturns ==
  ASSUME FlowInv, DesignInv PROVE ReturnsAsExported
<1> SUFFICES ASSUME NEW i \in Install, origin.install = i, Import(i), Nameable(origin)
             PROVE  LET was == InOrder(DOMAIN origin.nodes)
                        new == flows[i]'
                        at(x) == CHOOSE k \in DOMAIN was : was[k] = x
                    IN /\ DOMAIN new.nodes = DOMAIN was
                       /\ (\A k \in DOMAIN was : Rebound(origin.nodes[was[k]], new.nodes[k]))
                            => /\ \A k \in DOMAIN was : SameNode(origin.nodes[was[k]], new.nodes[k])
                               /\ {Wire(e, e.from, e.to) : e \in new.edges}
                                  = {Wire(e, at(e.from), at(e.to)) : e \in origin.edges}
  BY Zenon DEF ReturnsAsExported
<1> DEFINE g == origin
           new == flows'[i]
           plan == PlanPatch(StampIdentities(i, file))
           was == InOrder(DOMAIN g.nodes)
<1>1. GraphOK(i, g) /\ DesignOK(g) /\ file = PatchOf(g) BY DEF DesignInv, Exported
<1>2. ext[i] \subseteq Plugin /\ FileOK(file) /\ HandOK(file) BY DEF FlowInv, DesignInv
<1>3. Planned(new, plan) BY ImportedIs, Zenon DEF Planned
<1>4. Nameable(g) OBVIOUS
<1> HIDE DEF g, new
<1>5. /\ FileOK(PatchOf(g)) /\ HandOK(PatchOf(g))
      /\ Planned(new, PlanPatch(StampIdentities(i, PatchOf(g))))
  BY <1>1, <1>2, <1>3, Zenon
<1>6. /\ DOMAIN new.nodes = DOMAIN was
      /\ (\A k \in DOMAIN was : Rebound(g.nodes[was[k]], new.nodes[k]))
           => /\ \A k \in DOMAIN was : SameNode(g.nodes[was[k]], new.nodes[k])
              /\ {Wire(e, e.from, e.to) : e \in new.edges}
                 = {Wire(e, Place(was, e.from), Place(was, e.to)) : e \in g.edges}
  BY <1>1, <1>2, <1>4, <1>5, DesignReturns, Zenon
<1> QED BY <1>6, Zenon DEF g, new, was, Place

\* DesignSurvives, of whatever graphs: a flow exported by an install and imported
\* there again is the design it was, wherever the file can name its ports and its
\* plugins are bound again.
THEOREM DesignsReturn == FSpec => DesignSurvives
<1>1. FInit => FlowInv BY FlowsInitial
<1>2. FlowInv /\ [FNext]_fvars => FlowInv' BY FlowsStep
<1>3. FInit => DesignInv BY DesignsInitial
<1>4. FlowInv /\ DesignInv /\ [FNext]_fvars => DesignInv' BY DesignsStep
<1>5. FlowInv /\ DesignInv /\ [FNext]_fvars => [ReturnsAsExported]_fvars
  BY ExportedReturns
<1> QED BY <1>1, <1>2, <1>3, <1>4, <1>5, PTL DEF FSpec, DesignSurvives

=============================================================================
