------------------------- MODULE TelegramBridgeProofs -------------------------
(***************************************************************************)
(* The table of human tasks with the bridge and the clients working on it, *)
(* for any tasks, chats and clients.  Base is the inductive invariant of   *)
(* every interleaving: types, the shapes of operations under way, cursors  *)
(* no further than the stream.  Alone is what operations that do not       *)
(* overlap on a task add: the copy an operation holds is the row.  OwedInv *)
(* follows an update from the session it is owed to through the bridge's   *)
(* pass; HandledInv and AskedInv follow one it has handed out and the      *)
(* opening turns it has sent, where nothing fails and nothing is visited   *)
(* again.  OutcomeInv follows a close's outcome from the end of the parked *)
(* run through the document to the run it resumes.  Each is split into flat lemmas per action, which say what the   *)
(* action leaves, and one that the invariant outlives it.                  *)
(***************************************************************************)
EXTENDS TelegramBridge, FiniteSetTheorems, SequenceTheorems, TLAPS

\* What an agent's operation can be: none, or one on a task; a client has no
\* statement of the bridge's and the bridge no task outside Telegram.
HandOk(tg, a, op) ==
  /\ op.pc = "idle" => op = Idle
  /\ op.pc # "idle" => op.task \in Task
  /\ op.pc = "append" => op.todo # <<>>
  /\ a \in Clients => op.then = "end" /\ op.pc \notin {"mark", "save"}
  /\ a \in Bridges => op.task \in tg \cup {Origin}

HandsInv == \A a \in Agents : HandOk(Telegram, a, agents[a])

\* How the place of a pass and the operation the bridge is in go together.
PassOk(tg, rec, op) ==
  /\ rec.pc \notin {"sent", "turn", "ack"} => op.pc = "idle"
  /\ rec.pc = "sent" /\ op.pc # "idle" =>
       /\ op.pc \in {"append", "appending", "mark"}
       /\ op.task = rec.task /\ op.then = "mark"
       /\ op.pc # "mark" => op.todo = <<"told">>
  /\ rec.pc = "turn" => op.pc \notin {"mark", "save"} /\ op.then # "mark"
  /\ rec.pc = "ack" => op.pc \in {"idle", "save"}
  /\ rec.pc \in {"opening", "sent"} => rec.task \in tg
  /\ rec.todo \subseteq tg
  /\ OnList(rec.list) \subseteq tg
  /\ rec.pc = "ack" => rec.todo \subseteq OnList(rec.list)
  /\ rec.pc = "poll" => OnList(rec.list) # {}

PassInv == \A b \in Bridges : PassOk(Telegram, bridge[b], agents[b])

\* No cursor is ahead of the updates there have been.
SeenRec(rec, n) ==
  /\ rec.cursor <= n /\ rec.high <= n
  /\ \A t \in Task : rec.list[t].cursor <= n

CursorsSeen ==
  /\ \A t \in Task : tasks[t].cursor <= Len(stream) /\ svc[t].cursor <= Len(stream)
  /\ \A a \in Agents : agents[a].row.cursor <= Len(stream)
  /\ \A b \in Bridges : SeenRec(bridge[b], Len(stream))
  /\ forgotten <= Len(stream)

VisitsLeft == \A t \in Task : svc[t].busy => visits[t] < setting.visits

LEMMA SettingFacts ==
  ASSUME setting \in Settings
  PROVE  /\ Telegram \subseteq Task /\ Parking \subseteq Task /\ Keyed \subseteq Task
         /\ setting.reached \subseteq Task /\ setting.clients \subseteq Clients
         /\ setting.visits \in 1..MaxVisits /\ MaxVisits \in Nat \ {0}
         /\ setting.restarts \in Nat /\ setting.turns \in Nat
         /\ setting.page \in Nat \ {0} /\ setting.updates \in 0..MaxUpdates
         /\ MaxUpdates \in Nat /\ Origin \notin Task
         /\ Clients \cap Bridges = {}
         /\ ChatOf \in [Task -> Chat]
BY TasksOK, BridgeOK DEF Telegram, Parking, Keyed

LEMMA RowTypes ==
  ASSUME setting \in Settings
  PROVE  /\ NoRow \in Row /\ NoRow.status = "none" /\ NoRow.opened = FALSE
         /\ NoRow.cursor = 0 /\ NoRow.visit = 0
         /\ \A row \in Row :
              /\ row.status \in {"none", "open", "closed"}
              /\ row.visit \in 0..MaxVisits /\ row.thread \in Nat
              /\ row.opened \in BOOLEAN /\ row.cursor \in Nat
         /\ \A row \in Row :
              /\ WithTurn(row) \in Row
              /\ WithTurn(row).status = row.status /\ WithTurn(row).visit = row.visit
              /\ WithTurn(row).opened = row.opened /\ WithTurn(row).cursor = row.cursor
              /\ WithTurn(row).thread = row.thread + 1
         /\ \A row \in Row :
              /\ Closed(row) \in Row
              /\ Closed(row).status = "closed" /\ Closed(row).visit = row.visit
              /\ Closed(row).opened = row.opened /\ Closed(row).cursor = row.cursor
              /\ Closed(row).thread = row.thread
         /\ \A row \in Row, c \in Nat :
              /\ Marked(row, c) \in Row
              /\ Marked(row, c).status = row.status /\ Marked(row, c).visit = row.visit
              /\ Marked(row, c).opened /\ Marked(row, c).cursor = c
              /\ Marked(row, c).thread = row.thread
         /\ \A row \in Row, c \in Nat :
              LET new == [row EXCEPT !.cursor = c]
              IN /\ new \in Row
                 /\ new.status = row.status /\ new.visit = row.visit
                 /\ new.opened = row.opened /\ new.cursor = c
                 /\ new.thread = row.thread
<1>1. 0 \in 0..MaxVisits
  BY SettingFacts
<1>2. NoRow \in Row /\ NoRow.status = "none" /\ NoRow.opened = FALSE
      /\ NoRow.cursor = 0 /\ NoRow.visit = 0
  BY <1>1 DEF Row, NoRow
<1>3. ASSUME NEW row \in Row
      PROVE  /\ row.status \in {"none", "open", "closed"}
             /\ row.visit \in 0..MaxVisits /\ row.thread \in Nat
             /\ row.opened \in BOOLEAN /\ row.cursor \in Nat
  BY DEF Row
<1>4. ASSUME NEW row \in Row
      PROVE  /\ WithTurn(row) \in Row
             /\ WithTurn(row).status = row.status /\ WithTurn(row).visit = row.visit
             /\ WithTurn(row).opened = row.opened /\ WithTurn(row).cursor = row.cursor
             /\ WithTurn(row).thread = row.thread + 1
  BY DEF Row, WithTurn
<1>5. ASSUME NEW row \in Row
      PROVE  /\ Closed(row) \in Row
             /\ Closed(row).status = "closed" /\ Closed(row).visit = row.visit
             /\ Closed(row).opened = row.opened /\ Closed(row).cursor = row.cursor
             /\ Closed(row).thread = row.thread
  BY DEF Row, Closed
<1>6. ASSUME NEW row \in Row, NEW c \in Nat
      PROVE  /\ Marked(row, c) \in Row
             /\ Marked(row, c).status = row.status /\ Marked(row, c).visit = row.visit
             /\ Marked(row, c).opened /\ Marked(row, c).cursor = c
             /\ Marked(row, c).thread = row.thread
  BY DEF Row, Marked
<1>7. ASSUME NEW row \in Row, NEW c \in Nat
      PROVE  LET new == [row EXCEPT !.cursor = c]
             IN /\ new \in Row
                /\ new.status = row.status /\ new.visit = row.visit
                /\ new.opened = row.opened /\ new.cursor = c
                /\ new.thread = row.thread
  BY DEF Row
<1> QED BY <1>2, <1>3, <1>4, <1>5, <1>6, <1>7

LEMMA WithTurnRow ==
  ASSUME NEW row \in Row
  PROVE  /\ WithTurn(row) \in Row
         /\ WithTurn(row).status = row.status /\ WithTurn(row).visit = row.visit
         /\ WithTurn(row).opened = row.opened /\ WithTurn(row).cursor = row.cursor
         /\ WithTurn(row).thread = row.thread + 1
BY DEF Row, WithTurn

LEMMA ClosedRow ==
  ASSUME NEW row \in Row
  PROVE  /\ Closed(row) \in Row
         /\ Closed(row).status = "closed" /\ Closed(row).visit = row.visit
         /\ Closed(row).opened = row.opened /\ Closed(row).cursor = row.cursor
         /\ Closed(row).thread = row.thread
BY DEF Row, Closed

LEMMA MarkedRow ==
  ASSUME NEW row \in Row, NEW c \in Nat
  PROVE  /\ Marked(row, c) \in Row
         /\ Marked(row, c).status = row.status /\ Marked(row, c).visit = row.visit
         /\ Marked(row, c).opened /\ Marked(row, c).cursor = c
         /\ Marked(row, c).thread = row.thread
BY DEF Row, Marked

LEMMA CursorRow ==
  ASSUME NEW row \in Row, NEW c \in Nat
  PROVE  LET new == [row EXCEPT !.cursor = c]
         IN /\ new \in Row
            /\ new.status = row.status /\ new.visit = row.visit
            /\ new.opened = row.opened /\ new.cursor = c
            /\ new.thread = row.thread
BY DEF Row

LEMMA IdleType ==
  ASSUME setting \in Settings
  PROVE  /\ Idle \in Op /\ Idle.pc = "idle" /\ Idle.task = Origin
         /\ Idle.then = "end" /\ Idle.row = NoRow /\ Idle.before = "none"
         /\ Idle.todo = <<>>
BY SettingFacts, RowTypes DEF Idle, Op, Turns

LEMMA OpParts ==
  ASSUME NEW op \in Op
  PROVE  /\ op.pc \in {"idle", "append", "appending", "close", "closing", "bind",
                       "binding", "resume", "mark", "save"}
         /\ op.task \in Task \cup {Origin} /\ op.todo \in Turns
         /\ op.then \in {"end", "close", "mark"} /\ op.row \in Row
         /\ op.before \in {"none", "open", "closed"} /\ op.doc \in [Task -> Nat]
BY DEF Op

LEMMA TurnTypes ==
  /\ <<>> \in Turns /\ <<"told">> \in Turns /\ <<"reply">> \in Turns
  /\ <<"told", "reply">> \in Turns
  /\ <<"told">> # <<>> /\ <<"reply">> # <<>> /\ <<"told", "reply">> # <<>>
  /\ \A s \in Turns : Len(s) > 1 => Tail(s) \in Turns /\ Tail(s) # <<>> /\ s # <<"told">>
  /\ Head(<<"told">>) # "reply" /\ Len(<<"told">>) = 1
BY DEF Turns

Base == /\ setting \in Settings
        /\ TypeOK
        /\ HandsInv
        /\ PassInv
        /\ CursorsSeen
        /\ VisitsLeft

LEMMA UpsertFlat ==
  ASSUME HTypeOK, NEW t \in Task, NEW row \in Row, Upsert(t, row)
  PROVE  /\ tasks' \in [Task -> Row] /\ order' \in SUBSET (Task \X Task)
         /\ tasks'[t] = row
         /\ \A s \in Task \ {t} : tasks'[s] = tasks[s]
BY DEF HTypeOK, Upsert

LEMMA AgentFlat ==
  ASSUME HTypeOK, NEW a \in Agents, NEW op \in Op, SetAgent(a, op)
  PROVE  /\ agents' \in [Agents -> Op]
         /\ agents'[a] = op
         /\ \A c \in Agents \ {a} : agents'[c] = agents[c]
BY DEF HTypeOK, SetAgent

\* An agent's step that writes no row.
MovesOn(a) == \/ TurnFails(a) \/ AppendRead(a) \/ CloseRead(a) \/ BindRead(a)
              \/ BindFails(a) \/ BindWrite(a) \/ Resume(a)

LEMMA MoveFlat ==
  ASSUME setting \in Settings, HTypeOK, HandsInv, NEW a \in Agents, MovesOn(a)
  PROVE  /\ UNCHANGED <<tasks, order, svc, restarts, visits, said>>
         /\ agents[a].pc \in {"append", "close", "bind", "binding", "resume"}
         /\ agents[a].task \in Task
         /\ agents' \in [Agents -> Op]
         /\ \A c \in Agents \ {a} : agents'[c] = agents[c]
         /\ \/ /\ agents'[a] = Idle
               /\ agents[a].pc \in {"append", "close"} /\ agents[a].todo = <<"told">>
                    => ~Exists(agents[a].task)
            \/ /\ agents'[a].task = agents[a].task /\ agents'[a].then = agents[a].then
               /\ agents'[a].before = agents[a].before /\ agents'[a].todo = agents[a].todo
               /\ \/ /\ agents[a].pc = "append" /\ agents'[a].pc = "appending"
                     /\ Exists(agents[a].task)
                     /\ agents'[a].row = WithTurn(tasks[agents[a].task])
                  \/ /\ agents[a].pc = "close" /\ agents'[a].pc = "closing"
                     /\ Exists(agents[a].task)
                     /\ agents'[a].row = Closed(tasks[agents[a].task])
                  \/ /\ agents[a].pc \in {"bind", "binding"}
                     /\ agents'[a].pc \in {"binding", "resume"}
                     /\ agents'[a].row = agents[a].row
<1> DEFINE t == agents[a].task
           op == agents[a]
<1>1. /\ op \in Op /\ tasks \in [Task -> Row] /\ doc \in [Task -> Nat]
      /\ op.pc # "idle" => t \in Task
  BY DEF HTypeOK, HandsInv, HandOk
<1>2. CASE TurnFails(a)
  <2>1. SetAgent(a, Idle) /\ Head(op.todo) = "reply" /\ op.pc = "append"
        /\ UNCHANGED <<tasks, order, svc, restarts, visits, said>>
    BY <1>2 DEF TurnFails, told, UnchangedTable
  <2>2. op.todo # <<"told">>
    BY <2>1, TurnTypes
  <2> QED BY <2>1, <2>2, <1>1, AgentFlat, IdleType
<1>3. CASE AppendRead(a)
  <2>1. op.pc = "append" /\ UNCHANGED <<tasks, order, svc, restarts, visits, said>>
    BY <1>3 DEF AppendRead, told, UnchangedTable
  <2>2. CASE Exists(t)
    <3> DEFINE new == [op EXCEPT !.pc = "appending", !.row = WithTurn(tasks[t])]
    <3>1. SetAgent(a, new)
      BY <1>3, <2>2 DEF AppendRead
    <3>2. WithTurn(tasks[t]) \in Row
      BY <1>1, <2>1, RowTypes
    <3>3. /\ new \in Op /\ new.pc = "appending" /\ new.task = t
          /\ new.todo = op.todo /\ new.then = op.then /\ new.row = WithTurn(tasks[t])
          /\ new.before = op.before
      BY <1>1, <3>2 DEF Op
    <3> HIDE DEF new
    <3> QED BY <2>1, <2>2, <3>1, <3>3, <1>1, AgentFlat
  <2>3. CASE ~Exists(t)
    BY <1>3, <2>1, <2>3, <1>1, AgentFlat, IdleType DEF AppendRead
  <2> QED BY <2>2, <2>3
<1>4. CASE CloseRead(a)
  <2>1. op.pc = "close" /\ UNCHANGED <<tasks, order, svc, restarts, visits, said>>
    BY <1>4 DEF CloseRead, told, UnchangedTable
  <2>2. CASE Exists(t)
    <3> DEFINE new == [op EXCEPT !.pc = "closing", !.row = Closed(tasks[t])]
    <3>1. SetAgent(a, new)
      BY <1>4, <2>2 DEF CloseRead
    <3>2. Closed(tasks[t]) \in Row
      BY <1>1, <2>1, RowTypes
    <3>3. /\ new \in Op /\ new.pc = "closing" /\ new.task = t
          /\ new.todo = op.todo /\ new.then = op.then /\ new.row = Closed(tasks[t])
          /\ new.before = op.before
      BY <1>1, <3>2 DEF Op
    <3> HIDE DEF new
    <3> QED BY <2>1, <2>2, <3>1, <3>3, <1>1, AgentFlat
  <2>3. CASE ~Exists(t)
    BY <1>4, <2>1, <2>3, <1>1, AgentFlat, IdleType DEF CloseRead
  <2> QED BY <2>2, <2>3
<1>5. CASE BindRead(a)
  <2> DEFINE new == [op EXCEPT !.pc = "binding", !.doc = doc]
  <2>1. op.pc = "bind" /\ UNCHANGED <<tasks, order, svc, restarts, visits, said>>
        /\ SetAgent(a, new)
    BY <1>5 DEF BindRead, told, UnchangedTable
  <2>2. /\ new \in Op /\ new.pc = "binding" /\ new.task = t
        /\ new.todo = op.todo /\ new.then = op.then /\ new.row = op.row
        /\ new.before = op.before
    BY <1>1 DEF Op
  <2> HIDE DEF new
  <2> QED BY <2>1, <2>2, <1>1, AgentFlat
<1>6. CASE BindFails(a) \/ BindWrite(a)
  <2> DEFINE new == [op EXCEPT !.pc = "resume"]
  <2>1. /\ op.pc \in {"bind", "binding"}
        /\ UNCHANGED <<tasks, order, svc, restarts, visits, said>>
        /\ SetAgent(a, Idle) \/ SetAgent(a, new)
    BY <1>6 DEF BindFails, BindWrite, told, UnchangedTable
  <2>2. /\ new \in Op /\ new.pc = "resume" /\ new.task = t
        /\ new.todo = op.todo /\ new.then = op.then /\ new.row = op.row
        /\ new.before = op.before
    BY <1>1 DEF Op
  <2> HIDE DEF new
  <2> QED BY <2>1, <2>2, <1>1, AgentFlat, IdleType
<1>7. CASE Resume(a)
  <2>1. /\ op.pc = "resume" /\ SetAgent(a, Idle)
        /\ UNCHANGED <<tasks, order, svc, restarts, visits, said>>
    BY <1>7 DEF Resume, told, UnchangedTable
  <2> QED BY <2>1, <1>1, AgentFlat, IdleType
<1> QED BY <1>2, <1>3, <1>4, <1>5, <1>6, <1>7 DEF MovesOn

\* What the moves leave in the other variables.
LEMMA MoveTypes ==
  ASSUME setting \in Settings, HTypeOK, NEW a \in Agents, MovesOn(a), agents[a].task \in Task
  PROVE  /\ doc' \in [Task -> Nat]
         /\ runs' \in [Task \cup {Origin} -> Run]
         /\ resumes' \in [Task -> [1..MaxVisits -> Nat]]
         /\ settled' \in [Task -> SUBSET (0..MaxVisits)]
<1> DEFINE t == agents[a].task
           v == agents[a].row.visit
<1>1. v \in 0..MaxVisits /\ v \in Nat
  <2>1. agents[a].row \in Row
    BY OpParts DEF HTypeOK
  <2>2. v \in 0..MaxVisits
    BY <2>1 DEF Row
  <2>3. MaxVisits \in Nat
    BY SettingFacts
  <2> HIDE DEF v
  <2> QED BY <2>2, <2>3
<1>2. Settle(a, agents[a]) => settled' \in [Task -> SUBSET (0..MaxVisits)]
  <2>1. Settle(a, agents[a]) => UNCHANGED settled \/ settled' = [settled EXCEPT ![t] = @ \cup {v}]
    BY DEF Settle
  <2>2. t \in Task /\ settled \in [Task -> SUBSET (0..MaxVisits)]
    BY DEF HTypeOK
  <2> HIDE DEF t, v
  <2> QED BY <1>1, <2>1, <2>2
<1>3. CASE TurnFails(a) \/ AppendRead(a) \/ CloseRead(a) \/ BindRead(a)
  BY <1>3 DEF TurnFails, AppendRead, CloseRead, BindRead, told, HTypeOK
<1>4. CASE BindFails(a)
  BY <1>2, <1>4 DEF BindFails, HTypeOK
<1>5. CASE BindWrite(a)
  <2>1. doc' = [agents[a].doc EXCEPT ![t] = v] /\ UNCHANGED <<runs, resumes, settled>>
    BY <1>5 DEF BindWrite, told
  <2>2. agents[a].doc \in [Task -> Nat]
    BY OpParts DEF HTypeOK
  <2> QED BY <2>1, <2>2, <1>1 DEF HTypeOK
<1>6. CASE Resume(a)
  <2>1. Settle(a, agents[a]) /\ UNCHANGED doc
    BY <1>6 DEF Resume
  <2>2. \/ UNCHANGED <<runs, resumes>>
        \/ /\ runs' = [runs EXCEPT ![t] = [NoRun EXCEPT !.state = "launched", !.visit = v]]
           /\ resumes' = [resumes EXCEPT ![t][v] = @ + 1]
    BY <1>6 DEF Resume
  <2>3. [NoRun EXCEPT !.state = "launched", !.visit = v] \in Run
    BY <1>1 DEF NoRun, Run
  <2>4. runs' \in [Task \cup {Origin} -> Run]
    BY <2>2, <2>3 DEF HTypeOK
  <2>5. resumes' \in [Task -> [1..MaxVisits -> Nat]]
    <3>1. UNCHANGED resumes \/ resumes' = [resumes EXCEPT ![t][v] = @ + 1]
      BY <2>2
    <3>2. t \in Task /\ resumes \in [Task -> [1..MaxVisits -> Nat]]
      BY DEF HTypeOK
    <3> HIDE DEF t, v
    <3> DEFINE new == [resumes[t] EXCEPT ![v] = @ + 1]
    <3>3. new \in [1..MaxVisits -> Nat]
      <4>1. resumes[t] \in [1..MaxVisits -> Nat]
        BY <3>2
      <4>2. new = [x \in 1..MaxVisits |-> IF x = v THEN resumes[t][x] + 1
                                                    ELSE resumes[t][x]]
        BY <4>1
      <4>3. \A x \in 1..MaxVisits : resumes[t][x] \in Nat
        BY <4>1
      <4> HIDE DEF new
      <4> QED BY <4>2, <4>3
    <3>4. UNCHANGED resumes \/ resumes' = [resumes EXCEPT ![t] = new]
      BY <3>1
    <3> HIDE DEF new
    <3> QED BY <3>2, <3>3, <3>4
  <2> QED BY <1>2, <2>1, <2>4, <2>5 DEF HTypeOK
<1> QED BY <1>3, <1>4, <1>5, <1>6 DEF MovesOn

\* The resumes a step adds.
LEMMA ResumesFlat ==
  ASSUME HTypeOK, NEW a \in Agents, MovesOn(a)
  PROVE  \/ UNCHANGED resumes
         \/ /\ agents[a].pc = "resume" /\ agents[a].task \in Parking
            /\ \A s \in Task, w \in 1..MaxVisits :
                 resumes'[s][w] = IF s = agents[a].task /\ w = agents[a].row.visit
                                    THEN resumes[s][w] + 1 ELSE resumes[s][w]
<1>1. CASE Resume(a)
  <2> DEFINE t == agents[a].task
             v == agents[a].row.visit
  <2>1. agents[a].pc = "resume" /\
        \/ UNCHANGED resumes
        \/ t \in Parking /\ resumes' = [resumes EXCEPT ![t][v] = @ + 1]
    BY <1>1 DEF Resume, ResumesRun
  <2> HIDE DEF t, v
  <2>2. ASSUME resumes' = [resumes EXCEPT ![t][v] = @ + 1]
        PROVE  \A s \in Task, w \in 1..MaxVisits :
                 resumes'[s][w] = IF s = t /\ w = v THEN resumes[s][w] + 1
                                                    ELSE resumes[s][w]
    BY <2>2 DEF HTypeOK
  <2> USE DEF t, v
  <2> QED BY <2>1, <2>2
<1>2. CASE TurnFails(a) \/ AppendRead(a) \/ CloseRead(a) \/ BindRead(a)
  BY <1>2 DEF TurnFails, AppendRead, CloseRead, BindRead, told
<1>3. CASE BindFails(a) \/ BindWrite(a)
  BY <1>3 DEF BindFails, BindWrite, told
<1> QED BY <1>1, <1>2, <1>3 DEF MovesOn

\* An agent's step of HumanTasks that writes the row it holds.
WritesRow(a) == AppendWrite(a) \/ CloseWrite(a)

LEMMA WriteFlat ==
  ASSUME setting \in Settings, HTypeOK, HandsInv, NEW a \in Agents, WritesRow(a)
  PROVE  /\ UNCHANGED <<svc, doc, runs, restarts, visits, resumes, settled>>
         /\ agents[a].pc \in {"appending", "closing"}
         /\ agents[a].task \in Task /\ agents[a].row \in Row
         /\ Upsert(agents[a].task, agents[a].row)
         /\ agents' \in [Agents -> Op]
         /\ \A c \in Agents \ {a} : agents'[c] = agents[c]
         /\ said' \in [Task -> Nat]
         /\ \/ UNCHANGED said
            \/ /\ agents[a].pc = "appending"
               /\ agents[a].row.visit = visits[agents[a].task]
               /\ said' = [said EXCEPT ![agents[a].task] = @ + 1]
         /\ \/ agents'[a] = Idle /\ agents[a].then # "mark"
            \/ agents'[a] = Idle /\ agents[a].pc = "closing"
            \/ /\ agents'[a].task = agents[a].task /\ agents'[a].then = agents[a].then
               /\ agents'[a].before = agents[a].before /\ agents'[a].row = agents[a].row
               /\ \/ /\ agents[a].pc = "appending"
                     /\ \/ agents'[a].pc = "append" /\ agents'[a].todo # <<>>
                           /\ agents[a].todo # <<"told">>
                        \/ agents'[a].pc = agents[a].then
                           /\ agents[a].then \in {"close", "mark"}
                  \/ /\ agents[a].pc = "closing"
                     /\ agents'[a].pc \in {"bind", "resume"}
                     /\ agents[a].before # "closed"
<1> DEFINE t == agents[a].task
           op == agents[a]
<1>1. /\ op \in Op /\ op.row \in Row /\ op.todo \in Turns
      /\ op.then \in {"end", "close", "mark"}
      /\ op.pc # "idle" => t \in Task
  BY OpParts DEF HTypeOK, HandsInv, HandOk
<1>2. CASE AppendWrite(a)
  <2>1. /\ op.pc = "appending" /\ Upsert(t, op.row)
        /\ said' = IF op.row.visit = visits[t] THEN [said EXCEPT ![t] = @ + 1] ELSE said
        /\ SetAgent(a, AfterTurn(op))
        /\ UNCHANGED <<svc, doc, runs, restarts, visits, resumes, settled>>
    BY <1>2 DEF AppendWrite
  <2>2. said' \in [Task -> Nat]
    <3>1. UNCHANGED said \/ said' = [said EXCEPT ![t] = @ + 1]
      BY <2>1
    <3>2. t \in Task /\ said \in [Task -> Nat]
      BY <1>1, <2>1 DEF HTypeOK
    <3> HIDE DEF t
    <3> QED BY <3>1, <3>2
  <2>3. CASE Len(op.todo) > 1
    <3> DEFINE new == [op EXCEPT !.pc = "append", !.todo = Tail(@)]
    <3>1. AfterTurn(op) = new
      BY <2>3 DEF AfterTurn
    <3>2. Tail(op.todo) \in Turns /\ Tail(op.todo) # <<>> /\ op.todo # <<"told">>
      BY <1>1, <2>3, TurnTypes
    <3>3. /\ new \in Op /\ new.pc = "append" /\ new.task = t
          /\ new.todo = Tail(op.todo) /\ new.then = op.then /\ new.row = op.row
          /\ new.before = op.before
      BY <1>1, <3>2 DEF Op
    <3> HIDE DEF new
    <3> QED BY <1>1, <2>1, <2>2, <3>1, <3>2, <3>3, AgentFlat
  <2>4. CASE ~(Len(op.todo) > 1) /\ op.then = "end"
    <3>1. AfterTurn(op) = Idle
      BY <2>4 DEF AfterTurn
    <3> QED BY <1>1, <2>1, <2>2, <2>4, <3>1, AgentFlat, IdleType
  <2>5. CASE ~(Len(op.todo) > 1) /\ op.then # "end"
    <3> DEFINE new == [op EXCEPT !.pc = op.then, !.todo = <<>>]
    <3>1. AfterTurn(op) = new
      BY <2>5 DEF AfterTurn
    <3>2. /\ new \in Op /\ new.pc = op.then /\ new.task = t
          /\ new.then = op.then /\ new.row = op.row /\ new.before = op.before
      BY <1>1, <2>5, TurnTypes DEF Op
    <3> HIDE DEF new
    <3> QED BY <1>1, <2>1, <2>2, <2>5, <3>1, <3>2, AgentFlat
  <2> QED BY <2>3, <2>4, <2>5
<1>3. CASE CloseWrite(a)
  <2>1. /\ op.pc = "closing" /\ Upsert(t, op.row)
        /\ UNCHANGED <<svc, doc, runs, restarts, visits, said, resumes, settled>>
    BY <1>3 DEF CloseWrite, told
  <2>2. said' \in [Task -> Nat]
    BY <2>1 DEF HTypeOK
  <2>3. CASE op.before = "closed"
    BY <1>1, <1>3, <2>1, <2>2, <2>3, AgentFlat, IdleType DEF CloseWrite, AlreadyClosed
  <2>4. CASE op.before # "closed"
    <3> DEFINE new == [op EXCEPT !.pc = AfterClose(op)]
    <3>1. SetAgent(a, new)
      BY <1>3, <2>4 DEF CloseWrite, AlreadyClosed
    <3>2. AfterClose(op) \in {"bind", "resume"}
      BY DEF AfterClose
    <3>3. /\ new \in Op /\ new.pc \in {"bind", "resume"} /\ new.task = t
          /\ new.then = op.then /\ new.row = op.row /\ new.before = op.before
      BY <1>1, <3>2 DEF Op
    <3> HIDE DEF new
    <3> QED BY <1>1, <2>1, <2>2, <2>4, <3>1, <3>3, AgentFlat
  <2> QED BY <2>3, <2>4
<1> QED BY <1>2, <1>3 DEF WritesRow

\* A client's operation begins; a deletion is over as it begins.
BeginsOn(a, t) ==
  BeginClose(a, t) \/ BeginMessage(a, t) \/ BeginChat(a, t) \/ BeginStart(a, t)

LEMMA BeginFlat ==
  ASSUME setting \in Settings, HTypeOK, NEW a \in Agents, NEW t \in Task, BeginsOn(a, t)
  PROVE  /\ UNCHANGED <<tasks, order, svc, doc, runs, restarts, told>>
         /\ agents[a].pc = "idle" /\ MayBegin(t)
         /\ agents' \in [Agents -> Op]
         /\ \A c \in Agents \ {a} : agents'[c] = agents[c]
         /\ agents'[a].task = t /\ agents'[a].then = "end" /\ agents'[a].row = NoRow
         /\ \/ agents'[a].pc = "append" /\ agents'[a].todo # <<>>
            \/ agents'[a].pc = "close" /\ agents'[a].before = tasks[t].status /\ Exists(t)
<1>1. CASE BeginClose(a, t)
  <2> DEFINE new == [Idle EXCEPT !.pc = "close", !.task = t, !.before = tasks[t].status]
  <2>1. /\ new \in Op /\ new.task = t /\ new.then = "end" /\ new.row = NoRow
        /\ new.pc = "close" /\ new.before = tasks[t].status
    <3>1. tasks[t].status \in {"none", "open", "closed"}
      BY RowTypes DEF HTypeOK
    <3> QED BY <3>1, IdleType DEF Op
  <2>2. Begins(a, new) /\ Exists(t)
    BY <1>1 DEF BeginClose
  <2> HIDE DEF new
  <2> QED BY <2>1, <2>2, AgentFlat DEF Begins, UnchangedTable
<1>2. ASSUME NEW todo \in Turns, todo # <<>>,
             Begins(a, [Idle EXCEPT !.pc = "append", !.task = t, !.todo = todo])
      PROVE  /\ UNCHANGED <<tasks, order, svc, doc, runs, restarts, told>>
             /\ agents[a].pc = "idle" /\ MayBegin(t)
             /\ agents' \in [Agents -> Op]
             /\ \A c \in Agents \ {a} : agents'[c] = agents[c]
             /\ agents'[a].task = t /\ agents'[a].then = "end" /\ agents'[a].row = NoRow
             /\ agents'[a].pc = "append" /\ agents'[a].todo # <<>>
  <2> DEFINE new == [Idle EXCEPT !.pc = "append", !.task = t, !.todo = todo]
  <2>1. /\ new \in Op /\ new.task = t /\ new.then = "end" /\ new.row = NoRow
        /\ new.pc = "append" /\ new.todo # <<>>
    BY <1>2, IdleType DEF Op
  <2>2. Begins(a, new)
    BY <1>2
  <2> HIDE DEF new
  <2> QED BY <2>1, <2>2, AgentFlat DEF Begins, UnchangedTable
<1>3. CASE BeginMessage(a, t)
  <2>1. Begins(a, [Idle EXCEPT !.pc = "append", !.task = t, !.todo = <<"told">>])
    BY <1>3 DEF BeginMessage
  <2> QED BY <2>1, <1>2, TurnTypes
<1>4. CASE BeginChat(a, t)
  <2>1. Begins(a, [Idle EXCEPT !.pc = "append", !.task = t, !.todo = <<"told", "reply">>])
    BY <1>4 DEF BeginChat
  <2> QED BY <2>1, <1>2, TurnTypes
<1>5. CASE BeginStart(a, t)
  <2>1. Begins(a, [Idle EXCEPT !.pc = "append", !.task = t, !.todo = <<"reply">>])
    BY <1>5 DEF BeginStart
  <2> QED BY <2>1, <1>2, TurnTypes
<1> QED BY <1>1, <1>3, <1>4, <1>5 DEF BeginsOn

LEMMA DeleteFlat ==
  ASSUME setting \in Settings, HTypeOK, NEW a \in Agents, NEW t \in Task, DeleteTask(a, t)
  PROVE  /\ UNCHANGED <<order, svc, agents, doc, runs, restarts, told>>
         /\ agents[a].pc = "idle" /\ MayBegin(t)
         /\ tasks' \in [Task -> Row]
         /\ tasks'[t] = NoRow
         /\ \A s \in Task \ {t} : tasks'[s] = tasks[s]
BY RowTypes DEF DeleteTask, HTypeOK

LEMMA SvcReadFlat ==
  ASSUME HTypeOK, NEW t \in Task, SvcRead(t)
  PROVE  /\ UNCHANGED <<tasks, order, agents, doc, runs, restarts, told>>
         /\ ~svc[t].busy /\ visits[t] < setting.visits /\ MayBegin(t)
         /\ svc' \in [Task -> Svc]
         /\ \A s \in Task \ {t} : svc'[s] = svc[s]
         /\ svc'[t].busy
         /\ t \in Telegram => /\ svc'[t].opened = tasks[t].opened
                              /\ svc'[t].cursor = tasks[t].cursor
         /\ t \notin Telegram => svc'[t].cursor = 0 /\ ~svc'[t].opened
<1> DEFINE new == IF t \in Telegram
                    THEN [busy |-> TRUE, opened |-> tasks[t].opened,
                          cursor |-> tasks[t].cursor]
                    ELSE [NoSvc EXCEPT !.busy = TRUE]
<1>1. /\ UNCHANGED <<tasks, order, agents, doc, runs, restarts, told>>
      /\ ~svc[t].busy /\ visits[t] < setting.visits /\ MayBegin(t)
      /\ svc' = [svc EXCEPT ![t] = new]
  BY DEF SvcRead, UnchangedTable
<1>2. tasks[t].opened \in BOOLEAN /\ tasks[t].cursor \in Nat
  BY DEF HTypeOK, Row
<1>3. /\ new \in Svc /\ new.busy
      /\ t \in Telegram => new.opened = tasks[t].opened /\ new.cursor = tasks[t].cursor
      /\ t \notin Telegram => new.cursor = 0 /\ ~new.opened
  BY <1>2 DEF Svc, NoSvc
<1> HIDE DEF new
<1>4. svc \in [Task -> Svc]
  BY DEF HTypeOK
<1> QED BY <1>1, <1>3, <1>4

LEMMA SvcWriteFlat ==
  ASSUME setting \in Settings, HTypeOK, VisitsLeft, NEW t \in Task, SvcWrite(t)
  PROVE  /\ UNCHANGED <<agents, doc, runs, restarts, resumes, settled>>
         /\ svc[t].busy /\ visits[t] < setting.visits
         /\ FreshRow(t) \in Row /\ FreshRow(t).status = "open" /\ FreshRow(t).thread = 0
         /\ FreshRow(t).visit = visits[t] + 1
         /\ FreshRow(t).opened = svc[t].opened /\ FreshRow(t).cursor = svc[t].cursor
         /\ Upsert(t, FreshRow(t))
         /\ svc' \in [Task -> Svc] /\ ~svc'[t].busy /\ svc'[t].cursor = 0
         /\ \A s \in Task \ {t} : svc'[s] = svc[s]
         /\ visits' \in [Task -> 0..MaxVisits] /\ visits'[t] = visits[t] + 1
         /\ \A s \in Task \ {t} : visits'[s] = visits[s]
         /\ said' \in [Task -> Nat] /\ said'[t] = 0
         /\ \A s \in Task \ {t} : said'[s] = said[s]
<1>1. /\ UNCHANGED <<agents, doc, runs, restarts, resumes, settled>>
      /\ svc[t].busy /\ Upsert(t, FreshRow(t))
      /\ svc' = [svc EXCEPT ![t] = NoSvc]
      /\ visits' = [visits EXCEPT ![t] = @ + 1]
      /\ said' = [said EXCEPT ![t] = 0]
  BY DEF SvcWrite
<1>2. /\ svc \in [Task -> Svc] /\ visits \in [Task -> 0..MaxVisits] /\ said \in [Task -> Nat]
      /\ svc[t].opened \in BOOLEAN /\ svc[t].cursor \in Nat
  BY DEF HTypeOK, Svc
<1>3. visits[t] < setting.visits
  BY <1>1 DEF VisitsLeft
<1>4. visits[t] + 1 \in 0..MaxVisits
  BY <1>2, <1>3, SettingFacts
<1>5. /\ FreshRow(t) \in Row /\ FreshRow(t).status = "open" /\ FreshRow(t).thread = 0
      /\ FreshRow(t).visit = visits[t] + 1
      /\ FreshRow(t).opened = svc[t].opened /\ FreshRow(t).cursor = svc[t].cursor
  BY <1>2, <1>4 DEF FreshRow, Row
<1>6. svc' \in [Task -> Svc] /\ ~svc'[t].busy /\ svc'[t].cursor = 0
      /\ \A s \in Task \ {t} : svc'[s] = svc[s]
  BY <1>1, <1>2 DEF Svc, NoSvc
<1>7. visits' \in [Task -> 0..MaxVisits] /\ visits'[t] = visits[t] + 1
      /\ \A s \in Task \ {t} : visits'[s] = visits[s]
  BY <1>1, <1>2, <1>4
<1>8. said' \in [Task -> Nat] /\ said'[t] = 0 /\ \A s \in Task \ {t} : said'[s] = said[s]
  BY <1>1, <1>2
<1> QED BY <1>1, <1>3, <1>5, <1>6, <1>7, <1>8

LEMMA RunFlat ==
  ASSUME HTypeOK, NEW r \in Task \cup {Origin}, RunPushes(r) \/ RunLoads(r)
  PROVE  /\ UNCHANGED <<tasks, order, svc, agents, restarts, told>>
         /\ doc' \in [Task -> Nat]
         /\ runs' \in [Task \cup {Origin} -> Run]
<1>1. /\ runs \in [Task \cup {Origin} -> Run] /\ doc \in [Task -> Nat]
      /\ runs[r].doc \in [Task -> Nat]
  BY DEF HTypeOK, Run
<1>2. CASE RunPushes(r)
  <2>1. [runs[r] EXCEPT !.state = "ended"] \in Run
    BY <1>1 DEF Run
  <2>2. UNCHANGED runs \/ runs' = [runs EXCEPT ![r] = [runs[r] EXCEPT !.state = "ended"]]
    BY <1>2, <1>1 DEF RunPushes
  <2>3. runs' \in [Task \cup {Origin} -> Run]
    BY <2>1, <2>2, <1>1
  <2> QED BY <1>1, <1>2, <2>3 DEF RunPushes, UnchangedTable
<1>3. CASE RunLoads(r)
  <2>1. [runs[r] EXCEPT !.state = "live", !.doc = doc] \in Run
    BY <1>1 DEF Run
  <2>2. runs' = [runs EXCEPT ![r] = [runs[r] EXCEPT !.state = "live", !.doc = doc]]
    BY <1>3 DEF RunLoads
  <2>3. runs' \in [Task \cup {Origin} -> Run]
    BY <2>1, <2>2, <1>1
  <2> QED BY <1>1, <1>3, <2>3 DEF RunLoads, UnchangedTable
<1> QED BY <1>2, <1>3

LEMMA RestartFlat ==
  ASSUME setting \in Settings, HTypeOK, HRestart
  PROVE  /\ UNCHANGED <<tasks, order, doc, runs, told>>
         /\ restarts' \in 0..setting.restarts /\ setting.restarts # 0
         /\ svc' \in [Task -> Svc]
         /\ \A t \in Task : ~svc'[t].busy /\ svc'[t].cursor = 0
         /\ agents' \in [Agents -> Op]
         /\ \A a \in Agents : agents'[a] = Idle
<1>1. setting.restarts \in Nat
  BY SettingFacts
<1>2. /\ UNCHANGED <<tasks, order, doc, runs, told>>
      /\ restarts < setting.restarts /\ restarts' = restarts + 1
      /\ svc' = [t \in Task |-> NoSvc] /\ agents' = [a \in Agents |-> Idle]
      /\ restarts \in 0..setting.restarts
  BY DEF HRestart, HTypeOK, UnchangedTable
<1>3. restarts' \in 0..setting.restarts /\ setting.restarts # 0
  BY <1>1, <1>2
<1>4. NoSvc \in Svc /\ ~NoSvc.busy /\ NoSvc.cursor = 0
  BY DEF NoSvc, Svc
<1> QED BY <1>2, <1>3, <1>4, IdleType

-----------------------------------------------------------------------------
LEMMA BridgeFlat ==
  ASSUME TypeOK, NEW b \in Bridges, NEW rec \in Bridge, SetBridge(b, rec)
  PROVE  /\ bridge' \in [Bridges -> Bridge]
         /\ bridge'[b] = rec
         /\ \A c \in Bridges \ {b} : bridge'[c] = bridge[c]
BY DEF TypeOK, SetBridge

LEMMA RecParts ==
  ASSUME NEW rec \in Bridge
  PROVE  /\ rec.pc \in {"idle", "open", "opening", "sent", "poll", "page", "turn", "ack"}
         /\ rec.list \in [Task -> Row] /\ rec.ranks \in SUBSET (Task \X Task)
         /\ rec.todo \in SUBSET Task /\ rec.page \in Seq(1..MaxUpdates)
         /\ rec.high \in Nat /\ rec.task \in Task \cup {Origin} /\ rec.cursor \in Nat
BY DEF Bridge

LEMMA ListFacts ==
  ASSUME setting \in Settings, TypeOK
  PROVE  /\ NoList \in [Task -> Row] /\ OnList(NoList) = {}
         /\ \A t \in Task : NoList[t].cursor = 0
         /\ Listed \in [Task -> Row] /\ OnList(Listed) = Live /\ Live \subseteq Telegram
         /\ \A t \in Live : Listed[t] = tasks[t]
         /\ \A t \in Task \ Live : Listed[t] = NoRow
<1>1. NoRow \in Row /\ NoRow.status = "none" /\ NoRow.cursor = 0
  BY RowTypes
<1>2. tasks \in [Task -> Row] /\ Telegram \subseteq Task
  BY SettingFacts DEF TypeOK, HTypeOK
<1>3. /\ Listed \in [Task -> Row] /\ Live \subseteq Telegram
      /\ \A t \in Live : Listed[t] = tasks[t]
      /\ \A t \in Task \ Live : Listed[t] = NoRow
  BY <1>1, <1>2 DEF Listed, Live
<1>4. \A t \in Live : tasks[t].status = "open"
  BY DEF Live
<1>5. OnList(Listed) = Live
  BY <1>1, <1>2, <1>3, <1>4 DEF OnList
<1>6. NoList \in [Task -> Row] /\ OnList(NoList) = {} /\ \A t \in Task : NoList[t].cursor = 0
  BY <1>1 DEF NoList, OnList
<1> QED BY <1>3, <1>5, <1>6

LEMMA RestType ==
  ASSUME setting \in Settings, TypeOK
  PROVE  /\ AtRest \in Bridge /\ AtRest.pc = "idle" /\ AtRest.list = NoList
         /\ AtRest.ranks = {} /\ AtRest.todo = {} /\ AtRest.page = <<>>
         /\ AtRest.high = 0 /\ AtRest.task = Origin /\ AtRest.cursor = 0
BY ListFacts DEF AtRest, Bridge

LEMMA PageFacts ==
  ASSUME setting \in Settings, TypeOK, NEW after \in Nat,
         after <= Len(stream), forgotten <= Len(stream)
  PROVE  \E from, n \in Nat :
           /\ from = Larger(after, forgotten) /\ from >= after /\ from >= forgotten
           /\ from + n <= Len(stream)
           /\ n = 0 => from = Len(stream)
           /\ Page(after) \in Seq(1..MaxUpdates) /\ Len(Page(after)) = n
           /\ \A k \in 1..n : Page(after)[k] = from + k
           /\ n > 0 => Page(after) # <<>> /\ HighOf(Page(after)) = from + n
           /\ n = 0 => Page(after) = <<>>
<1> DEFINE from == Larger(after, forgotten)
           n == Smaller(PageSize, Len(stream) - from)
<1>1. Len(stream) \in Nat /\ forgotten \in Nat /\ Len(stream) <= MaxUpdates
  BY SettingFacts DEF TypeOK
<1>2. PageSize \in Nat \ {0}
  BY SettingFacts DEF PageSize
<1>3. from \in Nat /\ from >= after /\ from >= forgotten /\ from <= Len(stream)
  BY <1>1 DEF Larger
<1>4. Page(after) = [k \in 1..n |-> from + k]
  BY DEF Page
<1> HIDE DEF from
<1>5. n \in Nat /\ from + n <= Len(stream) /\ (n = 0 => from = Len(stream))
  BY <1>1, <1>2, <1>3 DEF Smaller
<1> HIDE DEF n
<1>6. \A k \in 1..n : from + k \in 1..MaxUpdates
  BY <1>1, <1>3, <1>5, SettingFacts
<1>7. Page(after) \in Seq(1..MaxUpdates) /\ Len(Page(after)) = n
      /\ \A k \in 1..n : Page(after)[k] = from + k
  BY <1>4, <1>5, <1>6
<1>8. n > 0 => Page(after) # <<>> /\ HighOf(Page(after)) = from + n
  BY <1>5, <1>7 DEF HighOf
<1>9. n = 0 => Page(after) = <<>>
  BY <1>5, <1>7
<1>10. from = Larger(after, forgotten)
  BY DEF from
<1> QED BY <1>3, <1>5, <1>7, <1>8, <1>9, <1>10

LEMMA PageTail ==
  ASSUME NEW S, NEW page \in Seq(S), page # <<>>
  PROVE  /\ Tail(page) \in Seq(S) /\ Head(page) = page[1]
         /\ Len(Tail(page)) = Len(page) - 1 /\ Len(page) \in Nat /\ Len(page) > 0
         /\ \A j \in 1..Len(Tail(page)) : Tail(page)[j] = page[j + 1]
<1>1. Head(page) = page[1]
  OBVIOUS
<1>2. Len(page) \in Nat /\ Len(page) > 0
  OBVIOUS
<1> QED BY <1>1, <1>2, HeadTailProperties

LEMMA Lowest ==
  ASSUME NEW S \in SUBSET Nat, S # {}
  PROVE  \E n \in S : \A m \in S : n <= m
<1> DEFINE T == {0..n : n \in S}
           R == StrictSubsetOrdering(Nat)
<1>1. IsWellFoundedOn(R, FiniteSubsetsOf(Nat))
  BY FS_StrictSubsetOrderingWellFounded
<1>2. \A n \in Nat : 0..n \in FiniteSubsetsOf(Nat)
  <2> SUFFICES ASSUME NEW n \in Nat PROVE 0..n \in FiniteSubsetsOf(Nat)
    OBVIOUS
  <2>1. IsFiniteSet(0..n)
    BY FS_Interval
  <2> QED BY <2>1 DEF FiniteSubsetsOf
<1>3. T \subseteq FiniteSubsetsOf(Nat) /\ T # {}
  BY <1>2
<1>4. ASSUME NEW m \in Nat, NEW n \in Nat, m < n PROVE <<0..m, 0..n>> \in R
  BY <1>4 DEF StrictSubsetOrdering
<1> HIDE DEF R
<1>5. PICK x \in T : \A y \in T : ~ (<<y, x>> \in R)
  BY <1>1, <1>3, WFMin
<1>6. PICK n \in S : x = 0..n
  OBVIOUS
<1>7. \A m \in S : ~ (m < n)
  BY <1>4, <1>5, <1>6
<1> QED BY <1>7

LEMMA PollFromIs ==
  ASSUME NEW list \in [Task -> Row], OnList(list) # {}
  PROVE  /\ PollFrom(list) \in Nat
         /\ \E t \in OnList(list) : PollFrom(list) = list[t].cursor
         /\ \A t \in OnList(list) : PollFrom(list) <= list[t].cursor
<1>1. \A t \in OnList(list) : list[t].cursor \in Nat
  BY DEF OnList, Row
<1>2. Cursors(list) \in SUBSET Nat /\ Cursors(list) # {}
  BY <1>1 DEF Cursors
<1>3. \E c \in Cursors(list) : \A d \in Cursors(list) : c <= d
  BY <1>2, Lowest
<1>4. PollFrom(list) \in Cursors(list) /\ \A d \in Cursors(list) : PollFrom(list) <= d
  BY <1>3 DEF PollFrom
<1> QED BY <1>2, <1>4 DEF Cursors

\* A bridge's step that leaves the table and the operations alone.
Passes(b) ==
  \/ Pass(b) \/ \E t \in Task : OpenCursor(b, t)
  \/ OpenFails(b) \/ OpenGone(b) \/ Relist(b) \/ Poll(b) \/ PollFails(b)
  \/ Unrouted(b) \/ TurnOver(b) \/ Acknowledge(b) \/ PassOver(b)

LEMMA PassesFlat ==
  ASSUME Base, NEW b \in Bridges, Passes(b)
  PROVE  /\ UNCHANGED <<hvars, stream, asked, handled, owed>>
         /\ forgotten' \in 0..MaxUpdates /\ forgotten' <= Len(stream)
         /\ \E rec \in Bridge :
              /\ SetBridge(b, rec)
              /\ PassOk(Telegram, rec, agents[b]) /\ SeenRec(rec, Len(stream))
<1> DEFINE old == bridge[b]
           op == agents[b]
           n == Len(stream)
<1>1. /\ setting \in Settings /\ TypeOK /\ old \in Bridge /\ n \in Nat /\ n <= MaxUpdates
      /\ PassOk(Telegram, old, op) /\ SeenRec(old, n)
      /\ forgotten \in 0..MaxUpdates /\ forgotten <= n
      /\ \A t \in Task : tasks[t].cursor <= n
  BY SettingFacts DEF Base, TypeOK, PassInv, CursorsSeen
<1>2. /\ SeenRec(AtRest, n) /\ AtRest \in Bridge
      /\ op.pc = "idle" => PassOk(Telegram, AtRest, op)
  BY <1>1, RestType, ListFacts DEF SeenRec, PassOk
<1>3. Listed \in [Task -> Row] /\ OnList(Listed) = Live /\ Live \subseteq Telegram
      /\ \A t \in Task : Listed[t].cursor <= n
  <2>1. NoRow.cursor <= n
    BY <1>1, RowTypes
  <2> QED BY <2>1, <1>1, ListFacts
<1>4. order \in SUBSET (Task \X Task) /\ Telegram \subseteq Task
  BY <1>1, SettingFacts DEF TypeOK, HTypeOK
<1> HIDE DEF n
<1>5. CASE Pass(b)
  <2> DEFINE rec == [AtRest EXCEPT !.pc = "open", !.list = Listed,
                       !.todo = {t \in Live : ~tasks[t].opened}]
  <2>1. old.pc = "idle" /\ SetBridge(b, rec)
        /\ UNCHANGED <<hvars, stream, asked, handled, owed, forgotten>>
    BY <1>5 DEF Pass
  <2>2. /\ rec \in Bridge /\ rec.pc = "open" /\ rec.list = Listed /\ rec.todo \subseteq Live
        /\ rec.cursor = 0 /\ rec.high = 0
    BY <1>1, <1>3, <1>4, RestType DEF Bridge
  <2> HIDE DEF rec
  <2>9. PassOk(Telegram, rec, op) /\ SeenRec(rec, n)
    BY <1>1, <1>3, <2>1, <2>2 DEF PassOk, SeenRec
  <2> QED BY <1>1, <1>3, <2>1, <2>2, <2>9 DEF n
<1>6. CASE \E t \in Task : OpenCursor(b, t)
  <2>1. PICK t \in Task : OpenCursor(b, t)
    BY <1>6
  <2> DEFINE rec == [old EXCEPT !.pc = "opening", !.task = t,
                       !.todo = @ \ {t}, !.cursor = LatestUpdateID]
  <2>2. old.pc = "open" /\ SetBridge(b, rec) /\ t \in old.todo
        /\ UNCHANGED <<hvars, stream, asked, handled, owed, forgotten>>
    BY <2>1 DEF OpenCursor
  <2>3. LatestUpdateID \in Nat /\ LatestUpdateID <= n
    BY <1>1 DEF LatestUpdateID, n
  <2>4. /\ rec \in Bridge /\ rec.pc = "opening" /\ rec.list = old.list
        /\ rec.todo \subseteq old.todo /\ rec.task = t
        /\ rec.cursor = LatestUpdateID /\ rec.high = old.high
    BY <1>1, <2>3 DEF Bridge
  <2> HIDE DEF rec
  <2>9. PassOk(Telegram, rec, op) /\ SeenRec(rec, n)
    BY <1>1, <2>2, <2>3, <2>4 DEF PassOk, SeenRec
  <2> QED BY <1>1, <2>2, <2>3, <2>4, <2>9 DEF n
<1>7. CASE OpenFails(b) \/ OpenGone(b)
  <2> DEFINE rec == [old EXCEPT !.pc = "open", !.task = Origin]
  <2>1. old.pc \in {"opening", "sent"} /\ SetBridge(b, rec) /\ op.pc = "idle"
        /\ UNCHANGED <<hvars, stream, asked, handled, owed, forgotten>>
    BY <1>1, <1>7 DEF OpenFails, OpenGone, PassOk
  <2>2. /\ rec \in Bridge /\ rec.pc = "open" /\ rec.list = old.list
        /\ rec.todo = old.todo /\ rec.cursor = old.cursor /\ rec.high = old.high
    BY <1>1 DEF Bridge
  <2> HIDE DEF rec
  <2>9. PassOk(Telegram, rec, op) /\ SeenRec(rec, n)
    BY <1>1, <2>1, <2>2 DEF PassOk, SeenRec
  <2> QED BY <1>1, <2>1, <2>2, <2>9 DEF n
<1>8. CASE Relist(b)
  <2> DEFINE rec == [AtRest EXCEPT !.pc = "poll", !.list = Listed, !.ranks = order]
  <2>1. /\ old.pc = "open" /\ UNCHANGED <<hvars, stream, asked, handled, owed, forgotten>>
        /\ SetBridge(b, IF Live = {} THEN AtRest ELSE rec)
    BY <1>8 DEF Relist
  <2>2. /\ rec \in Bridge /\ rec.pc = "poll" /\ rec.list = Listed /\ rec.todo = {}
        /\ rec.cursor = 0 /\ rec.high = 0
    BY <1>1, <1>3, <1>4, RestType DEF Bridge
  <2> HIDE DEF rec
  <2>3. op.pc = "idle"
    BY <1>1, <2>1 DEF PassOk
  <2>4. CASE Live = {}
    BY <1>1, <1>2, <2>1, <2>3, <2>4 DEF n
  <2>5. CASE Live # {}
    <3>1. PassOk(Telegram, rec, op) /\ SeenRec(rec, n)
      BY <1>1, <1>3, <2>1, <2>2, <2>3, <2>5 DEF PassOk, SeenRec
    <3> QED BY <1>1, <2>1, <2>2, <2>5, <3>1 DEF n
  <2> QED BY <2>4, <2>5
<1>9. CASE Poll(b)
  <2> DEFINE after == PollFrom(old.list)
             page == Page(after)
             rec == [old EXCEPT !.pc = "page", !.page = page, !.high = HighOf(page)]
  <2>1. /\ old.pc = "poll" /\ UNCHANGED <<hvars, stream, asked, handled, owed>>
        /\ forgotten' = Larger(after, forgotten)
        /\ SetBridge(b, IF page = <<>> THEN AtRest ELSE rec)
    BY <1>9 DEF Poll
  <2>2. op.pc = "idle" /\ OnList(old.list) # {} /\ old.list \in [Task -> Row]
    BY <1>1, <2>1, RecParts DEF PassOk
  <2>3. after \in Nat /\ after <= n
    <3>1. \A t \in OnList(old.list) : old.list[t].cursor <= n
      BY <1>1 DEF SeenRec, OnList
    <3> QED BY <2>2, <3>1, PollFromIs
  <2> HIDE DEF after
  <2>4. PICK from, k \in Nat :
          /\ from = Larger(after, forgotten) /\ from >= forgotten /\ from + k <= n
          /\ page \in Seq(1..MaxUpdates)
          /\ k > 0 => page # <<>> /\ HighOf(page) = from + k
          /\ k = 0 => page = <<>>
    BY <1>1, <2>3, PageFacts DEF n
  <2>5. forgotten' \in 0..MaxUpdates /\ forgotten' <= n
    <3>1. MaxUpdates \in Nat
      BY SettingFacts, <1>1
    <3> QED BY <1>1, <2>1, <2>4, <3>1
  <2>6. CASE page = <<>>
    BY <1>2, <2>1, <2>2, <2>5, <2>6 DEF n
  <2>7. CASE page # <<>>
    <3>1. HighOf(page) \in Nat /\ HighOf(page) <= n
      BY <2>4, <2>7
    <3> HIDE DEF page
    <3>2. /\ rec \in Bridge /\ rec.pc = "page" /\ rec.list = old.list
          /\ rec.todo = old.todo /\ rec.cursor = old.cursor /\ rec.high = HighOf(page)
      BY <1>1, <2>4, <3>1 DEF Bridge
    <3>3. SetBridge(b, rec)
      BY <2>1, <2>7
    <3> HIDE DEF rec
    <3>4. PassOk(Telegram, rec, op) /\ SeenRec(rec, n)
      BY <1>1, <2>2, <3>1, <3>2 DEF PassOk, SeenRec
    <3> QED BY <2>1, <2>5, <3>2, <3>3, <3>4 DEF n
  <2> QED BY <2>6, <2>7
<1>10. CASE PollFails(b)
  <2>1. op.pc = "idle" /\ SetBridge(b, AtRest)
        /\ UNCHANGED <<hvars, stream, asked, handled, owed, forgotten>>
    BY <1>1, <1>10 DEF PollFails, PassOk
  <2> QED BY <1>1, <1>2, <2>1 DEF n
<1>11. CASE Unrouted(b)
  <2> DEFINE rec == [old EXCEPT !.page = Tail(@)]
  <2>1. old.pc = "page" /\ old.page # <<>> /\ SetBridge(b, rec)
        /\ UNCHANGED <<hvars, stream, asked, handled, owed, forgotten>>
    BY <1>11 DEF Unrouted
  <2>2. Tail(old.page) \in Seq(1..MaxUpdates)
    <3>1. old.page \in Seq(1..MaxUpdates)
      BY <1>1, RecParts
    <3> QED BY <2>1, <3>1, HeadTailProperties
  <2>3. /\ rec \in Bridge /\ rec.pc = old.pc /\ rec.list = old.list /\ rec.task = old.task
        /\ rec.todo = old.todo /\ rec.cursor = old.cursor /\ rec.high = old.high
    BY <1>1, <2>2 DEF Bridge
  <2> HIDE DEF rec
  <2>9. PassOk(Telegram, rec, op) /\ SeenRec(rec, n)
    BY <1>1, <2>1, <2>3 DEF PassOk, SeenRec
  <2> QED BY <1>1, <2>1, <2>3, <2>9 DEF n
<1>12. CASE TurnOver(b)
  <2> DEFINE rec == [old EXCEPT !.pc = "page"]
  <2>1. op.pc = "idle" /\ SetBridge(b, rec)
        /\ UNCHANGED <<hvars, stream, asked, handled, owed, forgotten>>
    BY <1>12 DEF TurnOver
  <2>2. /\ rec \in Bridge /\ rec.pc = "page" /\ rec.list = old.list
        /\ rec.todo = old.todo /\ rec.cursor = old.cursor /\ rec.high = old.high
    BY <1>1 DEF Bridge
  <2> HIDE DEF rec
  <2>9. PassOk(Telegram, rec, op) /\ SeenRec(rec, n)
    BY <1>1, <2>1, <2>2 DEF PassOk, SeenRec
  <2> QED BY <1>1, <2>1, <2>2, <2>9 DEF n
<1>13. CASE Acknowledge(b)
  <2> DEFINE rec == [old EXCEPT !.pc = "ack",
                       !.todo = {t \in OnList(old.list) : Behind(old.list[t], old.high)}]
  <2>1. old.pc = "page" /\ SetBridge(b, rec)
        /\ UNCHANGED <<hvars, stream, asked, handled, owed, forgotten>>
    BY <1>13 DEF Acknowledge
  <2>2. /\ rec \in Bridge /\ rec.pc = "ack" /\ rec.list = old.list
        /\ rec.todo \subseteq OnList(old.list) /\ rec.cursor = old.cursor
        /\ rec.high = old.high
    BY <1>1 DEF Bridge, OnList
  <2> HIDE DEF rec
  <2>9. PassOk(Telegram, rec, op) /\ SeenRec(rec, n)
    BY <1>1, <2>1, <2>2 DEF PassOk, SeenRec
  <2> QED BY <1>1, <2>1, <2>2, <2>9 DEF n
<1>14. CASE PassOver(b)
  <2>1. op.pc = "idle" /\ SetBridge(b, AtRest)
        /\ UNCHANGED <<hvars, stream, asked, handled, owed, forgotten>>
    BY <1>14 DEF PassOver
  <2> QED BY <1>1, <1>2, <2>1 DEF n
<1> QED BY <1>5, <1>6, <1>7, <1>8, <1>9, <1>10, <1>11, <1>12, <1>13, <1>14 DEF Passes

LEMMA AddOne ==
  ASSUME NEW f \in [Task -> [1..MaxVisits -> Nat]], NEW t \in Task, NEW v
  PROVE  /\ [f EXCEPT ![t][v] = @ + 1] \in [Task -> [1..MaxVisits -> Nat]]
         /\ \A s \in Task, w \in 1..MaxVisits :
              [f EXCEPT ![t][v] = @ + 1][s][w] =
                IF s = t /\ w = v THEN f[s][w] + 1 ELSE f[s][w]
<1> DEFINE new == [f[t] EXCEPT ![v] = @ + 1]
<1>1. new = [x \in 1..MaxVisits |-> IF x = v THEN f[t][x] + 1 ELSE f[t][x]]
  OBVIOUS
<1>2. [f EXCEPT ![t][v] = @ + 1] = [f EXCEPT ![t] = new]
  OBVIOUS
<1>3. \A x \in 1..MaxVisits : f[t][x] \in Nat
  OBVIOUS
<1> HIDE DEF new
<1>4. new \in [1..MaxVisits -> Nat]
  BY <1>1, <1>3
<1>5. \A w \in 1..MaxVisits : new[w] = IF w = v THEN f[t][w] + 1 ELSE f[t][w]
  BY <1>1
<1>6. \A s \in Task : [f EXCEPT ![t] = new][s] = IF s = t THEN new ELSE f[s]
  OBVIOUS
<1> QED BY <1>2, <1>4, <1>5, <1>6

\* What a step of the bridge's leaves that changes its operation or a row.
Acts(b) == OpenSend(b) \/ OpenMark(b) \/ (\E t \in Task : Handle(b, t) \/ SaveRead(b, t))
             \/ SaveWrite(b) \/ SaveFails(b)

LEMMA OpenSendFlat ==
  ASSUME Base, NEW b \in Bridges, OpenSend(b)
  PROVE  /\ UNCHANGED <<tasks, order, svc, doc, runs, restarts, told>>
         /\ UNCHANGED <<stream, forgotten, handled, owed>>
         /\ bridge[b].pc = "opening" /\ MayBegin(bridge[b].task)
         /\ bridge[b].task \in Telegram /\ agents[b].pc = "idle"
         /\ agents' \in [Agents -> Op] /\ \A c \in Agents \ {b} : agents'[c] = agents[c]
         /\ agents'[b].pc = "append" /\ agents'[b].task = bridge[b].task
         /\ agents'[b].todo = <<"told">> /\ agents'[b].then = "mark" /\ agents'[b].row = NoRow
         /\ bridge' \in [Bridges -> Bridge] /\ \A c \in Bridges \ {b} : bridge'[c] = bridge[c]
         /\ bridge'[b].pc = "sent" /\ bridge'[b].task = bridge[b].task
         /\ bridge'[b].todo = bridge[b].todo /\ bridge'[b].list = bridge[b].list
         /\ bridge'[b].cursor = bridge[b].cursor /\ bridge'[b].high = bridge[b].high
         /\ asked' = [asked EXCEPT ![bridge[b].task][bridge[b].list[bridge[b].task].visit] = @ + 1]
         /\ asked' \in [Task -> [1..MaxVisits -> Nat]]
<1> DEFINE t == bridge[b].task
           v == bridge[b].list[t].visit
           rec == [bridge[b] EXCEPT !.pc = "sent"]
           op == [Idle EXCEPT !.pc = "append", !.task = t, !.todo = <<"told">>, !.then = "mark"]
<1>1. /\ UNCHANGED <<tasks, order, svc, doc, runs, restarts, told>>
      /\ UNCHANGED <<stream, forgotten, handled, owed>>
      /\ bridge[b].pc = "opening" /\ MayBegin(bridge[b].task)
      /\ SetBridge(b, rec) /\ SetAgent(b, op)
      /\ asked' = [asked EXCEPT ![t][v] = @ + 1]
  BY DEF OpenSend, UnchangedTable
<1>2. /\ setting \in Settings /\ TypeOK /\ HTypeOK /\ bridge[b] \in Bridge
      /\ PassOk(Telegram, bridge[b], agents[b]) /\ b \in Agents
      /\ asked \in [Task -> [1..MaxVisits -> Nat]]
  BY DEF Base, TypeOK, PassInv, Agents
<1>3. t \in Telegram /\ agents[b].pc = "idle" /\ t \in Task
  BY <1>1, <1>2, SettingFacts DEF PassOk
<1>4. /\ rec \in Bridge /\ rec.pc = "sent" /\ rec.task = t
      /\ rec.todo = bridge[b].todo /\ rec.list = bridge[b].list
      /\ rec.cursor = bridge[b].cursor /\ rec.high = bridge[b].high
  BY <1>2 DEF Bridge
<1>5. /\ op \in Op /\ op.pc = "append" /\ op.task = t /\ op.todo = <<"told">>
      /\ op.then = "mark" /\ op.row = NoRow
  BY <1>2, <1>3, IdleType, TurnTypes DEF Op
<1>6. asked' \in [Task -> [1..MaxVisits -> Nat]]
  <2> DEFINE more == [asked EXCEPT ![t][v] = @ + 1]
  <2>1. asked' = more BY <1>1
  <2>2. asked \in [Task -> [1..MaxVisits -> Nat]] /\ t \in Task BY <1>2, <1>3
  <2> HIDE DEF t, v
  <2>3. more \in [Task -> [1..MaxVisits -> Nat]] BY <2>2, AddOne
  <2> HIDE DEF more
  <2> QED BY <2>1, <2>3
<1> HIDE DEF rec, op
<1>7. agents' \in [Agents -> Op] /\ agents'[b] = op /\ \A c \in Agents \ {b} : agents'[c] = agents[c]
  BY <1>1, <1>2, <1>5, AgentFlat
<1>8. bridge' \in [Bridges -> Bridge] /\ bridge'[b] = rec
      /\ \A c \in Bridges \ {b} : bridge'[c] = bridge[c]
  BY <1>1, <1>2, <1>4, BridgeFlat
<1> QED BY <1>1, <1>3, <1>4, <1>5, <1>6, <1>7, <1>8

LEMMA OpenMarkFlat ==
  ASSUME Base, NEW b \in Bridges, OpenMark(b)
  PROVE  /\ UNCHANGED <<svc, doc, runs, restarts, told>>
         /\ UNCHANGED <<stream, forgotten, asked, handled, owed>>
         /\ bridge[b].pc = "sent" /\ agents[b].pc = "mark"
         /\ agents[b].task = bridge[b].task /\ bridge[b].task \in Telegram
         /\ agents[b].row \in Row /\ bridge[b].cursor \in Nat
         /\ Upsert(agents[b].task, Marked(agents[b].row, bridge[b].cursor))
         /\ agents' \in [Agents -> Op] /\ \A c \in Agents \ {b} : agents'[c] = agents[c]
         /\ agents'[b] = Idle
         /\ bridge' \in [Bridges -> Bridge] /\ \A c \in Bridges \ {b} : bridge'[c] = bridge[c]
         /\ bridge'[b].pc = "open" /\ bridge'[b].task = Origin
         /\ bridge'[b].todo = bridge[b].todo /\ bridge'[b].list = bridge[b].list
         /\ bridge'[b].cursor = bridge[b].cursor /\ bridge'[b].high = bridge[b].high
<1> DEFINE rec == [bridge[b] EXCEPT !.pc = "open", !.task = Origin]
<1>1. /\ UNCHANGED <<svc, doc, runs, restarts, told>>
      /\ UNCHANGED <<stream, forgotten, asked, handled, owed>>
      /\ bridge[b].pc = "sent" /\ agents[b].pc = "mark"
      /\ Upsert(agents[b].task, Marked(agents[b].row, bridge[b].cursor))
      /\ SetBridge(b, rec) /\ SetAgent(b, Idle)
  BY DEF OpenMark
<1>2. /\ setting \in Settings /\ TypeOK /\ HTypeOK /\ bridge[b] \in Bridge
      /\ PassOk(Telegram, bridge[b], agents[b]) /\ b \in Agents
      /\ agents[b] \in Op
  BY DEF Base, TypeOK, HTypeOK, PassInv, Agents
<1>3. agents[b].task = bridge[b].task /\ bridge[b].task \in Telegram
  BY <1>1, <1>2 DEF PassOk
<1>4. agents[b].row \in Row /\ bridge[b].cursor \in Nat
  BY <1>2, OpParts, RecParts
<1>5. /\ rec \in Bridge /\ rec.pc = "open" /\ rec.task = Origin
      /\ rec.todo = bridge[b].todo /\ rec.list = bridge[b].list
      /\ rec.cursor = bridge[b].cursor /\ rec.high = bridge[b].high
  BY <1>2 DEF Bridge
<1> HIDE DEF rec
<1>6. agents' \in [Agents -> Op] /\ agents'[b] = Idle /\ \A c \in Agents \ {b} : agents'[c] = agents[c]
  BY <1>1, <1>2, IdleType, AgentFlat
<1>7. bridge' \in [Bridges -> Bridge] /\ bridge'[b] = rec
      /\ \A c \in Bridges \ {b} : bridge'[c] = bridge[c]
  BY <1>1, <1>2, <1>5, BridgeFlat
<1> QED BY <1>1, <1>3, <1>4, <1>5, <1>6, <1>7

LEMMA HandleFlat ==
  ASSUME Base, NEW b \in Bridges, NEW t \in Task, Handle(b, t)
  PROVE  /\ UNCHANGED <<tasks, order, svc, doc, runs, restarts, told>>
         /\ UNCHANGED <<stream, forgotten, asked>>
         /\ bridge[b].pc = "page" /\ bridge[b].page # <<>> /\ agents[b].pc = "idle"
         /\ Routed(bridge[b], Head(bridge[b].page), t)
         /\ t \in Telegram /\ t \in OnList(bridge[b].list)
         /\ handled' = [handled EXCEPT ![Head(bridge[b].page)] = @ + 1]
         /\ handled' \in [1..MaxUpdates -> Nat]
         /\ Head(bridge[b].page) \in 1..MaxUpdates
         /\ owed' = {o \in owed : o[2] # Head(bridge[b].page)}
         /\ agents' \in [Agents -> Op] /\ \A c \in Agents \ {b} : agents'[c] = agents[c]
         /\ bridge' \in [Bridges -> Bridge] /\ \A c \in Bridges \ {b} : bridge'[c] = bridge[c]
         /\ bridge'[b].pc \in {"page", "turn"} /\ bridge'[b].page = Tail(bridge[b].page)
         /\ bridge'[b].todo = bridge[b].todo /\ bridge'[b].list = bridge[b].list
         /\ bridge'[b].cursor = bridge[b].cursor /\ bridge'[b].high = bridge[b].high
         /\ \/ agents'[b] = agents[b]
            \/ /\ bridge'[b].pc = "turn" /\ MayBegin(t)
               /\ agents'[b].pc = "append" /\ agents'[b].task = t
               /\ agents'[b].todo # <<>> /\ agents'[b].then \in {"end", "close"}
               /\ agents'[b].row = NoRow
<1> DEFINE u == Head(bridge[b].page)
           old == bridge[b]
<1>1. /\ UNCHANGED <<tasks, order, svc, doc, runs, restarts, told>>
      /\ UNCHANGED <<stream, forgotten, asked>>
      /\ old.pc = "page" /\ old.page # <<>>
      /\ Routed(old, u, t)
      /\ handled' = [handled EXCEPT ![u] = @ + 1]
      /\ owed' = {o \in owed : o[2] # u}
      /\ \/ UNCHANGED agents /\ SetBridge(b, [old EXCEPT !.page = Tail(@)])
         \/ /\ MayBegin(t) /\ SetAgent(b, TurnFor(t, stream[u].kind))
            /\ SetBridge(b, [old EXCEPT !.pc = "turn", !.page = Tail(@)])
  BY DEF Handle, UnchangedTable
<1>2. /\ setting \in Settings /\ TypeOK /\ HTypeOK /\ old \in Bridge
      /\ PassOk(Telegram, old, agents[b]) /\ b \in Agents
      /\ handled \in [1..MaxUpdates -> Nat] /\ agents \in [Agents -> Op]
  BY DEF Base, TypeOK, HTypeOK, PassInv, Agents
<1>3. t \in OnList(old.list) /\ t \in Telegram /\ agents[b].pc = "idle"
  BY <1>1, <1>2 DEF Routed, Candidates, PassOk
<1>4. u \in 1..MaxUpdates /\ Tail(old.page) \in Seq(1..MaxUpdates)
  <2>1. old.page \in Seq(1..MaxUpdates)
    BY <1>2, RecParts
  <2> QED BY <1>1, <2>1, HeadTailProperties
<1> HIDE DEF u
<1>5. handled' \in [1..MaxUpdates -> Nat]
  BY <1>1, <1>2, <1>4
<1>6. CASE UNCHANGED agents /\ SetBridge(b, [old EXCEPT !.page = Tail(@)])
  <2> DEFINE rec == [old EXCEPT !.page = Tail(@)]
  <2>1. /\ rec \in Bridge /\ rec.pc = "page" /\ rec.page = Tail(old.page)
        /\ rec.todo = old.todo /\ rec.list = old.list
        /\ rec.cursor = old.cursor /\ rec.high = old.high
    BY <1>1, <1>2, <1>4 DEF Bridge
  <2> HIDE DEF rec
  <2>2. bridge' \in [Bridges -> Bridge] /\ bridge'[b] = rec
        /\ \A c \in Bridges \ {b} : bridge'[c] = bridge[c]
    BY <1>2, <1>6, <2>1, BridgeFlat DEF rec
  <2> QED BY <1>1, <1>2, <1>3, <1>4, <1>5, <1>6, <2>1, <2>2 DEF u
<1>7. CASE /\ MayBegin(t) /\ SetAgent(b, TurnFor(t, stream[u].kind))
           /\ SetBridge(b, [old EXCEPT !.pc = "turn", !.page = Tail(@)])
  <2> DEFINE rec == [old EXCEPT !.pc = "turn", !.page = Tail(@)]
             op == TurnFor(t, stream[u].kind)
  <2>1. /\ rec \in Bridge /\ rec.pc = "turn" /\ rec.page = Tail(old.page)
        /\ rec.todo = old.todo /\ rec.list = old.list
        /\ rec.cursor = old.cursor /\ rec.high = old.high
    BY <1>1, <1>2, <1>4 DEF Bridge
  <2>2. /\ op \in Op /\ op.pc = "append" /\ op.task = t /\ op.todo # <<>>
        /\ op.then \in {"end", "close"} /\ op.row = NoRow
    BY <1>2, IdleType, TurnTypes DEF Op, TurnFor
  <2> HIDE DEF rec, op
  <2>3. agents' \in [Agents -> Op] /\ agents'[b] = op
        /\ \A c \in Agents \ {b} : agents'[c] = agents[c]
    BY <1>2, <1>7, <2>2, AgentFlat DEF op
  <2>4. bridge' \in [Bridges -> Bridge] /\ bridge'[b] = rec
        /\ \A c \in Bridges \ {b} : bridge'[c] = bridge[c]
    BY <1>2, <1>7, <2>1, BridgeFlat DEF rec
  <2> QED BY <1>1, <1>2, <1>3, <1>4, <1>5, <1>7, <2>1, <2>2, <2>3, <2>4 DEF u
<1> QED BY <1>1, <1>6, <1>7

LEMMA SaveReadFlat ==
  ASSUME Base, NEW b \in Bridges, NEW t \in Task, SaveRead(b, t)
  PROVE  /\ UNCHANGED <<tasks, order, svc, doc, runs, restarts, told>>
         /\ UNCHANGED <<stream, forgotten, asked, handled, owed>>
         /\ bridge[b].pc = "ack" /\ agents[b].pc = "idle" /\ t \in bridge[b].todo
         /\ t \in Telegram /\ MayBegin(t)
         /\ agents' \in [Agents -> Op] /\ \A c \in Agents \ {b} : agents'[c] = agents[c]
         /\ bridge' \in [Bridges -> Bridge] /\ \A c \in Bridges \ {b} : bridge'[c] = bridge[c]
         /\ bridge'[b].pc = "ack" /\ bridge'[b].todo = bridge[b].todo \ {t}
         /\ bridge'[b].list = bridge[b].list
         /\ bridge'[b].cursor = bridge[b].cursor /\ bridge'[b].high = bridge[b].high
         /\ \/ /\ ~(Exists(t) /\ tasks[t].cursor < bridge[b].high)
               /\ agents'[b] = Idle
            \/ /\ Exists(t) /\ tasks[t].cursor < bridge[b].high
               /\ agents'[b].pc = "save" /\ agents'[b].task = t
               /\ agents'[b].row = [tasks[t] EXCEPT !.cursor = bridge[b].high]
<1> DEFINE old == bridge[b]
           rec == [old EXCEPT !.todo = @ \ {t}]
           op == [Idle EXCEPT !.pc = "save", !.task = t,
                              !.row = [tasks[t] EXCEPT !.cursor = old.high]]
<1>1. /\ UNCHANGED <<tasks, order, svc, doc, runs, restarts, told>>
      /\ UNCHANGED <<stream, forgotten, asked, handled, owed>>
      /\ old.pc = "ack" /\ agents[b].pc = "idle" /\ t \in old.todo /\ MayBegin(t)
      /\ SetBridge(b, rec)
      /\ SetAgent(b, IF Exists(t) /\ tasks[t].cursor < old.high THEN op ELSE Idle)
  BY DEF SaveRead, UnchangedTable, Behind
<1>2. /\ setting \in Settings /\ TypeOK /\ HTypeOK /\ old \in Bridge
      /\ PassOk(Telegram, old, agents[b]) /\ b \in Agents
      /\ tasks[t] \in Row
  BY DEF Base, TypeOK, HTypeOK, PassInv, Agents
<1>3. t \in Telegram
  BY <1>1, <1>2 DEF PassOk
<1>4. /\ rec \in Bridge /\ rec.pc = "ack" /\ rec.todo = old.todo \ {t}
      /\ rec.list = old.list /\ rec.cursor = old.cursor /\ rec.high = old.high
  BY <1>1, <1>2 DEF Bridge
<1>5. old.high \in Nat
  BY <1>2, RecParts
<1>6. /\ op \in Op /\ op.pc = "save" /\ op.task = t
      /\ op.row = [tasks[t] EXCEPT !.cursor = old.high]
  <2>1. [tasks[t] EXCEPT !.cursor = old.high] \in Row
    BY <1>2, <1>5, RowTypes
  <2> QED BY <1>2, <2>1, IdleType DEF Op
<1> HIDE DEF rec, op
<1>7. bridge' \in [Bridges -> Bridge] /\ bridge'[b] = rec
      /\ \A c \in Bridges \ {b} : bridge'[c] = bridge[c]
  BY <1>1, <1>2, <1>4, BridgeFlat
<1>8. /\ agents' \in [Agents -> Op] /\ \A c \in Agents \ {b} : agents'[c] = agents[c]
      /\ agents'[b] = IF Exists(t) /\ tasks[t].cursor < old.high THEN op ELSE Idle
  <2>1. CASE Exists(t) /\ tasks[t].cursor < old.high
    BY <1>1, <1>2, <1>6, <2>1, AgentFlat
  <2>2. CASE ~(Exists(t) /\ tasks[t].cursor < old.high)
    BY <1>1, <1>2, <2>2, IdleType, AgentFlat
  <2> QED BY <2>1, <2>2
<1> QED BY <1>1, <1>3, <1>4, <1>6, <1>7, <1>8

LEMMA SaveFlat ==
  ASSUME Base, NEW b \in Bridges, SaveWrite(b) \/ SaveFails(b)
  PROVE  /\ UNCHANGED <<svc, doc, runs, restarts, told>>
         /\ UNCHANGED <<stream, forgotten, bridge, asked, handled, owed>>
         /\ agents[b].pc = "save" /\ agents[b].task \in Telegram /\ agents[b].row \in Row
         /\ agents' \in [Agents -> Op] /\ \A c \in Agents \ {b} : agents'[c] = agents[c]
         /\ agents'[b] = Idle
         /\ \/ UNCHANGED <<tasks, order>> /\ CursorFails
            \/ Upsert(agents[b].task, agents[b].row)
<1>1. /\ setting \in Settings /\ HTypeOK /\ b \in Agents /\ agents[b] \in Op
      /\ HandOk(Telegram, b, agents[b]) /\ Origin \notin Task
  BY SettingFacts DEF Base, TypeOK, HTypeOK, HandsInv, Agents
<1>2. /\ UNCHANGED <<svc, doc, runs, restarts, told>>
      /\ UNCHANGED <<stream, forgotten, bridge, asked, handled, owed>>
      /\ agents[b].pc = "save" /\ SetAgent(b, Idle)
      /\ \/ UNCHANGED <<tasks, order>> /\ CursorFails
         \/ Upsert(agents[b].task, agents[b].row)
  BY DEF SaveWrite, SaveFails, UnchangedTable
<1>3. agents[b].task \in Telegram
  BY <1>1, <1>2 DEF HandOk
<1> QED BY <1>1, <1>2, <1>3, OpParts, IdleType, AgentFlat

LEMMA ReceiveFlat ==
  ASSUME Base, NEW chat \in Chat, NEW kind \in Kinds, Receive(chat, kind)
  PROVE  /\ UNCHANGED <<hvars, forgotten, bridge, asked, handled>>
         /\ stream' \in Seq(Update) /\ Len(stream') = Len(stream) + 1
         /\ Len(stream') <= setting.updates
         /\ \A u \in 1..Len(stream) : stream'[u] = stream[u]
         /\ stream'[Len(stream) + 1].chat = chat
         /\ owed' = owed \cup (Sessions(chat) \X {Len(stream) + 1})
         /\ owed' \in SUBSET (Telegram \X (1..MaxUpdates))
<1> DEFINE new == [chat |-> chat, kind |-> kind]
<1>1. /\ UNCHANGED <<hvars, forgotten, bridge, asked, handled>>
      /\ Len(stream) < setting.updates /\ stream' = Append(stream, new)
      /\ owed' = owed \cup (Sessions(chat) \X {Len(stream) + 1})
  BY DEF Receive
<1>2. stream \in Seq(Update) /\ setting.updates \in 0..MaxUpdates /\ MaxUpdates \in Nat
      /\ owed \in SUBSET (Telegram \X (1..MaxUpdates))
  BY SettingFacts DEF Base, TypeOK
<1>3. new \in Update /\ new.chat = chat
  BY DEF Update
<1> HIDE DEF new
<1>4. Len(stream) + 1 \in 1..MaxUpdates
  BY <1>1, <1>2
<1>5. Sessions(chat) \subseteq Telegram
  BY DEF Sessions
<1> QED BY <1>1, <1>2, <1>3, <1>4, <1>5

-----------------------------------------------------------------------------
(* The types and the places of operations and passes are kept              *)

LEMMA HandsStep ==
  ASSUME HandsInv, UNCHANGED setting, NEW a \in Agents,
         \A c \in Agents \ {a} : agents'[c] = agents[c],
         HandOk(Telegram, a, agents'[a])
  PROVE  HandsInv'
BY DEF HandsInv, Telegram

LEMMA PassStep ==
  ASSUME PassInv, UNCHANGED setting, NEW a \in Agents,
         \A c \in Agents \ {a} : agents'[c] = agents[c],
         \A c \in Bridges \ {a} : bridge'[c] = bridge[c],
         a \in Bridges => PassOk(Telegram, bridge'[a], agents'[a])
  PROVE  PassInv'
<1> SUFFICES ASSUME NEW b \in Bridges PROVE PassOk(Telegram, bridge'[b], agents'[b])
  BY DEF PassInv, Telegram
<1>1. PassOk(Telegram, bridge[b], agents[b]) /\ b \in Agents
  BY DEF PassInv, Agents
<1> QED BY <1>1

LEMMA MovedHand ==
  ASSUME Base, NEW a \in Agents, MovesOn(a) \/ WritesRow(a)
  PROVE  /\ HandOk(Telegram, a, agents'[a])
         /\ a \in Bridges => PassOk(Telegram, bridge[a], agents'[a])
<1> DEFINE op == agents[a]
           new == agents'[a]
           rec == bridge[a]
<1>1. /\ setting \in Settings /\ HTypeOK /\ HandsInv /\ HandOk(Telegram, a, op)
      /\ VisitsLeft /\ op \in Op
      /\ a \in Bridges => PassOk(Telegram, rec, op)
  BY DEF Base, TypeOK, HTypeOK, HandsInv, PassInv
<1>2. /\ op.pc \in {"append", "close", "bind", "binding", "resume", "appending", "closing"}
      /\ op.task \in Task
      /\ \/ new = Idle
         \/ /\ new.task = op.task /\ new.then = op.then /\ new.todo = op.todo
            /\ \/ op.pc = "append" /\ new.pc = "appending"
               \/ op.pc = "close" /\ new.pc = "closing"
               \/ op.pc \in {"bind", "binding"} /\ new.pc \in {"binding", "resume"}
         \/ /\ new.task = op.task /\ new.then = op.then
            /\ \/ op.pc = "appending" /\ new.pc = "append" /\ new.todo # <<>>
                  /\ op.todo # <<"told">>
               \/ op.pc = "appending" /\ new.pc = op.then /\ op.then \in {"close", "mark"}
               \/ op.pc = "closing" /\ new.pc \in {"bind", "resume"}
  <2>1. CASE MovesOn(a)
    BY <1>1, <2>1, MoveFlat
  <2>2. CASE WritesRow(a)
    BY <1>1, <2>2, WriteFlat
  <2> QED BY <2>1, <2>2
<1>3. Idle.pc = "idle" /\ Idle.task = Origin /\ Idle.then = "end"
  BY <1>1, IdleType
<1> HIDE DEF op, new, rec
<1>4. HandOk(Telegram, a, new)
  BY <1>1, <1>2, <1>3 DEF HandOk
<1>5. a \in Bridges => PassOk(Telegram, rec, new)
  BY <1>1, <1>2, <1>3 DEF PassOk
<1> QED BY <1>4, <1>5 DEF new, rec

\* A row an operation takes from the table is behind no update.
LEMMA MovedSeen ==
  ASSUME Base, NEW a \in Agents, MovesOn(a) \/ WritesRow(a)
  PROVE  agents'[a].row.cursor <= Len(stream)
<1>1. /\ setting \in Settings /\ HTypeOK /\ HandsInv /\ VisitsLeft
      /\ agents[a].row.cursor <= Len(stream)
      /\ \A t \in Task : tasks[t] \in Row /\ tasks[t].cursor <= Len(stream)
      /\ Len(stream) \in Nat
  BY DEF Base, TypeOK, HTypeOK, CursorsSeen
<1>2. Idle.row.cursor = 0
  BY <1>1, IdleType, RowTypes
<1>3. /\ agents[a].task \in Task
      /\ \/ agents'[a] = Idle
         \/ agents'[a].row = agents[a].row
         \/ agents'[a].row = WithTurn(tasks[agents[a].task])
         \/ agents'[a].row = Closed(tasks[agents[a].task])
  <2>1. CASE MovesOn(a)
    BY <1>1, <2>1, MoveFlat
  <2>2. CASE WritesRow(a)
    BY <1>1, <2>2, WriteFlat
  <2> QED BY <2>1, <2>2
<1>4. \A t \in Task : /\ WithTurn(tasks[t]).cursor <= Len(stream)
                      /\ Closed(tasks[t]).cursor <= Len(stream)
  BY <1>1, RowTypes
<1> QED BY <1>1, <1>2, <1>3, <1>4

\* The rest of the types after a step of HumanTasks.
LEMMA OwedShrinks ==
  ASSUME owed \in SUBSET (Telegram \X (1..MaxUpdates)), owed' = StillOwed(tasks')
  PROVE  owed' \in SUBSET (Telegram \X (1..MaxUpdates)) /\ owed' \subseteq owed
BY DEF StillOwed

LEMMA TaskStepBase ==
  ASSUME Base, TaskStep, UNCHANGED setting
  PROVE  Base'
<1>1. /\ setting \in Settings /\ TypeOK /\ HTypeOK /\ HandsInv /\ PassInv
      /\ VisitsLeft /\ CursorsSeen
      /\ owed \in SUBSET (Telegram \X (1..MaxUpdates))
      /\ UNCHANGED <<stream, forgotten, bridge, asked, handled>>
      /\ owed' = StillOwed(tasks')
      /\ Len(stream) \in Nat
  BY DEF Base, TypeOK, TaskStep
<1>2. owed' \in SUBSET (Telegram \X (1..MaxUpdates))
  BY <1>1, OwedShrinks
<1>3. HTypeOK' => TypeOK'
  BY <1>1, <1>2 DEF TypeOK, Telegram, Kinds, Update
<1>4. NoRow.cursor = 0 /\ NoRow \in Row
  BY <1>1, RowTypes
<1>5. ASSUME NEW t \in Task, SvcRead(t)
      PROVE  Base'
  <2>1. /\ UNCHANGED <<tasks, order, agents, doc, runs, restarts, told>>
        /\ visits[t] < setting.visits
        /\ svc' \in [Task -> Svc] /\ \A s \in Task \ {t} : svc'[s] = svc[s]
        /\ svc'[t].cursor = 0 \/ svc'[t].cursor = tasks[t].cursor
    BY <1>1, <1>5, SvcReadFlat
  <2>2. HTypeOK'
    BY <1>1, <2>1 DEF HTypeOK, told
  <2>3. HandsInv' /\ PassInv'
    BY <1>1, <2>1 DEF HandsInv, PassInv, Telegram
  <2>4. CursorsSeen'
    BY <1>1, <2>1 DEF CursorsSeen
  <2>5. VisitsLeft'
    BY <1>1, <2>1 DEF VisitsLeft, told
  <2> QED BY <1>1, <1>3, <2>2, <2>3, <2>4, <2>5 DEF Base
<1>6. ASSUME NEW t \in Task, SvcWrite(t)
      PROVE  Base'
  <2>1. /\ UNCHANGED <<agents, doc, runs, restarts, resumes, settled>>
        /\ FreshRow(t) \in Row /\ FreshRow(t).cursor = svc[t].cursor
        /\ Upsert(t, FreshRow(t))
        /\ svc' \in [Task -> Svc] /\ ~svc'[t].busy /\ svc'[t].cursor = 0
        /\ \A s \in Task \ {t} : svc'[s] = svc[s]
        /\ visits' \in [Task -> 0..MaxVisits] /\ \A s \in Task \ {t} : visits'[s] = visits[s]
        /\ said' \in [Task -> Nat]
    BY <1>1, <1>6, SvcWriteFlat
  <2>2. /\ tasks' \in [Task -> Row] /\ order' \in SUBSET (Task \X Task)
        /\ tasks'[t] = FreshRow(t) /\ \A s \in Task \ {t} : tasks'[s] = tasks[s]
    BY <1>1, <2>1, UpsertFlat
  <2>3. HTypeOK'
    BY <1>1, <2>1, <2>2 DEF HTypeOK
  <2>4. HandsInv' /\ PassInv'
    BY <1>1, <2>1 DEF HandsInv, PassInv, Telegram
  <2>5. CursorsSeen'
    <3>1. tasks'[t].cursor <= Len(stream)
      BY <1>1, <2>1, <2>2 DEF CursorsSeen
    <3>2. svc'[t].cursor <= Len(stream)
      BY <1>1, <2>1
    <3>3. \A s \in Task \ {t} : tasks'[s] = tasks[s] /\ svc'[s] = svc[s]
      BY <2>1, <2>2
    <3>4. \A s \in Task : tasks'[s].cursor <= Len(stream) /\ svc'[s].cursor <= Len(stream)
      BY <1>1, <3>1, <3>2, <3>3 DEF CursorsSeen
    <3> QED BY <1>1, <2>1, <3>4 DEF CursorsSeen
  <2>6. VisitsLeft'
    BY <1>1, <2>1 DEF VisitsLeft
  <2> QED BY <1>1, <1>3, <2>3, <2>4, <2>5, <2>6 DEF Base
<1>7. ASSUME NEW r \in Task \cup {Origin}, RunPushes(r) \/ RunLoads(r)
      PROVE  Base'
  <2>1. /\ UNCHANGED <<tasks, order, svc, agents, restarts, told>>
        /\ doc' \in [Task -> Nat] /\ runs' \in [Task \cup {Origin} -> Run]
    BY <1>1, <1>7, RunFlat
  <2>2. HTypeOK'
    BY <1>1, <2>1 DEF HTypeOK, told
  <2>3. HandsInv' /\ PassInv'
    BY <1>1, <2>1 DEF HandsInv, PassInv, Telegram
  <2>4. CursorsSeen' /\ VisitsLeft'
    BY <1>1, <2>1 DEF CursorsSeen, VisitsLeft, told
  <2> QED BY <1>1, <1>3, <2>2, <2>3, <2>4 DEF Base
<1>8. ASSUME NEW a \in Clients, NEW t \in Task, BeginsOn(a, t)
      PROVE  Base'
  <2>1. /\ UNCHANGED <<tasks, order, svc, doc, runs, restarts, told>>
        /\ agents' \in [Agents -> Op] /\ \A c \in Agents \ {a} : agents'[c] = agents[c]
        /\ agents'[a].task = t /\ agents'[a].then = "end" /\ agents'[a].row = NoRow
        /\ \/ agents'[a].pc = "append" /\ agents'[a].todo # <<>>
           \/ agents'[a].pc = "close"
        /\ a \in Agents /\ a \notin Bridges
    BY <1>1, <1>8, BeginFlat, SettingFacts DEF Agents
  <2>2. HTypeOK'
    BY <1>1, <2>1 DEF HTypeOK, told
  <2>3. HandOk(Telegram, a, agents'[a])
    BY <1>8, <2>1 DEF HandOk
  <2>4. HandsInv'
    BY <1>1, <2>1, <2>3, HandsStep
  <2>5. PassInv'
    BY <1>1, <2>1, PassStep
  <2>6. CursorsSeen' /\ VisitsLeft'
    BY <1>1, <1>4, <2>1 DEF CursorsSeen, VisitsLeft, told
  <2> QED BY <1>1, <1>3, <2>2, <2>4, <2>5, <2>6 DEF Base
<1>9. ASSUME NEW a \in Clients, NEW t \in Task, DeleteTask(a, t)
      PROVE  Base'
  <2>1. /\ UNCHANGED <<order, svc, agents, doc, runs, restarts, told>>
        /\ tasks' \in [Task -> Row] /\ tasks'[t] = NoRow
        /\ \A s \in Task \ {t} : tasks'[s] = tasks[s]
    BY <1>1, <1>9, DeleteFlat DEF Agents
  <2>2. HTypeOK'
    BY <1>1, <2>1 DEF HTypeOK, told
  <2>3. HandsInv' /\ PassInv'
    BY <1>1, <2>1 DEF HandsInv, PassInv, Telegram
  <2>4. CursorsSeen'
    <3>1. tasks'[t].cursor <= Len(stream)
      BY <1>1, <1>4, <2>1
    <3> QED BY <1>1, <2>1, <3>1 DEF CursorsSeen
  <2>5. VisitsLeft'
    BY <1>1, <2>1 DEF VisitsLeft, told
  <2> QED BY <1>1, <1>3, <2>2, <2>3, <2>4, <2>5 DEF Base
<1>10. ASSUME NEW a \in Agents, MovesOn(a)
       PROVE  Base'
  <2>1. /\ UNCHANGED <<tasks, order, svc, restarts, visits, said>>
        /\ agents' \in [Agents -> Op] /\ \A c \in Agents \ {a} : agents'[c] = agents[c]
        /\ agents[a].task \in Task
    BY <1>1, <1>10, MoveFlat
  <2>2. HTypeOK'
    BY <1>1, <1>10, <2>1, MoveTypes DEF HTypeOK
  <2>3. HandOk(Telegram, a, agents'[a]) /\ (a \in Bridges => PassOk(Telegram, bridge'[a], agents'[a]))
    BY <1>1, <1>10, MovedHand
  <2>4. HandsInv'
    BY <1>1, <2>1, <2>3, HandsStep
  <2>5. PassInv'
    BY <1>1, <2>1, <2>3, PassStep
  <2>6. agents'[a].row.cursor <= Len(stream)
    BY <1>10, MovedSeen
  <2>7. CursorsSeen' /\ VisitsLeft'
    BY <1>1, <2>1, <2>6 DEF CursorsSeen, VisitsLeft
  <2> QED BY <1>1, <1>3, <2>2, <2>4, <2>5, <2>7 DEF Base
<1>11. ASSUME NEW a \in Agents, WritesRow(a)
       PROVE  Base'
  <2>1. /\ UNCHANGED <<svc, doc, runs, restarts, visits, resumes, settled>>
        /\ agents[a].task \in Task /\ agents[a].row \in Row
        /\ Upsert(agents[a].task, agents[a].row)
        /\ agents' \in [Agents -> Op] /\ \A c \in Agents \ {a} : agents'[c] = agents[c]
        /\ said' \in [Task -> Nat]
    BY <1>1, <1>11, WriteFlat
  <2> DEFINE t == agents[a].task
  <2>2. /\ tasks' \in [Task -> Row] /\ order' \in SUBSET (Task \X Task)
        /\ tasks'[t] = agents[a].row /\ \A s \in Task \ {t} : tasks'[s] = tasks[s]
    BY <1>1, <2>1, UpsertFlat
  <2>3. HTypeOK'
    BY <1>1, <2>1, <2>2 DEF HTypeOK
  <2>4. HandOk(Telegram, a, agents'[a]) /\ (a \in Bridges => PassOk(Telegram, bridge'[a], agents'[a]))
    BY <1>1, <1>11, MovedHand
  <2>5. HandsInv'
    BY <1>1, <2>1, <2>4, HandsStep
  <2>6. PassInv'
    BY <1>1, <2>1, <2>4, PassStep
  <2>7. agents'[a].row.cursor <= Len(stream) /\ agents[a].row.cursor <= Len(stream)
    BY <1>1, <1>11, MovedSeen DEF CursorsSeen
  <2>8. CursorsSeen' /\ VisitsLeft'
    BY <1>1, <2>1, <2>2, <2>7 DEF CursorsSeen, VisitsLeft
  <2> QED BY <1>1, <1>3, <2>3, <2>5, <2>6, <2>8 DEF Base
<1>12. \/ \E t \in Task : SvcRead(t) \/ SvcWrite(t)
       \/ \E r \in Task \cup {Origin} : RunPushes(r) \/ RunLoads(r)
       \/ \E a \in Clients, t \in Task : BeginsOn(a, t) \/ DeleteTask(a, t)
       \/ \E a \in Agents : MovesOn(a) \/ WritesRow(a)
  BY DEF TaskStep, ClientBegins, AgentNext, BeginsOn, MovesOn, WritesRow
<1> QED BY <1>5, <1>6, <1>7, <1>8, <1>9, <1>10, <1>11, <1>12

LEMMA BridgeBase ==
  ASSUME Base, NEW b \in Bridges, BridgeNext(b), UNCHANGED setting
  PROVE  Base'
<1>1. /\ setting \in Settings /\ TypeOK /\ HTypeOK /\ HandsInv /\ PassInv
      /\ VisitsLeft /\ CursorsSeen /\ b \in Agents /\ b \notin Clients
      /\ owed \in SUBSET (Telegram \X (1..MaxUpdates))
      /\ PassOk(Telegram, bridge[b], agents[b]) /\ SeenRec(bridge[b], Len(stream))
      /\ Len(stream) \in Nat /\ Telegram \subseteq Task
  BY SettingFacts DEF Base, TypeOK, Agents, PassInv, CursorsSeen
<1>2. /\ Idle.pc = "idle" /\ Idle.task = Origin /\ Idle.then = "end" /\ Idle.row.cursor = 0
      /\ NoRow.cursor = 0
  BY <1>1, IdleType, RowTypes
<1>3. HandOk(Telegram, b, Idle)
  BY <1>1, <1>2 DEF HandOk
<1>4. CASE Passes(b)
  <2>1. /\ UNCHANGED <<hvars, stream, asked, handled, owed>>
        /\ forgotten' \in 0..MaxUpdates /\ forgotten' <= Len(stream)
    BY <1>4, PassesFlat
  <2>2. PICK rec \in Bridge :
          /\ SetBridge(b, rec)
          /\ PassOk(Telegram, rec, agents[b]) /\ SeenRec(rec, Len(stream))
    BY <1>4, PassesFlat
  <2>3. bridge' \in [Bridges -> Bridge] /\ bridge'[b] = rec
        /\ \A c \in Bridges \ {b} : bridge'[c] = bridge[c]
    BY <1>1, <2>2, BridgeFlat
  <2>4. HTypeOK'
    BY <1>1, <2>1 DEF HTypeOK, hvars
  <2>5. TypeOK'
    BY <1>1, <2>1, <2>3, <2>4 DEF TypeOK, Telegram, Kinds, Update
  <2>6. HandsInv' /\ VisitsLeft'
    BY <1>1, <2>1 DEF HandsInv, VisitsLeft, Telegram, hvars
  <2>7. PassInv'
    BY <1>1, <2>1, <2>2, <2>3, PassStep DEF hvars
  <2>8. \A c \in Bridges : SeenRec(bridge'[c], Len(stream))
    BY <1>1, <2>2, <2>3 DEF CursorsSeen
  <2>9. CursorsSeen'
    BY <1>1, <2>1, <2>8 DEF CursorsSeen, hvars
  <2> QED BY <1>1, <2>5, <2>6, <2>7, <2>9 DEF Base
<1>5. CASE OpenSend(b)
  <2>1. /\ UNCHANGED <<tasks, order, svc, doc, runs, restarts, told>>
        /\ UNCHANGED <<stream, forgotten, handled, owed>>
        /\ bridge[b].task \in Telegram
        /\ agents' \in [Agents -> Op] /\ \A c \in Agents \ {b} : agents'[c] = agents[c]
        /\ agents'[b].pc = "append" /\ agents'[b].task = bridge[b].task
        /\ agents'[b].todo = <<"told">> /\ agents'[b].then = "mark" /\ agents'[b].row = NoRow
        /\ bridge' \in [Bridges -> Bridge] /\ \A c \in Bridges \ {b} : bridge'[c] = bridge[c]
        /\ bridge'[b].pc = "sent" /\ bridge'[b].task = bridge[b].task
        /\ bridge'[b].todo = bridge[b].todo /\ bridge'[b].list = bridge[b].list
        /\ bridge'[b].cursor = bridge[b].cursor /\ bridge'[b].high = bridge[b].high
        /\ asked' \in [Task -> [1..MaxVisits -> Nat]]
    BY <1>5, OpenSendFlat
  <2>2. HTypeOK'
    BY <1>1, <2>1 DEF HTypeOK, told
  <2>3. TypeOK'
    BY <1>1, <2>1, <2>2 DEF TypeOK, Telegram, Kinds, Update
  <2>4. HandOk(Telegram, b, agents'[b])
    BY <1>1, <2>1, TurnTypes DEF HandOk
  <2>5. PassOk(Telegram, bridge'[b], agents'[b])
    BY <1>1, <2>1 DEF PassOk
  <2>6. HandsInv' /\ PassInv'
    BY <1>1, <2>1, <2>4, <2>5, HandsStep, PassStep
  <2>7. SeenRec(bridge'[b], Len(stream))
    BY <1>1, <2>1 DEF SeenRec
  <2>8. CursorsSeen' /\ VisitsLeft'
    BY <1>1, <1>2, <2>1, <2>7 DEF CursorsSeen, VisitsLeft, told
  <2> QED BY <1>1, <2>3, <2>6, <2>8 DEF Base
<1>6. CASE OpenMark(b)
  <2> DEFINE t == agents[b].task
             row == Marked(agents[b].row, bridge[b].cursor)
  <2>1. /\ UNCHANGED <<svc, doc, runs, restarts, told>>
        /\ UNCHANGED <<stream, forgotten, asked, handled, owed>>
        /\ t \in Telegram /\ agents[b].row \in Row /\ bridge[b].cursor \in Nat
        /\ Upsert(t, row)
        /\ agents' \in [Agents -> Op] /\ \A c \in Agents \ {b} : agents'[c] = agents[c]
        /\ agents'[b] = Idle
        /\ bridge' \in [Bridges -> Bridge] /\ \A c \in Bridges \ {b} : bridge'[c] = bridge[c]
        /\ bridge'[b].pc = "open"
        /\ bridge'[b].todo = bridge[b].todo /\ bridge'[b].list = bridge[b].list
        /\ bridge'[b].cursor = bridge[b].cursor /\ bridge'[b].high = bridge[b].high
    BY <1>6, OpenMarkFlat
  <2>2. row \in Row /\ row.cursor = bridge[b].cursor
    BY <2>1, MarkedRow
  <2>3. /\ tasks' \in [Task -> Row] /\ order' \in SUBSET (Task \X Task)
        /\ tasks'[t] = row /\ \A s \in Task \ {t} : tasks'[s] = tasks[s]
    BY <1>1, <2>1, <2>2, UpsertFlat
  <2>4. HTypeOK'
    BY <1>1, <2>1, <2>3 DEF HTypeOK, told
  <2>5. TypeOK'
    BY <1>1, <2>1, <2>4 DEF TypeOK, Telegram, Kinds, Update
  <2>6. PassOk(Telegram, bridge'[b], agents'[b])
    BY <1>1, <1>2, <2>1 DEF PassOk
  <2>7. HandsInv' /\ PassInv'
    BY <1>1, <1>3, <2>1, <2>6, HandsStep, PassStep
  <2>8. SeenRec(bridge'[b], Len(stream)) /\ tasks'[t].cursor <= Len(stream)
    BY <1>1, <2>1, <2>2, <2>3 DEF SeenRec
  <2>9. CursorsSeen' /\ VisitsLeft'
    BY <1>1, <1>2, <2>1, <2>3, <2>8 DEF CursorsSeen, VisitsLeft, told
  <2> QED BY <1>1, <2>5, <2>7, <2>9 DEF Base
<1>7. ASSUME NEW t \in Task, Handle(b, t)
      PROVE  Base'
  <2>1. /\ UNCHANGED <<tasks, order, svc, doc, runs, restarts, told>>
        /\ UNCHANGED <<stream, forgotten, asked>>
        /\ t \in Telegram /\ agents[b].pc = "idle" /\ bridge[b].pc = "page"
        /\ handled' \in [1..MaxUpdates -> Nat]
        /\ owed' = {o \in owed : o[2] # Head(bridge[b].page)}
        /\ agents' \in [Agents -> Op] /\ \A c \in Agents \ {b} : agents'[c] = agents[c]
        /\ bridge' \in [Bridges -> Bridge] /\ \A c \in Bridges \ {b} : bridge'[c] = bridge[c]
        /\ bridge'[b].pc \in {"page", "turn"}
        /\ bridge'[b].todo = bridge[b].todo /\ bridge'[b].list = bridge[b].list
        /\ bridge'[b].cursor = bridge[b].cursor /\ bridge'[b].high = bridge[b].high
        /\ \/ agents'[b] = agents[b]
           \/ /\ bridge'[b].pc = "turn"
              /\ agents'[b].pc = "append" /\ agents'[b].task = t
              /\ agents'[b].todo # <<>> /\ agents'[b].then \in {"end", "close"}
              /\ agents'[b].row = NoRow
    BY <1>7, HandleFlat
  <2>2. HTypeOK'
    BY <1>1, <2>1 DEF HTypeOK, told
  <2>3. TypeOK'
    BY <1>1, <2>1, <2>2 DEF TypeOK, Telegram, Kinds, Update
  <2>4. HandOk(Telegram, b, agents[b])
    BY <1>1 DEF HandsInv
  <2>5. HandOk(Telegram, b, agents'[b])
    BY <1>1, <2>1, <2>4 DEF HandOk
  <2>6. agents[b].then = "end"
    BY <1>2, <2>1, <2>4 DEF HandOk
  <2>7. PassOk(Telegram, bridge'[b], agents'[b])
    BY <1>1, <2>1, <2>6 DEF PassOk
  <2>8. HandsInv' /\ PassInv'
    BY <1>1, <2>1, <2>5, <2>7, HandsStep, PassStep
  <2>9. SeenRec(bridge'[b], Len(stream)) /\ agents'[b].row.cursor <= Len(stream)
    BY <1>1, <1>2, <2>1 DEF SeenRec, CursorsSeen
  <2>10. CursorsSeen' /\ VisitsLeft'
    BY <1>1, <2>1, <2>9 DEF CursorsSeen, VisitsLeft, told
  <2> QED BY <1>1, <2>3, <2>8, <2>10 DEF Base
<1>8. ASSUME NEW t \in Task, SaveRead(b, t)
      PROVE  Base'
  <2>1. /\ UNCHANGED <<tasks, order, svc, doc, runs, restarts, told>>
        /\ UNCHANGED <<stream, forgotten, asked, handled, owed>>
        /\ t \in Telegram
        /\ agents' \in [Agents -> Op] /\ \A c \in Agents \ {b} : agents'[c] = agents[c]
        /\ bridge' \in [Bridges -> Bridge] /\ \A c \in Bridges \ {b} : bridge'[c] = bridge[c]
        /\ bridge[b].pc = "ack"
        /\ bridge'[b].pc = "ack" /\ bridge'[b].todo = bridge[b].todo \ {t}
        /\ bridge'[b].list = bridge[b].list
        /\ bridge'[b].cursor = bridge[b].cursor /\ bridge'[b].high = bridge[b].high
        /\ \/ agents'[b] = Idle
           \/ /\ agents'[b].pc = "save" /\ agents'[b].task = t
              /\ agents'[b].row = [tasks[t] EXCEPT !.cursor = bridge[b].high]
    BY <1>8, SaveReadFlat
  <2>2. HTypeOK'
    BY <1>1, <2>1 DEF HTypeOK, told
  <2>3. TypeOK'
    BY <1>1, <2>1, <2>2 DEF TypeOK, Telegram, Kinds, Update
  <2>4. HandOk(Telegram, b, agents'[b])
    BY <1>1, <1>3, <2>1 DEF HandOk
  <2>5. PassOk(Telegram, bridge'[b], agents'[b])
    BY <1>1, <1>2, <2>1 DEF PassOk
  <2>6. HandsInv' /\ PassInv'
    BY <1>1, <2>1, <2>4, <2>5, HandsStep, PassStep
  <2>7. SeenRec(bridge'[b], Len(stream))
    BY <1>1, <2>1 DEF SeenRec
  <2>8. agents'[b].row.cursor <= Len(stream)
    <3>1. tasks[t] \in Row /\ bridge[b].high \in Nat /\ bridge[b].high <= Len(stream)
      BY <1>1, RecParts DEF TypeOK, HTypeOK, SeenRec
    <3>2. [tasks[t] EXCEPT !.cursor = bridge[b].high].cursor = bridge[b].high
      BY <3>1, CursorRow
    <3>3. agents'[b].row = Idle.row \/ agents'[b].row = [tasks[t] EXCEPT !.cursor = bridge[b].high]
      BY <2>1
    <3>4. agents'[b].row.cursor \in {0, bridge[b].high}
      BY <1>2, <3>2, <3>3
    <3> QED BY <1>1, <3>1, <3>4
  <2>9. CursorsSeen' /\ VisitsLeft'
    BY <1>1, <2>1, <2>7, <2>8 DEF CursorsSeen, VisitsLeft, told
  <2> QED BY <1>1, <2>3, <2>6, <2>9 DEF Base
<1>9. CASE SaveWrite(b) \/ SaveFails(b)
  <2> DEFINE t == agents[b].task
  <2>1. /\ UNCHANGED <<svc, doc, runs, restarts, told>>
        /\ UNCHANGED <<stream, forgotten, bridge, asked, handled, owed>>
        /\ agents[b].pc = "save" /\ t \in Telegram /\ agents[b].row \in Row
        /\ agents' \in [Agents -> Op] /\ \A c \in Agents \ {b} : agents'[c] = agents[c]
        /\ agents'[b] = Idle
        /\ UNCHANGED <<tasks, order>> \/ Upsert(t, agents[b].row)
    BY <1>9, SaveFlat
  <2>2. /\ tasks' \in [Task -> Row] /\ order' \in SUBSET (Task \X Task)
        /\ \A s \in Task : tasks'[s] = tasks[s] \/ tasks'[s] = agents[b].row
    <3>1. CASE UNCHANGED <<tasks, order>>
      BY <1>1, <3>1 DEF HTypeOK
    <3>2. CASE Upsert(t, agents[b].row)
      BY <1>1, <2>1, <3>2, UpsertFlat
    <3> QED BY <2>1, <3>1, <3>2
  <2>3. HTypeOK'
    BY <1>1, <2>1, <2>2 DEF HTypeOK, told
  <2>4. TypeOK'
    BY <1>1, <2>1, <2>3 DEF TypeOK, Telegram, Kinds, Update
  <2>5. PassOk(Telegram, bridge'[b], agents'[b])
    BY <1>1, <1>2, <2>1 DEF PassOk
  <2>6. HandsInv' /\ PassInv'
    BY <1>1, <1>3, <2>1, <2>5, HandsStep, PassStep
  <2>7. agents[b].row.cursor <= Len(stream)
    BY <1>1 DEF CursorsSeen
  <2>8. CursorsSeen' /\ VisitsLeft'
    BY <1>1, <1>2, <2>1, <2>2, <2>7 DEF CursorsSeen, VisitsLeft, told
  <2> QED BY <1>1, <2>4, <2>6, <2>8 DEF Base
<1> QED BY <1>4, <1>5, <1>6, <1>7, <1>8, <1>9 DEF BridgeNext, Passes

LEMMA BaseKept ==
  ASSUME Base, [Next /\ UNCHANGED setting]_<<vars, setting>>
  PROVE  Base'
<1>1. /\ setting \in Settings /\ TypeOK /\ HTypeOK /\ HandsInv /\ PassInv
      /\ VisitsLeft /\ CursorsSeen /\ Len(stream) \in Nat
      /\ owed \in SUBSET (Telegram \X (1..MaxUpdates))
  BY DEF Base, TypeOK
<1>2. CASE UNCHANGED <<vars, setting>>
  <2>1. TypeOK'
    BY <1>1, <1>2 DEF TypeOK, HTypeOK, vars, hvars, bvars, Telegram, Kinds, Update
  <2>2. HandsInv' /\ PassInv' /\ VisitsLeft' /\ CursorsSeen'
    BY <1>1, <1>2 DEF HandsInv, PassInv, VisitsLeft, CursorsSeen, vars, hvars, bvars, Telegram
  <2> QED BY <1>1, <1>2, <2>1, <2>2 DEF Base
<1>3. CASE TaskStep /\ UNCHANGED setting
  BY <1>3, TaskStepBase
<1>4. ASSUME NEW chat \in Chat, NEW kind \in Kinds, Receive(chat, kind), UNCHANGED setting
      PROVE  Base'
  <2>1. /\ UNCHANGED <<hvars, forgotten, bridge, asked, handled>>
        /\ stream' \in Seq(Update) /\ Len(stream') = Len(stream) + 1
        /\ Len(stream') <= setting.updates
        /\ owed' \in SUBSET (Telegram \X (1..MaxUpdates))
    BY <1>4, ReceiveFlat
  <2>2. HTypeOK'
    BY <1>1, <1>4, <2>1 DEF HTypeOK, hvars
  <2>3. TypeOK'
    BY <1>1, <1>4, <2>1, <2>2 DEF TypeOK, Telegram, Kinds, Update
  <2>4. HandsInv' /\ PassInv' /\ VisitsLeft'
    BY <1>1, <1>4, <2>1 DEF HandsInv, PassInv, VisitsLeft, hvars, Telegram
  <2>5. CursorsSeen'
    <3>1. \A t \in Task : tasks[t].cursor \in Nat /\ svc[t].cursor \in Nat
      BY <1>1 DEF HTypeOK, Row, Svc
    <3>2. \A a \in Agents : agents[a].row.cursor \in Nat
      <4>1. \A a \in Agents : agents[a].row \in Row
        BY <1>1, OpParts DEF HTypeOK
      <4> QED BY <4>1 DEF Row
    <3>3. \A b \in Bridges : SeenRec(bridge[b], Len(stream'))
      <4> SUFFICES ASSUME NEW b \in Bridges PROVE SeenRec(bridge[b], Len(stream'))
        OBVIOUS
      <4>1. /\ SeenRec(bridge[b], Len(stream)) /\ bridge[b].cursor \in Nat
            /\ bridge[b].high \in Nat /\ bridge[b].list \in [Task -> Row]
        BY <1>1, RecParts DEF CursorsSeen, TypeOK
      <4>2. \A t \in Task : bridge[b].list[t].cursor \in Nat
        BY <4>1 DEF Row
      <4> QED BY <1>1, <2>1, <4>1, <4>2 DEF SeenRec
    <3>4. forgotten \in Nat
      BY SettingFacts, <1>1 DEF TypeOK
    <3> QED BY <1>1, <2>1, <3>1, <3>2, <3>3, <3>4 DEF CursorsSeen, hvars
  <2> QED BY <1>1, <1>4, <2>3, <2>4, <2>5 DEF Base
<1>5. ASSUME NEW b \in Bridges, BridgeNext(b), UNCHANGED setting
      PROVE  Base'
  BY <1>5, BridgeBase
<1>6. CASE Restart /\ UNCHANGED setting
  <2>1. /\ HRestart /\ bridge' = [b \in Bridges |-> AtRest]
        /\ UNCHANGED <<stream, forgotten, asked, handled, owed>>
    BY <1>6 DEF Restart
  <2>2. /\ UNCHANGED <<tasks, order, doc, runs, told>>
        /\ restarts' \in 0..setting.restarts
        /\ svc' \in [Task -> Svc] /\ \A t \in Task : ~svc'[t].busy /\ svc'[t].cursor = 0
        /\ agents' \in [Agents -> Op] /\ \A a \in Agents : agents'[a] = Idle
    BY <1>1, <2>1, RestartFlat
  <2>3. AtRest \in Bridge /\ SeenRec(AtRest, Len(stream)) /\ PassOk(Telegram, AtRest, Idle)
    BY <1>1, RestType, ListFacts, IdleType DEF SeenRec, PassOk
  <2>4. HTypeOK'
    BY <1>1, <1>6, <2>2 DEF HTypeOK, told
  <2>5. TypeOK'
    BY <1>1, <1>6, <2>1, <2>3, <2>4 DEF TypeOK, Telegram, Kinds, Update
  <2>6. \A a \in Agents : HandOk(Telegram, a, Idle)
    BY <1>1, IdleType, SettingFacts DEF HandOk
  <2>7. HandsInv' /\ PassInv'
    BY <1>6, <2>1, <2>2, <2>3, <2>6 DEF HandsInv, PassInv, Agents, Telegram
  <2>8. CursorsSeen' /\ VisitsLeft'
    <3>1. Idle.row.cursor = 0
      BY <1>1, IdleType, RowTypes
    <3> QED BY <1>1, <2>1, <2>2, <2>3, <3>1 DEF CursorsSeen, VisitsLeft, told
  <2> QED BY <1>1, <1>6, <2>5, <2>7, <2>8 DEF Base
<1> QED BY <1>2, <1>3, <1>4, <1>5, <1>6 DEF Next

LEMMA BaseInit ==
  ASSUME Init
  PROVE  Base
<1>1. /\ setting \in Settings /\ HInit /\ stream = <<>> /\ forgotten = 0
      /\ bridge = [b \in Bridges |-> AtRest] /\ owed = {}
      /\ asked = [t \in Task |-> [v \in 1..MaxVisits |-> 0]]
      /\ handled = [u \in 1..MaxUpdates |-> 0]
  BY DEF Init, HInit
<1>2. /\ NoRow \in Row /\ NoRow.cursor = 0 /\ Idle \in Op /\ Idle.row.cursor = 0
      /\ NoSvc \in Svc /\ NoSvc.cursor = 0 /\ ~NoSvc.busy
      /\ MaxVisits \in Nat \ {0} /\ setting.restarts \in Nat
      /\ NoRun \in Run /\ [NoRun EXCEPT !.state = "live"] \in Run
      /\ setting.updates \in Nat /\ MaxUpdates \in Nat
  <2>1. /\ NoSvc \in Svc /\ NoSvc.cursor = 0 /\ ~NoSvc.busy
        /\ NoRun \in Run /\ [NoRun EXCEPT !.state = "live"] \in Run
    BY DEF NoSvc, Svc, NoRun, Run
  <2>2. setting.updates \in Nat /\ MaxUpdates \in Nat /\ MaxVisits \in Nat \ {0}
        /\ setting.restarts \in Nat
    BY <1>1, SettingFacts
  <2> QED BY <1>1, <2>1, <2>2, RowTypes, IdleType
<1>3. HTypeOK
  BY <1>1, <1>2 DEF HTypeOK, HInit
<1>4. NoList \in [Task -> Row] /\ OnList(NoList) = {} /\ \A t \in Task : NoList[t].cursor = 0
  <2>1. NoRow.status = "none"
    BY <1>1, RowTypes
  <2> QED BY <1>2, <2>1 DEF NoList, OnList
<1>5. AtRest \in Bridge /\ SeenRec(AtRest, 0) /\ PassOk(Telegram, AtRest, Idle)
  BY <1>1, <1>4, IdleType DEF AtRest, Bridge, SeenRec, PassOk
<1>6. TypeOK
  BY <1>1, <1>2, <1>3, <1>5 DEF TypeOK
<1>7. \A a \in Agents : HandOk(Telegram, a, Idle)
  BY <1>1, IdleType DEF HandOk
<1>8. HandsInv /\ PassInv
  BY <1>1, <1>5, <1>7 DEF HandsInv, PassInv, HInit, Agents
<1>9. CursorsSeen
  BY <1>1, <1>2, <1>5 DEF CursorsSeen, HInit
<1>10. VisitsLeft
  BY <1>1, <1>2 DEF VisitsLeft, HInit
<1> QED BY <1>1, <1>6, <1>8, <1>9, <1>10 DEF Base

\* Tasks, operations, the pass and the histories keep their types in every
\* interleaving of clients, visits, the bridge and restarts: what an operation
\* writes back is a row, and a pass polls for a task on its list only.
THEOREM TypeCorrect == Spec => []TypeOK
<1>1. Init => Base
  BY BaseInit
<1>2. Base /\ [Next /\ UNCHANGED setting]_<<vars, setting>> => Base'
  BY BaseKept
<1>3. Base => TypeOK
  BY DEF Base
<1> QED BY <1>1, <1>2, <1>3, PTL DEF Spec

-----------------------------------------------------------------------------
(* Operations on a task that do not overlap                                *)

\* What an operation holds of its task is what the table says.
CurrentOp(op, row) ==
  /\ op.pc \in {"appending", "closing", "bind", "binding", "resume", "mark", "save"}
       => row.status # "none"
  /\ op.pc = "appending" => op.row = WithTurn(row)
  /\ op.pc = "closing" => op.row = Closed(row)
  /\ op.pc \in {"bind", "binding", "resume"} => op.row = row /\ row.status = "closed"
  /\ op.pc = "mark" => op.row = row
  /\ op.pc = "save" => /\ op.row = [row EXCEPT !.cursor = op.row.cursor]
                       /\ row.cursor < op.row.cursor

\* A client that closes knows the status, and resumes a visit never resumed.
ConsoleOp(op, row, res) ==
  /\ op.pc \in {"close", "closing"} => op.before = row.status
  /\ op.pc \in {"bind", "binding", "resume"} =>
       \A v \in 1..MaxVisits : v = op.row.visit => res[v] = 0

\* A row with the visits there were, the turns acknowledged and the resumes.
RowKept(tg, t, row, visit, turns, res) ==
  /\ row.status # "none" => row.visit = visit /\ visit > 0 /\ turns <= row.thread
  /\ row.status = "none" => ~row.opened
  /\ \A v \in 1..MaxVisits : res[v] > 0 => v <= visit
  /\ \A v \in 1..MaxVisits :
       row.status # "none" /\ v = row.visit /\ res[v] > 0 => row.status = "closed"
  /\ t \notin tg => \A v \in 1..MaxVisits : res[v] <= 1

Apart ==
  /\ \A a, c \in Agents : agents[a].task \in Task /\ agents[a].task = agents[c].task => a = c
  /\ \A t \in Task : svc[t].busy => \A a \in Agents : agents[a].task # t

SvcCurrent ==
  \A t \in Telegram : svc[t].busy =>
    svc[t].opened = tasks[t].opened /\ svc[t].cursor = tasks[t].cursor

HandsCurrent == \A a \in Agents : CurrentOp(agents[a], tasks[agents[a].task])

RowsKept == \A t \in Task : RowKept(Telegram, t, tasks[t], visits[t], said[t], resumes[t])

ConsoleKept ==
  \A a \in Clients : agents[a].task \in Task \ Telegram =>
    ConsoleOp(agents[a], tasks[agents[a].task], resumes[agents[a].task])

Alone == Apart /\ SvcCurrent /\ HandsCurrent /\ RowsKept /\ ConsoleKept

LEMMA IdleIsCurrent ==
  ASSUME setting \in Settings
  PROVE  \A row : CurrentOp(Idle, row)
BY IdleType DEF CurrentOp

\* A step of one operation on one task.
LEMMA OwnStep ==
  ASSUME Base, Alone, UNCHANGED <<setting, svc, visits>>, NEW a \in Agents, NEW t \in Task,
         agents[a].task = t \/ (agents[a].pc = "idle" /\ ~Busy(t)),
         \A c \in Agents \ {a} : agents'[c] = agents[c],
         agents'[a] = Idle \/ agents'[a].task = t,
         \A s \in Task \ {t} : /\ tasks'[s] = tasks[s] /\ said'[s] = said[s]
                               /\ \A v \in 1..MaxVisits : resumes'[s][v] = resumes[s][v],
         CurrentOp(agents'[a], tasks'[t]),
         RowKept(Telegram, t, tasks'[t], visits[t], said'[t], resumes'[t]),
         a \in Clients /\ t \notin Telegram /\ agents'[a] # Idle =>
           ConsoleOp(agents'[a], tasks'[t], resumes'[t])
  PROVE  Alone'
<1>1. /\ setting \in Settings /\ HandsInv /\ Telegram \subseteq Task /\ Origin \notin Task
      /\ Apart /\ SvcCurrent /\ HandsCurrent /\ RowsKept /\ ConsoleKept
      /\ Idle.task = Origin /\ Telegram' = Telegram
  BY SettingFacts, IdleType DEF Base, Alone, Telegram
<1>2. \A c \in Agents : agents[c].pc = "idle" => agents[c].task = Origin
  BY <1>1 DEF HandsInv, HandOk
<1>3. ~svc[t].busy
  BY <1>1 DEF Apart, Busy
<1>4. \A c \in Agents \ {a} : agents[c].task # t
  BY <1>1 DEF Apart, Busy
<1>5. Apart'
  <2>1. ASSUME NEW c \in Agents, NEW d \in Agents,
               agents'[c].task \in Task, agents'[c].task = agents'[d].task
        PROVE  c = d
    BY <1>1, <1>4, <2>1 DEF Apart
  <2>2. ASSUME NEW s \in Task, svc'[s].busy, NEW c \in Agents
        PROVE  agents'[c].task # s
    BY <1>1, <1>3, <2>2 DEF Apart
  <2> QED BY <2>1, <2>2 DEF Apart
<1>6. SvcCurrent'
  BY <1>1, <1>3 DEF SvcCurrent
<1>7. HandsCurrent'
  <2> SUFFICES ASSUME NEW c \in Agents PROVE CurrentOp(agents'[c], tasks'[agents'[c].task])
    BY DEF HandsCurrent
  <2>1. CASE c = a
    BY <1>1, <2>1, IdleIsCurrent
  <2>2. CASE c # a /\ agents[c].task \in Task
    <3>1. tasks'[agents[c].task] = tasks[agents[c].task] /\ agents'[c] = agents[c]
      BY <1>4, <2>2
    <3> QED BY <1>1, <2>2, <3>1 DEF HandsCurrent
  <2>3. CASE c # a /\ agents[c].task \notin Task
    <3>1. agents'[c] = Idle
      BY <1>1, <2>3 DEF HandsInv, HandOk
    <3> QED BY <1>1, <3>1, IdleIsCurrent
  <2> QED BY <2>1, <2>2, <2>3
<1>8. RowsKept'
  <2> SUFFICES ASSUME NEW s \in Task
               PROVE  RowKept(Telegram, s, tasks'[s], visits[s], said'[s], resumes'[s])
    BY <1>1 DEF RowsKept
  <2>1. CASE s = t
    BY <2>1
  <2>2. CASE s # t
    <3>1. RowKept(Telegram, s, tasks[s], visits[s], said[s], resumes[s])
      BY <1>1 DEF RowsKept
    <3>2. /\ tasks'[s] = tasks[s] /\ said'[s] = said[s]
          /\ \A v \in 1..MaxVisits : resumes'[s][v] = resumes[s][v]
      BY <2>2
    <3> QED BY <3>1, <3>2 DEF RowKept
  <2> QED BY <2>1, <2>2
<1>9. ConsoleKept'
  <2> SUFFICES ASSUME NEW c \in Clients, agents'[c].task \in Task \ Telegram
               PROVE  ConsoleOp(agents'[c], tasks'[agents'[c].task], resumes'[agents'[c].task])
    BY <1>1 DEF ConsoleKept
  <2>1. c \in Agents
    BY DEF Agents
  <2>2. CASE c = a
    <3>1. agents'[a] # Idle
      BY <1>1, <2>2
    <3> QED BY <2>2, <3>1
  <2>3. CASE c # a
    <3> DEFINE s == agents[c].task
    <3>1. agents'[c] = agents[c] /\ s \in Task \ {t} /\ s \notin Telegram
      BY <1>4, <2>1, <2>3
    <3>2. ConsoleOp(agents[c], tasks[s], resumes[s])
      BY <1>1, <3>1 DEF ConsoleKept
    <3> HIDE DEF s
    <3>3. /\ tasks'[s] = tasks[s]
          /\ \A v \in 1..MaxVisits : resumes'[s][v] = resumes[s][v]
      BY <3>1
    <3>4. ConsoleOp(agents[c], tasks'[s], resumes'[s])
      BY <3>2, <3>3 DEF ConsoleOp
    <3> QED BY <3>1, <3>4 DEF s
  <2> QED BY <2>2, <2>3
<1> QED BY <1>5, <1>6, <1>7, <1>8, <1>9 DEF Alone

\* A step that leaves the tasks and the operations as they are, or drops them all.
LEMMA StillAlone ==
  ASSUME Base, Alone, UNCHANGED <<setting, tasks, visits, said, resumes>>,
         \A t \in Task : svc'[t] = svc[t] \/ ~svc'[t].busy,
         \A a \in Agents : agents'[a] = agents[a] \/ agents'[a] = Idle
  PROVE  Alone'
<1>1. /\ setting \in Settings /\ Telegram \subseteq Task /\ Origin \notin Task
      /\ Apart /\ SvcCurrent /\ HandsCurrent /\ RowsKept /\ ConsoleKept
      /\ Idle.task = Origin /\ Telegram' = Telegram
  BY SettingFacts, IdleType DEF Base, Alone, Telegram
<1>2. Apart'
  BY <1>1 DEF Apart
<1>3. SvcCurrent' /\ RowsKept'
  BY <1>1 DEF SvcCurrent, RowsKept
<1>4. HandsCurrent'
  BY <1>1, IdleIsCurrent DEF HandsCurrent
<1>5. ConsoleKept'
  BY <1>1 DEF ConsoleKept, Agents
<1> QED BY <1>2, <1>3, <1>4, <1>5 DEF Alone

LEMMA AloneFacts ==
  ASSUME Base, Alone
  PROVE  /\ setting \in Settings /\ TypeOK /\ HTypeOK /\ HandsInv /\ VisitsLeft
         /\ Telegram \subseteq Task /\ Origin \notin Task
         /\ \A a \in Agents : /\ HandOk(Telegram, a, agents[a]) /\ agents[a] \in Op
                              /\ CurrentOp(agents[a], tasks[agents[a].task])
         /\ \A t \in Task : /\ RowKept(Telegram, t, tasks[t], visits[t], said[t], resumes[t])
                            /\ tasks[t] \in Row /\ said[t] \in Nat
                            /\ visits[t] \in 0..MaxVisits /\ visits[t] \in Nat
                            /\ \A v \in 1..MaxVisits : resumes[t][v] \in Nat
         /\ \A a \in Clients : agents[a].task \in Task \ Telegram =>
              ConsoleOp(agents[a], tasks[agents[a].task], resumes[agents[a].task])
<1>1. /\ setting \in Settings /\ TypeOK /\ HTypeOK /\ HandsInv /\ VisitsLeft
      /\ Telegram \subseteq Task /\ Origin \notin Task /\ MaxVisits \in Nat
  BY SettingFacts DEF Base, TypeOK
<1>2. \A a \in Agents : HandOk(Telegram, a, agents[a]) /\ agents[a] \in Op
  BY <1>1 DEF HandsInv, HTypeOK
<1>3. \A t \in Task : /\ tasks[t] \in Row /\ said[t] \in Nat
                      /\ visits[t] \in 0..MaxVisits
                      /\ \A v \in 1..MaxVisits : resumes[t][v] \in Nat
  BY <1>1 DEF HTypeOK
<1>4. \A t \in Task : visits[t] \in Nat
  <2>1. \A n \in 0..MaxVisits : n \in Nat
    BY <1>1
  <2> QED BY <1>3, <2>1
<1> QED BY <1>1, <1>2, <1>3, <1>4 DEF Alone, HandsCurrent, RowsKept, ConsoleKept

LEMMA SvcAlone ==
  ASSUME Base, Alone, ~Overlap, UNCHANGED setting, NEW t \in Task, SvcRead(t) \/ SvcWrite(t)
  PROVE  Alone'
<1>1. /\ setting \in Settings /\ HTypeOK /\ HandsInv /\ VisitsLeft
      /\ Telegram \subseteq Task /\ Origin \notin Task
      /\ Apart /\ SvcCurrent /\ HandsCurrent /\ RowsKept /\ ConsoleKept
      /\ Telegram' = Telegram
  BY AloneFacts DEF Alone, Telegram
<1>2. CASE SvcRead(t)
  <2>1. /\ UNCHANGED <<tasks, order, agents, doc, runs, restarts, told>>
        /\ MayBegin(t) /\ \A s \in Task \ {t} : svc'[s] = svc[s]
        /\ t \in Telegram => /\ svc'[t].opened = tasks[t].opened
                             /\ svc'[t].cursor = tasks[t].cursor
    BY <1>1, <1>2, SvcReadFlat
  <2>2. ~Busy(t)
    BY <2>1 DEF MayBegin
  <2>3. Apart'
    <3>1. \A s \in Task : svc'[s].busy => \A a \in Agents : agents[a].task # s
      BY <1>1, <2>1, <2>2 DEF Apart, Busy
    <3> QED BY <1>1, <2>1, <3>1 DEF Apart
  <2>4. SvcCurrent'
    BY <1>1, <2>1 DEF SvcCurrent
  <2>5. HandsCurrent' /\ RowsKept' /\ ConsoleKept'
    BY <1>1, <2>1 DEF HandsCurrent, RowsKept, ConsoleKept, told
  <2> QED BY <2>3, <2>4, <2>5 DEF Alone
<1>3. CASE SvcWrite(t)
  <2>1. /\ UNCHANGED <<agents, doc, runs, restarts, resumes, settled>>
        /\ svc[t].busy
        /\ FreshRow(t) \in Row /\ FreshRow(t).status = "open" /\ FreshRow(t).thread = 0
        /\ FreshRow(t).visit = visits[t] + 1
        /\ Upsert(t, FreshRow(t))
        /\ ~svc'[t].busy /\ \A s \in Task \ {t} : svc'[s] = svc[s]
        /\ visits'[t] = visits[t] + 1 /\ \A s \in Task \ {t} : visits'[s] = visits[s]
        /\ said'[t] = 0 /\ \A s \in Task \ {t} : said'[s] = said[s]
    BY <1>1, <1>3, SvcWriteFlat
  <2>2. tasks'[t] = FreshRow(t) /\ \A s \in Task \ {t} : tasks'[s] = tasks[s]
    BY <1>1, <2>1, UpsertFlat
  <2>3. \A a \in Agents : agents[a].task # t
    BY <1>1, <2>1 DEF Apart
  <2>4. Apart'
    BY <1>1, <2>1 DEF Apart
  <2>5. SvcCurrent'
    BY <1>1, <2>1, <2>2 DEF SvcCurrent
  <2>6. HandsCurrent'
    <3> SUFFICES ASSUME NEW a \in Agents PROVE CurrentOp(agents[a], tasks'[agents[a].task])
      BY <2>1 DEF HandsCurrent
    <3>1. CASE agents[a].task \in Task
      BY <1>1, <2>2, <2>3, <3>1 DEF HandsCurrent
    <3>2. CASE agents[a].task \notin Task
      BY <1>1, <3>2, IdleIsCurrent DEF HandsInv, HandOk
    <3> QED BY <3>1, <3>2
  <2>7. RowsKept'
    <3> SUFFICES ASSUME NEW s \in Task
                 PROVE  RowKept(Telegram, s, tasks'[s], visits'[s], said'[s], resumes[s])
      BY <1>1, <2>1 DEF RowsKept
    <3>1. RowKept(Telegram, s, tasks[s], visits[s], said[s], resumes[s])
      BY <1>1 DEF RowsKept
    <3>2. CASE s # t
      BY <2>1, <2>2, <3>1, <3>2
    <3>3. CASE s = t
      <4>1. /\ visits[t] \in Nat /\ \A v \in 1..MaxVisits : v \in Nat /\ resumes[t][v] \in Nat
        BY AloneFacts
      <4>2. \A v \in 1..MaxVisits : resumes[t][v] > 0 => v <= visits[t]
        BY <3>1, <3>3 DEF RowKept
      <4> QED BY <2>1, <2>2, <3>1, <3>3, <4>1, <4>2 DEF RowKept
    <3> QED BY <3>2, <3>3
  <2>8. ConsoleKept'
    <3> SUFFICES ASSUME NEW a \in Clients, agents[a].task \in Task \ Telegram
                 PROVE  ConsoleOp(agents[a], tasks'[agents[a].task], resumes[agents[a].task])
      BY <1>1, <2>1 DEF ConsoleKept
    <3>1. agents[a].task # t
      BY <2>3 DEF Agents
    <3> QED BY <1>1, <2>2, <3>1 DEF ConsoleKept
  <2> QED BY <2>4, <2>5, <2>6, <2>7, <2>8 DEF Alone
<1> QED BY <1>2, <1>3

LEMMA BeginsAlone ==
  ASSUME Base, Alone, ~Overlap, UNCHANGED setting, NEW a \in Clients, NEW t \in Task,
         BeginsOn(a, t) \/ DeleteTask(a, t)
  PROVE  Alone'
<1>1. /\ setting \in Settings /\ HTypeOK /\ a \in Agents /\ a \notin Bridges
      /\ RowKept(Telegram, t, tasks[t], visits[t], said[t], resumes[t])
      /\ HandOk(Telegram, a, agents[a])
  BY AloneFacts, SettingFacts DEF Agents
<1>2. CASE BeginsOn(a, t)
  <2>1. /\ UNCHANGED <<tasks, order, svc, doc, runs, restarts, told>>
        /\ agents[a].pc = "idle" /\ MayBegin(t)
        /\ \A c \in Agents \ {a} : agents'[c] = agents[c]
        /\ agents'[a].task = t
        /\ \/ agents'[a].pc = "append"
           \/ agents'[a].pc = "close" /\ agents'[a].before = tasks[t].status
    BY <1>1, <1>2, BeginFlat
  <2>2. ~Busy(t) /\ UNCHANGED <<svc, tasks, visits, said, resumes>>
    BY <2>1 DEF MayBegin, told
  <2>3. CurrentOp(agents'[a], tasks'[t])
    BY <2>1 DEF CurrentOp
  <2>4. ConsoleOp(agents'[a], tasks'[t], resumes'[t])
    BY <2>1 DEF ConsoleOp
  <2>5. RowKept(Telegram, t, tasks'[t], visits[t], said'[t], resumes'[t])
    BY <1>1, <2>2
  <2> QED BY <1>1, <2>1, <2>2, <2>3, <2>4, <2>5, OwnStep
<1>3. CASE DeleteTask(a, t)
  <2>1. /\ UNCHANGED <<order, svc, agents, doc, runs, restarts, told>>
        /\ agents[a].pc = "idle" /\ MayBegin(t) /\ tasks'[t] = NoRow
        /\ \A s \in Task \ {t} : tasks'[s] = tasks[s]
    BY <1>1, <1>3, DeleteFlat
  <2>2. ~Busy(t) /\ UNCHANGED <<svc, visits, said, resumes>>
    BY <2>1 DEF MayBegin, told
  <2>3. agents'[a] = Idle
    BY <1>1, <2>1 DEF HandOk
  <2>4. CurrentOp(agents'[a], tasks'[t])
    BY <1>1, <2>3, IdleIsCurrent
  <2>5. RowKept(Telegram, t, tasks'[t], visits[t], said'[t], resumes'[t])
    <3>1. NoRow.status = "none" /\ NoRow.opened = FALSE
      BY <1>1, RowTypes
    <3> QED BY <1>1, <2>1, <2>2, <3>1 DEF RowKept
  <2> QED BY <1>1, <2>1, <2>2, <2>3, <2>4, <2>5, OwnStep
<1> QED BY <1>2, <1>3

LEMMA MovesAlone ==
  ASSUME Base, Alone, ~Overlap, UNCHANGED setting, NEW a \in Agents, MovesOn(a)
  PROVE  Alone'
<1> DEFINE t == agents[a].task
           op == agents[a]
           new == agents'[a]
<1>1. /\ setting \in Settings /\ HTypeOK /\ HandsInv
      /\ HandOk(Telegram, a, op) /\ CurrentOp(op, tasks[t])
  BY AloneFacts
<1>2. /\ UNCHANGED <<tasks, order, svc, restarts, visits, said>>
      /\ op.pc \in {"append", "close", "bind", "binding", "resume"}
      /\ t \in Task /\ \A c \in Agents \ {a} : agents'[c] = agents[c]
      /\ \/ new = Idle
         \/ /\ new.task = t /\ new.before = op.before
            /\ \/ /\ op.pc = "append" /\ new.pc = "appending"
                  /\ Exists(t) /\ new.row = WithTurn(tasks[t])
               \/ /\ op.pc = "close" /\ new.pc = "closing"
                  /\ Exists(t) /\ new.row = Closed(tasks[t])
               \/ /\ op.pc \in {"bind", "binding"}
                  /\ new.pc \in {"binding", "resume"} /\ new.row = op.row
  BY <1>1, MoveFlat
<1>3. \/ UNCHANGED resumes
      \/ /\ op.pc = "resume" /\ t \in Parking
         /\ \A s \in Task, w \in 1..MaxVisits :
              resumes'[s][w] = IF s = t /\ w = op.row.visit
                                 THEN resumes[s][w] + 1 ELSE resumes[s][w]
  BY <1>1, ResumesFlat
<1>4. /\ tasks[t] \in Row /\ RowKept(Telegram, t, tasks[t], visits[t], said[t], resumes[t])
      /\ \A v \in 1..MaxVisits : resumes[t][v] \in Nat
  BY <1>2, AloneFacts
<1>5. a \in Clients /\ t \notin Telegram => ConsoleOp(op, tasks[t], resumes[t])
  BY <1>2, AloneFacts
<1>6. t \notin Telegram => a \in Clients
  BY <1>1, <1>2, SettingFacts DEF HandOk, Agents
<1>7. CurrentOp(new, tasks[t])
  <2>1. CASE new = Idle
    BY <1>1, <2>1, IdleIsCurrent
  <2>2. CASE new # Idle
    BY <1>1, <1>2, <2>2 DEF CurrentOp, Exists
  <2> QED BY <2>1, <2>2
<1>8. new # Idle => UNCHANGED resumes
  BY <1>2, <1>3
<1>9. a \in Clients /\ t \notin Telegram /\ new # Idle => ConsoleOp(new, tasks[t], resumes'[t])
  BY <1>2, <1>5, <1>8 DEF ConsoleOp
<1>10. RowKept(Telegram, t, tasks[t], visits[t], said[t], resumes'[t])
  <2>1. CASE UNCHANGED resumes
    BY <1>4, <2>1
  <2>2. CASE /\ op.pc = "resume"
             /\ \A s \in Task, w \in 1..MaxVisits :
                  resumes'[s][w] = IF s = t /\ w = op.row.visit
                                     THEN resumes[s][w] + 1 ELSE resumes[s][w]
    <3>1. op.row = tasks[t] /\ tasks[t].status = "closed"
      BY <1>1, <2>2 DEF CurrentOp
    <3>2. tasks[t].visit = visits[t]
      BY <1>4, <3>1 DEF RowKept
    <3>3. \A w \in 1..MaxVisits : resumes'[t][w] = IF w = visits[t]
                                     THEN resumes[t][w] + 1 ELSE resumes[t][w]
      BY <1>2, <2>2, <3>1, <3>2
    <3>4. t \notin Telegram => \A w \in 1..MaxVisits : w = visits[t] => resumes[t][w] = 0
      BY <1>5, <1>6, <2>2, <3>1, <3>2 DEF ConsoleOp
    <3>5. \A w \in 1..MaxVisits : w \in Nat
      OBVIOUS
    <3> HIDE DEF t
    <3>6. \A w \in 1..MaxVisits : resumes'[t][w] > 0 => w <= visits[t]
      BY <1>4, <3>3, <3>5 DEF RowKept
    <3>7. t \notin Telegram => \A w \in 1..MaxVisits : resumes'[t][w] <= 1
      BY <1>4, <3>3, <3>4 DEF RowKept
    <3> QED BY <1>4, <3>1, <3>6, <3>7 DEF RowKept
  <2> QED BY <1>3, <2>1, <2>2
<1>11. \A s \in Task \ {t} : \A v \in 1..MaxVisits : resumes'[s][v] = resumes[s][v]
  BY <1>3
<1> QED BY <1>1, <1>2, <1>7, <1>9, <1>10, <1>11, OwnStep

\* A row written back over the row it was read as.
LEMMA RowAgain ==
  ASSUME NEW tg, NEW t, NEW row \in Row, NEW new \in Row, NEW visit, NEW turns \in Nat,
         NEW now \in Nat, NEW res,
         RowKept(tg, t, row, visit, turns, res), row.status # "none",
         new.visit = row.visit, new.status \in {row.status, "closed"},
         now - turns <= new.thread - row.thread
  PROVE  RowKept(tg, t, new, visit, now, res)
<1>1. row.thread \in Nat /\ new.thread \in Nat
  BY DEF Row
<1>2. turns <= row.thread => now <= new.thread
  BY <1>1
<1> QED BY <1>1, <1>2 DEF RowKept

LEMMA WritesAlone ==
  ASSUME Base, Alone, ~Overlap, UNCHANGED setting, NEW a \in Agents, WritesRow(a)
  PROVE  Alone'
<1> DEFINE t == agents[a].task
           op == agents[a]
           new == agents'[a]
<1>1. /\ setting \in Settings /\ HTypeOK /\ HandsInv
      /\ HandOk(Telegram, a, op) /\ CurrentOp(op, tasks[t])
  BY AloneFacts
<1>2. /\ UNCHANGED <<svc, doc, runs, restarts, visits, resumes, settled>>
      /\ op.pc \in {"appending", "closing"}
      /\ t \in Task /\ op.row \in Row /\ Upsert(t, op.row)
      /\ \A c \in Agents \ {a} : agents'[c] = agents[c]
      /\ \/ UNCHANGED said
         \/ op.pc = "appending" /\ said' = [said EXCEPT ![t] = @ + 1]
      /\ \/ new = Idle
         \/ /\ new.task = t /\ new.before = op.before /\ new.row = op.row
            /\ \/ op.pc = "appending" /\ new.pc = "append"
               \/ op.pc = "appending" /\ new.pc = op.then /\ op.then \in {"close", "mark"}
               \/ /\ op.pc = "closing" /\ new.pc \in {"bind", "resume"}
                  /\ op.before # "closed"
  BY <1>1, WriteFlat
<1>3. /\ tasks'[t] = op.row /\ \A s \in Task \ {t} : tasks'[s] = tasks[s]
  BY <1>1, <1>2, UpsertFlat
<1>4. /\ tasks[t] \in Row /\ RowKept(Telegram, t, tasks[t], visits[t], said[t], resumes[t])
      /\ said[t] \in Nat /\ said \in [Task -> Nat]
      /\ \A v \in 1..MaxVisits : resumes[t][v] \in Nat
  BY <1>1, <1>2, AloneFacts DEF HTypeOK
<1>5. a \in Clients /\ t \notin Telegram => ConsoleOp(op, tasks[t], resumes[t])
  BY <1>2, AloneFacts
<1>6. tasks[t].status # "none" /\ tasks[t].thread \in Nat
  BY <1>1, <1>2, <1>4 DEF CurrentOp, Row
<1>7. \/ /\ op.pc = "appending" /\ op.row = WithTurn(tasks[t])
         /\ op.row.thread = tasks[t].thread + 1 /\ op.row.status = tasks[t].status
         /\ op.row.visit = tasks[t].visit
      \/ /\ op.pc = "closing" /\ op.row = Closed(tasks[t])
         /\ op.row.thread = tasks[t].thread /\ op.row.status = "closed"
         /\ op.row.visit = tasks[t].visit
  <2>1. \/ op.pc = "appending" /\ op.row = WithTurn(tasks[t])
        \/ op.pc = "closing" /\ op.row = Closed(tasks[t])
    BY <1>1, <1>2 DEF CurrentOp
  <2> QED BY <2>1, <1>4, WithTurnRow, ClosedRow
<1>8. said'[t] \in Nat /\ \A s \in Task \ {t} : said'[s] = said[s]
  BY <1>2, <1>4
<1>9. \/ said'[t] = said[t]
      \/ op.pc = "appending" /\ said'[t] = said[t] + 1
  BY <1>2, <1>4
<1> HIDE DEF t, op, new
<1>10. said'[t] - said[t] <= op.row.thread - tasks[t].thread
  <2>1. CASE op.pc = "appending"
    <3>1. op.row.thread = tasks[t].thread + 1
      BY <1>7, <2>1
    <3>2. said'[t] = said[t] \/ said'[t] = said[t] + 1
      BY <1>9
    <3> QED BY <1>4, <1>6, <3>1, <3>2
  <2>2. CASE op.pc # "appending"
    <3>1. op.row.thread = tasks[t].thread /\ said'[t] = said[t]
      BY <1>7, <1>9, <2>2
    <3> QED BY <1>4, <1>6, <3>1
  <2> QED BY <2>1, <2>2
<1>11. RowKept(Telegram, t, tasks'[t], visits[t], said'[t], resumes'[t])
  <2>1. op.row.visit = tasks[t].visit /\ op.row.status \in {tasks[t].status, "closed"}
    BY <1>7
  <2>2. RowKept(Telegram, t, op.row, visits[t], said'[t], resumes[t])
    BY <1>2, <1>4, <1>6, <1>8, <1>10, <2>1, RowAgain
  <2> QED BY <1>2, <1>3, <2>2
<1>12. CurrentOp(new, tasks'[t])
  <2>1. CASE new = Idle
    BY <1>1, <2>1, IdleIsCurrent
  <2>2. CASE new # Idle
    <3>1. op.row.status # "none" /\ (op.pc = "closing" => op.row.status = "closed")
      BY <1>6, <1>7
    <3> QED BY <1>2, <1>3, <2>2, <3>1 DEF CurrentOp
  <2> QED BY <2>1, <2>2
<1>13. a \in Clients /\ t \notin Telegram /\ new # Idle => ConsoleOp(new, tasks'[t], resumes'[t])
  <2> SUFFICES ASSUME a \in Clients, t \notin Telegram, new # Idle
               PROVE  ConsoleOp(new, tasks'[t], resumes'[t])
    OBVIOUS
  <2>1. op.then = "end"
    BY <1>1 DEF HandOk
  <2>2. CASE op.pc = "appending"
    BY <1>2, <2>1, <2>2 DEF ConsoleOp
  <2>3. CASE op.pc = "closing"
    <3>1. new.row.visit = tasks[t].visit /\ new.pc \in {"bind", "resume"}
          /\ tasks[t].status # "closed"
      BY <1>2, <1>5, <1>7, <2>3 DEF ConsoleOp
    <3>2. \A v \in 1..MaxVisits : v = tasks[t].visit => ~(resumes[t][v] > 0)
      BY <1>4, <1>6, <3>1 DEF RowKept
    <3>3. \A v \in 1..MaxVisits : v = new.row.visit => resumes[t][v] = 0
      BY <1>4, <3>1, <3>2
    <3> QED BY <1>2, <3>1, <3>3 DEF ConsoleOp
  <2> QED BY <1>2, <2>2, <2>3
<1>14. /\ agents[a].task = t
       /\ agents'[a] = Idle \/ agents'[a].task = t
       /\ CurrentOp(agents'[a], tasks'[t])
       /\ a \in Clients /\ t \notin Telegram /\ agents'[a] # Idle =>
            ConsoleOp(agents'[a], tasks'[t], resumes'[t])
  BY <1>2, <1>12, <1>13 DEF t, new
<1>15. \A s \in Task \ {t} : /\ tasks'[s] = tasks[s] /\ said'[s] = said[s]
                              /\ \A v \in 1..MaxVisits : resumes'[s][v] = resumes[s][v]
  BY <1>2, <1>3, <1>8
<1>16. UNCHANGED <<setting, svc, visits>> /\ t \in Task
       /\ \A c \in Agents \ {a} : agents'[c] = agents[c]
  BY <1>2
<1> QED BY <1>11, <1>14, <1>15, <1>16, OwnStep

LEMMA BridgeAlone ==
  ASSUME Base, Alone, ~Overlap, UNCHANGED setting, NEW b \in Bridges, BridgeNext(b)
  PROVE  Alone'
<1>1. /\ setting \in Settings /\ HTypeOK /\ HandsInv /\ b \in Agents /\ b \notin Clients
      /\ HandOk(Telegram, b, agents[b]) /\ CurrentOp(agents[b], tasks[agents[b].task])
      /\ Telegram \subseteq Task /\ b \in Bridges
  BY AloneFacts, SettingFacts DEF Agents
<1>2. CASE Passes(b)
  <2>1. UNCHANGED hvars
    BY <1>2, PassesFlat
  <2> QED BY <2>1, StillAlone DEF hvars
<1>3. \* One of the bridge's operations begins.
      ASSUME NEW t \in Task, ~Busy(t), agents[b].pc = "idle",
             UNCHANGED <<tasks, order, svc, doc, runs, restarts, told>>,
             \A c \in Agents \ {b} : agents'[c] = agents[c],
             \/ agents'[b].pc = "append" /\ agents'[b].task = t
             \/ /\ agents'[b].pc = "save" /\ agents'[b].task = t
                /\ Exists(t) /\ tasks[t].cursor < bridge[b].high /\ bridge[b].high \in Nat
                /\ agents'[b].row = [tasks[t] EXCEPT !.cursor = bridge[b].high]
      PROVE  Alone'
  <2>1. RowKept(Telegram, t, tasks[t], visits[t], said[t], resumes[t]) /\ tasks[t] \in Row
    BY AloneFacts
  <2>2. CurrentOp(agents'[b], tasks[t])
    <3>1. CASE agents'[b].pc = "append"
      BY <3>1 DEF CurrentOp
    <3>2. CASE agents'[b].pc # "append"
      <4>1. agents'[b].row.cursor = bridge[b].high
        <5>1. [tasks[t] EXCEPT !.cursor = bridge[b].high].cursor = bridge[b].high
          BY <1>3, <2>1, <3>2 DEF Row
        <5> QED BY <1>3, <3>2, <5>1
      <4> QED BY <1>3, <3>2, <4>1 DEF CurrentOp, Exists
    <3> QED BY <3>1, <3>2
  <2>3. UNCHANGED <<setting, svc, visits, tasks, said, resumes>> /\ agents'[b].task = t
    BY <1>3 DEF told
  <2> QED BY <1>1, <1>3, <2>1, <2>2, <2>3, OwnStep
<1>4. \* The bridge writes the row it holds, with what it marks on it.
      ASSUME NEW t \in Task, agents[b].task = t, agents'[b] = Idle, NEW row \in Row,
             tasks[t].status # "none", tasks[t] \in Row,
             row.status = tasks[t].status, row.visit = tasks[t].visit,
             row.thread = tasks[t].thread, Upsert(t, row),
             UNCHANGED <<svc, doc, runs, restarts, told>>,
             \A c \in Agents \ {b} : agents'[c] = agents[c]
      PROVE  Alone'
  <2>1. tasks'[t] = row /\ \A s \in Task \ {t} : tasks'[s] = tasks[s]
    BY <1>1, <1>4, UpsertFlat
  <2>2. /\ RowKept(Telegram, t, tasks[t], visits[t], said[t], resumes[t])
        /\ said[t] \in Nat
    BY AloneFacts
  <2>3. UNCHANGED <<setting, svc, visits, said, resumes>>
    BY <1>4 DEF told
  <2>4. tasks[t].thread \in Nat
    BY <1>4 DEF Row
  <2>5. said[t] - said[t] <= row.thread - tasks[t].thread
    BY <1>4, <2>2, <2>4
  <2>6. RowKept(Telegram, t, row, visits[t], said[t], resumes[t])
    BY <1>4, <2>2, <2>5, RowAgain
  <2>7. CurrentOp(agents'[b], tasks'[t])
    BY <1>1, <1>4, IdleIsCurrent
  <2>8. RowKept(Telegram, t, tasks'[t], visits[t], said'[t], resumes'[t])
    BY <2>1, <2>3, <2>6
  <2> QED BY <1>1, <1>4, <2>1, <2>3, <2>7, <2>8, OwnStep
<1>5. CASE OpenSend(b)
  <2>1. /\ UNCHANGED <<tasks, order, svc, doc, runs, restarts, told>>
        /\ MayBegin(bridge[b].task)
        /\ bridge[b].task \in Telegram /\ agents[b].pc = "idle"
        /\ \A c \in Agents \ {b} : agents'[c] = agents[c]
        /\ agents'[b].pc = "append" /\ agents'[b].task = bridge[b].task
    BY <1>5, OpenSendFlat
  <2>2. ~Busy(bridge[b].task)
    BY <2>1 DEF MayBegin
  <2> QED BY <1>1, <1>3, <2>1, <2>2
<1>6. CASE OpenMark(b)
  <2> DEFINE t == agents[b].task
             row == Marked(agents[b].row, bridge[b].cursor)
  <2>1. /\ UNCHANGED <<svc, doc, runs, restarts, told>>
        /\ agents[b].pc = "mark" /\ t \in Telegram
        /\ agents[b].row \in Row /\ bridge[b].cursor \in Nat
        /\ Upsert(t, row)
        /\ \A c \in Agents \ {b} : agents'[c] = agents[c]
        /\ agents'[b] = Idle
    BY <1>6, OpenMarkFlat
  <2>2. agents[b].row = tasks[t] /\ tasks[t].status # "none" /\ tasks[t] \in Row
    BY <1>1, <2>1 DEF CurrentOp
  <2>3. /\ row \in Row /\ row.status = tasks[t].status /\ row.visit = tasks[t].visit
        /\ row.thread = tasks[t].thread
    BY <2>1, <2>2, MarkedRow
  <2> HIDE DEF row
  <2> QED BY <1>1, <1>4, <2>1, <2>2, <2>3
<1>7. ASSUME NEW t \in Task, Handle(b, t)
      PROVE  Alone'
  <2>1. /\ UNCHANGED <<tasks, order, svc, doc, runs, restarts, told>>
        /\ agents[b].pc = "idle"
        /\ \A c \in Agents \ {b} : agents'[c] = agents[c]
        /\ \/ agents'[b] = agents[b]
           \/ MayBegin(t) /\ agents'[b].pc = "append" /\ agents'[b].task = t
    BY <1>7, HandleFlat
  <2>2. CASE agents'[b] = agents[b]
    BY <2>1, <2>2, StillAlone DEF told
  <2>3. CASE MayBegin(t) /\ agents'[b].pc = "append" /\ agents'[b].task = t
    <3>1. ~Busy(t)
      BY <2>3 DEF MayBegin
    <3> QED BY <1>3, <2>1, <2>3, <3>1
  <2> QED BY <2>1, <2>2, <2>3
<1>8. ASSUME NEW t \in Task, SaveRead(b, t)
      PROVE  Alone'
  <2>1. /\ UNCHANGED <<tasks, order, svc, doc, runs, restarts, told>>
        /\ agents[b].pc = "idle" /\ MayBegin(t)
        /\ \A c \in Agents \ {b} : agents'[c] = agents[c]
        /\ \/ agents'[b] = Idle
           \/ /\ Exists(t) /\ tasks[t].cursor < bridge[b].high
              /\ agents'[b].pc = "save" /\ agents'[b].task = t
              /\ agents'[b].row = [tasks[t] EXCEPT !.cursor = bridge[b].high]
    BY <1>8, SaveReadFlat
  <2>2. ~Busy(t)
    BY <2>1 DEF MayBegin
  <2>3. bridge[b].high \in Nat
    BY RecParts DEF Base, TypeOK
  <2>4. CASE agents'[b] = Idle
    BY <2>1, <2>4, StillAlone DEF told
  <2>5. CASE agents'[b] # Idle
    BY <1>3, <2>1, <2>2, <2>3, <2>5
  <2> QED BY <2>4, <2>5
<1>9. CASE SaveWrite(b) \/ SaveFails(b)
  <2> DEFINE t == agents[b].task
             row == agents[b].row
  <2>1. /\ UNCHANGED <<svc, doc, runs, restarts, told>>
        /\ agents[b].pc = "save" /\ t \in Telegram /\ row \in Row
        /\ \A c \in Agents \ {b} : agents'[c] = agents[c]
        /\ agents'[b] = Idle
        /\ UNCHANGED <<tasks, order>> \/ Upsert(t, row)
    BY <1>9, SaveFlat
  <2>2. CASE UNCHANGED <<tasks, order>>
    BY <2>1, <2>2, StillAlone DEF told
  <2>3. CASE Upsert(t, row)
    <3>1. row = [tasks[t] EXCEPT !.cursor = row.cursor] /\ tasks[t].status # "none"
      BY <1>1, <2>1 DEF CurrentOp
    <3>2. tasks[t] \in Row /\ row.cursor \in Nat
      BY <1>1, <2>1, AloneFacts DEF Row
    <3>3. row.status = tasks[t].status /\ row.visit = tasks[t].visit
          /\ row.thread = tasks[t].thread
      <4> DEFINE new == [tasks[t] EXCEPT !.cursor = row.cursor]
      <4>1. new.status = tasks[t].status /\ new.visit = tasks[t].visit
            /\ new.thread = tasks[t].thread
        BY <3>2, CursorRow
      <4>2. row = new
        BY <3>1
      <4> HIDE DEF new, row
      <4> QED BY <4>1, <4>2
    <3> HIDE DEF row
    <3> QED BY <1>1, <1>4, <2>1, <2>3, <3>1, <3>2, <3>3
  <2> QED BY <2>1, <2>2, <2>3
<1> QED BY <1>2, <1>5, <1>6, <1>7, <1>8, <1>9 DEF BridgeNext, Passes

LEMMA AloneKept ==
  ASSUME Base, ~Overlap => Alone, [Next /\ UNCHANGED setting]_<<vars, setting>>
  PROVE  ~Overlap' => Alone'
<1> SUFFICES ASSUME ~Overlap, Alone, UNCHANGED setting, Next \/ UNCHANGED vars
             PROVE  Alone'
  BY DEF Overlap
<1>1. CASE UNCHANGED vars
  BY <1>1, StillAlone DEF vars, hvars
<1>2. CASE TaskStep
  <2>1. \/ \E t \in Task : SvcRead(t) \/ SvcWrite(t)
        \/ \E r \in Task \cup {Origin} : RunPushes(r) \/ RunLoads(r)
        \/ \E a \in Clients, t \in Task : BeginsOn(a, t) \/ DeleteTask(a, t)
        \/ \E a \in Agents : MovesOn(a) \/ WritesRow(a)
    BY <1>2 DEF TaskStep, ClientBegins, AgentNext, BeginsOn, MovesOn, WritesRow
  <2>2. ASSUME NEW r \in Task \cup {Origin}, RunPushes(r) \/ RunLoads(r)
        PROVE  Alone'
    <3>1. UNCHANGED <<tasks, svc, agents, told>>
      BY <2>2, RunFlat, AloneFacts
    <3> QED BY <3>1, StillAlone DEF told
  <2> QED BY <2>1, <2>2, SvcAlone, BeginsAlone, MovesAlone, WritesAlone
<1>3. ASSUME NEW chat \in Chat, NEW kind \in Kinds, Receive(chat, kind)
      PROVE  Alone'
  BY <1>3, StillAlone DEF Receive, hvars
<1>4. CASE Restart
  <2>1. HRestart
    BY <1>4 DEF Restart
  <2>2. /\ UNCHANGED <<tasks, told>> /\ \A t \in Task : ~svc'[t].busy
        /\ \A a \in Agents : agents'[a] = Idle
    BY <2>1, RestartFlat, AloneFacts
  <2> QED BY <2>2, StillAlone DEF told
<1> QED BY <1>1, <1>2, <1>3, <1>4, BridgeAlone DEF Next

LEMMA AloneInit ==
  ASSUME Init
  PROVE  Alone
<1>1. /\ setting \in Settings /\ HInit
  BY DEF Init, HInit
<1>2. /\ NoRow.status = "none" /\ NoRow.opened = FALSE /\ ~NoSvc.busy /\ Idle.task = Origin
      /\ Origin \notin Task /\ Telegram \subseteq Task
  BY <1>1, RowTypes, IdleType, SettingFacts DEF NoSvc
<1>3. Apart /\ SvcCurrent
  BY <1>1, <1>2 DEF HInit, Apart, SvcCurrent
<1>4. HandsCurrent
  BY <1>1, IdleIsCurrent DEF HInit, HandsCurrent
<1>5. RowsKept
  <2> SUFFICES ASSUME NEW t \in Task
               PROVE  RowKept(Telegram, t, tasks[t], visits[t], said[t], resumes[t])
    BY DEF RowsKept
  <2>1. /\ tasks[t].status = "none" /\ tasks[t].opened = FALSE
        /\ \A v \in 1..MaxVisits : resumes[t][v] = 0
    BY <1>1, <1>2 DEF HInit
  <2> QED BY <2>1 DEF RowKept
<1>6. ConsoleKept
  BY <1>1, <1>2 DEF HInit, ConsoleKept, Agents
<1> QED BY <1>3, <1>4, <1>5, <1>6 DEF Alone

\* No turn an AppendMessage acknowledged to a person, a model or the bridge is
\* missing from the thread of its visit: as long as operations on one do not
\* overlap, no whole-row write (close, mark opened, save cursor) drops one.
THEOREM TurnsAreKept == Spec => []TurnsKept
<1> DEFINE Inv == Base /\ (~Overlap => Alone)
<1>1. Init => Inv
  BY BaseInit, AloneInit
<1>2. Inv /\ [Next /\ UNCHANGED setting]_<<vars, setting>> => Inv'
  BY BaseKept, AloneKept
<1>3. Inv => TurnsKept
  BY DEF Alone, RowsKept, RowKept, TurnsKept, Exists
<1> QED BY <1>1, <1>2, <1>3, PTL DEF Spec

\* A task whose run was resumed is not open again in the same visit, and one
\* that the bridge does not hold resumes a visit once, for any number of
\* clients, failed context writes, deletions, visits and restarts, as long as
\* operations on one task do not overlap.
THEOREM ClosedStaysClosed == Spec => []ClosedForGood
<1> DEFINE Inv == Base /\ (~Overlap => Alone)
<1>1. Init => Inv
  BY BaseInit, AloneInit
<1>2. Inv /\ [Next /\ UNCHANGED setting]_<<vars, setting>> => Inv'
  BY BaseKept, AloneKept
<1>3. Inv => ClosedForGood
  <2> SUFFICES ASSUME Base, ~Overlap, Alone
               PROVE  ConsoleResumesOnce /\ ResumedStaysClosed
    BY DEF ClosedForGood
  <2>1. \A t \in Task : /\ RowKept(Telegram, t, tasks[t], visits[t], said[t], resumes[t])
                        /\ tasks[t] \in Row
    BY AloneFacts
  <2>2. \A row \in Row : row.visit > 0 => row.visit \in 1..MaxVisits
    BY SettingFacts DEF Row, Base
  <2>3. ResumedStaysClosed
    BY <2>1, <2>2 DEF ResumedStaysClosed, RowKept, Exists
  <2>4. ConsoleResumesOnce
    BY <2>1 DEF ConsoleResumesOnce, RowKept
  <2> QED BY <2>3, <2>4
<1> QED BY <1>1, <1>2, <1>3, PTL DEF Spec

-----------------------------------------------------------------------------
(* What is said to an open session                                         *)

OneBridge == \A b, c \in Bridges : b = c

\* What is owed is owed to a session of the update's chat that is open, has
\* spoken and has not come as far, and Telegram still has it.
OwedRows(tab, ow, str, fgt) ==
  \A o \in ow :
    /\ tab[o[1]].status = "open" /\ tab[o[1]].opened
    /\ o[2] \in 1..Len(str)
    /\ ChatOf[o[1]] = str[o[2]].chat
    /\ o[2] > fgt /\ o[2] > tab[o[1]].cursor

Opening == {"open", "opening", "sent"}
Draining == {"poll", "page", "turn", "ack"}

\* A pass opens sessions that have not spoken, polls from below what is owed
\* to the sessions it listed, and keeps it on its page until it is handled.
PassOwed(rec, op, tab, ow) ==
  /\ rec.pc \in Opening => \A t \in rec.todo : ~tab[t].opened
  /\ rec.pc \in {"opening", "sent"} => ~tab[rec.task].opened /\ rec.task \notin rec.todo
  /\ rec.pc \in Draining => \A t \in OnList(rec.list) : tab[t].opened => rec.list[t].opened
  /\ rec.pc = "poll" => \A o \in ow : \E s \in OnList(rec.list) : rec.list[s].cursor < o[2]
  /\ rec.pc \in Draining =>
       \A o \in ow : o[1] \in OnList(rec.list) =>
         rec.list[o[1]].opened /\ rec.list[o[1]].cursor < o[2]
  /\ rec.pc \in {"page", "turn"} =>
       \A o \in ow : o[1] \in OnList(rec.list) =>
         o[2] > rec.high \/ \E k \in 1..Len(rec.page) : rec.page[k] = o[2]
  /\ rec.pc = "ack" => \A o \in ow : o[1] \in OnList(rec.list) => o[2] > rec.high
  /\ rec.pc = "ack" /\ op.pc = "save" =>
       op.row.cursor = rec.high /\ op.task \in OnList(rec.list)

OwedInv == /\ OwedRows(tasks, owed, stream, forgotten)
           /\ \A b \in Bridges : PassOwed(bridge[b], agents[b], tasks, owed)

\* A pass is not disturbed by sessions that end or speak to nobody.
LEMMA PassOwedLess ==
  ASSUME NEW tg, NEW rec, NEW op, NEW op2, NEW tab, NEW tab2, NEW ow, NEW ow2,
         PassOwed(rec, op, tab, ow), PassOk(tg, rec, op), ow2 \subseteq ow,
         \A t \in tg : tab2[t].opened => tab[t].opened,
         rec.pc = "ack" => op2 = op
  PROVE  PassOwed(rec, op2, tab2, ow2)
BY DEF PassOwed, PassOk, Opening, Draining

\* The sessions after a step of HumanTasks.
SessionsKept ==
  \A t \in Telegram :
    /\ tasks'[t].opened => tasks[t].opened
    /\ tasks[t].status # "none" => \/ tasks'[t].cursor = tasks[t].cursor
                                   \/ tasks'[t].status # "open"
                                   \/ tasks'[t].visit # tasks[t].visit

LEMMA TaskStepRows ==
  ASSUME Base, Alone, ~Overlap, TaskStep, UNCHANGED setting
  PROVE  /\ SessionsKept
         /\ \A b \in Bridges : bridge[b].pc = "ack" => agents'[b] = agents[b]
<1>1. /\ setting \in Settings /\ HTypeOK /\ HandsInv /\ VisitsLeft /\ SvcCurrent
      /\ Telegram \subseteq Task /\ Clients \cap Bridges = {}
  BY AloneFacts, SettingFacts DEF Alone
<1>2. /\ \A t \in Task : tasks[t].visit = visits[t] \/ tasks[t].status = "none"
      /\ \A t \in Task : visits[t] \in Nat
  BY AloneFacts DEF RowKept
<1>3. \A b \in Bridges : bridge[b].pc = "ack" => agents[b].pc \in {"idle", "save"}
  BY DEF Base, PassInv, PassOk
<1>4. UNCHANGED tasks => SessionsKept
  <2> SUFFICES ASSUME UNCHANGED tasks PROVE SessionsKept
    OBVIOUS
  <2>1. \A t : tasks'[t] = tasks[t]
    OBVIOUS
  <2> QED BY <2>1 DEF SessionsKept
<1>5. ASSUME NEW t \in Task, SvcWrite(t)
      PROVE  SessionsKept /\ UNCHANGED agents
  <2>1. /\ UNCHANGED agents /\ svc[t].busy
        /\ FreshRow(t) \in Row /\ FreshRow(t).visit = visits[t] + 1
        /\ FreshRow(t).opened = svc[t].opened
        /\ Upsert(t, FreshRow(t))
    BY <1>1, <1>5, SvcWriteFlat
  <2>2. tasks'[t] = FreshRow(t) /\ \A s \in Task \ {t} : tasks'[s] = tasks[s]
    BY <1>1, <2>1, UpsertFlat
  <2>3. t \in Telegram => svc[t].opened = tasks[t].opened
    BY <1>1, <2>1 DEF SvcCurrent
  <2>4. tasks[t].status # "none" => tasks'[t].visit # tasks[t].visit
    BY <1>2, <2>1, <2>2
  <2> QED BY <1>1, <2>1, <2>2, <2>3, <2>4 DEF SessionsKept
<1>6. ASSUME NEW a \in Clients, NEW t \in Task, DeleteTask(a, t)
      PROVE  SessionsKept /\ UNCHANGED agents
  <2>1. /\ UNCHANGED agents /\ tasks'[t] = NoRow
        /\ \A s \in Task \ {t} : tasks'[s] = tasks[s]
    BY <1>1, <1>6, DeleteFlat DEF Agents
  <2>2. NoRow.status = "none" /\ NoRow.opened = FALSE
    BY <1>1, RowTypes
  <2> QED BY <1>1, <2>1, <2>2 DEF SessionsKept
<1>7. ASSUME NEW a \in Agents, WritesRow(a)
      PROVE  SessionsKept
  <2> DEFINE t == agents[a].task
  <2>1. /\ agents[a].pc \in {"appending", "closing"} /\ t \in Task
        /\ agents[a].row \in Row /\ Upsert(t, agents[a].row)
    BY <1>1, <1>7, WriteFlat
  <2>2. tasks'[t] = agents[a].row /\ \A s \in Task \ {t} : tasks'[s] = tasks[s]
    BY <1>1, <2>1, UpsertFlat
  <2>3. CurrentOp(agents[a], tasks[t]) /\ tasks[t] \in Row
    BY <2>1, AloneFacts
  <2>4. agents[a].row \in {WithTurn(tasks[t]), Closed(tasks[t])}
    BY <2>1, <2>3 DEF CurrentOp
  <2>5. /\ agents[a].row.opened = tasks[t].opened
        /\ agents[a].row.cursor = tasks[t].cursor
    BY <2>3, <2>4, WithTurnRow, ClosedRow
  <2> HIDE DEF t
  <2> QED BY <1>1, <2>1, <2>2, <2>5 DEF SessionsKept
<1>8. \A a \in Agents : MovesOn(a) \/ WritesRow(a) =>
        /\ agents[a].pc \notin {"idle", "save"}
        /\ \A b \in Bridges \ {a} : agents'[b] = agents[b]
  BY <1>1, MoveFlat, WriteFlat DEF Agents
<1>9. \A a \in Agents : MovesOn(a) => UNCHANGED tasks
  BY <1>1, MoveFlat
<1>10. \A a \in Clients, t \in Task : BeginsOn(a, t) =>
         UNCHANGED tasks /\ \A b \in Bridges : agents'[b] = agents[b]
  BY <1>1, BeginFlat DEF Agents
<1>11. \A r \in Task \cup {Origin} : RunPushes(r) \/ RunLoads(r) => UNCHANGED <<tasks, agents>>
  BY <1>1, RunFlat
<1>12. \A t \in Task : SvcRead(t) => UNCHANGED <<tasks, agents>>
  BY <1>1, SvcReadFlat
<1>13. \/ \E t \in Task : SvcRead(t) \/ SvcWrite(t)
       \/ \E r \in Task \cup {Origin} : RunPushes(r) \/ RunLoads(r)
       \/ \E a \in Clients, t \in Task : BeginsOn(a, t) \/ DeleteTask(a, t)
       \/ \E a \in Agents : MovesOn(a) \/ WritesRow(a)
  BY DEF TaskStep, ClientBegins, AgentNext, BeginsOn, MovesOn, WritesRow
<1>14. SessionsKept
  BY <1>4, <1>5, <1>6, <1>7, <1>9, <1>10, <1>11, <1>12, <1>13
<1>15. \A b \in Bridges : bridge[b].pc = "ack" => agents'[b] = agents[b]
  BY <1>3, <1>5, <1>6, <1>8, <1>10, <1>11, <1>12, <1>13
<1> QED BY <1>14, <1>15

LEMMA OwedTyped ==
  ASSUME Base
  PROVE  /\ \A o \in owed : o[1] \in Telegram /\ o[1] \in Task /\ o[2] \in Nat
         /\ Len(stream) \in Nat /\ Telegram \subseteq Task
         /\ \A t \in Task : tasks[t].cursor \in Nat
<1>1. /\ setting \in Settings /\ TypeOK /\ HTypeOK /\ Telegram \subseteq Task
      /\ MaxUpdates \in Nat
  BY SettingFacts DEF Base, TypeOK
<1>2. owed \in SUBSET (Telegram \X (1..MaxUpdates))
  BY <1>1 DEF TypeOK
<1> QED BY <1>1, <1>2 DEF TypeOK, HTypeOK, Row

LEMMA TaskStepOwed ==
  ASSUME Base, Alone, ~Overlap, OwedInv, TaskStep, UNCHANGED setting
  PROVE  OwedInv'
<1>1. /\ UNCHANGED <<stream, forgotten, bridge>>
      /\ owed' = {o \in owed : /\ tasks'[o[1]].status = "open"
                               /\ tasks'[o[1]].opened
                               /\ tasks'[o[1]].visit = tasks[o[1]].visit}
      /\ OwedRows(tasks, owed, stream, forgotten)
  BY DEF TaskStep, StillOwed, OwedInv
<1>2. SessionsKept /\ \A b \in Bridges : bridge[b].pc = "ack" => agents'[b] = agents[b]
  BY TaskStepRows
<1>3. \A o \in owed' : /\ o \in owed /\ tasks'[o[1]].status = "open" /\ tasks'[o[1]].opened
                       /\ tasks'[o[1]].cursor = tasks[o[1]].cursor
  BY <1>1, <1>2, OwedTyped DEF OwedRows, SessionsKept
<1>4. OwedRows(tasks', owed', stream, forgotten)
  BY <1>1, <1>3 DEF OwedRows
<1>5. ASSUME NEW b \in Bridges
      PROVE  PassOwed(bridge[b], agents'[b], tasks', owed')
  <2>1. PassOwed(bridge[b], agents[b], tasks, owed) /\ PassOk(Telegram, bridge[b], agents[b])
    BY DEF OwedInv, Base, PassInv
  <2> QED BY <1>1, <1>2, <2>1, PassOwedLess DEF SessionsKept
<1> QED BY <1>1, <1>4, <1>5 DEF OwedInv

LEMMA ReceiveOwed ==
  ASSUME Base, OwedInv, UNCHANGED setting,
         NEW chat \in Chat, NEW kind \in Kinds, Receive(chat, kind)
  PROVE  OwedInv'
<1> DEFINE n == Len(stream)
<1>1. /\ UNCHANGED <<hvars, forgotten, bridge, asked, handled>>
      /\ Len(stream') = n + 1
      /\ \A u \in 1..n : stream'[u] = stream[u]
      /\ stream'[n + 1].chat = chat
      /\ owed' = owed \cup (Sessions(chat) \X {n + 1})
  BY ReceiveFlat
<1>2. /\ OwedRows(tasks, owed, stream, forgotten) /\ n \in Nat
      /\ \A o \in owed : o[2] \in Nat /\ o[1] \in Telegram
      /\ UNCHANGED <<tasks, agents>>
      /\ \A t \in Task : tasks[t].cursor <= n /\ tasks[t].cursor \in Nat
      /\ forgotten <= n /\ forgotten \in Nat /\ Telegram \subseteq Task
  BY <1>1, OwedTyped, SettingFacts, SMTT(60) DEF OwedInv, hvars, Base, CursorsSeen, TypeOK
<1>3. \A o \in owed' \ owed :
        /\ o[2] = n + 1 /\ o[1] \in Telegram /\ ChatOf[o[1]] = chat
        /\ tasks[o[1]].status = "open" /\ tasks[o[1]].opened
  BY <1>1 DEF Sessions
<1> HIDE DEF n
<1>4. OwedRows(tasks', owed', stream', forgotten')
  <2> SUFFICES ASSUME NEW o \in owed'
               PROVE  /\ tasks[o[1]].status = "open" /\ tasks[o[1]].opened
                      /\ o[2] \in 1..(n + 1)
                      /\ ChatOf[o[1]] = stream'[o[2]].chat
                      /\ o[2] > forgotten /\ o[2] > tasks[o[1]].cursor
    BY <1>1, <1>2 DEF OwedRows
  <2>1. CASE o \in owed
    <3>1. o[2] \in 1..n
      BY <1>2, <2>1 DEF OwedRows, n
    <3> QED BY <1>1, <1>2, <2>1, <3>1 DEF OwedRows
  <2>2. CASE o \notin owed
    BY <1>1, <1>2, <1>3, <2>2
  <2> QED BY <2>1, <2>2
<1>5. ASSUME NEW b \in Bridges
      PROVE  PassOwed(bridge[b], agents[b], tasks, owed')
  <2> DEFINE rec == bridge[b]
  <2>1. /\ PassOwed(rec, agents[b], tasks, owed) /\ PassOk(Telegram, rec, agents[b])
        /\ SeenRec(rec, n) /\ rec.high \in Nat /\ rec.list \in [Task -> Row]
        /\ rec.high <= n
    BY RecParts DEF OwedInv, Base, PassInv, CursorsSeen, TypeOK, SeenRec, n
  <2>2. \A t \in OnList(rec.list) : rec.list[t].cursor \in Nat /\ rec.list[t].cursor < n + 1
    BY <1>2, <2>1 DEF SeenRec, OnList, Row
  <2> HIDE DEF rec
  <2>3. rec.high < n + 1
    BY <1>2, <2>1
  <2>4. rec.pc = "poll" => \A o \in owed' : \E s \in OnList(rec.list) : rec.list[s].cursor < o[2]
    <3>1. rec.pc = "poll" => OnList(rec.list) # {}
      BY <2>1 DEF PassOk
    <3> QED BY <1>3, <2>1, <2>2, <3>1 DEF PassOwed
  <2>5. rec.pc \in Draining =>
          \A o \in owed' : o[1] \in OnList(rec.list) =>
            rec.list[o[1]].opened /\ rec.list[o[1]].cursor < o[2]
    BY <1>3, <2>1, <2>2 DEF PassOwed
  <2>6. rec.pc \in {"page", "turn"} =>
          \A o \in owed' : o[1] \in OnList(rec.list) =>
            o[2] > rec.high \/ \E k \in 1..Len(rec.page) : rec.page[k] = o[2]
    BY <1>2, <1>3, <2>1, <2>3 DEF PassOwed
  <2>7. rec.pc = "ack" => \A o \in owed' : o[1] \in OnList(rec.list) => o[2] > rec.high
    BY <1>2, <1>3, <2>1, <2>3 DEF PassOwed
  <2>8. PassOwed(rec, agents[b], tasks, owed')
    BY <2>1, <2>4, <2>5, <2>6, <2>7 DEF PassOwed
  <2> QED BY <2>8 DEF rec
<1> QED BY <1>1, <1>2, <1>4, <1>5 DEF OwedInv

LEMMA PassesOwed ==
  ASSUME Base, OwedInv, UNCHANGED setting, NEW b \in Bridges, Passes(b)
  PROVE  /\ OwedRows(tasks, owed, stream, forgotten')
         /\ PassOwed(bridge'[b], agents[b], tasks, owed)
<1> DEFINE old == bridge[b]
           op == agents[b]
<1>1. /\ setting \in Settings /\ TypeOK /\ old \in Bridge /\ Len(stream) \in Nat
      /\ PassOk(Telegram, old, op) /\ SeenRec(old, Len(stream))
      /\ OwedRows(tasks, owed, stream, forgotten)
      /\ PassOwed(old, op, tasks, owed)
      /\ forgotten <= Len(stream) /\ forgotten \in Nat
  BY SettingFacts DEF Base, TypeOK, PassInv, CursorsSeen, OwedInv
<1>2. /\ \A o \in owed : o[2] \in Nat /\ o[1] \in Telegram /\ o[1] \in Task
      /\ \A o \in owed : o[2] > forgotten /\ o[2] <= Len(stream) /\ o[2] > tasks[o[1]].cursor
      /\ \A o \in owed : tasks[o[1]].status = "open" /\ tasks[o[1]].opened
  BY <1>1, OwedTyped DEF OwedRows
<1>3. AtRest \in Bridge /\ PassOwed(AtRest, op, tasks, owed)
  BY <1>1, RestType DEF PassOwed, Opening, Draining
<1>4. /\ Listed \in [Task -> Row] /\ OnList(Listed) = Live
      /\ \A t \in Live : Listed[t] = tasks[t]
      /\ \A o \in owed : o[1] \in Live
  BY <1>1, <1>2, ListFacts DEF Live
<1>5. order \in SUBSET (Task \X Task) /\ Live \subseteq Task
  BY <1>1, ListFacts, SettingFacts DEF TypeOK, HTypeOK
<1>6. \A rec \in Bridge : SetBridge(b, rec) => bridge'[b] = rec
  BY <1>1, BridgeFlat
<1>7. CASE Pass(b)
  <2> DEFINE rec == [AtRest EXCEPT !.pc = "open", !.list = Listed,
                       !.todo = {t \in Live : ~tasks[t].opened}]
  <2>1. SetBridge(b, rec) /\ UNCHANGED forgotten
    BY <1>7 DEF Pass
  <2>2. /\ rec \in Bridge /\ rec.pc = "open" /\ rec.todo = {t \in Live : ~tasks[t].opened}
    BY <1>3, <1>4, <1>5 DEF Bridge
  <2> HIDE DEF rec
  <2>3. PassOwed(rec, op, tasks, owed)
    BY <2>2 DEF PassOwed, Opening, Draining
  <2> QED BY <1>1, <1>6, <2>1, <2>2, <2>3
<1>8. CASE \E t \in Task : OpenCursor(b, t)
  <2>1. PICK t \in Task : OpenCursor(b, t)
    BY <1>8
  <2> DEFINE rec == [old EXCEPT !.pc = "opening", !.task = t,
                       !.todo = @ \ {t}, !.cursor = LatestUpdateID]
  <2>2. old.pc = "open" /\ SetBridge(b, rec) /\ t \in old.todo /\ UNCHANGED forgotten
    BY <2>1 DEF OpenCursor
  <2>3. LatestUpdateID \in Nat
    BY <1>1 DEF LatestUpdateID
  <2>4. /\ rec \in Bridge /\ rec.pc = "opening" /\ rec.task = t /\ rec.todo = old.todo \ {t}
    BY <1>1, <2>3 DEF Bridge
  <2> HIDE DEF rec
  <2>5. PassOwed(rec, op, tasks, owed)
    BY <1>1, <2>2, <2>4 DEF PassOwed, Opening, Draining
  <2> QED BY <1>1, <1>6, <2>2, <2>4, <2>5
<1>9. CASE OpenFails(b) \/ OpenGone(b)
  <2> DEFINE rec == [old EXCEPT !.pc = "open", !.task = Origin]
  <2>1. old.pc \in {"opening", "sent"} /\ SetBridge(b, rec) /\ UNCHANGED forgotten
    BY <1>9 DEF OpenFails, OpenGone
  <2>2. rec \in Bridge /\ rec.pc = "open" /\ rec.todo = old.todo
    BY <1>1 DEF Bridge
  <2> HIDE DEF rec
  <2>3. PassOwed(rec, op, tasks, owed)
    BY <1>1, <2>1, <2>2 DEF PassOwed, Opening, Draining
  <2> QED BY <1>1, <1>6, <2>1, <2>2, <2>3
<1>10. CASE Relist(b)
  <2> DEFINE rec == [AtRest EXCEPT !.pc = "poll", !.list = Listed, !.ranks = order]
  <2>1. /\ UNCHANGED forgotten
        /\ SetBridge(b, IF Live = {} THEN AtRest ELSE rec)
    BY <1>10 DEF Relist
  <2>2. rec \in Bridge /\ rec.pc = "poll" /\ rec.list = Listed
    BY <1>3, <1>4, <1>5 DEF Bridge
  <2> HIDE DEF rec
  <2>3. /\ \A t \in OnList(rec.list) : tasks[t].opened => rec.list[t].opened
        /\ \A o \in owed : o[1] \in OnList(rec.list) /\ rec.list[o[1]].opened
                           /\ rec.list[o[1]].cursor < o[2]
    BY <1>2, <1>4, <1>1, OwedTyped, <2>2
  <2>4. PassOwed(rec, op, tasks, owed)
    BY <2>2, <2>3 DEF PassOwed, Opening, Draining
  <2>5. CASE Live = {}
    BY <1>1, <1>3, <1>6, <2>1, <2>5
  <2>6. CASE Live # {}
    BY <1>1, <1>6, <2>1, <2>2, <2>4, <2>6
  <2> QED BY <2>5, <2>6
<1>11. CASE Poll(b)
  <2> DEFINE after == PollFrom(old.list)
             page == Page(after)
             rec == [old EXCEPT !.pc = "page", !.page = page, !.high = HighOf(page)]
  <2>1. /\ old.pc = "poll"
        /\ forgotten' = Larger(after, forgotten)
        /\ SetBridge(b, IF page = <<>> THEN AtRest ELSE rec)
    BY <1>11 DEF Poll
  <2>2. OnList(old.list) # {} /\ old.list \in [Task -> Row]
    BY <1>1, <2>1, RecParts DEF PassOk
  <2>3. /\ after \in Nat /\ after <= Len(stream)
        /\ \A t \in OnList(old.list) : after <= old.list[t].cursor /\ old.list[t].cursor \in Nat
    <3>1. \A t \in OnList(old.list) : old.list[t].cursor <= Len(stream) /\ old.list[t].cursor \in Nat
      BY <1>1, <2>2 DEF SeenRec, OnList, Row
    <3> QED BY <2>2, <3>1, PollFromIs
  <2>4. \A o \in owed : after < o[2]
    <3>1. \A o \in owed : \E t \in OnList(old.list) : old.list[t].cursor < o[2]
      BY <1>1, <2>1 DEF PassOwed
    <3> HIDE DEF after
    <3> QED BY <1>2, <2>3, <3>1
  <2> HIDE DEF after
  <2>5. PICK from, k \in Nat :
          /\ from = Larger(after, forgotten)
          /\ from + k <= Len(stream) /\ (k = 0 => from = Len(stream))
          /\ page \in Seq(1..MaxUpdates) /\ Len(page) = k
          /\ \A j \in 1..k : page[j] = from + j
          /\ k > 0 => page # <<>> /\ HighOf(page) = from + k
          /\ k = 0 => page = <<>>
    BY <1>1, <2>3, PageFacts
  <2>6. \A o \in owed : o[2] > from
    BY <1>1, <1>2, <2>3, <2>4, <2>5 DEF Larger
  <2>7. OwedRows(tasks, owed, stream, forgotten')
    BY <1>1, <2>1, <2>5, <2>6 DEF OwedRows
  <2>8. CASE page = <<>>
    BY <1>3, <1>6, <2>1, <2>7, <2>8
  <2>9. CASE page # <<>>
    <3>1. HighOf(page) \in Nat /\ HighOf(page) = from + k /\ k > 0
      BY <2>5, <2>9
    <3> HIDE DEF page
    <3>2. /\ rec \in Bridge /\ rec.pc = "page" /\ rec.list = old.list
          /\ rec.page = page /\ rec.high = from + k
      BY <1>1, <2>5, <3>1 DEF Bridge
    <3>3. SetBridge(b, rec)
      BY <2>1, <2>9
    <3> HIDE DEF rec
    <3>4. \A o \in owed : o[2] > rec.high \/ \E j \in 1..Len(rec.page) : rec.page[j] = o[2]
      <4> SUFFICES ASSUME NEW o \in owed, ~(o[2] > from + k)
                   PROVE  \E j \in 1..k : page[j] = o[2]
        BY <2>5, <3>2
      <4>1. o[2] - from \in 1..k
        BY <1>2, <2>5, <2>6
      <4>2. page[o[2] - from] = o[2]
        BY <1>2, <2>5, <4>1
      <4> QED BY <4>1, <4>2
    <3>5. PassOwed(rec, op, tasks, owed)
      BY <1>1, <2>1, <3>2, <3>4 DEF PassOwed, Opening, Draining
    <3> QED BY <1>6, <2>7, <3>2, <3>3, <3>5
  <2> QED BY <2>8, <2>9
<1>12. CASE PollFails(b)
  <2>1. SetBridge(b, AtRest) /\ UNCHANGED forgotten
    BY <1>12 DEF PollFails
  <2> QED BY <1>1, <1>3, <1>6, <2>1
<1>13. CASE Unrouted(b)
  <2> DEFINE rec == [old EXCEPT !.page = Tail(@)]
             u == Head(old.page)
  <2>1. /\ old.pc = "page" /\ old.page # <<>> /\ SetBridge(b, rec) /\ UNCHANGED forgotten
        /\ Candidates(old, u) = {}
    BY <1>13 DEF Unrouted
  <2>2. old.page \in Seq(1..MaxUpdates)
    BY <1>1, RecParts
  <2>3. /\ Tail(old.page) \in Seq(1..MaxUpdates) /\ u = old.page[1]
        /\ Len(Tail(old.page)) = Len(old.page) - 1 /\ Len(old.page) \in Nat
        /\ \A j \in 1..Len(Tail(old.page)) : Tail(old.page)[j] = old.page[j + 1]
    BY <2>1, <2>2, PageTail
  <2>4. /\ rec \in Bridge /\ rec.pc = old.pc /\ rec.list = old.list
        /\ rec.page = Tail(old.page) /\ rec.high = old.high
    BY <1>1, <2>3 DEF Bridge
  <2>5. \A o \in owed : o[1] \in OnList(old.list) => o[2] # u
    <3> SUFFICES ASSUME NEW o \in owed, o[1] \in OnList(old.list), o[2] = u
                 PROVE  FALSE
      OBVIOUS
    <3>1. old.list[o[1]].opened /\ old.list[o[1]].cursor < u
      BY <1>1, <2>1 DEF PassOwed, Draining
    <3>2. ChatOf[o[1]] = stream[u].chat
      BY <1>1 DEF OwedRows
    <3> QED BY <2>1, <3>1, <3>2 DEF Candidates
  <2> HIDE DEF rec, u
  <2>6. \A o \in owed : o[1] \in OnList(old.list) =>
          o[2] > old.high \/ \E j \in 1..Len(rec.page) : rec.page[j] = o[2]
    <3> SUFFICES ASSUME NEW o \in owed, o[1] \in OnList(old.list), ~(o[2] > old.high)
                 PROVE  \E j \in 1..Len(rec.page) : rec.page[j] = o[2]
      OBVIOUS
    <3>1. PICK k \in 1..Len(old.page) : old.page[k] = o[2]
      BY <1>1, <2>1 DEF PassOwed
    <3>2. k # 1
      BY <2>3, <2>5, <3>1
    <3>3. k - 1 \in 1..Len(rec.page) /\ (k - 1) + 1 = k
      BY <2>3, <2>4, <3>2
    <3> QED BY <2>3, <2>4, <3>1, <3>3
  <2>7. PassOwed(rec, op, tasks, owed)
    BY <1>1, <2>1, <2>4, <2>6 DEF PassOwed, Opening, Draining
  <2> QED BY <1>1, <1>6, <2>1, <2>4, <2>7
<1>14. CASE TurnOver(b)
  <2> DEFINE rec == [old EXCEPT !.pc = "page"]
  <2>1. old.pc = "turn" /\ SetBridge(b, rec) /\ UNCHANGED forgotten
    BY <1>14 DEF TurnOver
  <2>2. /\ rec \in Bridge /\ rec.pc = "page" /\ rec.list = old.list
        /\ rec.page = old.page /\ rec.high = old.high
    BY <1>1 DEF Bridge
  <2> HIDE DEF rec
  <2>3. PassOwed(rec, op, tasks, owed)
    BY <1>1, <2>1, <2>2 DEF PassOwed, Opening, Draining
  <2> QED BY <1>1, <1>6, <2>1, <2>2, <2>3
<1>15. CASE Acknowledge(b)
  <2> DEFINE rec == [old EXCEPT !.pc = "ack",
                       !.todo = {t \in OnList(old.list) : Behind(old.list[t], old.high)}]
  <2>1. old.pc = "page" /\ old.page = <<>> /\ SetBridge(b, rec) /\ UNCHANGED forgotten
    BY <1>15 DEF Acknowledge
  <2>2. rec \in Bridge /\ rec.pc = "ack" /\ rec.list = old.list /\ rec.high = old.high
    BY <1>1 DEF Bridge, OnList
  <2> HIDE DEF rec
  <2>3. op.pc = "idle"
    BY <1>1, <2>1 DEF PassOk
  <2>4. \A o \in owed : o[1] \in OnList(old.list) => o[2] > old.high
    BY <1>1, <2>1 DEF PassOwed
  <2>5. PassOwed(rec, op, tasks, owed)
    BY <1>1, <2>1, <2>2, <2>3, <2>4 DEF PassOwed, Opening, Draining
  <2> QED BY <1>1, <1>6, <2>1, <2>2, <2>5
<1>16. CASE PassOver(b)
  <2>1. SetBridge(b, AtRest) /\ UNCHANGED forgotten
    BY <1>16 DEF PassOver
  <2> QED BY <1>1, <1>3, <1>6, <2>1
<1> QED BY <1>7, <1>8, <1>9, <1>10, <1>11, <1>12, <1>13, <1>14, <1>15, <1>16 DEF Passes

LEMMA ActsOwed ==
  ASSUME Base, Alone, OwedInv, UNCHANGED setting, NEW b \in Bridges, Acts(b)
  PROVE  /\ OwedRows(tasks', owed', stream', forgotten')
         /\ PassOwed(bridge'[b], agents'[b], tasks', owed')
<1> DEFINE old == bridge[b]
           op == agents[b]
<1>1. /\ setting \in Settings /\ TypeOK /\ HTypeOK /\ old \in Bridge
      /\ PassOk(Telegram, old, op) /\ b \in Agents
      /\ OwedRows(tasks, owed, stream, forgotten)
      /\ PassOwed(old, op, tasks, owed)
      /\ Telegram \subseteq Task
  BY SettingFacts DEF Base, TypeOK, PassInv, OwedInv, Agents
<1>2. /\ \A o \in owed : o[2] \in Nat /\ o[1] \in Telegram /\ o[1] \in Task
      /\ \A o \in owed : tasks[o[1]].status = "open" /\ tasks[o[1]].opened
  BY <1>1, OwedTyped DEF OwedRows
<1>3. CASE OpenSend(b)
  <2>1. /\ UNCHANGED <<tasks, stream, forgotten, owed>>
        /\ old.pc = "opening"
        /\ bridge'[b].pc = "sent" /\ bridge'[b].task = old.task
        /\ bridge'[b].todo = old.todo
    BY <1>3, OpenSendFlat
  <2>2. PassOwed(bridge'[b], agents'[b], tasks, owed)
    BY <1>1, <2>1 DEF PassOwed, Opening, Draining
  <2> QED BY <1>1, <2>1, <2>2
<1>4. CASE OpenMark(b)
  <2> DEFINE t == op.task
             row == Marked(op.row, old.cursor)
  <2>1. /\ UNCHANGED <<stream, forgotten, owed>>
        /\ old.pc = "sent" /\ t = old.task /\ t \in Telegram
        /\ op.row \in Row /\ old.cursor \in Nat
        /\ Upsert(t, row)
        /\ bridge'[b].pc = "open" /\ bridge'[b].todo = old.todo
    BY <1>4, OpenMarkFlat
  <2>2. row \in Row
    BY <2>1, MarkedRow
  <2>3. \A s \in Task \ {t} : tasks'[s] = tasks[s]
    BY <1>1, <2>1, <2>2, UpsertFlat
  <2>4. ~tasks[t].opened /\ t \notin old.todo
    BY <1>1, <2>1 DEF PassOwed
  <2> HIDE DEF t, row
  <2>5. \A o \in owed : tasks'[o[1]] = tasks[o[1]]
    BY <1>2, <2>3, <2>4
  <2>6. OwedRows(tasks', owed, stream, forgotten)
    BY <1>1, <2>5 DEF OwedRows
  <2>7. \A s \in old.todo : ~tasks'[s].opened
    <3>1. \A s \in old.todo : s \in Telegram /\ s # t /\ ~tasks[s].opened
      BY <1>1, <2>1, <2>4 DEF PassOwed, PassOk, Opening
    <3> QED BY <1>1, <2>3, <3>1
  <2>8. PassOwed(bridge'[b], agents'[b], tasks', owed)
    BY <2>1, <2>7 DEF PassOwed, Opening, Draining
  <2> QED BY <2>1, <2>6, <2>8
<1>5. ASSUME NEW t \in Task, Handle(b, t)
      PROVE  /\ OwedRows(tasks', owed', stream', forgotten')
             /\ PassOwed(bridge'[b], agents'[b], tasks', owed')
  <2> DEFINE u == Head(old.page)
             rec == bridge'[b]
  <2>1. /\ UNCHANGED <<tasks, stream, forgotten>>
        /\ old.pc = "page" /\ old.page # <<>>
        /\ owed' = {o \in owed : o[2] # u}
        /\ rec.pc \in {"page", "turn"} /\ rec.page = Tail(old.page)
        /\ rec.list = old.list /\ rec.high = old.high
    BY <1>5, HandleFlat
  <2>2. OwedRows(tasks', owed', stream', forgotten')
    BY <1>1, <2>1 DEF OwedRows
  <2>3. old.page \in Seq(1..MaxUpdates)
    BY <1>1, RecParts
  <2>4. /\ u = old.page[1]
        /\ Len(rec.page) = Len(old.page) - 1 /\ Len(old.page) \in Nat
        /\ \A j \in 1..Len(rec.page) : rec.page[j] = old.page[j + 1]
    BY <2>1, <2>3, PageTail
  <2> HIDE DEF u, rec
  <2>5. \A o \in owed' : o[1] \in OnList(old.list) =>
          o[2] > old.high \/ \E j \in 1..Len(rec.page) : rec.page[j] = o[2]
    <3> SUFFICES ASSUME NEW o \in owed', o[1] \in OnList(old.list), ~(o[2] > old.high)
                 PROVE  \E j \in 1..Len(rec.page) : rec.page[j] = o[2]
      OBVIOUS
    <3>1. PICK k \in 1..Len(old.page) : old.page[k] = o[2]
      BY <1>1, <2>1 DEF PassOwed
    <3>2. k # 1
      BY <2>1, <2>4, <3>1
    <3>3. k - 1 \in 1..Len(rec.page) /\ (k - 1) + 1 = k
      BY <2>4, <3>2
    <3> QED BY <2>4, <3>1, <3>3
  <2>6. PassOwed(rec, agents'[b], tasks, owed')
    BY <1>1, <2>1, <2>5 DEF PassOwed, Opening, Draining
  <2> QED BY <2>1, <2>2, <2>6 DEF rec
<1>6. ASSUME NEW t \in Task, SaveRead(b, t)
      PROVE  /\ OwedRows(tasks', owed', stream', forgotten')
             /\ PassOwed(bridge'[b], agents'[b], tasks', owed')
  <2>1. /\ UNCHANGED <<tasks, stream, forgotten, owed>>
        /\ old.pc = "ack" /\ t \in old.todo
        /\ bridge'[b].pc = "ack" /\ bridge'[b].list = old.list /\ bridge'[b].high = old.high
        /\ \/ agents'[b] = Idle
           \/ /\ agents'[b].task = t
              /\ agents'[b].row = [tasks[t] EXCEPT !.cursor = old.high]
    BY <1>6, SaveReadFlat
  <2>2. t \in OnList(old.list)
    BY <1>1, <2>1 DEF PassOk
  <2>3. Idle.pc = "idle"
    BY <1>1, IdleType
  <2>4. [tasks[t] EXCEPT !.cursor = old.high].cursor = old.high
    BY <1>1 DEF HTypeOK, Row
  <2>5. agents'[b].pc = "save" =>
          agents'[b].row.cursor = old.high /\ agents'[b].task \in OnList(old.list)
    BY <2>1, <2>2, <2>3, <2>4
  <2>6. PassOwed(bridge'[b], agents'[b], tasks, owed)
    BY <1>1, <2>1, <2>5 DEF PassOwed, Opening, Draining
  <2> QED BY <1>1, <2>1, <2>6
<1>7. CASE SaveWrite(b) \/ SaveFails(b)
  <2> DEFINE t == op.task
             row == op.row
  <2>1. /\ UNCHANGED <<stream, forgotten, bridge, owed>>
        /\ op.pc = "save" /\ t \in Telegram /\ row \in Row
        /\ agents'[b] = Idle
        /\ UNCHANGED <<tasks, order>> \/ Upsert(t, row)
    BY <1>7, SaveFlat
  <2>2. Idle.pc = "idle"
    BY <1>1, IdleType
  <2>3. old.pc = "ack"
    BY <1>1, <2>1 DEF PassOk
  <2>4. row.cursor = old.high /\ t \in OnList(old.list)
    BY <1>1, <2>1, <2>3 DEF PassOwed
  <2>5. CASE UNCHANGED <<tasks, order>>
    <3>1. PassOwed(old, agents'[b], tasks, owed)
      BY <1>1, <2>1, <2>2 DEF PassOwed
    <3> QED BY <1>1, <2>1, <2>5, <3>1
  <2>6. CASE Upsert(t, row)
    <3>1. tasks'[t] = row /\ \A s \in Task \ {t} : tasks'[s] = tasks[s]
      BY <1>1, <2>1, <2>6, UpsertFlat
    <3>2. row = [tasks[t] EXCEPT !.cursor = row.cursor] /\ tasks[t] \in Row /\ row.cursor \in Nat
      <4>1. CurrentOp(op, tasks[t])
        BY <1>1, AloneFacts
      <4> QED BY <1>1, <2>1, <4>1, AloneFacts DEF CurrentOp, Row
    <3>3. row.status = tasks[t].status /\ row.opened = tasks[t].opened
      <4> DEFINE new == [tasks[t] EXCEPT !.cursor = row.cursor]
      <4>1. new.status = tasks[t].status /\ new.opened = tasks[t].opened
        BY <3>2, CursorRow
      <4>2. row = new
        BY <3>2
      <4> HIDE DEF new, row
      <4> QED BY <4>1, <4>2
    <3> HIDE DEF t, row
    <3>4. \A s \in Telegram : tasks'[s].opened = tasks[s].opened
      BY <1>1, <3>1, <3>3
    <3>5. \A o \in owed : o[1] = t => o[2] > row.cursor
      BY <1>1, <2>3, <2>4 DEF PassOwed
    <3>6. OwedRows(tasks', owed, stream, forgotten)
      <4>1. \A o \in owed : /\ tasks'[o[1]].status = tasks[o[1]].status
                            /\ tasks'[o[1]].opened = tasks[o[1]].opened
                            /\ \/ tasks'[o[1]].cursor = tasks[o[1]].cursor
                               \/ tasks'[o[1]].cursor = row.cursor /\ o[1] = t
        BY <1>2, <3>1, <3>3
      <4> QED BY <1>1, <3>5, <4>1 DEF OwedRows
    <3>7. PassOwed(old, agents'[b], tasks', owed)
      <4>1. OnList(old.list) \subseteq Telegram
        BY <1>1 DEF PassOk
      <4> QED BY <1>1, <2>1, <2>2, <2>3, <3>4, <4>1 DEF PassOwed, Opening
    <3> QED BY <2>1, <3>6, <3>7
  <2> QED BY <2>1, <2>5, <2>6
<1> QED BY <1>3, <1>4, <1>5, <1>6, <1>7 DEF Acts

LEMMA OwedKept ==
  ASSUME OneBridge, Base, ~Overlap => Alone /\ OwedInv,
         [Next /\ UNCHANGED setting]_<<vars, setting>>
  PROVE  ~Overlap' => OwedInv'
<1> SUFFICES ASSUME ~Overlap, Alone, OwedInv, UNCHANGED setting, Next \/ UNCHANGED vars
             PROVE  OwedInv'
  BY DEF Overlap
<1>1. CASE UNCHANGED vars
  BY <1>1 DEF OwedInv, vars, hvars, bvars
<1>2. CASE TaskStep
  BY <1>2, TaskStepOwed
<1>3. ASSUME NEW chat \in Chat, NEW kind \in Kinds, Receive(chat, kind)
      PROVE  OwedInv'
  BY <1>3, ReceiveOwed
<1>4. ASSUME NEW b \in Bridges, BridgeNext(b)
      PROVE  OwedInv'
  <2>1. Passes(b) \/ Acts(b)
    BY <1>4 DEF BridgeNext, Passes, Acts
  <2>2. /\ OwedRows(tasks', owed', stream', forgotten')
        /\ PassOwed(bridge'[b], agents'[b], tasks', owed')
    <3>1. CASE Passes(b)
      BY <3>1, PassesFlat, PassesOwed DEF hvars
    <3>2. CASE Acts(b)
      BY <3>2, ActsOwed
    <3> QED BY <2>1, <3>1, <3>2
  <2> QED BY <2>2 DEF OwedInv, OneBridge
<1>5. CASE Restart
  <2>1. /\ UNCHANGED <<tasks, stream, forgotten, owed>>
        /\ bridge' = [b \in Bridges |-> AtRest]
    BY <1>5 DEF Restart, HRestart, UnchangedTable
  <2>2. AtRest.pc = "idle"
    BY RestType DEF Base
  <2>3. \A op : PassOwed(AtRest, op, tasks, owed)
    BY <2>2 DEF PassOwed, Opening, Draining
  <2> QED BY <2>1, <2>3 DEF OwedInv
<1> QED BY <1>1, <1>2, <1>3, <1>4, <1>5 DEF Next

LEMMA OwedInit ==
  ASSUME Init
  PROVE  OwedInv
<1>1. owed = {} /\ bridge = [b \in Bridges |-> AtRest] /\ AtRest.pc = "idle"
  BY DEF Init, AtRest
<1> QED BY <1>1 DEF OwedInv, OwedRows, PassOwed, Opening, Draining

\* With the one goroutine that StartHitlTelegramBridge starts, what a chat says
\* to an open session that has spoken stays ahead of its cursor and of the
\* offset the bot polls from until it is handled or the session ends, whatever
\* polls and cursor writes fail, whatever other sessions and restarts do.
THEOREM WhatIsOwedIsKept ==
  ASSUME OneBridge
  PROVE  Spec => []OwedIsKept
<1> DEFINE Inv == Base /\ (~Overlap => Alone /\ OwedInv)
<1>1. Init => Inv
  BY BaseInit, AloneInit, OwedInit
<1>2. Inv /\ [Next /\ UNCHANGED setting]_<<vars, setting>> => Inv'
  BY BaseKept, AloneKept, OwedKept
<1>3. Inv => OwedIsKept
  BY DEF OwedInv, OwedRows, OwedIsKept
<1> QED BY <1>1, <1>2, <1>3, PTL DEF Spec

-----------------------------------------------------------------------------
(* What is handed out, where nothing fails and nothing is visited again     *)

Quiet == ~Overlap /\ setting.visits = 1 /\ ~CursorFails /\ setting.restarts = 0

\* The session takes no update up to u any more.
DoneWith(row, u) == row.status # "open" \/ ~row.opened \/ row.cursor >= u

\* An update handed out is one Telegram has dropped, or no open session is
\* behind it but those that this pass is going to move: by the mark that opens
\* them, or by the cursors it saves.
PassHandled(tg, rec, op, tab, hnd, fgt) ==
  /\ rec.pc \in Draining =>
       \A t \in tg : tab[t].status = "open" /\ tab[t].opened =>
         t \in OnList(rec.list) /\ tab[t].cursor >= rec.list[t].cursor
  /\ rec.pc \in {"idle", "poll"} \cup Opening =>
       \A u \in 1..MaxUpdates : hnd[u] > 0 =>
         u <= fgt \/ \A t \in tg : DoneWith(tab[t], u)
  /\ rec.pc \in {"opening", "sent"} =>
       \A u \in 1..MaxUpdates : hnd[u] > 0 => u <= fgt \/ u <= rec.cursor
  /\ rec.pc = "poll" =>
       \A u \in 1..MaxUpdates : hnd[u] > 0 =>
         u <= fgt \/ \A t \in OnList(rec.list) : rec.list[t].opened => rec.list[t].cursor >= u
  /\ rec.pc \in {"page", "turn"} =>
       /\ \A u \in 1..MaxUpdates : hnd[u] > 0 =>
            u <= fgt \/ u <= rec.high \/ \A t \in tg : DoneWith(tab[t], u)
       /\ \A k \in 1..Len(rec.page) : rec.page[k] <= rec.high
       /\ \A j, k \in 1..Len(rec.page) : j < k => rec.page[j] < rec.page[k]
       /\ \A k \in 1..Len(rec.page) : hnd[rec.page[k]] > 0 =>
            \A t \in OnList(rec.list) : rec.list[t].opened => rec.list[t].cursor >= rec.page[k]
  /\ rec.pc = "ack" =>
       \A u \in 1..MaxUpdates : hnd[u] > 0 =>
         \/ u <= fgt
         \/ \A t \in tg : \/ DoneWith(tab[t], u)
                          \/ u <= rec.high /\ (t \in rec.todo \/ (op.pc = "save" /\ op.task = t))

HandledSeen == \A u \in 1..MaxUpdates : handled[u] <= 1 /\ (handled[u] > 0 => u <= Len(stream))

HandledInv ==
  /\ HandledSeen
  /\ \A b \in Bridges : PassHandled(Telegram, bridge[b], agents[b], tasks, handled, forgotten)

\* Sessions that open and move on only by the bridge's own statements.
LEMMA PassHandledLess ==
  ASSUME NEW tg, NEW rec, NEW op, NEW op2, NEW tab, NEW tab2, NEW hnd, NEW fgt,
         PassHandled(tg, rec, op, tab, hnd, fgt),
         \A t \in tg : tab2[t].status = "open" /\ tab2[t].opened =>
           /\ tab[t].status = "open" /\ tab[t].opened
           /\ tab2[t].cursor = tab[t].cursor,
         rec.pc = "ack" => op2 = op
  PROVE  PassHandled(tg, rec, op2, tab2, hnd, fgt)
<1>1. \A t \in tg : \A u : DoneWith(tab[t], u) => DoneWith(tab2[t], u)
  BY DEF DoneWith
<1> QED BY <1>1 DEF PassHandled

\* The sessions after a step of HumanTasks that no second visit takes.
LEMMA TaskStepOnce ==
  ASSUME Base, Alone, Quiet, TaskStep, UNCHANGED setting
  PROVE  /\ \A t \in Telegram : tasks'[t].status = "open" /\ tasks'[t].opened =>
              /\ tasks[t].status = "open" /\ tasks[t].opened
              /\ tasks'[t].cursor = tasks[t].cursor
         /\ \A t \in Task :
              /\ visits'[t] >= visits[t]
              /\ visits[t] > 0 /\ tasks[t].status = "none" => tasks'[t].status = "none"
              /\ tasks[t].opened => tasks'[t].opened \/ tasks'[t].status = "none"
         /\ \A b \in Bridges : bridge[b].pc = "ack" => agents'[b] = agents[b]
         /\ \A b \in Bridges : bridge[b].pc = "sent" /\ agents'[b].pc = "idle" =>
              agents[b].pc = "idle" \/ tasks'[bridge[b].task].status = "none"
<1> DEFINE Sessions1 ==
             /\ \A t \in Telegram : tasks'[t].status = "open" /\ tasks'[t].opened =>
                  /\ tasks[t].status = "open" /\ tasks[t].opened
                  /\ tasks'[t].cursor = tasks[t].cursor
             /\ \A t \in Task :
                  /\ visits'[t] >= visits[t]
                  /\ visits[t] > 0 /\ tasks[t].status = "none" => tasks'[t].status = "none"
                  /\ tasks[t].opened => tasks'[t].opened \/ tasks'[t].status = "none"
           Sent1 == \A b \in Bridges : bridge[b].pc = "sent" /\ agents'[b].pc = "idle" =>
                      agents[b].pc = "idle" \/ tasks'[bridge[b].task].status = "none"
<1>1. /\ setting \in Settings /\ HTypeOK /\ HandsInv /\ VisitsLeft /\ SvcCurrent
      /\ Telegram \subseteq Task /\ Clients \cap Bridges = {}
      /\ setting.visits = 1 /\ ~Overlap
  BY AloneFacts, SettingFacts DEF Alone, Quiet
<1>2. \A t \in Task : /\ tasks[t].status # "none" => visits[t] > 0
                      /\ tasks[t].status = "none" => ~tasks[t].opened
                      /\ visits[t] \in Nat
  BY AloneFacts DEF RowKept
<1>3. \A b \in Bridges : bridge[b].pc = "sent" /\ agents[b].pc # "idle" =>
        /\ agents[b].task = bridge[b].task /\ agents[b].then = "mark"
        /\ agents[b].pc \in {"append", "appending", "mark"}
        /\ agents[b].pc # "mark" => agents[b].todo = <<"told">>
  BY DEF Base, PassInv, PassOk
<1>4. UNCHANGED <<tasks, visits>> => Sessions1
  <2> SUFFICES ASSUME UNCHANGED <<tasks, visits>> PROVE Sessions1
    OBVIOUS
  <2>1. \A t : tasks'[t] = tasks[t] /\ visits'[t] = visits[t]
    OBVIOUS
  <2> QED BY <1>2, <2>1
<1>5. ASSUME NEW t \in Task, SvcWrite(t)
      PROVE  Sessions1 /\ UNCHANGED agents
  <2>1. /\ UNCHANGED agents /\ svc[t].busy /\ visits[t] < 1
        /\ FreshRow(t) \in Row
        /\ FreshRow(t).opened = svc[t].opened
        /\ Upsert(t, FreshRow(t))
        /\ visits'[t] = visits[t] + 1
        /\ \A s \in Task \ {t} : visits'[s] = visits[s]
    BY <1>1, <1>5, SvcWriteFlat
  <2>2. tasks'[t] = FreshRow(t) /\ \A s \in Task \ {t} : tasks'[s] = tasks[s]
    BY <1>1, <2>1, UpsertFlat
  <2>3. ~tasks[t].opened /\ ~(visits[t] > 0)
    BY <1>2, <2>1
  <2>4. t \in Telegram => ~tasks'[t].opened
    BY <1>1, <2>1, <2>2, <2>3 DEF SvcCurrent
  <2> QED BY <1>1, <1>2, <2>1, <2>2, <2>3, <2>4
<1>6. ASSUME NEW a \in Clients, NEW t \in Task, DeleteTask(a, t)
      PROVE  Sessions1 /\ UNCHANGED agents
  <2>1. /\ UNCHANGED <<agents, visits>> /\ tasks'[t] = NoRow
        /\ \A s \in Task \ {t} : tasks'[s] = tasks[s]
    BY <1>1, <1>6, DeleteFlat DEF Agents, told
  <2>2. NoRow.status = "none" /\ NoRow.opened = FALSE
    BY <1>1, RowTypes
  <2>3. \A s : visits'[s] = visits[s]
    BY <2>1
  <2> QED BY <1>1, <1>2, <2>1, <2>2, <2>3
<1>7. ASSUME NEW a \in Agents, WritesRow(a)
      PROVE  Sessions1 /\ Sent1
  <2> DEFINE t == agents[a].task
  <2>1. /\ agents[a].pc \in {"appending", "closing"} /\ t \in Task
        /\ agents[a].row \in Row /\ Upsert(t, agents[a].row) /\ UNCHANGED visits
        /\ \A c \in Agents \ {a} : agents'[c] = agents[c]
        /\ agents'[a].pc = "idle" => agents[a].then # "mark" \/ agents[a].pc = "closing"
    BY <1>1, <1>7, WriteFlat, IdleType
  <2>2. tasks'[t] = agents[a].row /\ \A s \in Task \ {t} : tasks'[s] = tasks[s]
    BY <1>1, <2>1, UpsertFlat
  <2>3. CurrentOp(agents[a], tasks[t]) /\ tasks[t] \in Row
    BY <2>1, AloneFacts
  <2>4. /\ agents[a].row \in {WithTurn(tasks[t]), Closed(tasks[t])}
        /\ tasks[t].status # "none"
    BY <2>1, <2>3 DEF CurrentOp
  <2>5. /\ agents[a].row.opened = tasks[t].opened
        /\ agents[a].row.cursor = tasks[t].cursor
        /\ agents[a].row.status \in {tasks[t].status, "closed"}
    BY <2>3, <2>4, WithTurnRow, ClosedRow
  <2>6. Sent1
    BY <1>3, <2>1 DEF Agents
  <2>7. \A s : visits'[s] = visits[s]
    BY <2>1
  <2> HIDE DEF t, Sent1
  <2> QED BY <1>1, <1>2, <2>1, <2>2, <2>4, <2>5, <2>6, <2>7
<1>8. ASSUME NEW a \in Agents, MovesOn(a)
      PROVE  UNCHANGED <<tasks, visits>> /\ Sent1
  <2>1. /\ UNCHANGED <<tasks, visits>>
        /\ \A c \in Agents \ {a} : agents'[c] = agents[c]
        /\ agents[a].pc # "idle"
        /\ agents'[a].pc = "idle" /\ agents[a].pc = "append" /\ agents[a].todo = <<"told">>
             => ~Exists(agents[a].task)
        /\ agents[a].pc \in {"append", "close", "bind", "binding", "resume"}
    BY <1>1, <1>8, MoveFlat
  <2> QED BY <1>3, <2>1 DEF Exists, Agents
<1>9. \A a \in Clients, t \in Task : BeginsOn(a, t) =>
         UNCHANGED <<tasks, visits>> /\ \A b \in Bridges : agents'[b] = agents[b]
  BY <1>1, BeginFlat DEF Agents, told
<1>10. \A r \in Task \cup {Origin} : RunPushes(r) \/ RunLoads(r) => UNCHANGED <<tasks, visits, agents>>
  BY <1>1, RunFlat DEF told
<1>11. \A t \in Task : SvcRead(t) => UNCHANGED <<tasks, visits, agents>>
  BY <1>1, SvcReadFlat DEF told
<1>12. \/ \E t \in Task : SvcRead(t) \/ SvcWrite(t)
       \/ \E r \in Task \cup {Origin} : RunPushes(r) \/ RunLoads(r)
       \/ \E a \in Clients, t \in Task : BeginsOn(a, t) \/ DeleteTask(a, t)
       \/ \E a \in Agents : MovesOn(a) \/ WritesRow(a)
  BY DEF TaskStep, ClientBegins, AgentNext, BeginsOn, MovesOn, WritesRow
<1> HIDE DEF Sessions1
<1>13. Sessions1
  BY <1>4, <1>5, <1>6, <1>7, <1>8, <1>9, <1>10, <1>11, <1>12
<1>14. Sent1
  BY <1>5, <1>6, <1>7, <1>8, <1>9, <1>10, <1>11, <1>12
<1>15. \A b \in Bridges : bridge[b].pc = "ack" => agents'[b] = agents[b]
  BY <1>1, TaskStepRows
<1> QED BY <1>13, <1>14, <1>15 DEF Sessions1

LEMMA PassesHandled ==
  ASSUME Base, Alone, OwedInv, HandledInv, Quiet, UNCHANGED setting,
         NEW b \in Bridges, Passes(b)
  PROVE  PassHandled(Telegram, bridge'[b], agents[b], tasks, handled, forgotten')
<1> DEFINE old == bridge[b]
           op == agents[b]
           Shown(rec, fgt) == PassHandled(Telegram, rec, op, tasks, handled, fgt)
<1>1. /\ setting \in Settings /\ TypeOK /\ old \in Bridge /\ Len(stream) \in Nat
      /\ PassOk(Telegram, old, op) /\ SeenRec(old, Len(stream))
      /\ PassHandled(Telegram, old, op, tasks, handled, forgotten)
      /\ forgotten <= Len(stream) /\ forgotten \in Nat
      /\ Telegram \subseteq Task /\ MaxUpdates \in Nat
      /\ \A t \in Task : tasks[t].cursor \in Nat
      /\ handled \in [1..MaxUpdates -> Nat]
  BY SettingFacts, OwedTyped DEF Base, TypeOK, PassInv, CursorsSeen, HandledInv
<1>2. /\ \A u \in 1..MaxUpdates : handled[u] > 0 => u <= Len(stream)
      /\ \A u \in 1..MaxUpdates : u \in Nat /\ handled[u] \in Nat
  BY <1>1 DEF HandledInv, HandledSeen
<1>3. /\ AtRest \in Bridge /\ AtRest.pc = "idle"
      /\ \A fgt : (\A u \in 1..MaxUpdates : handled[u] > 0 =>
                     u <= fgt \/ \A t \in Telegram : DoneWith(tasks[t], u))
                   => Shown(AtRest, fgt)
  BY <1>1, RestType DEF PassHandled, Opening, Draining
<1>4. /\ Listed \in [Task -> Row] /\ OnList(Listed) = Live
      /\ \A t \in Live : Listed[t] = tasks[t]
      /\ \A t \in Telegram : tasks[t].status = "open" => t \in Live
      /\ \A t \in Live : tasks[t].status = "open" /\ t \in Telegram
  BY <1>1, ListFacts DEF Live
<1>5. order \in SUBSET (Task \X Task) /\ Live \subseteq Task
  BY <1>1, ListFacts, SettingFacts DEF TypeOK, HTypeOK
<1>6. \A rec \in Bridge : SetBridge(b, rec) => bridge'[b] = rec
  BY <1>1, BridgeFlat
<1>7. CASE Pass(b)
  <2> DEFINE rec == [AtRest EXCEPT !.pc = "open", !.list = Listed,
                       !.todo = {t \in Live : ~tasks[t].opened}]
  <2>1. old.pc = "idle" /\ SetBridge(b, rec) /\ UNCHANGED forgotten
    BY <1>7 DEF Pass
  <2>2. rec \in Bridge /\ rec.pc = "open"
    BY <1>3, <1>4, <1>5 DEF Bridge
  <2> HIDE DEF rec
  <2>3. Shown(rec, forgotten)
    BY <1>1, <2>1, <2>2 DEF PassHandled, Opening, Draining
  <2> QED BY <1>6, <2>1, <2>2, <2>3
<1>8. CASE \E t \in Task : OpenCursor(b, t)
  <2>1. PICK t \in Task : OpenCursor(b, t)
    BY <1>8
  <2> DEFINE rec == [old EXCEPT !.pc = "opening", !.task = t,
                       !.todo = @ \ {t}, !.cursor = LatestUpdateID]
  <2>2. old.pc = "open" /\ SetBridge(b, rec) /\ UNCHANGED forgotten
    BY <2>1 DEF OpenCursor
  <2>3. LatestUpdateID \in Nat
    BY <1>1 DEF LatestUpdateID
  <2>4. rec \in Bridge /\ rec.pc = "opening" /\ rec.cursor = LatestUpdateID
    BY <1>1, <2>3 DEF Bridge
  <2> HIDE DEF rec
  <2>5. \A u \in 1..MaxUpdates : handled[u] > 0 => u <= forgotten \/ u <= rec.cursor
    BY <1>1, <1>2, <2>4 DEF LatestUpdateID
  <2>6. Shown(rec, forgotten)
    BY <1>1, <2>2, <2>4, <2>5 DEF PassHandled, Opening, Draining
  <2> QED BY <1>6, <2>2, <2>4, <2>6
<1>9. CASE OpenFails(b) \/ OpenGone(b)
  <2> DEFINE rec == [old EXCEPT !.pc = "open", !.task = Origin]
  <2>1. old.pc \in {"opening", "sent"} /\ SetBridge(b, rec) /\ UNCHANGED forgotten
    BY <1>9 DEF OpenFails, OpenGone
  <2>2. rec \in Bridge /\ rec.pc = "open"
    BY <1>1 DEF Bridge
  <2> HIDE DEF rec
  <2>3. Shown(rec, forgotten)
    BY <1>1, <2>1, <2>2 DEF PassHandled, Opening, Draining
  <2> QED BY <1>6, <2>1, <2>2, <2>3
<1>10. CASE Relist(b)
  <2> DEFINE rec == [AtRest EXCEPT !.pc = "poll", !.list = Listed, !.ranks = order]
  <2>1. /\ UNCHANGED forgotten /\ old.pc = "open"
        /\ SetBridge(b, IF Live = {} THEN AtRest ELSE rec)
    BY <1>10 DEF Relist
  <2>2. rec \in Bridge /\ rec.pc = "poll" /\ rec.list = Listed
    BY <1>3, <1>4, <1>5 DEF Bridge
  <2> HIDE DEF rec
  <2>3. \A u \in 1..MaxUpdates : handled[u] > 0 =>
          u <= forgotten \/ \A t \in Telegram : DoneWith(tasks[t], u)
    BY <1>1, <2>1 DEF PassHandled, Opening
  <2>4. \A u \in 1..MaxUpdates : handled[u] > 0 =>
          u <= forgotten \/ \A t \in OnList(rec.list) : rec.list[t].opened => rec.list[t].cursor >= u
    BY <1>4, <2>2, <2>3 DEF DoneWith
  <2>5. \A t \in Telegram : tasks[t].status = "open" /\ tasks[t].opened =>
          t \in OnList(rec.list) /\ tasks[t].cursor >= rec.list[t].cursor
    BY <1>1, <1>4, <2>2
  <2>6. Shown(rec, forgotten)
    BY <2>2, <2>3, <2>4, <2>5 DEF PassHandled, Opening, Draining
  <2>7. CASE Live = {}
    BY <1>3, <1>6, <2>1, <2>3, <2>7
  <2>8. CASE Live # {}
    BY <1>6, <2>1, <2>2, <2>6, <2>8
  <2> QED BY <2>7, <2>8
<1>11. CASE Poll(b)
  <2> DEFINE after == PollFrom(old.list)
             page == Page(after)
             rec == [old EXCEPT !.pc = "page", !.page = page, !.high = HighOf(page)]
  <2>1. /\ old.pc = "poll"
        /\ forgotten' = Larger(after, forgotten)
        /\ SetBridge(b, IF page = <<>> THEN AtRest ELSE rec)
    BY <1>11 DEF Poll
  <2>2. OnList(old.list) # {} /\ old.list \in [Task -> Row]
    BY <1>1, <2>1, RecParts DEF PassOk
  <2>3. after \in Nat /\ after <= Len(stream)
    <3>1. \A t \in OnList(old.list) : old.list[t].cursor <= Len(stream) /\ old.list[t].cursor \in Nat
      BY <1>1, <2>2 DEF SeenRec, OnList, Row
    <3> QED BY <2>2, <3>1, PollFromIs
  <2> HIDE DEF after
  <2>4. PICK from, n \in Nat :
          /\ from = Larger(after, forgotten) /\ from >= forgotten
          /\ from + n <= Len(stream)
          /\ page \in Seq(1..MaxUpdates) /\ Len(page) = n
          /\ \A k \in 1..n : page[k] = from + k
          /\ n > 0 => page # <<>> /\ HighOf(page) = from + n
          /\ n = 0 => page = <<>>
    BY <1>1, <2>3, PageFacts
  <2>5. \A u \in 1..MaxUpdates : handled[u] > 0 =>
          u <= from \/ \A t \in Telegram : DoneWith(tasks[t], u)
    <3>1. \A u \in 1..MaxUpdates : handled[u] > 0 =>
            u <= forgotten \/ \A t \in Telegram : DoneWith(tasks[t], u)
      BY <1>1, <2>1 DEF PassHandled
    <3>2. \A u \in 1..MaxUpdates : u <= forgotten => u <= from
      BY <1>1, <1>2, <2>4
    <3> QED BY <3>1, <3>2
  <2>6. CASE page = <<>>
    BY <1>3, <1>6, <2>1, <2>4, <2>5, <2>6
  <2>7. CASE page # <<>>
    <3>1. HighOf(page) \in Nat /\ HighOf(page) = from + n /\ n > 0
      BY <2>4, <2>7
    <3> HIDE DEF page
    <3>2. /\ rec \in Bridge /\ rec.pc = "page" /\ rec.list = old.list
          /\ rec.page = page /\ rec.high = from + n
      BY <1>1, <2>4, <3>1 DEF Bridge
    <3>3. SetBridge(b, rec)
      BY <2>1, <2>7
    <3> HIDE DEF rec
    <3>4. /\ \A k \in 1..Len(rec.page) : rec.page[k] <= rec.high
          /\ \A j, k \in 1..Len(rec.page) : j < k => rec.page[j] < rec.page[k]
      BY <2>4, <3>2
    <3>5. \A k \in 1..Len(rec.page) : handled[rec.page[k]] > 0 =>
            \A t \in OnList(rec.list) : rec.list[t].opened => rec.list[t].cursor >= rec.page[k]
      <4> SUFFICES ASSUME NEW k \in 1..n, handled[page[k]] > 0
                   PROVE  \A t \in OnList(old.list) :
                            old.list[t].opened => old.list[t].cursor >= page[k]
        BY <2>4, <3>2
      <4>1. page[k] \in 1..MaxUpdates /\ ~(page[k] <= forgotten)
        BY <1>1, <2>4, SMTT(60)
      <4> QED BY <1>1, <2>1, <4>1 DEF PassHandled
    <3>6. \A t \in Telegram : tasks[t].status = "open" /\ tasks[t].opened =>
            t \in OnList(rec.list) /\ tasks[t].cursor >= rec.list[t].cursor
      BY <1>1, <2>1, <3>2 DEF PassHandled, Draining
    <3>7. Shown(rec, from)
      BY <2>5, <3>2, <3>4, <3>5, <3>6 DEF PassHandled, Opening
    <3> QED BY <1>6, <2>1, <2>4, <3>2, <3>3, <3>7
  <2> QED BY <2>6, <2>7
<1>12. CASE PollFails(b)
  <2>1. old.pc = "poll" /\ SetBridge(b, AtRest) /\ UNCHANGED forgotten
    BY <1>12 DEF PollFails
  <2>2. \A u \in 1..MaxUpdates : handled[u] > 0 =>
          u <= forgotten \/ \A t \in Telegram : DoneWith(tasks[t], u)
    BY <1>1, <2>1 DEF PassHandled
  <2> QED BY <1>3, <1>6, <2>1, <2>2
<1>13. CASE Unrouted(b)
  <2> DEFINE rec == [old EXCEPT !.page = Tail(@)]
  <2>1. /\ old.pc = "page" /\ old.page # <<>> /\ SetBridge(b, rec) /\ UNCHANGED forgotten
    BY <1>13 DEF Unrouted
  <2>2. old.page \in Seq(1..MaxUpdates)
    BY <1>1, RecParts
  <2>3. /\ Tail(old.page) \in Seq(1..MaxUpdates)
        /\ Len(Tail(old.page)) = Len(old.page) - 1 /\ Len(old.page) \in Nat
        /\ \A j \in 1..Len(Tail(old.page)) : Tail(old.page)[j] = old.page[j + 1]
    BY <2>1, <2>2, PageTail
  <2>4. /\ rec \in Bridge /\ rec.pc = old.pc /\ rec.list = old.list
        /\ rec.page = Tail(old.page) /\ rec.high = old.high
    BY <1>1, <2>3 DEF Bridge
  <2> HIDE DEF rec
  <2>5. \A j \in 1..Len(rec.page) : j + 1 \in 1..Len(old.page) /\ rec.page[j] = old.page[j + 1]
    BY <2>3, <2>4
  <2>6. \A j, k \in 1..Len(rec.page) : j < k => rec.page[j] < rec.page[k]
    <3>1. \A j, k \in 1..Len(rec.page) : j < k => j + 1 < k + 1
      BY <2>3, <2>4
    <3> QED BY <1>1, <2>1, <2>5, <3>1 DEF PassHandled
  <2>7. Shown(rec, forgotten)
    BY <1>1, <2>1, <2>4, <2>5, <2>6 DEF PassHandled, Opening, Draining
  <2> QED BY <1>6, <2>1, <2>4, <2>7
<1>14. CASE TurnOver(b)
  <2> DEFINE rec == [old EXCEPT !.pc = "page"]
  <2>1. old.pc = "turn" /\ SetBridge(b, rec) /\ UNCHANGED forgotten
    BY <1>14 DEF TurnOver
  <2>2. /\ rec \in Bridge /\ rec.pc = "page" /\ rec.list = old.list
        /\ rec.page = old.page /\ rec.high = old.high
    BY <1>1 DEF Bridge
  <2> HIDE DEF rec
  <2>3. Shown(rec, forgotten)
    BY <1>1, <2>1, <2>2 DEF PassHandled, Opening, Draining
  <2> QED BY <1>6, <2>1, <2>2, <2>3
<1>15. CASE Acknowledge(b)
  <2> DEFINE rec == [old EXCEPT !.pc = "ack",
                       !.todo = {t \in OnList(old.list) : Behind(old.list[t], old.high)}]
  <2>1. old.pc = "page" /\ SetBridge(b, rec) /\ UNCHANGED forgotten
    BY <1>15 DEF Acknowledge
  <2>2. /\ rec \in Bridge /\ rec.pc = "ack" /\ rec.list = old.list /\ rec.high = old.high
        /\ rec.todo = {t \in OnList(old.list) : old.list[t].cursor < old.high}
    BY <1>1 DEF Bridge, OnList, Behind
  <2> HIDE DEF rec
  <2>3. /\ old.list \in [Task -> Row] /\ old.high \in Nat
        /\ \A t \in Task : old.list[t].cursor \in Nat
    BY <1>1, RecParts DEF Row
  <2>4. \A t \in Telegram : tasks[t].status = "open" /\ tasks[t].opened =>
          t \in OnList(old.list) /\ tasks[t].cursor >= old.list[t].cursor
    BY <1>1, <2>1 DEF PassHandled, Draining
  <2>5. \A u \in 1..MaxUpdates : handled[u] > 0 =>
          u <= forgotten \/ u <= old.high \/ \A t \in Telegram : DoneWith(tasks[t], u)
    BY <1>1, <2>1 DEF PassHandled
  <2>6. ASSUME NEW u \in 1..MaxUpdates, u <= old.high, NEW t \in Telegram, ~DoneWith(tasks[t], u)
        PROVE  t \in rec.todo
    <3>1. /\ t \in OnList(old.list) /\ tasks[t].cursor >= old.list[t].cursor
          /\ ~(tasks[t].cursor >= u)
      BY <2>4, <2>6 DEF DoneWith
    <3>2. t \in Task /\ tasks[t].cursor \in Nat /\ old.list[t].cursor \in Nat
      BY <1>1, <2>3
    <3>3. old.list[t].cursor < old.high
      BY <1>2, <2>3, <2>6, <3>1, <3>2
    <3> QED BY <2>2, <3>1, <3>3
  <2>7. Shown(rec, forgotten)
    BY <2>2, <2>4, <2>5, <2>6 DEF PassHandled, Opening
  <2> QED BY <1>6, <2>1, <2>2, <2>7
<1>16. CASE PassOver(b)
  <2>1. old.pc = "ack" /\ old.todo = {} /\ op.pc = "idle" /\ SetBridge(b, AtRest) /\ UNCHANGED forgotten
    BY <1>16 DEF PassOver
  <2>2. \A u \in 1..MaxUpdates : handled[u] > 0 =>
          u <= forgotten \/ \A t \in Telegram : DoneWith(tasks[t], u)
    BY <1>1, <2>1 DEF PassHandled
  <2> QED BY <1>3, <1>6, <2>1, <2>2
<1> QED BY <1>7, <1>8, <1>9, <1>10, <1>11, <1>12, <1>13, <1>14, <1>15, <1>16 DEF Passes

\* What saving a cursor writes back, where it does not fail.
LEMMA SavesCursor ==
  ASSUME Base, Alone, Quiet, NEW b \in Bridges, SaveWrite(b) \/ SaveFails(b)
  PROVE  LET t == agents[b].task
             row == agents[b].row
         IN /\ t \in Telegram /\ row \in Row
            /\ tasks'[t] = row /\ \A s \in Task \ {t} : tasks'[s] = tasks[s]
            /\ row.status = tasks[t].status /\ row.opened = tasks[t].opened
            /\ row.cursor \in Nat /\ tasks[t].cursor < row.cursor
<1> DEFINE t == agents[b].task
           row == agents[b].row
<1>1. agents[b].pc = "save" /\ t \in Telegram /\ row \in Row /\ Upsert(t, row)
  BY SaveFlat DEF Quiet
<1>2. /\ HTypeOK /\ Telegram \subseteq Task /\ b \in Agents
      /\ CurrentOp(agents[b], tasks[t]) /\ tasks[t] \in Row
  BY <1>1, AloneFacts DEF Agents
<1>3. tasks'[t] = row /\ \A s \in Task \ {t} : tasks'[s] = tasks[s]
  BY <1>1, <1>2, UpsertFlat
<1>4. /\ row = [tasks[t] EXCEPT !.cursor = row.cursor]
      /\ row.cursor \in Nat /\ tasks[t].cursor < row.cursor
  BY <1>1, <1>2 DEF CurrentOp, Row
<1>5. row.status = tasks[t].status /\ row.opened = tasks[t].opened
  <2> DEFINE next == [tasks[t] EXCEPT !.cursor = row.cursor]
  <2>1. next.status = tasks[t].status /\ next.opened = tasks[t].opened
    BY <1>2, <1>4, CursorRow
  <2>2. row = next
    BY <1>4
  <2> HIDE DEF next, row
  <2> QED BY <2>1, <2>2
<1> QED BY <1>1, <1>3, <1>4, <1>5

LEMMA PageElements ==
  ASSUME NEW S, NEW s \in Seq(S)
  PROVE  \A j \in 1..Len(s) : s[j] \in S
OBVIOUS

LEMMA ActsHandled ==
  ASSUME Base, Alone, OwedInv, HandledInv, Quiet, UNCHANGED setting,
         NEW b \in Bridges, Acts(b)
  PROVE  /\ HandledSeen'
         /\ PassHandled(Telegram, bridge'[b], agents'[b], tasks', handled', forgotten')
<1> DEFINE old == bridge[b]
           op == agents[b]
           new == bridge'[b]
<1>1. /\ setting \in Settings /\ TypeOK /\ HTypeOK /\ old \in Bridge
      /\ PassOk(Telegram, old, op) /\ b \in Agents /\ SeenRec(old, Len(stream))
      /\ PassHandled(Telegram, old, op, tasks, handled, forgotten)
      /\ PassOwed(old, op, tasks, owed)
      /\ HandledSeen
      /\ Telegram \subseteq Task /\ Len(stream) \in Nat
      /\ \A t \in Task : tasks[t].cursor \in Nat
      /\ \A u \in 1..MaxUpdates : u \in Nat /\ handled[u] \in Nat
  <2>1. /\ setting \in Settings /\ TypeOK /\ HTypeOK /\ old \in Bridge
        /\ PassOk(Telegram, old, op) /\ b \in Agents /\ SeenRec(old, Len(stream))
    BY DEF Base, TypeOK, PassInv, CursorsSeen, Agents
  <2>2. /\ PassHandled(Telegram, old, op, tasks, handled, forgotten)
        /\ PassOwed(old, op, tasks, owed)
        /\ HandledSeen
    BY DEF OwedInv, HandledInv
  <2>3. handled \in [1..MaxUpdates -> Nat] /\ MaxUpdates \in Nat
    BY <2>1, SettingFacts DEF TypeOK
  <2>4. \A u \in 1..MaxUpdates : u \in Nat /\ handled[u] \in Nat
    BY <2>3
  <2> QED BY <2>1, <2>2, <2>4, OwedTyped
<1>2. UNCHANGED <<handled, stream>> => HandledSeen'
  BY <1>1 DEF HandledSeen
<1>3. CASE OpenSend(b)
  <2>1. /\ UNCHANGED <<tasks, stream, forgotten, handled>>
        /\ old.pc = "opening" /\ new.pc = "sent" /\ new.cursor = old.cursor
    BY <1>3, OpenSendFlat
  <2> HIDE DEF new
  <2>2. PassHandled(Telegram, new, agents'[b], tasks, handled, forgotten)
    BY <1>1, <2>1 DEF PassHandled, Opening, Draining
  <2> QED BY <1>2, <2>1, <2>2 DEF new
<1>4. CASE OpenMark(b)
  <2> DEFINE t == op.task
             row == Marked(op.row, old.cursor)
  <2>1. /\ UNCHANGED <<stream, forgotten, handled>>
        /\ old.pc = "sent" /\ t \in Telegram
        /\ op.row \in Row /\ old.cursor \in Nat
        /\ Upsert(t, row) /\ new.pc = "open"
    BY <1>4, OpenMarkFlat
  <2>2. row \in Row /\ row.cursor = old.cursor
    BY <2>1, MarkedRow
  <2>3. tasks'[t] = row /\ \A s \in Task \ {t} : tasks'[s] = tasks[s]
    BY <1>1, <2>1, <2>2, UpsertFlat
  <2> HIDE DEF t, row, new
  <2>4. \A u \in 1..MaxUpdates : handled[u] > 0 =>
          u <= forgotten \/ \A s \in Telegram : DoneWith(tasks'[s], u)
    <3> SUFFICES ASSUME NEW u \in 1..MaxUpdates, handled[u] > 0, ~(u <= forgotten),
                        NEW s \in Telegram
                 PROVE  DoneWith(tasks'[s], u)
      OBVIOUS
    <3>1. u <= old.cursor /\ DoneWith(tasks[s], u)
      BY <1>1, <2>1 DEF PassHandled, Opening
    <3>2. CASE s = t
      BY <1>1, <2>1, <2>2, <2>3, <3>1, <3>2 DEF DoneWith
    <3>3. CASE s # t
      BY <1>1, <2>3, <3>1, <3>3
    <3> QED BY <3>2, <3>3
  <2>5. PassHandled(Telegram, new, agents'[b], tasks', handled, forgotten)
    BY <2>1, <2>4 DEF PassHandled, Opening, Draining
  <2> QED BY <1>2, <2>1, <2>5 DEF new
<1>5. ASSUME NEW t \in Task, Handle(b, t)
      PROVE  /\ HandledSeen'
             /\ PassHandled(Telegram, bridge'[b], agents'[b], tasks', handled', forgotten')
  <2> DEFINE u == Head(old.page)
  <2>1. /\ UNCHANGED <<tasks, stream, forgotten>>
        /\ old.pc = "page" /\ old.page # <<>>
        /\ Routed(old, u, t) /\ u \in 1..MaxUpdates
        /\ handled' = [handled EXCEPT ![u] = @ + 1]
        /\ new.pc \in {"page", "turn"} /\ new.page = Tail(old.page)
        /\ new.list = old.list /\ new.high = old.high
    BY <1>5, HandleFlat
  <2>2. old.page \in Seq(1..MaxUpdates)
    BY <1>1, RecParts
  <2>3. /\ u = old.page[1] /\ Len(old.page) \in Nat /\ 1 \in 1..Len(old.page)
        /\ Len(new.page) = Len(old.page) - 1
        /\ \A j \in 1..Len(new.page) : new.page[j] = old.page[j + 1]
    BY <2>1, <2>2, PageTail
  <2>4. \A j \in 1..Len(new.page) : /\ j + 1 \in 1..Len(old.page) /\ 1 < j + 1
                                    /\ new.page[j] = old.page[j + 1]
    BY <2>3
  <2>5. t \in OnList(old.list) /\ old.list[t].opened /\ old.list[t].cursor < u
    BY <2>1 DEF Routed, Candidates
  <2>6. old.list[t].cursor \in Nat
    BY <1>1, RecParts DEF Row
  <2> HIDE DEF u, new
  <2>7. handled[u] = 0
    <3> SUFFICES ASSUME handled[u] > 0 PROVE FALSE
      BY <1>1, <2>1
    <3>1. old.list[t].cursor >= u
      BY <1>1, <2>1, <2>3, <2>5 DEF PassHandled
    <3> QED BY <1>1, <2>1, <2>5, <2>6, <3>1
  <2>8. /\ handled'[u] = 1 /\ u <= old.high /\ old.high <= Len(stream) /\ old.high \in Nat
        /\ \A w \in 1..MaxUpdates : w # u => handled'[w] = handled[w]
    <3>1. handled \in [1..MaxUpdates -> Nat]
      BY <1>1 DEF TypeOK
    <3>2. u <= old.high
      BY <1>1, <2>1, <2>3 DEF PassHandled
    <3>3. old.high <= Len(stream) /\ old.high \in Nat
      BY <1>1, RecParts DEF SeenRec
    <3> QED BY <2>1, <2>7, <3>1, <3>2, <3>3
  <2>9. HandledSeen'
    <3>1. u <= Len(stream)
      BY <1>1, <2>1, <2>8
    <3> QED BY <1>1, <2>1, <2>8, <3>1 DEF HandledSeen
  <2>10. \A w \in 1..MaxUpdates : handled'[w] > 0 =>
           w <= forgotten \/ w <= old.high \/ \A s \in Telegram : DoneWith(tasks[s], w)
    BY <1>1, <2>1, <2>8 DEF PassHandled
  <2>11. \A j, k \in 1..Len(new.page) : j < k => new.page[j] < new.page[k]
    <3>1. \A j, k \in 1..Len(new.page) : j < k => j + 1 < k + 1
      BY <2>3
    <3>2. \A j, k \in 1..Len(old.page) : j < k => old.page[j] < old.page[k]
      BY <1>1, <2>1 DEF PassHandled
    <3> QED BY <2>4, <3>1, <3>2
  <2>12. \A k \in 1..Len(new.page) : /\ new.page[k] \in 1..MaxUpdates /\ new.page[k] # u
                                     /\ new.page[k] <= old.high
    <3> SUFFICES ASSUME NEW k \in 1..Len(new.page)
                 PROVE  /\ new.page[k] \in 1..MaxUpdates /\ new.page[k] # u
                        /\ new.page[k] <= old.high
      OBVIOUS
    <3>1. old.page[1] < old.page[k + 1] /\ old.page[k + 1] <= old.high
      BY <1>1, <2>1, <2>3, <2>4 DEF PassHandled
    <3>2. old.page[k + 1] \in 1..MaxUpdates /\ old.page[1] \in 1..MaxUpdates
      <4>1. \A j \in 1..Len(old.page) : old.page[j] \in 1..MaxUpdates
        BY <2>2, PageElements
      <4>2. k + 1 \in 1..Len(old.page) /\ 1 \in 1..Len(old.page)
        BY <2>3, <2>4
      <4> QED BY <4>1, <4>2
    <3>3. old.page[1] # old.page[k + 1]
      BY <1>1, <3>1, <3>2
    <3>4. new.page[k] = old.page[k + 1] /\ old.page[1] = u
      BY <2>3, <2>4
    <3> QED BY <3>1, <3>2, <3>3, <3>4
  <2>13. \A k \in 1..Len(new.page) : handled'[new.page[k]] > 0 =>
           \A s \in OnList(old.list) : old.list[s].opened => old.list[s].cursor >= new.page[k]
    <3>1. \A k \in 1..Len(old.page) : handled[old.page[k]] > 0 =>
            \A s \in OnList(old.list) : old.list[s].opened => old.list[s].cursor >= old.page[k]
      BY <1>1, <2>1 DEF PassHandled
    <3>2. \A k \in 1..Len(new.page) : handled'[new.page[k]] = handled[old.page[k + 1]]
      BY <2>4, <2>8, <2>12
    <3>3. \A k \in 1..Len(new.page) : k + 1 \in 1..Len(old.page) /\ new.page[k] = old.page[k + 1]
      BY <2>4
    <3> QED BY <3>1, <3>2, <3>3
  <2>14. PassHandled(Telegram, new, agents'[b], tasks, handled', forgotten)
    <3>1. \A s \in Telegram : tasks[s].status = "open" /\ tasks[s].opened =>
            s \in OnList(old.list) /\ tasks[s].cursor >= old.list[s].cursor
      BY <1>1, <2>1 DEF PassHandled, Draining
    <3> QED BY <2>1, <2>10, <2>11, <2>12, <2>13, <3>1 DEF PassHandled, Opening
  <2> QED BY <2>1, <2>9, <2>14 DEF new
<1>6. ASSUME NEW t \in Task, SaveRead(b, t)
      PROVE  /\ HandledSeen'
             /\ PassHandled(Telegram, bridge'[b], agents'[b], tasks', handled', forgotten')
  <2>1. /\ UNCHANGED <<tasks, stream, forgotten, handled>>
        /\ old.pc = "ack" /\ op.pc = "idle" /\ t \in Telegram
        /\ new.pc = "ack" /\ new.todo = old.todo \ {t} /\ new.list = old.list
        /\ new.high = old.high
        /\ \/ ~(Exists(t) /\ tasks[t].cursor < old.high)
           \/ agents'[b].pc = "save" /\ agents'[b].task = t
    BY <1>6, SaveReadFlat
  <2>2. old.high \in Nat /\ tasks[t].cursor \in Nat
    BY <1>1, <2>1, RecParts
  <2> HIDE DEF new
  <2>3. ASSUME NEW u \in 1..MaxUpdates, u <= old.high
        PROVE  DoneWith(tasks[t], u) \/ (agents'[b].pc = "save" /\ agents'[b].task = t)
    <3>1. CASE ~(Exists(t) /\ tasks[t].cursor < old.high)
      BY <1>1, <2>2, <2>3, <3>1 DEF DoneWith, Exists
    <3> QED BY <2>1, <3>1
  <2>4. ASSUME NEW u \in 1..MaxUpdates, handled[u] > 0, ~(u <= forgotten), NEW s \in Telegram
        PROVE  \/ DoneWith(tasks[s], u)
               \/ u <= new.high /\ (s \in new.todo \/ (agents'[b].pc = "save" /\ agents'[b].task = s))
    <3>1. DoneWith(tasks[s], u) \/ (u <= old.high /\ s \in old.todo)
      BY <1>1, <2>1, <2>4 DEF PassHandled
    <3>2. CASE s = t
      BY <1>1, <2>1, <2>3, <2>4, <3>1, <3>2
    <3>3. CASE s # t
      BY <2>1, <3>1, <3>3
    <3> QED BY <3>2, <3>3
  <2>5. PassHandled(Telegram, new, agents'[b], tasks, handled, forgotten)
    <3>1. \A s \in Telegram : tasks[s].status = "open" /\ tasks[s].opened =>
            s \in OnList(old.list) /\ tasks[s].cursor >= old.list[s].cursor
      BY <1>1, <2>1 DEF PassHandled, Draining
    <3> QED BY <2>1, <2>4, <3>1 DEF PassHandled, Opening
  <2> QED BY <1>2, <2>1, <2>5 DEF new
<1>7. CASE SaveWrite(b) \/ SaveFails(b)
  <2> DEFINE t == op.task
             row == op.row
  <2>1. /\ UNCHANGED <<stream, forgotten, bridge, handled>>
        /\ op.pc = "save" /\ t \in Telegram /\ row \in Row
    BY <1>7, SaveFlat
  <2>2. old.pc = "ack"
    BY <1>1, <2>1 DEF PassOk
  <2>3. row.cursor = old.high
    BY <1>1, <2>1, <2>2 DEF PassOwed
  <2>4. tasks'[t] = row /\ \A s \in Task \ {t} : tasks'[s] = tasks[s]
    BY <1>7, SavesCursor
  <2>5. row.cursor \in Nat /\ tasks[t].cursor < row.cursor
    BY <1>7, SavesCursor
  <2>6. row.status = tasks[t].status /\ row.opened = tasks[t].opened
    BY <1>7, SavesCursor
  <2> HIDE DEF t, row
  <2>7. \A s \in Telegram : tasks'[s].status = "open" /\ tasks'[s].opened =>
          s \in OnList(old.list) /\ tasks'[s].cursor >= old.list[s].cursor
    <3> SUFFICES ASSUME NEW s \in Telegram, tasks'[s].status = "open", tasks'[s].opened
                 PROVE  s \in OnList(old.list) /\ tasks'[s].cursor >= old.list[s].cursor
      OBVIOUS
    <3>1. tasks[s].status = "open" /\ tasks[s].opened
      BY <1>1, <2>4, <2>6
    <3>2. s \in OnList(old.list) /\ tasks[s].cursor >= old.list[s].cursor
      BY <1>1, <2>2, <3>1 DEF PassHandled, Draining
    <3>3. old.list[s].cursor \in Nat /\ tasks[s].cursor \in Nat
      BY <1>1, RecParts DEF Row
    <3>4. CASE s = t
      BY <2>4, <2>5, <3>2, <3>3, <3>4
    <3>5. CASE s # t
      BY <1>1, <2>4, <3>2, <3>5
    <3> QED BY <3>4, <3>5
  <2>8. ASSUME NEW u \in 1..MaxUpdates, handled[u] > 0, ~(u <= forgotten), NEW s \in Telegram
        PROVE  DoneWith(tasks'[s], u) \/ (u <= old.high /\ s \in old.todo)
    <3>1. \/ DoneWith(tasks[s], u)
          \/ u <= old.high /\ (s \in old.todo \/ t = s)
      BY <1>1, <2>1, <2>2, <2>8 DEF PassHandled, t
    <3>2. CASE s = t
      <4>1. \/ row.status # "open" \/ ~row.opened
            \/ tasks[t].cursor >= u \/ u <= row.cursor
        BY <2>3, <2>6, <3>1, <3>2 DEF DoneWith
      <4>2. tasks[t].cursor \in Nat /\ u \in Nat /\ u <= row.cursor => row.cursor >= u
        BY <1>1, <2>1, <2>5
      <4>3. tasks[t].cursor \in Nat
        BY <1>1, <2>1
      <4>4. tasks[t].cursor >= u => row.cursor >= u
        BY <1>1, <2>5, <4>3
      <4>5. u <= row.cursor => row.cursor >= u
        BY <1>1, <2>5
      <4>6. DoneWith(row, u)
        BY <4>1, <4>4, <4>5 DEF DoneWith
      <4>7. tasks'[s] = row
        BY <2>4, <3>2
      <4> QED BY <4>6, <4>7
    <3>3. CASE s # t
      <4>1. tasks'[s] = tasks[s]
        BY <1>1, <2>4, <3>3
      <4> QED BY <3>1, <3>3, <4>1
    <3> QED BY <3>2, <3>3
  <2>9. PassHandled(Telegram, old, agents'[b], tasks', handled, forgotten)
    BY <2>2, <2>7, <2>8 DEF PassHandled, Opening, Draining
  <2> QED BY <1>2, <2>1, <2>9
<1> QED BY <1>3, <1>4, <1>5, <1>6, <1>7 DEF Acts

LEMMA HandledKept ==
  ASSUME OneBridge, Base, Alone, OwedInv, HandledInv, Quiet, UNCHANGED setting,
         Next \/ UNCHANGED vars
  PROVE  HandledInv'
<1>1. CASE UNCHANGED vars
  BY <1>1 DEF HandledInv, HandledSeen, vars, hvars, bvars, Telegram
<1>2. CASE TaskStep
  <2>1. UNCHANGED <<stream, forgotten, bridge, handled>>
    BY <1>2 DEF TaskStep
  <2>2. /\ \A t \in Telegram : tasks'[t].status = "open" /\ tasks'[t].opened =>
             /\ tasks[t].status = "open" /\ tasks[t].opened
             /\ tasks'[t].cursor = tasks[t].cursor
        /\ \A b \in Bridges : bridge[b].pc = "ack" => agents'[b] = agents[b]
    BY <1>2, TaskStepOnce
  <2>3. ASSUME NEW b \in Bridges
        PROVE  PassHandled(Telegram, bridge[b], agents'[b], tasks', handled, forgotten)
    <3>1. PassHandled(Telegram, bridge[b], agents[b], tasks, handled, forgotten)
      BY DEF HandledInv
    <3> QED BY <2>2, <3>1, PassHandledLess
  <2> QED BY <2>1, <2>3 DEF HandledInv, HandledSeen, Telegram
<1>3. ASSUME NEW chat \in Chat, NEW kind \in Kinds, Receive(chat, kind)
      PROVE  HandledInv'
  <2>1. /\ UNCHANGED <<tasks, agents, forgotten, bridge, handled>>
        /\ Len(stream') = Len(stream) + 1
    BY <1>3, ReceiveFlat DEF hvars
  <2>2. Len(stream) \in Nat /\ MaxUpdates \in Nat
    BY OwedTyped, SettingFacts DEF Base
  <2>3. HandledSeen'
    BY <2>1, <2>2 DEF HandledInv, HandledSeen
  <2> QED BY <2>1, <2>3 DEF HandledInv, Telegram
<1>4. ASSUME NEW b \in Bridges, BridgeNext(b)
      PROVE  HandledInv'
  <2>1. Passes(b) \/ Acts(b)
    BY <1>4 DEF BridgeNext, Passes, Acts
  <2>2. /\ HandledSeen'
        /\ PassHandled(Telegram, bridge'[b], agents'[b], tasks', handled', forgotten')
    <3>1. CASE Passes(b)
      <4>1. UNCHANGED <<tasks, agents, stream, handled>>
        BY <3>1, PassesFlat DEF hvars
      <4> QED BY <3>1, <4>1, PassesHandled DEF HandledInv, HandledSeen
    <3>2. CASE Acts(b)
      BY <3>2, ActsHandled
    <3> QED BY <2>1, <3>1, <3>2
  <2> QED BY <2>2 DEF HandledInv, OneBridge, Telegram
<1>5. CASE Restart
  BY <1>5, RestartFlat DEF Restart, Quiet, Base, TypeOK
<1> QED BY <1>1, <1>2, <1>3, <1>4, <1>5 DEF Next

-----------------------------------------------------------------------------
(* A session is asked once                                                 *)

Asked(t) == \E v \in 1..MaxVisits : asked[t][v] > 0

\* A session that was asked has spoken, is gone, or is being asked.
AskedRow(t) ==
  /\ \A v \in 1..MaxVisits : asked[t][v] <= 1
  /\ Asked(t) =>
       /\ visits[t] > 0
       /\ \/ tasks[t].opened
          \/ tasks[t].status = "none"
          \/ \E b \in Bridges : bridge[b].pc = "sent" /\ bridge[b].task = t

PassAsked(b) ==
  LET rec == bridge[b]
  IN /\ rec.pc \in Opening => \A t \in rec.todo : visits[t] > 0 /\ ~Asked(t)
     /\ rec.pc = "opening" => visits[rec.task] > 0 /\ ~Asked(rec.task)
     /\ rec.pc = "sent" =>
          visits[rec.task] > 0 /\ (agents[b].pc = "idle" => tasks[rec.task].status = "none")

AskedInv == (\A t \in Task : AskedRow(t)) /\ (\A b \in Bridges : PassAsked(b))

\* How a pass that only reads moves on.
LEMMA PassesOn ==
  ASSUME Base, NEW b \in Bridges, Passes(b)
  PROVE  /\ UNCHANGED <<tasks, agents, visits, asked>>
         /\ \A c \in Bridges \ {b} : bridge'[c] = bridge[c]
         /\ \/ /\ bridge[b].pc = "idle" /\ bridge'[b].pc = "open"
               /\ bridge'[b].todo = {t \in Live : ~tasks[t].opened}
            \/ /\ bridge[b].pc = "open" /\ bridge'[b].pc = "opening"
               /\ bridge'[b].task \in bridge[b].todo
               /\ bridge'[b].todo = bridge[b].todo \ {bridge'[b].task}
            \/ /\ bridge[b].pc = "opening" \/ (bridge[b].pc = "sent" /\ agents[b].pc = "idle")
               /\ bridge'[b].pc = "open" /\ bridge'[b].todo = bridge[b].todo
            \/ bridge[b].pc \notin {"opening", "sent"} /\ bridge'[b].pc \notin Opening
<1> DEFINE old == bridge[b]
<1>1. bridge \in [Bridges -> Bridge] /\ old \in Bridge /\ AtRest \in Bridge /\ AtRest.pc = "idle"
  BY RestType DEF Base, TypeOK
<1>2. UNCHANGED <<tasks, agents, visits, asked>>
  BY PassesFlat DEF hvars, told
<1>3. ASSUME NEW rec, SetBridge(b, rec)
      PROVE  bridge'[b] = rec /\ \A c \in Bridges \ {b} : bridge'[c] = bridge[c]
  BY <1>1, <1>3 DEF SetBridge
<1>4. CASE Pass(b)
  <2> DEFINE rec == [AtRest EXCEPT !.pc = "open", !.list = Listed,
                       !.todo = {t \in Live : ~tasks[t].opened}]
  <2>1. old.pc = "idle" /\ SetBridge(b, rec)
    BY <1>4 DEF Pass
  <2>2. rec.pc = "open" /\ rec.todo = {t \in Live : ~tasks[t].opened}
    BY <1>1 DEF Bridge
  <2> HIDE DEF rec
  <2> QED BY <1>2, <1>3, <2>1, <2>2
<1>5. CASE \E t \in Task : OpenCursor(b, t)
  <2>1. PICK t \in Task : OpenCursor(b, t)
    BY <1>5
  <2> DEFINE rec == [old EXCEPT !.pc = "opening", !.task = t,
                       !.todo = @ \ {t}, !.cursor = LatestUpdateID]
  <2>2. old.pc = "open" /\ t \in old.todo /\ SetBridge(b, rec)
    BY <2>1 DEF OpenCursor
  <2>3. rec.pc = "opening" /\ rec.task = t /\ rec.todo = old.todo \ {t}
    BY <1>1 DEF Bridge
  <2> HIDE DEF rec
  <2> QED BY <1>2, <1>3, <2>2, <2>3
<1>6. CASE OpenFails(b) \/ OpenGone(b)
  <2> DEFINE rec == [old EXCEPT !.pc = "open", !.task = Origin]
  <2>1. /\ old.pc = "opening" \/ (old.pc = "sent" /\ agents[b].pc = "idle")
        /\ SetBridge(b, rec)
    BY <1>6 DEF OpenFails, OpenGone
  <2>2. rec.pc = "open" /\ rec.todo = old.todo
    BY <1>1 DEF Bridge
  <2> HIDE DEF rec
  <2> QED BY <1>2, <1>3, <2>1, <2>2
<1>7. CASE Relist(b) \/ Poll(b) \/ PollFails(b) \/ Unrouted(b) \/ TurnOver(b)
             \/ Acknowledge(b) \/ PassOver(b)
  <2>1. old.pc \notin {"opening", "sent"}
        /\ \E rec : SetBridge(b, rec) /\ rec.pc \notin Opening
    <3>1. /\ \A l, r : [AtRest EXCEPT !.pc = "poll", !.list = l, !.ranks = r].pc = "poll"
          /\ \A p, h : [old EXCEPT !.pc = "page", !.page = p, !.high = h].pc = "page"
          /\ [old EXCEPT !.page = Tail(@)].pc = old.pc
          /\ [old EXCEPT !.pc = "page"].pc = "page"
          /\ \A l : [old EXCEPT !.pc = "ack", !.todo = l].pc = "ack"
      BY <1>1 DEF Bridge
    <3>2. CASE Relist(b)
      BY <1>1, <3>1, <3>2, ZenonT(60) DEF Relist, Opening
    <3>3. CASE Poll(b)
      <4> DEFINE page == Page(PollFrom(old.list))
                 rec == [old EXCEPT !.pc = "page", !.page = page, !.high = HighOf(page)]
      <4>1. old.pc = "poll" /\ SetBridge(b, IF page = <<>> THEN AtRest ELSE rec)
        BY <3>3 DEF Poll
      <4>2. rec.pc = "page"
        BY <3>1
      <4> HIDE DEF rec, page
      <4> QED BY <1>1, <4>1, <4>2 DEF Opening
    <3>4. CASE PollFails(b) \/ PassOver(b)
      BY <1>1, <3>4 DEF PollFails, PassOver, Opening
    <3>5. CASE Unrouted(b)
      BY <3>1, <3>5 DEF Unrouted, Opening
    <3>6. CASE TurnOver(b)
      BY <3>1, <3>6 DEF TurnOver, Opening
    <3>7. CASE Acknowledge(b)
      <4> DEFINE todo == {t \in OnList(old.list) : Behind(old.list[t], old.high)}
                 rec == [old EXCEPT !.pc = "ack", !.todo = todo]
      <4>1. old.pc = "page" /\ SetBridge(b, rec)
        BY <3>7 DEF Acknowledge
      <4>2. rec.pc = "ack"
        BY <3>1
      <4> HIDE DEF rec, todo
      <4> QED BY <4>1, <4>2 DEF Opening
    <3> QED BY <1>7, <3>2, <3>3, <3>4, <3>5, <3>6, <3>7
  <2> QED BY <1>2, <1>3, <2>1
<1> QED BY <1>4, <1>5, <1>6, <1>7 DEF Passes

LEMMA PassesAsked ==
  ASSUME OneBridge, Base, Alone, AskedInv, UNCHANGED setting, NEW b \in Bridges, Passes(b)
  PROVE  AskedInv'
<1>1. /\ Telegram \subseteq Task /\ PassOk(Telegram, bridge[b], agents[b])
      /\ \A t \in Task : tasks[t].status # "none" => visits[t] > 0
  BY AloneFacts DEF Base, PassInv, RowKept
<1>2. UNCHANGED <<tasks, agents, visits, asked>>
  BY PassesOn
<1>3. \A c \in Bridges : c = b
  BY DEF OneBridge
<1>4. \A t : (Asked(t)' <=> Asked(t)) /\ visits'[t] = visits[t]
  BY <1>2 DEF Asked
<1>5. CASE /\ bridge[b].pc = "idle" /\ bridge'[b].pc = "open"
           /\ bridge'[b].todo = {t \in Live : ~tasks[t].opened}
  <2>1. \A t \in bridge'[b].todo : t \in Task /\ visits[t] > 0 /\ ~Asked(t)
    BY <1>1, <1>3, <1>5 DEF Live, AskedInv, AskedRow
  <2>2. PassAsked(b)'
    BY <1>4, <1>5, <2>1 DEF PassAsked
  <2>3. \A t \in Task : AskedRow(t)'
    BY <1>2, <1>3, <1>4, <1>5 DEF AskedInv, AskedRow
  <2> QED BY <1>3, <2>2, <2>3 DEF AskedInv
<1>6. CASE /\ bridge[b].pc = "open" /\ bridge'[b].pc = "opening"
           /\ bridge'[b].task \in bridge[b].todo
           /\ bridge'[b].todo = bridge[b].todo \ {bridge'[b].task}
  <2>1. PassAsked(b)'
    BY <1>4, <1>6 DEF AskedInv, PassAsked, Opening
  <2>2. \A t \in Task : AskedRow(t)'
    BY <1>2, <1>3, <1>4, <1>6 DEF AskedInv, AskedRow
  <2> QED BY <1>3, <2>1, <2>2 DEF AskedInv
<1>7. CASE /\ bridge[b].pc = "opening" \/ (bridge[b].pc = "sent" /\ agents[b].pc = "idle")
           /\ bridge'[b].pc = "open" /\ bridge'[b].todo = bridge[b].todo
  <2>1. PassAsked(b)'
    BY <1>4, <1>7 DEF AskedInv, PassAsked, Opening
  <2>2. \A t \in Task : bridge[b].pc = "sent" /\ bridge[b].task = t => tasks[t].status = "none"
    BY <1>7 DEF AskedInv, PassAsked
  <2>3. \A t \in Task : AskedRow(t)'
    BY <1>2, <1>3, <1>4, <2>2 DEF AskedInv, AskedRow
  <2> QED BY <1>3, <2>1, <2>3 DEF AskedInv
<1>8. CASE bridge[b].pc \notin {"opening", "sent"} /\ bridge'[b].pc \notin Opening
  <2>1. PassAsked(b)'
    BY <1>8 DEF PassAsked, Opening
  <2>2. \A t \in Task : AskedRow(t)'
    BY <1>2, <1>3, <1>4, <1>8 DEF AskedInv, AskedRow
  <2> QED BY <1>3, <2>1, <2>2 DEF AskedInv
<1> QED BY <1>5, <1>6, <1>7, <1>8, PassesOn

LEMMA ActsAsked ==
  ASSUME OneBridge, Base, Alone, OwedInv, AskedInv, Quiet, UNCHANGED setting,
         NEW b \in Bridges, Acts(b)
  PROVE  AskedInv'
<1> DEFINE old == bridge[b]
           op == agents[b]
           t == IF old.pc \in {"opening", "sent"} THEN old.task ELSE op.task
<1>1. /\ setting \in Settings /\ TypeOK /\ HTypeOK /\ Telegram \subseteq Task
      /\ PassOk(Telegram, old, op) /\ PassOwed(old, op, tasks, owed)
      /\ PassAsked(b) /\ \A s \in Task : AskedRow(s)
      /\ \A c \in Bridges : c = b
  BY AloneFacts DEF Base, PassInv, OwedInv, AskedInv, OneBridge
<1>2. \A s, v : asked' = asked => asked'[s][v] = asked[s][v]
  OBVIOUS
<1>3. visits' = visits
  BY OpenSendFlat, OpenMarkFlat, HandleFlat, SaveReadFlat, SaveFlat DEF Acts, told
<1>4. asked' = asked => \A s : Asked(s)' <=> Asked(s)
  BY DEF Asked
<1>5. CASE OpenSend(b)
  <2> DEFINE s == old.task
             v == old.list[s].visit
  <2>1. /\ UNCHANGED tasks /\ old.pc = "opening" /\ s \in Task
        /\ agents'[b].pc = "append"
        /\ bridge'[b].pc = "sent" /\ bridge'[b].task = s /\ bridge'[b].todo = old.todo
        /\ asked' = [asked EXCEPT ![s][v] = @ + 1]
    BY <1>1, <1>5, OpenSendFlat
  <2>2. asked \in [Task -> [1..MaxVisits -> Nat]]
    BY <1>1 DEF TypeOK
  <2> HIDE DEF s, v
  <2>3. \A r \in Task, w \in 1..MaxVisits :
          asked'[r][w] = IF r = s /\ w = v THEN asked[r][w] + 1 ELSE asked[r][w]
    BY <2>1, <2>2, AddOne
  <2>4. \A r \in Task, w \in 1..MaxVisits : asked[r][w] \in Nat
    BY <2>2
  <2>5. visits[s] > 0 /\ ~Asked(s) /\ s \notin old.todo
    BY <1>1, <2>1 DEF PassAsked, PassOwed, s
  <2>6. \A w \in 1..MaxVisits : asked[s][w] = 0
    BY <2>1, <2>4, <2>5 DEF Asked
  <2>7. \A r \in Task \ {s} : (Asked(r)' <=> Asked(r)) /\ \A w \in 1..MaxVisits : asked'[r][w] = asked[r][w]
    BY <2>3 DEF Asked
  <2>8. PassAsked(b)'
    <3>1. \A r \in old.todo : visits[r] > 0 /\ ~Asked(r) /\ r \in Task \ {s}
      BY <1>1, <2>1, <2>5 DEF PassAsked, Opening, PassOk
    <3> QED BY <1>3, <2>1, <2>5, <2>7, <3>1 DEF PassAsked
  <2>9. ASSUME NEW r \in Task PROVE AskedRow(r)'
    <3>1. CASE r = s
      <4>1. \A w \in 1..MaxVisits : asked'[r][w] <= 1
        BY <2>3, <2>6, <3>1
      <4>2. bridge'[b].pc = "sent" /\ bridge'[b].task = r /\ visits'[r] > 0
        BY <1>3, <2>1, <2>5, <3>1
      <4> QED BY <4>1, <4>2 DEF AskedRow
    <3>2. CASE r # s
      <4>1. \A c \in Bridges : ~(bridge[c].pc = "sent" /\ bridge[c].task = r)
        BY <1>1, <2>1
      <4>2. AskedRow(r)
        BY <1>1
      <4> QED BY <1>3, <2>1, <2>7, <3>2, <4>1, <4>2 DEF AskedRow
    <3> QED BY <3>1, <3>2
  <2> QED BY <1>1, <2>8, <2>9 DEF AskedInv
<1>6. CASE OpenMark(b)
  <2> DEFINE s == op.task
             row == Marked(op.row, old.cursor)
  <2>1. /\ UNCHANGED asked /\ old.pc = "sent" /\ s = old.task /\ s \in Task
        /\ op.row \in Row /\ old.cursor \in Nat /\ Upsert(s, row)
        /\ bridge'[b].pc = "open" /\ bridge'[b].todo = old.todo
    BY <1>1, <1>6, OpenMarkFlat
  <2>2. row \in Row /\ row.opened
    BY <2>1, MarkedRow
  <2>3. tasks'[s] = row /\ \A r \in Task \ {s} : tasks'[r] = tasks[r]
    BY <1>1, <2>1, <2>2, UpsertFlat
  <2> HIDE DEF s, row
  <2>4. PassAsked(b)'
    BY <1>1, <1>3, <1>4, <2>1 DEF PassAsked, Opening
  <2>5. ASSUME NEW r \in Task PROVE AskedRow(r)'
    <3>1. AskedRow(r) /\ (Asked(r)' <=> Asked(r))
      BY <1>1, <1>4, <2>1
    <3>2. CASE r = s
      BY <1>2, <1>3, <2>1, <2>2, <2>3, <3>1, <3>2 DEF AskedRow
    <3>3. CASE r # s
      <4>1. \A c \in Bridges : ~(bridge[c].pc = "sent" /\ bridge[c].task = r)
        BY <1>1, <2>1, <3>3
      <4> QED BY <1>2, <1>3, <2>1, <2>3, <3>1, <3>3, <4>1 DEF AskedRow
    <3> QED BY <3>2, <3>3
  <2> QED BY <1>1, <2>4, <2>5 DEF AskedInv
<1>7. CASE (\E s \in Task : Handle(b, s) \/ SaveRead(b, s)) \/ SaveWrite(b) \/ SaveFails(b)
  <2>1. /\ UNCHANGED asked
        /\ old.pc \in {"page", "ack"} /\ bridge'[b].pc \in {"page", "turn", "ack"}
    <3>1. CASE SaveWrite(b) \/ SaveFails(b)
      <4>1. UNCHANGED <<asked, bridge>> /\ op.pc = "save"
        BY <3>1, SaveFlat
      <4> QED BY <1>1, <4>1 DEF PassOk
    <3> QED BY <1>7, <3>1, HandleFlat, SaveReadFlat
  <2>2. \A r \in Task : tasks'[r].opened = tasks[r].opened /\ tasks'[r].status = tasks[r].status
    <3>1. CASE SaveWrite(b) \/ SaveFails(b)
      BY <1>1, <3>1, SavesCursor
    <3>2. CASE \E s \in Task : Handle(b, s) \/ SaveRead(b, s)
      BY <3>2, HandleFlat, SaveReadFlat
    <3> QED BY <1>7, <3>1, <3>2
  <2>3. PassAsked(b)'
    BY <2>1 DEF PassAsked, Opening
  <2>4. ASSUME NEW r \in Task PROVE AskedRow(r)'
    <3>1. \A c \in Bridges : ~(bridge[c].pc = "sent" /\ bridge[c].task = r)
      BY <1>1, <2>1
    <3>2. AskedRow(r) /\ (Asked(r)' <=> Asked(r))
      BY <1>1, <1>4, <2>1
    <3> QED BY <1>2, <1>3, <2>1, <2>2, <3>1, <3>2 DEF AskedRow
  <2> QED BY <1>1, <2>3, <2>4 DEF AskedInv
<1> QED BY <1>5, <1>6, <1>7 DEF Acts

LEMMA AskedKept ==
  ASSUME OneBridge, Base, Alone, OwedInv, AskedInv, Quiet, UNCHANGED setting,
         Next \/ UNCHANGED vars
  PROVE  AskedInv'
<1>1. CASE UNCHANGED vars
  BY <1>1 DEF AskedInv, AskedRow, PassAsked, Asked, vars, hvars, bvars, told
<1>2. CASE TaskStep
  <2>1. UNCHANGED <<bridge, asked>>
    BY <1>2 DEF TaskStep
  <2>2. /\ \A t \in Task :
             /\ visits'[t] >= visits[t]
             /\ visits[t] > 0 /\ tasks[t].status = "none" => tasks'[t].status = "none"
             /\ tasks[t].opened => tasks'[t].opened \/ tasks'[t].status = "none"
        /\ \A b \in Bridges : bridge[b].pc = "sent" /\ agents'[b].pc = "idle" =>
             agents[b].pc = "idle" \/ tasks'[bridge[b].task].status = "none"
    BY <1>2, TaskStepOnce
  <2>3. /\ \A t \in Task : visits[t] \in Nat /\ (visits[t] > 0 => visits'[t] > 0)
        /\ Telegram \subseteq Task
    <3>1. HTypeOK' /\ \A t \in Task : visits'[t] \in Nat
      <4>1. Base'
        BY <1>2, BaseKept DEF Next
      <4>2. HTypeOK' /\ MaxVisits \in Nat
        BY <4>1, SettingFacts DEF Base, TypeOK
      <4> QED BY <4>2 DEF HTypeOK
    <3> QED BY <2>2, <3>1, AloneFacts
  <2>4. \A t : Asked(t)' <=> Asked(t)
    BY <2>1 DEF Asked
  <2>5. ASSUME NEW t \in Task PROVE AskedRow(t)'
    <3>1. AskedRow(t)
      BY DEF AskedInv
    <3> QED BY <2>1, <2>2, <2>3, <2>4, <3>1 DEF AskedRow
  <2>6. ASSUME NEW b \in Bridges PROVE PassAsked(b)'
    <3>1. PassAsked(b) /\ PassOk(Telegram, bridge[b], agents[b])
      BY DEF AskedInv, Base, PassInv
    <3>2. bridge[b].todo \subseteq Task /\ (bridge[b].pc \in {"opening", "sent"} => bridge[b].task \in Task)
      BY <2>3, <3>1 DEF PassOk
    <3> QED BY <2>1, <2>2, <2>3, <2>4, <3>1, <3>2 DEF PassAsked
  <2> QED BY <2>5, <2>6 DEF AskedInv
<1>3. ASSUME NEW chat \in Chat, NEW kind \in Kinds, Receive(chat, kind)
      PROVE  AskedInv'
  BY <1>3 DEF Receive, AskedInv, AskedRow, PassAsked, Asked, hvars, told
<1>4. ASSUME NEW b \in Bridges, BridgeNext(b)
      PROVE  AskedInv'
  <2>1. Passes(b) \/ Acts(b)
    BY <1>4 DEF BridgeNext, Passes, Acts
  <2> QED BY <2>1, PassesAsked, ActsAsked
<1>5. CASE Restart
  BY <1>5, RestartFlat DEF Restart, Quiet, Base, TypeOK
<1> QED BY <1>1, <1>2, <1>3, <1>4, <1>5 DEF Next

LEMMA OnceInit ==
  ASSUME Init
  PROVE  Quiet => HandledInv /\ AskedInv
<1>1. setting \in Settings /\ Telegram \subseteq Task /\ MaxUpdates \in Nat
  BY SettingFacts DEF Init, HInit
<1>2. /\ \A u \in 1..MaxUpdates : handled[u] = 0
      /\ \A t \in Task, v \in 1..MaxVisits : asked[t][v] = 0
      /\ \A b \in Bridges : bridge[b] = AtRest /\ bridge[b].pc = "idle"
  <2>1. AtRest.pc = "idle"
    BY DEF AtRest
  <2>2. \A t \in Task : asked[t] = [v \in 1..MaxVisits |-> 0]
    BY DEF Init
  <2>3. \A b \in Bridges : bridge[b] = AtRest
    BY DEF Init
  <2>4. \A u \in 1..MaxUpdates : handled[u] = 0
    BY DEF Init
  <2> QED BY <2>1, <2>2, <2>3, <2>4
<1>3. HandledInv
  BY <1>1, <1>2 DEF HandledInv, HandledSeen, PassHandled, Opening, Draining
<1>4. AskedInv
  BY <1>2 DEF AskedInv, AskedRow, PassAsked, Asked, Opening
<1> QED BY <1>3, <1>4

\* With the one goroutine, an update of the bot is handed to at most one session
\* and once, and a session's opening turn is sent once: for any number of
\* sessions in any chats, sizes of page and interleavings of visits, clients
\* and polls that fail, as long as operations on a task do not overlap, no node
\* is visited again, cursors are saved and the API keeps running.
THEOREM UpdatesHandledOnce ==
  ASSUME OneBridge
  PROVE  Spec => []HandledOnce
<1> DEFINE Inv == /\ Base /\ (~Overlap => Alone /\ OwedInv)
                  /\ (Quiet => HandledInv /\ AskedInv)
<1>1. Init => Inv
  BY BaseInit, AloneInit, OwedInit, OnceInit
<1>2. Inv /\ [Next /\ UNCHANGED setting]_<<vars, setting>> => Inv'
  <2> SUFFICES ASSUME Inv, UNCHANGED setting, Next \/ UNCHANGED vars
               PROVE  Inv'
    OBVIOUS
  <2>1. Base' /\ ((~Overlap)' => Alone' /\ OwedInv')
    BY BaseKept, AloneKept, OwedKept
  <2>2. (~Overlap)' = ~Overlap /\ (Quiet' <=> Quiet)
    BY DEF Quiet, Overlap, CursorFails
  <2>3. Quiet => ~Overlap
    BY DEF Quiet
  <2>4. Quiet => HandledInv' /\ AskedInv'
    BY <2>3, HandledKept, AskedKept
  <2> QED BY <2>1, <2>2, <2>4
<1>3. Inv => HandledOnce
  BY DEF HandledInv, HandledSeen, AskedInv, AskedRow, HandledOnce, Quiet
<1> QED BY <1>1, <1>2, <1>3, PTL DEF Spec

-----------------------------------------------------------------------------
(* The outcome a resumed run starts from                                   *)

\* In settings that OutcomeSeen is about there is one visit of a node or no
\* overlap, and a node with a result key is the only one that parks the run or
\* has such a key, and has its session in the console.  Two of them would bind
\* and push over each other's outcome, and so does the bridge's close, which
\* does not wait for the parked run.
OneOutcome ==
  \A s \in Settings : s.parkedFirst /\ ~s.contextFails =>
    /\ s.overlap => s.visits = 1
    /\ \A t \in s.keyed : /\ s.keyed = {t}
                          /\ s.parking \subseteq {t} /\ t \notin s.telegram

\* The statements in which an operation holds a row.
Holding == {"appending", "closing", "bind", "binding", "resume", "mark", "save"}

\* A row held is one of the node's latest visit, for a task with a result key
\* where an outcome is bound.
HeldOp(op, visit, keyed) ==
  /\ op.pc \in Holding => op.row.visit = visit /\ visit > 0
  /\ op.pc \in {"bind", "binding"} => op.task \in keyed

\* A close is under way only when the parked run is over, and when it is to
\* resume, the document has the outcome of its visit.
ClosingOp(op, over, bound, visit) ==
  /\ op.pc \in {"close", "closing", "bind", "binding", "resume"} => over
  /\ op.pc = "resume" => bound = visit

\* So it has from then on, and the resumed run's own copy as well.
ResumedRun(run, t, over, bound, visit) ==
  run.state # "none" => /\ over /\ bound = visit /\ run.visit = visit
                        /\ run.state = "live" => run.doc[t] = visit

Over == runs[Origin].state = "ended"

RowVisit(row, visit) == row.status # "none" => row.visit = visit /\ visit > 0

ClosesInOrder == \A a \in Agents : agents[a].task \in Keyed =>
  ClosingOp(agents[a], Over, doc[agents[a].task], visits[agents[a].task])

OutcomeInv ==
  /\ runs[Origin].state \in {"live", "ended"}
  /\ Over => \A t \in Task : ~svc[t].busy
  /\ \A t \in Task : runs[t].state # "none" => t \in Parking
  /\ \A t \in Task : RowVisit(tasks[t], visits[t])
  /\ \A a \in Agents : agents[a].pc # "idle" => HeldOp(agents[a], visits[agents[a].task], Keyed)
  /\ ClosesInOrder
  /\ \A t \in Keyed : ResumedRun(runs[t], t, Over, doc[t], visits[t])

Binds == ParkedFirst /\ ~ContextFails

LEMMA OutcomeFacts ==
  ASSUME Base, OneOutcome, Binds
  PROVE  /\ setting \in Settings /\ HTypeOK /\ HandsInv /\ VisitsLeft
         /\ Telegram \subseteq Task /\ Keyed \subseteq Task /\ Parking \subseteq Task
         /\ Origin \notin Task
         /\ Overlap => setting.visits = 1
         /\ \A s, t \in Keyed : s = t
         /\ \A t \in Keyed : Parking \subseteq {t} /\ t \notin Telegram
         /\ \A t \in Task : visits[t] \in Nat /\ svc[t] \in Svc /\ tasks[t] \in Row /\ doc[t] \in Nat
         /\ doc \in [Task -> Nat] /\ runs \in [Task \cup {Origin} -> Run]
         /\ \A r \in Task \cup {Origin} : runs[r] \in Run /\ runs[r].doc \in [Task -> Nat]
         /\ \A a \in Agents : /\ HandOk(Telegram, a, agents[a]) /\ agents[a] \in Op
                              /\ agents[a].row \in Row /\ agents[a].doc \in [Task -> Nat]
         /\ Idle.task = Origin /\ Idle.pc = "idle"
<1>1. setting \in Settings /\ HTypeOK /\ HandsInv /\ VisitsLeft
  BY DEF Base, TypeOK
<1>2. /\ Telegram \subseteq Task /\ Keyed \subseteq Task /\ Parking \subseteq Task
      /\ Origin \notin Task /\ MaxVisits \in Nat
  BY <1>1, SettingFacts
<1>3. /\ Overlap => setting.visits = 1
      /\ \A s, t \in Keyed : s = t
      /\ \A t \in Keyed : Parking \subseteq {t} /\ t \notin Telegram
  BY <1>1 DEF OneOutcome, Binds, ParkedFirst, ContextFails, Overlap, Keyed, Parking, Telegram
<1>4. \A t \in Task : visits[t] \in Nat /\ svc[t] \in Svc /\ tasks[t] \in Row /\ doc[t] \in Nat
  BY <1>1, <1>2 DEF HTypeOK
<1>5. /\ doc \in [Task -> Nat] /\ runs \in [Task \cup {Origin} -> Run]
      /\ \A r \in Task \cup {Origin} : runs[r] \in Run /\ runs[r].doc \in [Task -> Nat]
  BY <1>1 DEF HTypeOK, Run
<1>6. \A a \in Agents : /\ HandOk(Telegram, a, agents[a]) /\ agents[a] \in Op
                        /\ agents[a].row \in Row /\ agents[a].doc \in [Task -> Nat]
  BY <1>1, OpParts DEF HTypeOK, HandsInv
<1> QED BY <1>1, <1>2, <1>3, <1>4, <1>5, <1>6, IdleType

\* One operation goes on, and binds or resumes nothing.
LEMMA OutcomeOwn ==
  ASSUME Base, OneOutcome, Binds, OutcomeInv, UNCHANGED <<setting, svc, visits, doc, runs>>,
         NEW a \in Agents, \A c \in Agents \ {a} : agents'[c] = agents[c],
         \A t \in Task : tasks'[t] = tasks[t] \/ RowVisit(tasks'[t], visits[t]),
         agents'[a].pc = "idle" => agents'[a].task = Origin,
         agents'[a].pc # "idle" => HeldOp(agents'[a], visits[agents'[a].task], Keyed),
         agents'[a].task \in Keyed =>
           ClosingOp(agents'[a], Over, doc[agents'[a].task], visits[agents'[a].task])
  PROVE  OutcomeInv'
<1>1. Keyed' = Keyed /\ Parking' = Parking /\ Over' = Over
  BY DEF Keyed, Parking, Over
<1>2. \A t \in Task : RowVisit(tasks'[t], visits'[t])
  BY DEF OutcomeInv
<1>3. \A c \in Agents : agents'[c].pc # "idle" => HeldOp(agents'[c], visits'[agents'[c].task], Keyed')
  BY <1>1 DEF OutcomeInv
<1>4. ClosesInOrder'
  BY <1>1 DEF OutcomeInv, ClosesInOrder
<1> QED BY <1>1, <1>2, <1>3, <1>4 DEF OutcomeInv

\* A step that leaves the runs and the document, and takes no operation on.
LEMMA OutcomeStill ==
  ASSUME Base, OneOutcome, Binds, OutcomeInv, UNCHANGED <<setting, visits, doc, runs>>,
         \A t \in Task : svc'[t] = svc[t] \/ ~svc'[t].busy,
         \A t \in Task : tasks'[t] = tasks[t] \/ RowVisit(tasks'[t], visits[t]),
         \A a \in Agents : agents'[a] = agents[a] \/ agents'[a] = Idle
  PROVE  OutcomeInv'
<1>1. Keyed' = Keyed /\ Parking' = Parking /\ Over' = Over
  BY DEF Keyed, Parking, Over
<1>2. Keyed \subseteq Task /\ Origin \notin Task /\ Idle.task = Origin /\ Idle.pc = "idle"
  BY OutcomeFacts
<1>3. \A t \in Task : RowVisit(tasks'[t], visits'[t])
  BY DEF OutcomeInv
<1>4. \A c \in Agents : agents'[c].pc # "idle" => HeldOp(agents'[c], visits'[agents'[c].task], Keyed')
  BY <1>1, <1>2 DEF OutcomeInv
<1>5. ClosesInOrder'
  BY <1>1, <1>2 DEF OutcomeInv, ClosesInOrder
<1> QED BY <1>1, <1>3, <1>4, <1>5 DEF OutcomeInv

LEMMA OutcomeSvc ==
  ASSUME Base, OneOutcome, Binds, ~Overlap => Alone, OutcomeInv, UNCHANGED setting,
         NEW t \in Task, SvcRead(t) \/ SvcWrite(t)
  PROVE  OutcomeInv'
<1>1. /\ setting \in Settings /\ HTypeOK /\ HandsInv /\ VisitsLeft
      /\ Keyed \subseteq Task
      /\ Overlap => setting.visits = 1
      /\ \A s \in Task : visits[s] \in Nat
      /\ \A c \in Agents : HandOk(Telegram, c, agents[c])
  BY OutcomeFacts
<1>2. Keyed' = Keyed /\ Parking' = Parking /\ (UNCHANGED runs => Over' = Over)
  BY DEF Keyed, Parking, Over
<1>3. CASE SvcRead(t)
  <2>1. ~Over
    BY <1>3 DEF SvcRead, Over
  <2>2. UNCHANGED <<tasks, agents, doc, runs, told>>
    BY <1>1, <1>3, SvcReadFlat
  <2>3. ClosesInOrder'
    BY <1>2, <2>2 DEF OutcomeInv, ClosesInOrder, told
  <2> QED BY <1>2, <2>1, <2>2, <2>3 DEF OutcomeInv, told
<1>4. CASE SvcWrite(t)
  <2>1. /\ UNCHANGED <<agents, doc, runs>> /\ svc[t].busy /\ visits[t] < setting.visits
        /\ FreshRow(t) \in Row /\ FreshRow(t).visit = visits[t] + 1
        /\ Upsert(t, FreshRow(t)) /\ visits'[t] = visits[t] + 1
        /\ \A s \in Task \ {t} : visits'[s] = visits[s]
    BY <1>1, <1>4, SvcWriteFlat
  <2>2. ~Over
    BY <2>1 DEF OutcomeInv
  <2>3. tasks'[t] = FreshRow(t) /\ \A s \in Task \ {t} : tasks'[s] = tasks[s]
    BY <1>1, <2>1, UpsertFlat
  <2>4. \A s \in Task : RowVisit(tasks'[s], visits'[s])
    BY <1>1, <2>1, <2>3 DEF OutcomeInv, RowVisit
  <2>5. \A c \in Agents : agents[c].task = t => agents[c].pc \notin Holding
    <3> SUFFICES ASSUME NEW c \in Agents, agents[c].task = t, agents[c].pc \in Holding
                 PROVE  FALSE
      OBVIOUS
    <3>1. visits[t] > 0
      BY DEF OutcomeInv, HeldOp, Holding
    <3>2. CASE Overlap
      BY <1>1, <2>1, <3>1, <3>2
    <3>3. CASE ~Overlap
      BY <2>1, <3>3 DEF Alone, Apart
    <3> QED BY <3>2, <3>3
  <2>6. \A c \in Agents : agents'[c].pc # "idle" =>
                            HeldOp(agents'[c], visits'[agents'[c].task], Keyed')
    <3> SUFFICES ASSUME NEW c \in Agents, agents[c].pc # "idle"
                 PROVE  HeldOp(agents[c], visits'[agents[c].task], Keyed)
      BY <1>2, <2>1
    <3>1. agents[c].task \in Task /\ HeldOp(agents[c], visits[agents[c].task], Keyed)
      BY <1>1 DEF OutcomeInv, HandOk
    <3> QED BY <2>1, <2>5, <3>1 DEF HeldOp
  <2>7. ClosesInOrder'
    BY <1>2, <2>1, <2>2 DEF OutcomeInv, ClosesInOrder, ClosingOp
  <2>8. \A s \in Keyed' : ResumedRun(runs'[s], s, Over', doc'[s], visits'[s])
    BY <1>2, <2>1, <2>2 DEF OutcomeInv, ResumedRun
  <2> QED BY <1>2, <2>1, <2>2, <2>4, <2>6, <2>7, <2>8 DEF OutcomeInv
<1> QED BY <1>3, <1>4

LEMMA OutcomeRuns ==
  ASSUME Base, OneOutcome, Binds, OutcomeInv, UNCHANGED setting,
         NEW r \in Task \cup {Origin}, RunPushes(r) \/ RunLoads(r)
  PROVE  OutcomeInv'
<1>1. /\ HTypeOK /\ Keyed \subseteq Task /\ Parking \subseteq Task /\ Origin \notin Task
      /\ \A t \in Keyed : Parking \subseteq {t}
      /\ runs \in [Task \cup {Origin} -> Run]
  BY OutcomeFacts
<1>2. Keyed' = Keyed /\ Parking' = Parking
  BY DEF Keyed, Parking
<1>3. /\ UNCHANGED <<tasks, svc, agents, visits>>
      /\ \A q \in (Task \cup {Origin}) \ {r} : runs'[q] = runs[q]
      /\ runs'[r].visit = runs[r].visit
      /\ \/ /\ RunPushes(r) /\ runs[r].state = "live" /\ doc' = runs[r].doc
            /\ runs'[r].doc = runs[r].doc
            /\ \/ runs'[r].state = "live"
               \/ runs'[r].state = "ended" /\ (r = Origin => \A t \in Task : ~svc[t].busy)
         \/ /\ runs[r].state = "launched" /\ doc' = doc
            /\ runs'[r].state = "live" /\ runs'[r].doc = doc
  <2>1. UNCHANGED <<tasks, svc, agents, visits>>
    BY <1>1, RunFlat DEF told
  <2>2. runs[r] \in Run
    BY <1>1
  <2>3. CASE RunPushes(r)
    <3>1. /\ runs[r].state = "live" /\ doc' = runs[r].doc
          /\ \/ UNCHANGED runs
             \/ /\ r = Origin => \A t \in Task : ~svc[t].busy
                /\ runs' = [runs EXCEPT ![r] = [runs[r] EXCEPT !.state = "ended"]]
      BY <1>1, <2>3 DEF RunPushes
    <3>2. CASE UNCHANGED runs
      BY <2>1, <2>3, <3>1, <3>2
    <3>3. CASE runs' = [runs EXCEPT ![r] = [runs[r] EXCEPT !.state = "ended"]]
      <4>1. /\ \A q \in (Task \cup {Origin}) \ {r} : runs'[q] = runs[q]
            /\ runs'[r] = [runs[r] EXCEPT !.state = "ended"]
        BY <1>1, <3>3
      <4>2. runs'[r].state = "ended" /\ runs'[r].doc = runs[r].doc /\ runs'[r].visit = runs[r].visit
        BY <2>2, <4>1 DEF Run
      <4> QED BY <2>1, <2>3, <3>1, <4>1, <4>2
    <3> QED BY <3>1, <3>2, <3>3
  <2>4. CASE RunLoads(r)
    <3>1. /\ runs[r].state = "launched" /\ doc' = doc
          /\ runs' = [runs EXCEPT ![r] = [runs[r] EXCEPT !.state = "live", !.doc = doc]]
      BY <1>1, <2>4 DEF RunLoads
    <3>2. /\ \A q \in (Task \cup {Origin}) \ {r} : runs'[q] = runs[q]
          /\ runs'[r] = [runs[r] EXCEPT !.state = "live", !.doc = doc]
      BY <1>1, <3>1
    <3>3. runs'[r].state = "live" /\ runs'[r].doc = doc /\ runs'[r].visit = runs[r].visit
      BY <2>2, <3>2 DEF Run
    <3> QED BY <2>1, <3>1, <3>2, <3>3
  <2> QED BY <2>3, <2>4
<1>4. \* The parked run writes: nothing has been closed yet.
      CASE r = Origin
  <2>1. runs[Origin].state = "live" /\ ~Over
    BY <1>3, <1>4 DEF OutcomeInv, Over
  <2>2. runs'[Origin].state \in {"live", "ended"} /\ (Over' => \A t \in Task : ~svc'[t].busy)
    BY <1>3, <1>4, <2>1 DEF Over
  <2>3. \A t \in Task : runs'[t] = runs[t]
    BY <1>1, <1>3, <1>4
  <2>4. ClosesInOrder'
    <3> SUFFICES ASSUME NEW a \in Agents, agents[a].task \in Keyed
                 PROVE  ClosingOp(agents[a], Over', doc'[agents[a].task], visits[agents[a].task])
      BY <1>2, <1>3 DEF ClosesInOrder
    <3> QED BY <2>1 DEF OutcomeInv, ClosesInOrder, ClosingOp
  <2>5. \A t \in Keyed' : ResumedRun(runs'[t], t, Over', doc'[t], visits'[t])
    BY <1>1, <1>2, <1>3, <2>1, <2>3 DEF OutcomeInv, ResumedRun
  <2> QED BY <1>2, <1>3, <2>2, <2>3, <2>4, <2>5 DEF OutcomeInv
<1>5. \* A resumed run: it has the outcome already.
      CASE r # Origin
  <2>1. r \in Task /\ r \in Parking /\ runs'[Origin] = runs[Origin] /\ Over' = Over
    BY <1>1, <1>3, <1>5 DEF OutcomeInv, Over
  <2>2. \A t \in Keyed : t = r
    BY <1>1, <2>1
  <2>3. r \in Keyed => /\ Over /\ doc[r] = visits[r] /\ runs[r].visit = visits[r]
                       /\ runs[r].state = "live" => runs[r].doc[r] = visits[r]
    BY <1>3 DEF OutcomeInv, ResumedRun
  <2>4. r \in Keyed => doc'[r] = visits[r]
    BY <1>3, <2>3
  <2>5. \A t \in Task : runs'[t].state # "none" => t \in Parking
    BY <1>3, <2>1 DEF OutcomeInv
  <2>6. ClosesInOrder'
    <3> SUFFICES ASSUME NEW a \in Agents, agents[a].task \in Keyed
                 PROVE  ClosingOp(agents[a], Over, doc'[agents[a].task], visits[agents[a].task])
      BY <1>2, <1>3, <2>1 DEF ClosesInOrder
    <3> QED BY <2>2, <2>4 DEF OutcomeInv, ClosesInOrder, ClosingOp
  <2>7. \A t \in Keyed' : ResumedRun(runs'[t], t, Over', doc'[t], visits'[t])
    BY <1>2, <1>3, <2>1, <2>2, <2>3, <2>4 DEF ResumedRun
  <2> QED BY <1>2, <1>3, <2>1, <2>5, <2>6, <2>7 DEF OutcomeInv
<1> QED BY <1>4, <1>5

LEMMA OutcomeBegins ==
  ASSUME Base, OneOutcome, Binds, OutcomeInv, UNCHANGED setting,
         NEW a \in Clients, NEW t \in Task, BeginsOn(a, t) \/ DeleteTask(a, t)
  PROVE  OutcomeInv'
<1>1. /\ setting \in Settings /\ HTypeOK /\ a \in Agents
  BY OutcomeFacts DEF Agents
<1>2. CASE BeginsOn(a, t)
  <2>1. /\ UNCHANGED <<tasks, svc, doc, runs, told>>
        /\ \A c \in Agents \ {a} : agents'[c] = agents[c]
        /\ agents'[a].task = t /\ agents'[a].pc \in {"append", "close"}
    BY <1>1, <1>2, BeginFlat
  <2>2. agents'[a].pc = "close" => Over
    <3>1. CASE BeginClose(a, t)
      BY <3>1 DEF BeginClose, Binds, Over
    <3>2. ASSUME NEW op, op.pc = "append", Begins(a, op)
          PROVE  agents'[a].pc = "append"
      BY <1>1, <3>2 DEF Begins, SetAgent, HTypeOK
    <3>3. CASE BeginMessage(a, t) \/ BeginChat(a, t) \/ BeginStart(a, t)
      <4> DEFINE message == [Idle EXCEPT !.pc = "append", !.task = t, !.todo = <<"told">>]
                 chat == [Idle EXCEPT !.pc = "append", !.task = t,
                                      !.todo = <<"told", "reply">>]
                 start == [Idle EXCEPT !.pc = "append", !.task = t, !.todo = <<"reply">>]
      <4>1. message.pc = "append" /\ chat.pc = "append" /\ start.pc = "append"
        BY DEF Idle
      <4>2. Begins(a, message) \/ Begins(a, chat) \/ Begins(a, start)
        BY <3>3 DEF BeginMessage, BeginChat, BeginStart
      <4> HIDE DEF message, chat, start
      <4> QED BY <3>2, <4>1, <4>2
    <3> QED BY <1>2, <3>1, <3>3 DEF BeginsOn
  <2>3. HeldOp(agents'[a], visits[t], Keyed)
    BY <2>1 DEF HeldOp, Holding
  <2>4. ClosingOp(agents'[a], Over, doc[t], visits[t])
    BY <2>1, <2>2 DEF ClosingOp
  <2>5. UNCHANGED <<setting, svc, visits, doc, runs, tasks>>
    BY <2>1 DEF told
  <2> QED BY <1>1, <2>1, <2>3, <2>4, <2>5, OutcomeOwn
<1>3. CASE DeleteTask(a, t)
  <2>1. /\ UNCHANGED <<svc, agents, doc, runs, told>> /\ tasks'[t] = NoRow
        /\ \A s \in Task \ {t} : tasks'[s] = tasks[s]
    BY <1>1, <1>3, DeleteFlat
  <2>2. RowVisit(NoRow, visits[t])
    BY DEF RowVisit, NoRow
  <2> QED BY <2>1, <2>2, OutcomeStill DEF told
<1> QED BY <1>2, <1>3

LEMMA OutcomeWrites ==
  ASSUME Base, OneOutcome, Binds, OutcomeInv, UNCHANGED setting,
         NEW a \in Agents, WritesRow(a)
  PROVE  OutcomeInv'
<1> DEFINE t == agents[a].task
           op == agents[a]
           new == agents'[a]
<1>1. /\ setting \in Settings /\ HTypeOK /\ HandsInv /\ Origin \notin Task
      /\ HandOk(Telegram, a, op) /\ op \in Op /\ Telegram \subseteq Task
      /\ \A s \in Keyed : s \notin Telegram
      /\ Idle.task = Origin /\ Idle.pc = "idle" /\ Keyed \subseteq Task
  BY OutcomeFacts
<1>2. /\ UNCHANGED <<svc, doc, runs, visits>>
      /\ op.pc \in {"appending", "closing"} /\ t \in Task /\ op.row \in Row
      /\ Upsert(t, op.row)
      /\ \A c \in Agents \ {a} : agents'[c] = agents[c]
  BY <1>1, WriteFlat
<1>3. HeldOp(op, visits[t], Keyed) /\ op.row.visit = visits[t] /\ visits[t] > 0
  BY <1>2 DEF OutcomeInv, HeldOp, Holding
<1>4. /\ tasks'[t] = op.row /\ \A s \in Task \ {t} : tasks'[s] = tasks[s]
  BY <1>1, <1>2, UpsertFlat
<1>5. \A s \in Task : tasks'[s] = tasks[s] \/ RowVisit(tasks'[s], visits[s])
  BY <1>3, <1>4 DEF RowVisit
<1>6. \/ new = Idle
      \/ /\ new.task = t /\ new.row = op.row
         /\ \/ op.pc = "appending" /\ new.pc \in {"append", "mark"}
            \/ op.pc = "appending" /\ new.pc = "close" /\ op.then = "close"
            \/ op.pc = "closing" /\ new.pc = "bind" /\ t \in Keyed
            \/ op.pc = "closing" /\ new.pc = "resume" /\ t \notin Keyed
  <2>1. CASE AppendWrite(a)
    BY <1>1, <1>2, <2>1, WriteFlat DEF AppendWrite
  <2>2. CASE CloseWrite(a)
    <3> DEFINE next == [op EXCEPT !.pc = AfterClose(op)]
    <3>1. op.pc = "closing" /\ (SetAgent(a, Idle) \/ SetAgent(a, next))
      BY <2>2 DEF CloseWrite
    <3>2. /\ next.task = t /\ next.row = op.row
          /\ \/ next.pc = "bind" /\ t \in Keyed
             \/ next.pc = "resume" /\ t \notin Keyed
      BY <1>1 DEF Op, AfterClose
    <3>3. new = Idle \/ new = next
      BY <1>1, <3>1 DEF SetAgent, HTypeOK
    <3> HIDE DEF next
    <3> QED BY <3>1, <3>2, <3>3
  <2> QED BY <2>1, <2>2 DEF WritesRow
<1>7. CASE new = Idle
  BY <1>1, <1>2, <1>5, <1>7, OutcomeOwn
<1>8. CASE new # Idle
  <2>1. HeldOp(new, visits[t], Keyed) /\ new.task = t
    BY <1>3, <1>6, <1>8 DEF HeldOp, Holding
  <2>2. ASSUME t \in Keyed
        PROVE  ClosingOp(new, Over, doc[t], visits[t])
    <3>1. ClosingOp(op, Over, doc[t], visits[t])
      BY <2>2 DEF OutcomeInv, ClosesInOrder
    <3>2. op.then = "end"
      BY <1>1, <2>2 DEF HandOk, Agents
    <3> QED BY <1>6, <1>8, <2>2, <3>1, <3>2 DEF ClosingOp
  <2>3. new.pc # "idle"
    BY <1>6, <1>8
  <2> QED BY <1>2, <1>5, <2>1, <2>2, <2>3, OutcomeOwn
<1> QED BY <1>7, <1>8

LEMMA OutcomeMoves ==
  ASSUME Base, OneOutcome, Binds, OutcomeInv, UNCHANGED setting,
         NEW a \in Agents, MovesOn(a)
  PROVE  OutcomeInv'
<1> DEFINE t == agents[a].task
           op == agents[a]
           new == agents'[a]
<1>1. /\ setting \in Settings /\ HTypeOK /\ HandsInv /\ Origin \notin Task
      /\ op \in Op /\ op.row \in Row /\ op.doc \in [Task -> Nat]
      /\ runs \in [Task \cup {Origin} -> Run]
      /\ \A s \in Task : tasks[s] \in Row /\ visits[s] \in Nat
      /\ \A r, s \in Keyed : s = r
      /\ \A s \in Keyed : Parking \subseteq {s}
      /\ Idle.task = Origin /\ Idle.pc = "idle" /\ Keyed \subseteq Task
  BY OutcomeFacts
<1>2. /\ UNCHANGED <<tasks, svc, visits>> /\ t \in Task
      /\ op.pc \in {"append", "close", "bind", "binding", "resume"}
      /\ \A c \in Agents \ {a} : agents'[c] = agents[c]
  BY <1>1, MoveFlat
<1>3. /\ HeldOp(op, visits[t], Keyed) /\ RowVisit(tasks[t], visits[t])
      /\ t \in Keyed => ClosingOp(op, Over, doc[t], visits[t])
  BY <1>2 DEF OutcomeInv, ClosesInOrder
<1>4. CASE TurnFails(a) \/ AppendRead(a) \/ CloseRead(a) \/ BindRead(a)
  <2>1. UNCHANGED <<doc, runs>>
    BY <1>4 DEF TurnFails, AppendRead, CloseRead, BindRead
  <2>2. \/ new = Idle
        \/ /\ new.task = t
           /\ \/ op.pc = "append" /\ new.pc = "appending"
                 /\ Exists(t) /\ new.row = WithTurn(tasks[t])
              \/ op.pc = "close" /\ new.pc = "closing"
                 /\ Exists(t) /\ new.row = Closed(tasks[t])
              \/ op.pc = "bind" /\ new.pc = "binding" /\ new.row = op.row
    <3>1. CASE BindRead(a)
      <4> DEFINE next == [op EXCEPT !.pc = "binding", !.doc = doc]
      <4>1. op.pc = "bind" /\ SetAgent(a, next)
        BY <3>1 DEF BindRead
      <4>2. next.task = t /\ next.pc = "binding" /\ next.row = op.row
        BY <1>1 DEF Op
      <4>3. new = next
        BY <1>1, <4>1 DEF SetAgent, HTypeOK
      <4> HIDE DEF next
      <4> QED BY <4>1, <4>2, <4>3
    <3>2. CASE TurnFails(a) \/ AppendRead(a) \/ CloseRead(a)
      <4>1. op.pc \in {"append", "close"}
        BY <3>2 DEF TurnFails, AppendRead, CloseRead
      <4> QED BY <1>1, <4>1, MoveFlat
    <3> QED BY <1>4, <3>1, <3>2
  <2>3. CASE new = Idle
    BY <1>1, <1>2, <2>1, <2>3, OutcomeOwn
  <2>4. CASE new # Idle
    <3>1. WithTurn(tasks[t]).visit = tasks[t].visit /\ Closed(tasks[t]).visit = tasks[t].visit
      BY <1>1, <1>2, WithTurnRow, ClosedRow
    <3>2. HeldOp(new, visits[t], Keyed) /\ new.task = t /\ new.pc # "idle"
      BY <1>3, <2>2, <2>4, <3>1 DEF HeldOp, Holding, RowVisit, Exists
    <3>3. t \in Keyed => ClosingOp(new, Over, doc[t], visits[t])
      BY <1>3, <2>2, <2>4 DEF ClosingOp
    <3> QED BY <1>2, <2>1, <2>4, <3>2, <3>3, OutcomeOwn
  <2> QED BY <2>3, <2>4
<1>5. ~BindFails(a)
  BY DEF BindFails, Binds
<1>6. CASE BindWrite(a)
  <2> DEFINE next == [op EXCEPT !.pc = "resume"]
  <2>1. /\ op.pc = "binding" /\ UNCHANGED runs
        /\ doc' = [op.doc EXCEPT ![t] = op.row.visit]
        /\ SetAgent(a, next)
    BY <1>6 DEF BindWrite
  <2>2. next.task = t /\ next.pc = "resume" /\ next.row = op.row
    BY <1>1 DEF Op
  <2>3. new = next
    BY <1>1, <2>1 DEF SetAgent, HTypeOK
  <2> HIDE DEF next
  <2>4. t \in Keyed /\ op.row.visit = visits[t] /\ visits[t] > 0 /\ Over
    BY <1>3, <2>1 DEF HeldOp, ClosingOp, Holding
  <2>5. doc'[t] = visits[t]
    BY <1>1, <1>2, <2>1, <2>4
  <2>6. \A s \in Keyed : s = t
    BY <1>1, <2>4
  <2>7. Keyed' = Keyed /\ Parking' = Parking /\ Over' = Over
    BY <2>1 DEF Keyed, Parking, Over
  <2>8. \A c \in Agents : agents'[c].pc # "idle" =>
                            HeldOp(agents'[c], visits'[agents'[c].task], Keyed')
    <3>1. HeldOp(new, visits[t], Keyed)
      BY <2>2, <2>3, <2>4 DEF HeldOp
    <3> QED BY <1>2, <2>2, <2>3, <2>7, <3>1 DEF OutcomeInv
  <2>9. ClosesInOrder'
    <3> SUFFICES ASSUME NEW c \in Agents, agents'[c].task \in Keyed
                 PROVE  ClosingOp(agents'[c], Over, doc'[agents'[c].task],
                                  visits[agents'[c].task])
      BY <1>2, <2>7 DEF ClosesInOrder
    <3>1. agents'[c].task = t
      BY <2>6
    <3> QED BY <2>4, <2>5, <3>1 DEF ClosingOp
  <2>10. \A s \in Keyed' : ResumedRun(runs'[s], s, Over', doc'[s], visits'[s])
    BY <1>2, <2>1, <2>5, <2>6, <2>7 DEF OutcomeInv, ResumedRun
  <2> QED BY <1>2, <2>1, <2>7, <2>8, <2>9, <2>10 DEF OutcomeInv
<1>7. CASE Resume(a)
  <2> DEFINE launched == [NoRun EXCEPT !.state = "launched", !.visit = op.row.visit]
  <2>1. /\ op.pc = "resume" /\ UNCHANGED doc /\ SetAgent(a, Idle)
        /\ \/ UNCHANGED runs
           \/ t \in Parking /\ runs' = [runs EXCEPT ![t] = launched]
    BY <1>7 DEF Resume, ResumesRun
  <2>2. new = Idle
    BY <1>1, <2>1 DEF SetAgent, HTypeOK
  <2>3. CASE UNCHANGED runs
    BY <1>1, <1>2, <2>1, <2>2, <2>3, OutcomeOwn
  <2>4. CASE t \in Parking /\ runs' = [runs EXCEPT ![t] = launched]
    <3>1. launched.state = "launched" /\ launched.visit = op.row.visit
      BY DEF NoRun
    <3> HIDE DEF launched
    <3>2. runs'[t] = launched /\ \A r \in (Task \cup {Origin}) \ {t} : runs'[r] = runs[r]
      BY <1>1, <1>2, <2>4
    <3>3. Keyed' = Keyed /\ Parking' = Parking /\ Over' = Over /\ runs'[Origin] = runs[Origin]
      BY <1>1, <1>2, <3>2 DEF Keyed, Parking, Over
    <3>4. \A s \in Task : runs'[s].state # "none" => s \in Parking
      BY <2>4, <3>2 DEF OutcomeInv
    <3>5. \A c \in Agents : agents'[c].pc # "idle" =>
                              HeldOp(agents'[c], visits'[agents'[c].task], Keyed')
      BY <1>1, <1>2, <2>2, <3>3 DEF OutcomeInv
    <3>6. ClosesInOrder'
      BY <1>1, <1>2, <2>1, <2>2, <3>3 DEF OutcomeInv, ClosesInOrder
    <3>7. ASSUME NEW s \in Keyed
          PROVE  ResumedRun(runs'[s], s, Over, doc[s], visits[s])
      <4>1. CASE s = t
        <5>1. Over /\ doc[t] = visits[t] /\ op.row.visit = visits[t]
          BY <1>3, <2>1, <3>7, <4>1 DEF ClosingOp, HeldOp, Holding
        <5> QED BY <3>1, <3>2, <4>1, <5>1 DEF ResumedRun
      <4>2. CASE s # t
        BY <1>1, <3>2, <3>7, <4>2 DEF OutcomeInv
      <4> QED BY <4>1, <4>2
    <3> QED BY <1>2, <2>1, <3>3, <3>4, <3>5, <3>6, <3>7 DEF OutcomeInv
  <2> QED BY <2>1, <2>3, <2>4
<1> QED BY <1>4, <1>5, <1>6, <1>7 DEF MovesOn

LEMMA OutcomeBridge ==
  ASSUME Base, OneOutcome, Binds, OutcomeInv, UNCHANGED setting,
         NEW b \in Bridges, BridgeNext(b)
  PROVE  OutcomeInv'
<1>1. /\ setting \in Settings /\ HTypeOK /\ b \in Agents
      /\ \A s \in Keyed : s \notin Telegram
      /\ \A s \in Task : tasks[s] \in Row
      /\ Idle.task = Origin /\ Idle.pc = "idle"
      /\ Keyed \subseteq Task /\ Origin \notin Task /\ Telegram \subseteq Task
      /\ \A a \in Agents : agents[a].row \in Row
  BY OutcomeFacts DEF Agents
<1>2. \A s \in Task : RowVisit(tasks[s], visits[s])
  BY DEF OutcomeInv
<1>3. \* One of the bridge's operations begins, on a session of Telegram.
      ASSUME NEW t \in Telegram, UNCHANGED <<tasks, svc, doc, runs, told>>,
             \A c \in Agents \ {b} : agents'[c] = agents[c],
             agents'[b].task = t,
             \/ agents'[b].pc = "append"
             \/ agents'[b].pc = "save" /\ Exists(t) /\ agents'[b].row.visit = tasks[t].visit
      PROVE  OutcomeInv'
  <2>1. HeldOp(agents'[b], visits[t], Keyed) /\ t \notin Keyed /\ agents'[b].pc # "idle"
    BY <1>1, <1>2, <1>3 DEF HeldOp, Holding, RowVisit, Exists
  <2> QED BY <1>1, <1>3, <2>1, OutcomeOwn DEF told
<1>4. \* The bridge writes the row it holds, with what it marks on it.
      ASSUME NEW row \in Row, NEW t \in Task, t = agents[b].task,
             agents[b].pc \in Holding, agents[b].pc # "idle",
             row.visit = agents[b].row.visit, Upsert(t, row),
             UNCHANGED <<svc, doc, runs, told>>, agents'[b] = Idle,
             \A c \in Agents \ {b} : agents'[c] = agents[c]
      PROVE  OutcomeInv'
  <2>1. row.visit = visits[t] /\ visits[t] > 0
    BY <1>1, <1>4 DEF OutcomeInv, HeldOp
  <2>2. tasks'[t] = row /\ \A s \in Task \ {t} : tasks'[s] = tasks[s]
    BY <1>1, <1>4, UpsertFlat
  <2>3. \A s \in Task : tasks'[s] = tasks[s] \/ RowVisit(tasks'[s], visits[s])
    BY <2>1, <2>2 DEF RowVisit
  <2> QED BY <1>1, <1>4, <2>3, OutcomeStill DEF told
<1>5. CASE Passes(b)
  <2>1. UNCHANGED hvars
    BY <1>5, PassesFlat
  <2> QED BY <2>1, OutcomeStill DEF hvars
<1>6. CASE OpenSend(b)
  <2>1. /\ UNCHANGED <<tasks, svc, doc, runs, told>> /\ bridge[b].task \in Telegram
        /\ \A c \in Agents \ {b} : agents'[c] = agents[c]
        /\ agents'[b].pc = "append" /\ agents'[b].task = bridge[b].task
    BY <1>6, OpenSendFlat
  <2> QED BY <1>3, <2>1
<1>7. CASE OpenMark(b)
  <2> DEFINE row == Marked(agents[b].row, bridge[b].cursor)
  <2>1. /\ UNCHANGED <<svc, doc, runs, told>> /\ agents[b].pc = "mark"
        /\ agents[b].task \in Telegram /\ agents'[b] = Idle
        /\ bridge[b].cursor \in Nat /\ Upsert(agents[b].task, row)
        /\ \A c \in Agents \ {b} : agents'[c] = agents[c]
    BY <1>7, OpenMarkFlat
  <2>2. row \in Row /\ row.visit = agents[b].row.visit
    BY <1>1, <2>1, MarkedRow
  <2> HIDE DEF row
  <2> QED BY <1>1, <1>4, <2>1, <2>2 DEF Holding
<1>8. ASSUME NEW t \in Task, Handle(b, t)
      PROVE  OutcomeInv'
  <2>1. /\ UNCHANGED <<tasks, svc, doc, runs, told>> /\ t \in Telegram
        /\ \A c \in Agents \ {b} : agents'[c] = agents[c]
        /\ \/ agents'[b] = agents[b]
           \/ agents'[b].pc = "append" /\ agents'[b].task = t
    BY <1>8, HandleFlat
  <2>2. CASE agents'[b] = agents[b]
    BY <2>1, <2>2, OutcomeStill DEF told
  <2> QED BY <1>3, <2>1, <2>2
<1>9. ASSUME NEW t \in Task, SaveRead(b, t)
      PROVE  OutcomeInv'
  <2> DEFINE row == [tasks[t] EXCEPT !.cursor = bridge[b].high]
  <2>1. /\ UNCHANGED <<tasks, svc, doc, runs, told>> /\ t \in Telegram
        /\ \A c \in Agents \ {b} : agents'[c] = agents[c]
        /\ \/ agents'[b] = Idle
           \/ /\ Exists(t) /\ agents'[b].pc = "save" /\ agents'[b].task = t
              /\ agents'[b].row = row
    BY <1>9, SaveReadFlat
  <2>2. bridge[b].high \in Nat
    BY RecParts DEF Base, TypeOK
  <2>3. row.visit = tasks[t].visit
    BY <1>1, <2>2, CursorRow
  <2> HIDE DEF row
  <2>4. CASE agents'[b] = Idle
    BY <2>1, <2>4, OutcomeStill DEF told
  <2> QED BY <1>3, <2>1, <2>3, <2>4
<1>10. CASE SaveWrite(b) \/ SaveFails(b)
  <2>1. /\ UNCHANGED <<svc, doc, runs, told>> /\ agents[b].pc = "save"
        /\ agents[b].task \in Telegram /\ agents'[b] = Idle
        /\ \A c \in Agents \ {b} : agents'[c] = agents[c]
        /\ UNCHANGED tasks \/ Upsert(agents[b].task, agents[b].row)
    BY <1>10, SaveFlat
  <2>2. CASE UNCHANGED tasks
    BY <2>1, <2>2, OutcomeStill DEF told
  <2>3. CASE Upsert(agents[b].task, agents[b].row)
    BY <1>1, <1>4, <2>1, <2>3 DEF Holding
  <2> QED BY <2>1, <2>2, <2>3
<1> QED BY <1>5, <1>6, <1>7, <1>8, <1>9, <1>10 DEF BridgeNext, Passes

LEMMA OutcomeKept ==
  ASSUME Base, OneOutcome, ~Overlap => Alone, Binds => OutcomeInv,
         [Next /\ UNCHANGED setting]_<<vars, setting>>
  PROVE  Binds' => OutcomeInv'
<1> SUFFICES ASSUME Binds, OutcomeInv, UNCHANGED setting, Next \/ UNCHANGED vars
             PROVE  OutcomeInv'
  BY DEF Binds, ParkedFirst, ContextFails
<1>1. CASE UNCHANGED vars
  BY <1>1, OutcomeStill DEF vars, hvars
<1>2. CASE TaskStep
  <2>1. \/ \E t \in Task : SvcRead(t) \/ SvcWrite(t)
        \/ \E r \in Task \cup {Origin} : RunPushes(r) \/ RunLoads(r)
        \/ \E a \in Clients, t \in Task : BeginsOn(a, t) \/ DeleteTask(a, t)
        \/ \E a \in Agents : MovesOn(a) \/ WritesRow(a)
    BY <1>2 DEF TaskStep, ClientBegins, AgentNext, BeginsOn, MovesOn, WritesRow
  <2> QED BY <2>1, OutcomeSvc, OutcomeRuns, OutcomeBegins, OutcomeMoves, OutcomeWrites
<1>3. ASSUME NEW chat \in Chat, NEW kind \in Kinds, Receive(chat, kind)
      PROVE  OutcomeInv'
  BY <1>3, OutcomeStill DEF Receive, hvars
<1>4. CASE Restart
  <2>1. HRestart
    BY <1>4 DEF Restart
  <2>2. /\ UNCHANGED <<tasks, doc, runs, told>> /\ \A t \in Task : ~svc'[t].busy
        /\ \A a \in Agents : agents'[a] = Idle
    BY <2>1, RestartFlat, OutcomeFacts
  <2> QED BY <2>2, OutcomeStill DEF told
<1> QED BY <1>1, <1>2, <1>3, <1>4, OutcomeBridge DEF Next

LEMMA OutcomeInit ==
  ASSUME Init
  PROVE  OutcomeInv
<1>1. /\ setting \in Settings /\ HInit
  BY DEF Init, HInit
<1>2. Origin \notin Task /\ Keyed \subseteq Task
  BY <1>1, SettingFacts
<1>3. /\ NoRow.status = "none" /\ Idle.pc = "idle" /\ Idle.task = Origin
      /\ NoRun.state = "none" /\ [NoRun EXCEPT !.state = "live"].state = "live"
  BY DEF NoRow, Idle, NoRun
<1>4. runs[Origin].state = "live" /\ \A t \in Task : runs[t].state = "none"
  BY <1>1, <1>2, <1>3 DEF HInit
<1>5. /\ \A t \in Task : tasks[t].status = "none"
      /\ \A a \in Agents : agents[a] = Idle
  BY <1>1, <1>3 DEF HInit
<1> QED BY <1>2, <1>3, <1>4, <1>5
        DEF OutcomeInv, ClosesInOrder, RowVisit, ResumedRun, Over

\* A run that a close resumes after the parked run has ended starts from a
\* document with the outcome of its own visit, whatever clients, retries,
\* restarts and the bridge do meanwhile, also when operations on the task
\* overlap: the parked run's last write is before every bind, and every bind
\* before its resume.
THEOREM OutcomeIsSeen ==
  ASSUME OneOutcome
  PROVE  Spec => []OutcomeSeen
<1> DEFINE Inv == Base /\ (~Overlap => Alone) /\ (Binds => OutcomeInv)
<1>1. Init => Inv
  BY BaseInit, AloneInit, OutcomeInit
<1>2. Inv /\ [Next /\ UNCHANGED setting]_<<vars, setting>> => Inv'
  BY BaseKept, AloneKept, OutcomeKept
<1>3. Inv => OutcomeSeen
  BY DEF Binds, OutcomeInv, ResumedRun, OutcomeSeen
<1> QED BY <1>1, <1>2, <1>3, PTL DEF Spec

===============================================================================
