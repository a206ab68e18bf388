------------------------------ MODULE HumanTasks ------------------------------
(***************************************************************************)
(* Human-in-the-Loop tasks: the human_tasks table, the svc handler that    *)
(* records a task when a run reaches the node, the HTTP and MCP operations *)
(* on it, the context document a close writes into and the run a close     *)
(* resumes.                                                                *)
(*                                                                         *)
(* The repository's AppendMessage and Close are GetByID followed by an     *)
(* Upsert of the whole row, with nothing that ties the two together, and   *)
(* so is the write into the context document.  One action is one such      *)
(* statement with the local work up to the next; the model's and the       *)
(* messenger's answers come between two of them.                           *)
(***************************************************************************)
EXTENDS Naturals, Sequences

CONSTANTS
  Task,         \* tasks: one per (process, node), all of one run, one context
  Clients,      \* goroutines serving HTTP and MCP requests
  Bridges,      \* the Telegram bridge's goroutine
  Origin,       \* the run that reaches the nodes
  MaxVisits,    \* bound on how often a run reaches a node
  Settings      \* what behaviours may assume: a behaviour has one of them

\* A setting: the tasks whose nodes the run reaches, the clients there are and
\* what they ask for; the tasks whose node parks the run and has next nodes,
\* whose node has a result key to bind the outcome under, whose session is
\* held in Telegram; may operations on one task overlap; does a close wait
\* until the parked run has ended; may the context be missing or unusable when
\* a close needs it.  Then bounds: on the visits of a node, on the turns a
\* client finds in a thread it adds to, on restarts of the API.
ASSUME TasksOK ==
  /\ Origin \notin Task
  /\ Clients \cap Bridges = {}
  /\ MaxVisits \in Nat \ {0}
  /\ \A s \in Settings :
       /\ s.reached \cup s.parking \cup s.keyed \cup s.telegram \subseteq Task
       /\ s.clients \subseteq Clients
       /\ s.operations \subseteq {"close", "message", "chat", "start", "delete"}
       /\ {s.overlap, s.parkedFirst, s.contextFails} \subseteq BOOLEAN
       /\ s.visits \in 1..MaxVisits
       /\ {s.turns, s.restarts} \subseteq Nat

VARIABLES
  setting,  \* the setting of this behaviour; no step changes it
  tasks,    \* the human_tasks table
  order,    \* updated_at: <<s, t>> where s was written before t
  svc,      \* HandleHumanTask at work on a task
  agents,   \* the operation each client or bridge is in
  doc,      \* the context document: which visit's outcome is bound for a task
  runs,     \* the parking run and the run a task's close has resumed
  restarts, \* restarts so far
  visits,   \* history: how often the run has reached each node
  said,     \* history: turns acknowledged in the current visit
  resumes,  \* history: runs launched by closes, per visit
  settled   \* history: visits a client's close has been answered for

hvars == <<tasks, order, svc, agents, doc, runs, restarts, visits, said,
           resumes, settled>>

told == <<visits, said, resumes, settled>>

Agents == Clients \cup Bridges

Operations == setting.operations
Parking == setting.parking
Keyed == setting.keyed
Telegram == setting.telegram
Overlap == setting.overlap
ParkedFirst == setting.parkedFirst
ContextFails == setting.contextFails

-----------------------------------------------------------------------------
(* Rows.  `visit` is not a column: it says which visit of the node the rest *)
(* of the row was recorded by.  No code raises questions, so a task is     *)
(* never "answered" and Answer always refuses.                             *)

Row == [status : {"none", "open", "closed"},
        visit  : 0..MaxVisits,
        thread : Nat,       \* how many turns the thread has
        opened : BOOLEAN,   \* telegram binding: the first turn was delivered
        cursor : Nat]       \* telegram binding: the last update consumed

NoRow == [status |-> "none", visit |-> 0, thread |-> 0, opened |-> FALSE,
          cursor |-> 0]

Exists(t) == tasks[t].status # "none"

\* Upsert: the whole row, inserted if it is not there.
Upsert(t, row) ==
  /\ tasks' = [tasks EXCEPT ![t] = row]
  /\ order' = {p \in order : p[1] # t} \cup ((Task \ {t}) \X {t})

UnchangedTable == UNCHANGED <<tasks, order>>

\* A turn whose text is at hand is "told"; a "reply" must first be made by
\* the model and, in a messenger, sent.
Turns == {<<>>, <<"told">>, <<"reply">>, <<"told", "reply">>}

\* pc is the next statement ("mark" and "save" are the bridge's own); todo the
\* turns still to append; then what follows them; row and doc the copies held; before what the row's status was.
Idle == [pc |-> "idle", task |-> Origin, todo |-> <<>>, then |-> "end",
         row |-> NoRow, before |-> "none", doc |-> [t \in Task |-> 0]]

Op == [pc : {"idle", "append", "appending", "close", "closing", "bind",
             "binding", "resume", "mark", "save"},
       task : Task \cup {Origin}, todo : Turns, then : {"end", "close", "mark"},
       row : Row, before : {"none", "open", "closed"}, doc : [Task -> Nat]]

NoSvc == [busy |-> FALSE, opened |-> FALSE, cursor |-> 0]
Svc == [busy : BOOLEAN, opened : BOOLEAN, cursor : Nat]

Run == [state : {"none", "launched", "live", "ended"},
        visit : Nat, doc : [Task -> Nat]]
NoRun == [state |-> "none", visit |-> 0, doc |-> [t \in Task |-> 0]]

HTypeOK ==
  /\ tasks \in [Task -> Row]
  /\ order \in SUBSET (Task \X Task)
  /\ svc \in [Task -> Svc]
  /\ agents \in [Agents -> Op]
  /\ doc \in [Task -> Nat]
  /\ runs \in [Task \cup {Origin} -> Run]
  /\ restarts \in 0..setting.restarts
  /\ visits \in [Task -> 0..MaxVisits]
  /\ said \in [Task -> Nat]
  /\ resumes \in [Task -> [1..MaxVisits -> Nat]]
  /\ settled \in [Task -> SUBSET (0..MaxVisits)]

HInit ==
  /\ setting \in Settings
  /\ tasks = [t \in Task |-> NoRow]
  /\ order = {}
  /\ svc = [t \in Task |-> NoSvc]
  /\ agents = [a \in Agents |-> Idle]
  /\ doc = [t \in Task |-> 0]
  /\ runs = [r \in Task \cup {Origin} |->
               IF r = Origin THEN [NoRun EXCEPT !.state = "live"] ELSE NoRun]
  /\ restarts = 0
  /\ visits = [t \in Task |-> 0]
  /\ said = [t \in Task |-> 0]
  /\ resumes = [t \in Task |-> [v \in 1..MaxVisits |-> 0]]
  /\ settled = [t \in Task |-> {}]

Busy(t) == svc[t].busy \/ \E a \in Agents : agents[a].task = t

\* With Overlap off, an operation on a task begins when no other is under way.
MayBegin(t) == Overlap \/ ~Busy(t)

-----------------------------------------------------------------------------
(* HandleHumanTask                                                         *)

\* A messenger task's prior row is read for what the bridge keeps on it.
SvcRead(t) ==
  /\ runs[Origin].state = "live"
  /\ ~svc[t].busy
  /\ t \in setting.reached
  /\ visits[t] < setting.visits
  /\ MayBegin(t)
  /\ svc' = [svc EXCEPT ![t] =
               IF t \in Telegram
                 THEN [busy |-> TRUE, opened |-> tasks[t].opened,
                       cursor |-> tasks[t].cursor]
                 ELSE [NoSvc EXCEPT !.busy = TRUE]]
  /\ UNCHANGED <<agents, doc, runs, restarts, told>>
  /\ UnchangedTable

\* The row of a fresh visit: open, no turns, the bridge's own state carried.
FreshRow(t) ==
  [status |-> "open", visit |-> visits[t] + 1, thread |-> 0,
   opened |-> svc[t].opened, cursor |-> svc[t].cursor]

\* Upsert, and the reply that parks or continues the run.
SvcWrite(t) ==
  /\ svc[t].busy
  /\ Upsert(t, FreshRow(t))
  /\ svc' = [svc EXCEPT ![t] = NoSvc]
  /\ visits' = [visits EXCEPT ![t] = @ + 1]
  /\ said' = [said EXCEPT ![t] = 0]
  /\ UNCHANGED <<agents, doc, runs, restarts, resumes, settled>>

-----------------------------------------------------------------------------
(* Runs and the context document                                           *)

\* A run's context write is its own document, whole, over whatever is there;
\* the last one comes as it ends.
RunPushes(r) ==
  /\ runs[r].state = "live"
  /\ doc' = runs[r].doc
  /\ \/ UNCHANGED runs
     \/ /\ r = Origin => \A t \in Task : ~svc[t].busy
        /\ runs' = [runs EXCEPT ![r].state = "ended"]
  /\ UNCHANGED <<svc, agents, restarts, told>>
  /\ UnchangedTable

\* RetrieveContext: a resumed run starts from the stored document.
RunLoads(r) ==
  /\ runs[r].state = "launched"
  /\ runs' = [runs EXCEPT ![r] = [@ EXCEPT !.state = "live", !.doc = doc]]
  /\ UNCHANGED <<svc, agents, doc, restarts, told>>
  /\ UnchangedTable

-----------------------------------------------------------------------------
(* Operations: how each begins                                             *)

SetAgent(a, op) == agents' = [agents EXCEPT ![a] = op]

Begins(a, op) ==
  /\ agents[a].pc = "idle"
  /\ MayBegin(op.task)
  /\ SetAgent(a, op)
  /\ UNCHANGED <<svc, doc, runs, restarts, told>>
  /\ UnchangedTable

\* close: GetByID, for whether the task is already closed.
BeginClose(a, t) ==
  /\ "close" \in Operations
  /\ Exists(t)
  /\ ParkedFirst => runs[Origin].state = "ended"
  /\ Begins(a, [Idle EXCEPT !.pc = "close", !.task = t,
                            !.before = tasks[t].status])

\* message: any turn, on any task, at any time.
BeginMessage(a, t) ==
  /\ "message" \in Operations
  /\ said[t] < setting.turns
  /\ Begins(a, [Idle EXCEPT !.pc = "append", !.task = t, !.todo = <<"told">>])

\* chat: refused on a closed task and on one held in a messenger.
BeginChat(a, t) ==
  /\ "chat" \in Operations
  /\ said[t] < setting.turns
  /\ tasks[t].status = "open"
  /\ t \notin Telegram
  /\ Begins(a, [Idle EXCEPT !.pc = "append", !.task = t,
                            !.todo = <<"told", "reply">>])

\* start: the same, and only on an empty thread.
BeginStart(a, t) ==
  /\ "start" \in Operations
  /\ said[t] < setting.turns
  /\ tasks[t].status = "open"
  /\ t \notin Telegram
  /\ tasks[t].thread = 0
  /\ Begins(a, [Idle EXCEPT !.pc = "append", !.task = t,
                            !.todo = <<"reply">>])

\* deleteByID: one statement.
DeleteTask(a, t) ==
  /\ "delete" \in Operations
  /\ agents[a].pc = "idle"
  /\ MayBegin(t)
  /\ Exists(t)
  /\ tasks' = [tasks EXCEPT ![t] = NoRow]
  /\ UNCHANGED <<order, svc, agents, doc, runs, restarts, told>>

-----------------------------------------------------------------------------
(* AppendMessage                                                           *)

OnlyTurn(row) == [row EXCEPT !.thread = 1]
WithTurn(row) == [row EXCEPT !.thread = @ + 1]

\* The model, or the chat it answers in, failed: the turn is not appended.
TurnFails(a) ==
  /\ agents[a].pc = "append"
  /\ Head(agents[a].todo) = "reply"
  /\ SetAgent(a, Idle)
  /\ UNCHANGED <<svc, doc, runs, restarts, told>>
  /\ UnchangedTable

\* GetByID; a missing task ends the operation.
AppendRead(a) ==
  LET op == agents[a]
  IN /\ op.pc = "append"
     /\ SetAgent(a, IF Exists(op.task)
                      THEN [op EXCEPT !.pc = "appending",
                                      !.row = WithTurn(tasks[op.task])]
                      ELSE Idle)
     /\ UNCHANGED <<svc, doc, runs, restarts, told>>
     /\ UnchangedTable

\* What follows a turn: the next one, a close, or the bridge's mark.
AfterTurn(op) ==
  IF Len(op.todo) > 1
    THEN [op EXCEPT !.pc = "append", !.todo = Tail(@)]
    ELSE IF op.then = "end" THEN Idle
         ELSE [op EXCEPT !.pc = op.then, !.todo = <<>>]

\* Upsert, which inserts the row again if it was deleted.
AppendWrite(a) ==
  LET op == agents[a]
  IN /\ op.pc = "appending"
     /\ Upsert(op.task, op.row)
     /\ said' = IF op.row.visit = visits[op.task]
                  THEN [said EXCEPT ![op.task] = @ + 1] ELSE said
     /\ SetAgent(a, AfterTurn(op))
     /\ UNCHANGED <<svc, doc, runs, restarts, visits, resumes, settled>>

-----------------------------------------------------------------------------
(* Close, the outcome and the resume                                       *)

ClosedAsDone(row) == [row EXCEPT !.status = "done"]
Closed(row) == [row EXCEPT !.status = "closed"]

\* repository Close: GetByID ...
CloseRead(a) ==
  LET op == agents[a]
  IN /\ op.pc = "close"
     /\ SetAgent(a, IF Exists(op.task)
                      THEN [op EXCEPT !.pc = "closing",
                                      !.row = Closed(tasks[op.task])]
                      ELSE Idle)
     /\ UNCHANGED <<svc, doc, runs, restarts, told>>
     /\ UnchangedTable

Settle(a, op) ==
  settled' = IF a \in Clients
               THEN [settled EXCEPT ![op.task] = @ \cup {op.row.visit}]
               ELSE settled

NeverClosed(op) == FALSE
SeenClosed(op) == op.row.status = "closed"
AlreadyClosed(op) == op.before = "closed"

BindLast(op) == "resume"
AfterClose(op) == IF op.task \in Keyed THEN "bind" ELSE "resume"

\* ... and Upsert.  A client that found the task closed is answered now; the
\* bridge's finish asks no such question.
CloseWrite(a) ==
  LET op == agents[a]
  IN /\ op.pc = "closing"
     /\ Upsert(op.task, op.row)
     /\ SetAgent(a, IF AlreadyClosed(op)
                      THEN Idle ELSE [op EXCEPT !.pc = AfterClose(op)])
     /\ UNCHANGED <<svc, doc, runs, restarts, told>>

\* WriteHumanTaskContext: read the context document ...
BindRead(a) ==
  /\ agents[a].pc = "bind"
  /\ SetAgent(a, [agents[a] EXCEPT !.pc = "binding", !.doc = doc])
  /\ UNCHANGED <<svc, doc, runs, restarts, told>>
  /\ UnchangedTable

\* ... or fail to.  A client's close is answered with the error and resumes
\* nothing; the bridge logs it and goes on.
BindFails(a) ==
  LET op == agents[a]
  IN /\ ContextFails
     /\ op.pc = "bind"
     /\ IF a \in Clients
          THEN SetAgent(a, Idle) /\ Settle(a, op)
          ELSE SetAgent(a, [op EXCEPT !.pc = "resume"]) /\ UNCHANGED settled
     /\ UNCHANGED <<svc, doc, runs, restarts, visits, said, resumes>>
     /\ UnchangedTable

\* ... and write it back with the outcome under the node's key.
BindWrite(a) ==
  LET op == agents[a]
  IN /\ op.pc = "binding"
     /\ doc' = [op.doc EXCEPT ![op.task] = op.row.visit]
     /\ SetAgent(a, [op EXCEPT !.pc = "resume"])
     /\ UNCHANGED <<svc, runs, restarts, told>>
     /\ UnchangedTable

ResumesRun(op) == op.task \in Parking

\* ResumeHumanTask: nothing for a task that did not park its run; otherwise a
\* run entered on the captured nodes.
Resume(a) ==
  LET op == agents[a]
      t == op.task
      v == op.row.visit
  IN /\ op.pc = "resume"
     /\ IF ResumesRun(op)
          THEN /\ runs' = [runs EXCEPT ![t] = [NoRun EXCEPT !.state = "launched",
                                                           !.visit = v]]
               /\ resumes' = [resumes EXCEPT ![t][v] = @ + 1]
          ELSE UNCHANGED <<runs, resumes>>
     /\ SetAgent(a, Idle)
     /\ Settle(a, op)
     /\ UNCHANGED <<svc, doc, restarts, visits, said>>
     /\ UnchangedTable

-----------------------------------------------------------------------------
(* A restart takes every goroutine; the engine's unanswered request with it. *)
HRestart ==
  /\ restarts < setting.restarts
  /\ restarts' = restarts + 1
  /\ svc' = [t \in Task |-> NoSvc]
  /\ agents' = [a \in Agents |-> Idle]
  /\ UNCHANGED <<doc, runs, told>>
  /\ UnchangedTable

ClientBegins(a) ==
  /\ a \in setting.clients
  /\ \E t \in Task :
       BeginClose(a, t) \/ BeginMessage(a, t) \/ BeginChat(a, t)
         \/ BeginStart(a, t) \/ DeleteTask(a, t)

AgentNext(a) ==
  \/ TurnFails(a)
  \/ AppendRead(a)
  \/ AppendWrite(a)
  \/ CloseRead(a)
  \/ CloseWrite(a)
  \/ BindRead(a)
  \/ BindFails(a)
  \/ BindWrite(a)
  \/ Resume(a)

HNext ==
  \/ \E t \in Task : SvcRead(t) \/ SvcWrite(t)
  \/ \E r \in Task \cup {Origin} : RunPushes(r) \/ RunLoads(r)
  \/ \E a \in Clients : ClientBegins(a)
  \/ \E a \in Agents : AgentNext(a)
  \/ HRestart

HSpec == HInit /\ [][HNext /\ UNCHANGED setting]_<<hvars, setting>>

-----------------------------------------------------------------------------
(* Properties                                                              *)

\* "An already-closed task is not resumed again": the run of a visit is
\* resumed at most once, however often the task is closed.
ResumedOnce == \A t \in Task : \A v \in 1..MaxVisits : resumes[t][v] <= 1

\* That holds of a task the bridge does not hold (close's alreadyClosed check,
\* where the bridge's finish has none), and a row whose run has been resumed
\* does not become open again, whatever is appended to the thread afterwards.
\* Operations on a task that overlap do both.
ResumedStaysClosed ==
  \A t \in Task :
    Exists(t) /\ tasks[t].visit > 0 /\ resumes[t][tasks[t].visit] > 0
      => tasks[t].status = "closed"
ConsoleResumesOnce ==
  \A t \in Task \ Telegram : \A v \in 1..MaxVisits : resumes[t][v] <= 1
ClosedForGood == ~Overlap => ConsoleResumesOnce /\ ResumedStaysClosed

\* A turn AppendMessage has acknowledged stays in the thread of its visit
\* ("durable even if the model call fails"), and the row stays that of the
\* node's latest visit, when operations on a task do not overlap.
TurnsKept ==
  ~Overlap => \A t \in Task : Exists(t) => /\ said[t] <= tasks[t].thread
                                         /\ tasks[t].visit = visits[t]

\* A run resumed after the parked one has ended starts from a document that
\* has the outcome of its session ("before anything resumes").
OutcomeSeen ==
  ParkedFirst /\ ~ContextFails =>
    \A t \in Keyed : runs[t].state = "live" => runs[t].doc[t] = runs[t].visit

\* Closing a parked task releases its run in the end, unless the API restarts
\* or a client is told that the context cannot be used.
Releases(t) == t \in Parking /\ setting.restarts = 0 /\ ~ContextFails
ClosedIsResumed ==
  \A t \in Task : \A v \in 1..MaxVisits :
    Releases(t) /\ tasks[t].status = "closed" /\ tasks[t].visit = v
      ~> resumes[t][v] > 0

=============================================================================
