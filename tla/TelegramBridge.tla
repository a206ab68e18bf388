---------------------------- MODULE TelegramBridge ----------------------------
(***************************************************************************)
(* The Telegram bridge: one goroutine that opens the sessions of telegram  *)
(* tasks, polls the bot's update stream and runs a turn for every update   *)
(* that belongs to a session, on the table and beside the operations of    *)
(* HumanTasks.  The turns it appends and the close a /done asks for are    *)
(* operations of HumanTasks with the bridge as their agent.                *)
(*                                                                         *)
(* One bot: its updates are numbered from 1 and Telegram forgets those     *)
(* below an offset it was asked for.  Webhook, settings, model and send    *)
(* failures are one choice each time a turn needs them.                    *)
(***************************************************************************)
EXTENDS HumanTasks, FiniteSets

CONSTANTS
  Chat,        \* chats with the bot
  ChatOf,      \* the chat each task is bound to, if it is held in Telegram
  MaxUpdates,  \* bound on updates
  MaxRepeats   \* bound on failing cursor writes: none once an update was handled this often

\* What a setting says besides: the kinds of messages people send, "text",
\* "done" (the command) and "photo"; the updates one poll returns at most
\* (hitlTelegramBatch); a bound on updates; may saving a cursor fail.
ASSUME BridgeOK ==
  /\ ChatOf \in [Task -> Chat]
  /\ MaxUpdates \in Nat
  /\ MaxRepeats \in Nat \ {0}
  /\ \A s \in Settings :
       /\ s.kinds \subseteq {"text", "done", "photo"}
       /\ s.page \in Nat \ {0}
       /\ s.updates \in 0..MaxUpdates
       /\ s.cursorFails \in BOOLEAN

VARIABLES
  stream,    \* every update the bot has received, in order
  forgotten, \* Telegram has dropped the updates up to this one
  bridge,    \* the goroutine's state
  asked,     \* history: opening turns sent, per visit
  handled,   \* history: how often each update was handed to a session
  owed       \* history: updates not handled yet, with the sessions open for them

bvars == <<stream, forgotten, bridge, asked, handled, owed>>
vars == <<hvars, bvars>>

Kinds == setting.kinds
PageSize == setting.page
CursorFails == setting.cursorFails

Update == [chat : Chat, kind : Kinds]

\* pc: where the pass is.  list holds the copies the pass listed (status
\* "none" for a task not on it) and ranks their order; todo the tasks still
\* to open or to save the cursor of; page the updates of the poll still to
\* handle, after and high the cursor it polled from and the highest it saw.
Bridge == [pc : {"idle", "open", "opening", "sent", "poll", "page", "turn",
                 "ack"},
           list : [Task -> Row], ranks : SUBSET (Task \X Task), todo : SUBSET Task,
           page : Seq(1..MaxUpdates), high : Nat,
           task : Task \cup {Origin}, cursor : Nat]

NoList == [t \in Task |-> NoRow]

AtRest == [pc |-> "idle", list |-> NoList, ranks |-> {}, todo |-> {},
           page |-> <<>>, high |-> 0, task |-> Origin, cursor |-> 0]

TypeOK ==
  /\ HTypeOK
  /\ stream \in Seq(Update)
  /\ Len(stream) <= setting.updates
  /\ forgotten \in 0..MaxUpdates
  /\ bridge \in [Bridges -> Bridge]
  /\ asked \in [Task -> [1..MaxVisits -> Nat]]
  /\ handled \in [1..MaxUpdates -> Nat]
  /\ owed \in SUBSET (Telegram \X (1..MaxUpdates))

Init ==
  /\ HInit
  /\ stream = <<>>
  /\ forgotten = 0
  /\ bridge = [b \in Bridges |-> AtRest]
  /\ asked = [t \in Task |-> [v \in 1..MaxVisits |-> 0]]
  /\ handled = [u \in 1..MaxUpdates |-> 0]
  /\ owed = {}

-----------------------------------------------------------------------------
(* Telegram                                                                *)

\* Open sessions of a chat, by the table.
Sessions(chat) ==
  {t \in Telegram : ChatOf[t] = chat /\ tasks[t].status = "open" /\ tasks[t].opened}

\* Somebody writes to the bot.
Receive(chat, kind) ==
  /\ Len(stream) < setting.updates
  /\ stream' = Append(stream, [chat |-> chat, kind |-> kind])
  /\ owed' = owed \cup (Sessions(chat) \X {Len(stream) + 1})
  /\ UNCHANGED <<hvars, forgotten, bridge, asked, handled>>

\* TelegramLatestUpdateID: the newest update Telegram still has, or 0.
LatestUpdateID == IF Len(stream) > forgotten THEN Len(stream) ELSE 0

Larger(i, j) == IF i > j THEN i ELSE j
Smaller(i, j) == IF i < j THEN i ELSE j

\* TelegramUpdates: a page of the updates after `after`, which is the offset
\* Telegram forgets up to (no offset is sent for 0).
Page(after) ==
  LET from == Larger(after, forgotten)
  IN [k \in 1..Smaller(PageSize, Len(stream) - from) |-> from + k]

-----------------------------------------------------------------------------
(* A pass: opening the sessions that have not spoken                       *)

SetBridge(b, rec) == bridge' = [bridge EXCEPT ![b] = rec]

\* liveTasks and deliverable: the open tasks held in Telegram.
Live == {t \in Telegram : tasks[t].status = "open"}
Listed == [t \in Task |-> IF t \in Live THEN tasks[t] ELSE NoRow]
OnList(list) == {t \in Task : list[t].status # "none"}

HasUnopened == \E t \in Live : ~tasks[t].opened
HasWork == Live # {}

\* pass: nothing to do without a live task.
Pass(b) ==
  /\ bridge[b].pc = "idle"
  /\ HasWork
  /\ SetBridge(b, [AtRest EXCEPT !.pc = "open", !.list = Listed,
                     !.todo = {t \in Live : ~tasks[t].opened}])
  /\ UNCHANGED <<hvars, stream, forgotten, asked, handled, owed>>

\* openSession: the cursor first, whatever is pending belongs to the past.
OpenCursor(b, t) ==
  /\ bridge[b].pc = "open"
  /\ t \in bridge[b].todo
  /\ SetBridge(b, [bridge[b] EXCEPT !.pc = "opening", !.task = t,
                     !.todo = @ \ {t}, !.cursor = LatestUpdateID])
  /\ UNCHANGED <<hvars, stream, forgotten, asked, handled, owed>>

\* Then the opening turn is sent, and its AppendMessage begins ...
OpenSend(b) ==
  LET t == bridge[b].task
  IN /\ bridge[b].pc = "opening"
     /\ MayBegin(t)
     /\ SetBridge(b, [bridge[b] EXCEPT !.pc = "sent"])
     /\ asked' = [asked EXCEPT ![t][bridge[b].list[t].visit] = @ + 1]
     /\ SetAgent(b, [Idle EXCEPT !.pc = "append", !.task = t,
                       !.todo = <<"told">>, !.then = "mark"])
     /\ UNCHANGED <<svc, doc, runs, restarts, told>>
     /\ UnchangedTable
     /\ UNCHANGED <<stream, forgotten, handled, owed>>

\* ... or the webhook check, the cursor, the model or the send failed.
OpenFails(b) ==
  /\ bridge[b].pc = "opening"
  /\ SetBridge(b, [bridge[b] EXCEPT !.pc = "open", !.task = Origin])
  /\ UNCHANGED <<hvars, stream, forgotten, asked, handled, owed>>

Marked(row, cursor) == [row EXCEPT !.opened = TRUE, !.cursor = cursor]

\* The row AppendMessage returned goes back once more, opened, with the cursor.
OpenMark(b) ==
  LET op == agents[b]
  IN /\ bridge[b].pc = "sent"
     /\ op.pc = "mark"
     /\ Upsert(op.task, Marked(op.row, bridge[b].cursor))
     /\ SetAgent(b, Idle)
     /\ SetBridge(b, [bridge[b] EXCEPT !.pc = "open", !.task = Origin])
     /\ UNCHANGED <<svc, doc, runs, restarts, told>>
     /\ UNCHANGED <<stream, forgotten, asked, handled, owed>>

\* The task was deleted under the opening turn.
OpenGone(b) ==
  /\ bridge[b].pc = "sent"
  /\ agents[b].pc = "idle"
  /\ SetBridge(b, [bridge[b] EXCEPT !.pc = "open", !.task = Origin])
  /\ UNCHANGED <<hvars, stream, forgotten, asked, handled, owed>>

-----------------------------------------------------------------------------
(* A pass: draining the bot                                                *)

\* The live tasks are listed again for the cursors just written.
Relist(b) ==
  /\ bridge[b].pc = "open"
  /\ bridge[b].todo = {}
  /\ SetBridge(b, IF Live = {} THEN AtRest
                  ELSE [AtRest EXCEPT !.pc = "poll", !.list = Listed,
                          !.ranks = order])
  /\ UNCHANGED <<hvars, stream, forgotten, asked, handled, owed>>

Cursors(list) == {list[t].cursor : t \in OnList(list)}

\* The poll starts from the lowest cursor of the sessions.
HighestCursor(list) == CHOOSE c \in Cursors(list) : \A d \in Cursors(list) : d <= c
PollFrom(list) == CHOOSE c \in Cursors(list) : \A d \in Cursors(list) : c <= d

HighOf(page) == page[Len(page)]

Poll(b) ==
  LET after == PollFrom(bridge[b].list)
      page == Page(after)
  IN /\ bridge[b].pc = "poll"
     /\ forgotten' = Larger(after, forgotten)
     /\ SetBridge(b, IF page = <<>> THEN AtRest
                     ELSE [bridge[b] EXCEPT !.pc = "page", !.page = page,
                             !.high = HighOf(page)])
     /\ UNCHANGED <<hvars, stream, asked, handled, owed>>

\* The poll failed: nothing was read.
PollFails(b) ==
  /\ bridge[b].pc = "poll"
  /\ SetBridge(b, AtRest)
  /\ UNCHANGED <<hvars, stream, forgotten, asked, handled, owed>>

\* routeUpdate: among the listed sessions of the update's chat that have
\* spoken and whose cursor is behind it, the most recently written.
CandidatesAnyCursor(rec, u) ==
  {t \in OnList(rec.list) :
     rec.list[t].opened /\ ChatOf[t] = stream[u].chat}
Candidates(rec, u) ==
  {t \in OnList(rec.list) :
     /\ rec.list[t].opened
     /\ rec.list[t].cursor < u
     /\ ChatOf[t] = stream[u].chat}
Routed(rec, u, t) ==
  /\ t \in Candidates(rec, u)
  /\ \A s \in Candidates(rec, u) \ {t} : <<s, t>> \in rec.ranks

TurnFor(t, kind) ==
  IF kind = "done"
    THEN [Idle EXCEPT !.pc = "append", !.task = t, !.todo = <<"told">>,
                      !.then = "close"]
    ELSE [Idle EXCEPT !.pc = "append", !.task = t,
                      !.todo = <<"told", "reply">>]

\* An update that belongs to no session is passed over.
Unrouted(b) ==
  LET rec == bridge[b]
      u == Head(rec.page)
  IN /\ rec.pc = "page"
     /\ rec.page # <<>>
     /\ Candidates(rec, u) = {}
     /\ SetBridge(b, [rec EXCEPT !.page = Tail(@)])
     /\ UNCHANGED <<hvars, stream, forgotten, asked, handled, owed>>

\* handleUpdate: something without text is answered with a request for some;
\* otherwise a turn begins, or the close that /done asks for.
Handle(b, t) ==
  LET rec == bridge[b]
      u == Head(rec.page)
  IN /\ rec.pc = "page"
     /\ rec.page # <<>>
     /\ Routed(rec, u, t)
     /\ handled' = [handled EXCEPT ![u] = @ + 1]
     /\ owed' = {o \in owed : o[2] # u}
     /\ IF stream[u].kind = "photo"
          THEN /\ SetBridge(b, [rec EXCEPT !.page = Tail(@)])
               /\ UNCHANGED <<svc, agents, doc, runs, restarts, told>>
               /\ UnchangedTable
          ELSE /\ MayBegin(t)
               /\ SetBridge(b, [rec EXCEPT !.pc = "turn", !.page = Tail(@)])
               /\ SetAgent(b, TurnFor(t, stream[u].kind))
               /\ UNCHANGED <<svc, doc, runs, restarts, told>>
               /\ UnchangedTable
     /\ UNCHANGED <<stream, forgotten, asked>>

\* The turn is over, however it went.
TurnOver(b) ==
  /\ bridge[b].pc = "turn"
  /\ agents[b].pc = "idle"
  /\ SetBridge(b, [bridge[b] EXCEPT !.pc = "page"])
  /\ UNCHANGED <<hvars, stream, forgotten, asked, handled, owed>>

Behind(row, high) == row.cursor < high

\* The page is done: every session of the bot behind it is to catch up.
Acknowledge(b) ==
  LET rec == bridge[b]
  IN /\ rec.pc = "page"
     /\ rec.page = <<>>
     /\ SetBridge(b, [rec EXCEPT !.pc = "ack",
                        !.todo = {t \in OnList(rec.list) :
                                    Behind(rec.list[t], rec.high)}])
     /\ UNCHANGED <<hvars, stream, forgotten, asked, handled, owed>>

\* saveCursor: GetByID; a missing row or one further on is left alone ...
SaveRead(b, t) ==
  LET rec == bridge[b]
  IN /\ rec.pc = "ack"
     /\ agents[b].pc = "idle"
     /\ t \in rec.todo
     /\ MayBegin(t)
     /\ SetBridge(b, [rec EXCEPT !.todo = @ \ {t}])
     /\ SetAgent(b, IF Exists(t) /\ Behind(tasks[t], rec.high)
                      THEN [Idle EXCEPT !.pc = "save", !.task = t,
                              !.row = [tasks[t] EXCEPT !.cursor = rec.high]]
                      ELSE Idle)
     /\ UNCHANGED <<svc, doc, runs, restarts, told>>
     /\ UnchangedTable
     /\ UNCHANGED <<stream, forgotten, asked, handled, owed>>

\* ... and Upsert.
SaveWrite(b) ==
  LET op == agents[b]
  IN /\ op.pc = "save"
     /\ Upsert(op.task, op.row)
     /\ SetAgent(b, Idle)
     /\ UNCHANGED <<svc, doc, runs, restarts, told>>
     /\ UNCHANGED <<stream, forgotten, bridge, asked, handled, owed>>

SaveFails(b) ==
  /\ CursorFails
  /\ agents[b].pc = "save"
  /\ \A u \in 1..MaxUpdates : handled[u] < MaxRepeats
  /\ SetAgent(b, Idle)
  /\ UNCHANGED <<svc, doc, runs, restarts, told>>
  /\ UnchangedTable
  /\ UNCHANGED <<stream, forgotten, bridge, asked, handled, owed>>

PassOver(b) ==
  /\ bridge[b].pc = "ack"
  /\ bridge[b].todo = {}
  /\ agents[b].pc = "idle"
  /\ SetBridge(b, AtRest)
  /\ UNCHANGED <<hvars, stream, forgotten, asked, handled, owed>>

-----------------------------------------------------------------------------
\* Steps of HumanTasks: a session that ends is owed nothing any more.
StillOwed(table) ==
  {o \in owed : /\ table[o[1]].status = "open"
                /\ table[o[1]].opened
                /\ table[o[1]].visit = tasks[o[1]].visit}

TaskStep ==
  /\ \/ \E t \in Task : SvcRead(t) \/ SvcWrite(t)
     \/ \E r \in Task \cup {Origin} : RunPushes(r) \/ RunLoads(r)
     \/ \E a \in Clients : ClientBegins(a)
     \/ \E a \in Agents : AgentNext(a)
  /\ owed' = StillOwed(tasks')
  /\ UNCHANGED <<stream, forgotten, bridge, asked, handled>>

Restart ==
  /\ HRestart
  /\ bridge' = [b \in Bridges |-> AtRest]
  /\ UNCHANGED <<stream, forgotten, asked, handled, owed>>

BridgeNext(b) ==
  \/ Pass(b)
  \/ \E t \in Task : OpenCursor(b, t)
  \/ OpenSend(b)
  \/ OpenFails(b)
  \/ OpenMark(b)
  \/ OpenGone(b)
  \/ Relist(b)
  \/ Poll(b)
  \/ PollFails(b)
  \/ Unrouted(b)
  \/ \E t \in Task : Handle(b, t)
  \/ TurnOver(b)
  \/ Acknowledge(b)
  \/ \E t \in Task : SaveRead(b, t)
  \/ SaveWrite(b)
  \/ SaveFails(b)
  \/ PassOver(b)

Next ==
  \/ TaskStep
  \/ \E chat \in Chat, kind \in Kinds : Receive(chat, kind)
  \/ \E b \in Bridges : BridgeNext(b)
  \/ Restart

Spec == Init /\ [][Next /\ UNCHANGED setting]_<<vars, setting>>

\* The loop keeps passing and operations run on; what the bridge asks of the
\* gateway and of the database succeeds again and again, if not every time.
Fairness ==
  /\ \A b \in Bridges : WF_vars(BridgeNext(b)) /\ SF_vars(Poll(b)) /\ SF_vars(SaveWrite(b))
  /\ \A a \in Agents : WF_vars(AgentNext(a) /\ TaskStep)
  /\ \A t \in Task : WF_vars(SvcWrite(t) /\ TaskStep)

FairSpec == Spec /\ Fairness

-----------------------------------------------------------------------------
(* Properties                                                              *)

\* An update is handed to a session at most once: the cursors and Telegram's
\* offset between them ("nothing is delivered twice"), as long as operations
\* on a task do not overlap, no session is visited again with the cursor it
\* was closed with, cursors are saved and the API keeps running.  A session's
\* opening turn is sent once then.
HandledOnce ==
  ~Overlap /\ setting.visits = 1 /\ ~CursorFails /\ setting.restarts = 0 =>
    /\ \A u \in 1..MaxUpdates : handled[u] <= 1
    /\ \A t \in Task : \A v \in 1..MaxVisits : asked[t][v] <= 1

\* What is said to an open session that has spoken is not lost before it is
\* handled: Telegram still has it and the session's cursor is behind it, also
\* while other sessions of the bot move on, the node is visited again, cursors
\* fail to be saved or the API restarts.  (Operations do not overlap.)
OwedIsKept ==
  ~Overlap => \A o \in owed : o[2] > forgotten /\ o[2] > tasks[o[1]].cursor

\* Everything owed to a session is handled, or the session ends.
EverythingIsHandled ==
  \A t \in Task, u \in 1..MaxUpdates : <<t, u>> \in owed ~> <<t, u>> \notin owed

=============================================================================
