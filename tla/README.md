# A TLA+ verification of morph-api

morph-api is the control plane of FloMorphic: a Go service that keeps workflows,
runs and their settings in a database, launches runs on an external engine (inflow),
books runs for later, fires recurring triggers, holds conversations with people in
the middle of a run, and answers HTTP and MCP clients while it does so. This
directory holds TLA+ modules of the parts whose correctness depends on the order of
steps or on an algorithm over graphs and documents, the TLC configurations that check
them on small instances, and proofs of the most important invariants for every
instance, checked by TLAPS.

Paths below are relative to `src/`. `PROJECT.json` maps every definition that
models code to the lines it stands for, and lists the runs, the mutants that show
each property can fail, the findings, the hazards and the theorems.

Run a configuration with `tlc -config StoreSwitch.cfg MCSwitchableStore`, a proof with
`tlapm SwitchableStoreProofs.tla`.

## 1. Inventory

| Component | State | Operations | Hard part |
|---|---|---|---|
| Process runs (`inflow/process.go`, `events.go`, `wire.go`) | a row per run: status, pid, schedule time, snapshot of the final context; the engine's runs | StartWorkflow, StopWorkflow, delete, `proc.finish`, final `set.context` | four writers of whole rows, each with a copy it read earlier; events the engine pushes; lost replies; crash between claim and Exec |
| Run scheduler (`inflow/scheduler.go`, `continue.go`) | due rows, the list being worked through, a timer, a wake channel | list, claim, prepare, Exec, record; Continue After books a row | exactly one dispatch per row; rows that change while they are on the list |
| Trigger scheduler (`inflow/trigger_scheduler.go`, `cronspec`) | map from trigger to next fire, in memory | pass, fire, sleep, notify | edits between passes, restarts, missed occurrences, boundaries of time |
| Trigger configuration, webhook ingress (`api/trigger`, `inflow/trigger.go`) | trigger rows, slug, secret, delivery log | save, delete, enable, mark, receive | check then write; a log written beside whole-row saves |
| Human tasks (`inflow/svc/hitl.go`, `api/hitl`, `inflow/hitl_exec.go`) | a row per (process, node): status, thread, the bridge's flags; the context document | park, message, chat, start, close (with context write and resume), delete | read-modify-write of one row by clients, bridge and engine; a close is four steps |
| Telegram bridge (`inflow/hitl_telegram.go`, `hitl/telegram.go`) | cursor and opened flag per session, Telegram's own offset | open, poll, route, turn, save cursors | one update stream shared by sessions; at-least-once delivery |
| Switchable store (`repository/switchable.go`, `config.go`, `api/database`, `app.go`) | live store, reported config, saved selection | switch, reset, probe, boot | steps outside the mutex, timers armed against the old database, calls that span a switch |
| Gateways (`api/connect`, `inflow/ocproxy.go`, `repository/sqlite/connect.go`) | connections with tokens and a default flag | create, update, delete, set default; two proxies choose one | the flag moves over several rows; blank secrets mean "keep"; two proxies that must agree |
| Extensions (`api/extension`, `repository/sqlite/extension.go`) | rows of built-ins, plugins and their actions | seed at boot, save, delete, sync | reconciliation row by row, crash half way |
| Plugin control scripts (`api/extension/install.go`, `install_ps.go`) | on the plugin's host: checkout, build, dotenv, pid file, processes or a container | install, update, build, start, stop, restart | stale pid files, processes that die or linger, two shells and three runtimes |
| Memory stores (`api/memory`, `inflow/svc/store.go`, `repository/sqlite/memory.go`, `vector.go`) | store rows, document tables, vector indexes | create, delete, write, index, search, store nodes | rows and tables in separate statements with a roll-back; three doors with their own defaults |
| Flow compiler (`inflow/compiler.go`, `node_builders.go`, `validate.go`) | none: functions of a graph | compile, validate | cycles, joins, fan-in; builders that assert |
| Designer, flow files (`designer/`, `flowfile/`, `api/workflow/import.go`) | none; the saved flow of an install | plan a patch, import, export | refs and ports by name, identities that mean something on one install only |
| Contexts and entry values (`inflow/entry.go`, `models/contextpath.go`) | context documents, entry forms | show, check, seed, merge | decide from one read, write later; whole-document writes |
| Workflows table (`api/workflow`, `repository/sqlite/workflow.go`) | a row per flow: graph, labels, entry form, derived plugin list | save, import, patch, relabel, preferences, backfill at start-up | partial saves over whole rows |
| Prompts, resources, settings CRUD; MCP transport; log stream | rows; none | one statement per request; adapters | little beyond what the database guarantees |

How they interact. Clients call handlers over HTTP and MCP; a handler works on the
store and calls the engine's API. The engine pushes events (`proc.finish`) and calls
back during a run (service nodes that book a continuation, park on a person, or use a
memory store, and the final context). Schedulers and the bridge are goroutines that
share only the store with the handlers, and a 1-buffered wake channel. Each component
reaches the store through `Switchable`. There are no transactions across calls: what
two statements need from each other has to follow from the order they come in. That is
what the models are about.

Correctness, per component: a run is dispatched once and a row that is over stays
over; a run's end and its outcome both reach its row; every due row is served; a task
resumes its run once, with the outcome in the context, and no turn is lost; an update
from Telegram is handled, once if nothing fails; a schedule fires at the occurrences
of its stored spec, once each, and misses are skipped; the saved database is the live
one after a restart, and no timer survives a switch; a store has its table, and a
search returns what it should; there is one default gateway and a stored token is not
lost; a sync leaves the palette the plugin reported; the control script never loses a
process; a flow the planner and the compiler accept in silence runs each node once;
an exported flow comes back as the same design; a run finds its input; a flow's parts
change only when asked to.

## 2. Modules

    RunLedger         what a run's queue promises: booked or taken, claimed, sent once
    ProcessRuns       process rows, launches, scheduler, engine events   -> implements RunLedger
    ProcessRunsProofs   TypeCorrect, OneDispatch, FinishFinds, LedgerIsImplemented,
                          DirectKept, ResumeIsSeeded, OverStays
    HumanTasks        tasks, closes, context, resumed runs
    TelegramBridge      extends HumanTasks with the bridge as one more agent
    TelegramBridgeProofs  TypeCorrect, TurnsAreKept, ClosedStaysClosed, WhatIsOwedIsKept,
                          UpdatesHandledOnce, OutcomeIsSeen
    TriggerScheduler  recurring schedules
    SwitchableStore   switching databases under a running instance
    SwitchableStoreProofs   ReportedIsLive, SavedWasRun, TimersAreFresh, RestartComesBack
    FlowPlan          the designer's planner, and export to a patch (operators)
    FlowCompiler        extends FlowPlan with the compiler and the engine's rounds (operators)
    FlowFiles             extends FlowCompiler: import, export, two installs
    FlowsProofs           of TriggerScheduler, which starts flows: SchedulesAreArmed,
                            WakesInTime, LateOnce, OneForEachFlow, FiresOnSchedule;
                            of FlowFiles: IdentityStaysLocal, RunsAreMatched,
                            SilenceIsRight, DesignsReturn
    VectorIndex       one vector index and its search (operators)
    MemoryStores        extends VectorIndex: stores, documents, store nodes
    Gateways          connections, their default, the proxies' choice
    ExtensionSync     built-ins, plugins, palette rows
    PluginControl     installer and control script on a host
    Workflows         the workflows table
    ContextSeeds      entry forms, seeds, merges
    Webhooks          slugs, authorization, the delivery log
    MC<module>        instances for TLC; MCTables plays seven of the modules as scenes
    SavedRowsProofs (gateways and workflows), PluginsProofs (control script and palette),
    MemoryProofs:         their invariants, which
    TablesProofs        lifts to the scenes of MCTables: GatewaysKept, ControlKept,
                          WorkflowsKept, ExtensionsKept, MemoryKept; those of Webhooks
                          and ContextSeeds: WebhooksKept, SeedsKept; and StepsAreKept

Common conventions. One action is one statement on the database, one call of an
external service, or one step another goroutine can observe, with the local work up
to the next. An operation in flight is a record with a `pc` and the copies of rows it
has read; writing it back writes the whole copy, as the repositories do. Variables
marked "history" are read by properties only. Formatting, logging, response bodies
and the login of the API are left out. Bounds are constants named `Max...`. Where the
repository has the same code twice (sqlite and postgres repositories, a route and its
MCP tool, bash and PowerShell) one definition stands for both when they agree, and
`PROJECT.json` names the lines of the first; where they differ, the difference is in
the model (`Backends`, the doors of MemoryStores, `Flavours`).

### ProcessRuns

| Action | Code |
|---|---|
| StartCreate, StartRecord, StartExec, StartUnsent, StartFails | StartWorkflow: Create, the Update that records pid and request, Exec, the Update of a failure. A booking for later stops after the second |
| SchedList, SchedClaim, SchedPrepare, SchedExec, SchedRecord, SchedFails | dispatchDue and launch, in order, working from the list it read |
| StopRead, StopScheduled, StopAsk, StopWrite | StopWorkflow: the row, the engine's answer, the write-back |
| DeleteRow | DELETE of a process row |
| EngineEnds, PushContext, WireRead, WireStore, WireSkips | the run ends in the engine, pushes its final context, storeRunOutcome reads and writes |
| FinishRead, FinishWrite, LoseEvent | handleProcFinish, and a replica or a subscription that misses the event |
| TimeReaches | a scheduled row's time comes |
| Restart | the API goes down with everything in flight; the engine goes on |

Rows keep status, whether the pid is recorded, and one boolean for the snapshot (its
resume, errors and values). The pid is identified with the row: pids are unique and
an Exec keeps the one it was given. Times are abstracted to the set `due`;
`ComesDue` says which rows may come due: "any" (a time in the past included),
"booked" (once the call that booked it has returned), "parked" (a continuation only
once its parked run has pushed). `IndexHeader` says whether the run's own index
travels with the events, `LossyEvents` and `LostReplies` whether events and Exec
replies may be lost. `MaxExec` = 2 counts dispatches just far enough to see a second.

RunLedger is the abstract specification: a run moves none -> queued -> claimed ->
sent or is dropped, never back. `Phase` is the refinement mapping.

### HumanTasks and TelegramBridge

| Action | Code |
|---|---|
| SvcRead, SvcWrite | the recorder of the HITL node (`svc/hitl.go`), first and later visits |
| BeginMessage / BeginChat / BeginStart / BeginClose, DeleteTask | the operations of `api/hitl` and of the MCP server up to their first write |
| AppendRead, AppendWrite, TurnFails | AppendMessage; the model's call in between may fail |
| CloseRead, CloseWrite, BindRead, BindWrite, BindFails, Resume | Close, WriteHumanTaskContext, ResumeHumanTask |
| RunPushes, RunLoads | the parked run's final push replaces the context; a resumed run loads it |
| Pass, OpenCursor, OpenSend, OpenMark, OpenFails, OpenGone, Relist | a pass of the bridge opens sessions that have not spoken |
| Poll, PollFails, Unrouted, Handle, TurnOver, Acknowledge, SaveRead, SaveWrite, SaveFails, PassOver | getUpdates from the lowest cursor, routing, turns, saving the cursors |
| Receive | somebody writes to the bot |
| HRestart, Restart | the API goes down |

All tasks belong to one run and one context document. A row keeps its status, the
visit it belongs to, the length of the thread and the bridge's flag and cursor. The
context document maps each task to the visit whose outcome it holds. Questions are
not raised by any code path, so the status "answered" cannot occur and is not in the
model.

A behaviour plays under one `setting`, a record no step changes: which nodes the run
reaches and which park it, who asks for what, and what may go wrong. Its field
`overlap` = FALSE lets an operation on a task begin only when none is under way on it;
`parkedFirst` = TRUE lets a close begin only once the parked run has pushed;
`contextFails` and `cursorFails` allow those failures; `visits`, `turns`, `updates`
and `restarts` are bounds, `page` the updates one poll returns. Telegram forgets
updates below an offset it was asked for (`forgotten`); the call that finds the latest
update, and the sweep that discovers recipients, acknowledge none. The poll ladder,
scan limits, warnings and the commands /status and /help are left out.

### TriggerScheduler

| Action | Code |
|---|---|
| BeginSave, WriteSave | save: ensureSingleTrigger, then Upsert and Notify |
| DeleteTrigger | delete and Notify |
| BeginPass, PassFails, Skip, Fire, EndPass | a pass of the loop over the enabled schedules: arm, fire, shortest wait, sleep |
| Tick | time; every timer due has run before it moves on |
| GoDown, Boot | restart |

A spec is a cron (multiples of a period) or an interval (`@every`, a period from the
pass that armed it). The webhook's slug and secret, the hit log and the launch a fire
makes are not here; the first three are in Webhooks, the last is ProcessRuns'
StartCreate.

### SwitchableStore

| Action | Code |
|---|---|
| AskSwitch, AskReset | switchTo after validation and probe; reset, which removes the saved selection first |
| Lock, OpenFails, Repoint, SetConfig, RunHooks | Switch under its mutex |
| SaveBegins, SaveEnds, SaveFails | SaveConfig, after the mutex is released; WriteFile truncates, then writes |
| StartScheduler, PassReads, Sleep, Wakes | either scheduler as far as it depends on the live database |
| OpReads, OpWrites | an operation of two repository calls |
| Crash, Boot | the instance goes down; main refuses a file that does not parse |

A failed validation or probe is a request that has not begun. The grace of 10 s after
which the replaced pool is closed is taken to outlast every single call.

### FlowPlan, FlowCompiler and FlowFiles

FlowPlan and FlowCompiler are operators, FlowFiles the state machine that runs them.

| Operator or action | Code |
|---|---|
| MergeData, PickMessages, Stamped | the designer's merge of defaults, messages and shorthand into a node's data |
| ByRef, PlannedNodes, Inspect, NodeProblems | nodes by ref, duplicates and unknown kinds, templates that address nothing |
| ResolvePort, PlannedEdges, EdgeProblems | an edge's ends and its port by name, whatever the case; ports made up, tags stamped |
| LoopClosing, Forward, Convergence | edges that close a loop, and paths that meet in a node that is no join, or in a join outside every path |
| GraphToPatch, UniqueRefs, FreeRef, PortName | ExportGraph: refs from titles, edges by port name |
| Build, BodyOf, PayloadOf, SettingsSent, AfterBuild | the node builders: primitive, request, where each key of the body comes from, what they assert and write back |
| CompileFlow, Walk, Depends, ValidateDepends, Unreachable | the compiler with its guard and diagnostics |
| EngineRuns, EngineStalls | external: how often a compiled node runs, and a join that waits for a round that never comes |
| Import, Export | one request each: stamp identities, plan, resolve profiles, compile, save; a saved flow as a document |
| SyncPlugin, EditProfile, PickPlugin, PickProfile | plugins and profiles come and go on an install; the operator's picks on the canvas |

A node's data is the part the planner and the builders read; text is plain or blank or
addresses a node; a canvas id is the place in the patch. A plugin's identity is a pair
of install and plugin. The validity of a JavaScript or Rego rule, forms and layout are
left out.

### MemoryStores and VectorIndex

| Action | Code |
|---|---|
| Create, Provisioned, ProvisionFails, RollBack | the row, then the table or index behind it, and the delete of the row when that fails |
| BeginDeleteStore, DeleteStoreRow, DropBacking, DropFails | the row, then the table or index; a failed drop is only logged |
| BeginWrite / BeginUpdateDoc / BeginRemove, WriteDocument / UpdateDocument / DeleteDocument | the records of the data browser |
| BeginIndex, Embedded, IndexVector, BeginUnindex, DeleteVector | an embedding between the read of the row and the insert |
| NodeWrites, NodeUpdates, NodeInserts, NodeReplies, ReplyIsLost, NodeFails | the store node of a flow: the id of its last result, an update of that document, an insert when it has gone |
| Crash | everything in flight is lost |

An embedding is told apart by its distance, in thousandths, to the one text searched
for. `Backends`: "sqlite", "postgres" with a vector index beside it, "bare" without.
The doors "flow", "web" and "mcp" differ in what they trim, default and admit.

### Gateways, ExtensionSync, PluginControl

| Action | Code |
|---|---|
| BeginCreate, BeginUpdate, ReadExisting, Clear, Write | connect Upsert: the stored secrets, the demotion of the others, the row |
| BeginDeleteGateway, DeleteGatewayRow, Promote, BeginSetDefault, Set | Delete with its promotion of the newest, SetDefault |
| Break | an operation cut short, by a failing statement or a crash |
| Resolved, ProxyHTTP, ProxyNATS | the connection and token of a proxied call |
| Prune, Seed, Restart | the built-ins at each boot; a row an administrator has edited is only backfilled |
| BeginSave, BeginSaveUnread, Save, BeginDelete, Delete, Sweep | the extension routes, a read that fails, the palette rows of a deleted plugin |
| BeginSync, Ask, List, WriteAction, DropStale, EndSync, Redeploy | a sync, and the plugin's answer changing |
| Install, Source, WriteFiles, Build, StartCheck, Launch, Verify, StopFind, StopKill, StartContainer, StopContainer, ... | the rendered scripts, step by step |
| Exit, TakePid, Reboot, Leave, Push | the plugin exits, another program gets its pid, the host reboots, a process takes its time to end, the source moves on |

A row's id is the order in which rows were made. An action of a plugin is its method
and title. In PluginControl a pid holds nobody, an instance of the plugin of some
revision, one that was told to end, or another program.

### Workflows, ContextSeeds, Webhooks

| Action | Code |
|---|---|
| BackfillRead, BackfillWrite, NothingToBackfill, BackfillFails, Reopen | the pass over rows without a plugin list when the database is opened |
| SaveCanvas, ImportFlow, ApplyPatch, SetTags, SetPreferences, SetFlowPreferences, DeleteFlow | the routes and tools up to the repository; those of one field read the row first |
| UpsertRead, UpsertRefused, UpsertWrite | Upsert: what the save says nothing about, the derived list, the row |
| BeginLaunch, LookAt, Settle, SeedRead, SeedWrite, FireBooked | StartWorkflow as far as its entry goes, and PrepareProcess of a booked run |
| RunLoads, RunMisses | a run's read of its context; a read that fails or misses leaves an empty object |
| SaveContext, DeleteContext, SaveForm, MergeRead, MergeWrite | people, the canvas, and webhooks write |
| BeginSaveHook, ReadForSave, SlugConflict, SaveHook, DeleteHook | a trigger saved by route or tool, with what the repository keeps |
| Receive, LaunchHook, ReadHits, WriteHits | a delivery: the verdict, the launch, the line in the log |
| BeginMark, MarkFired | the scheduler's mark on the same row |

A context is a function from paths to scalars, or a body that is no object, or absent.
A schema is the set of members it requires. A webhook call is its method, address and
what its header proves.

## 3. Runs

Deadlock checking is off throughout: each model can stop (all rows used, clock at its
end, all operations done), and so may the program.

| Run | States | Shows |
|---|---|---|
| process_queue | 28k | AtMostOneDispatch, FinishFindsItsRow, ResumeSeesOutcome, DirectIsKept, EveryDueRowResolves, and the refinement of RunLedger, with launches, bookings, lost events and a restart |
| process_over | 51k | TypeOK, OverIsOver and EveryRunCloses with every operation on one row, times in the past and lost replies |
| process_lost_finish | violation | ClosedIsFinal (section 6) |
| people | 1.76M | ClosedForGood, TurnsKept, OutcomeSeen, HandledOnce, OwedIsKept in four settings |
| people_served | 419k | ClosedIsResumed, EverythingIsHandled under fairness in the two settings that owe something |
| people_done_twice | violation | ResumedOnce when two /done arrive together (section 6) |
| trigger_scheduler | 974k | the safety properties of the schedules, OnSchedule for each fire, CatchesUp |
| trigger_edited | violation | ArmedBySpec when a save changes the spec (section 6) |
| store_switch | 427k | ConfigIsLive, SavedHasRun, SelectionSurvives, FreshTimers, RequestsEnd |
| store_spans | violation | RowsStayHome (section 6) |
| flows | 30k | SilentFlowRunsOnce, IdentityIsLocal, RunMatchesFlow, DesignSurvives over 6800 documents and what becomes of them |
| tables | 1.72M | MemoryHolds, GatewaysHold, ExtensionsHold, ControlHolds, WorkflowsHold, SeedsHold, WebhooksHold, StepsKeep, each in its scene |

The settings of *people*: Serial (operations on a task one at a time, two clients, two
visits, an unusable context, a restart), Outcome (operations overlap, on a task closed
after its parked run has ended), Shared (two sessions in one chat, polls of one
update, in-app closes and deletes), Serves (one session, every kind of message,
failing cursor writes, a restart). *people_served* takes Outcome and Serves.

The scenes of *tables* share nothing: a behaviour chooses one component in Init and
stays with it, the variables of the others are the value "off". Within a scene the
components' own settings (overlap or not) are chosen in Init as well.

Why the bounds are enough to see the cases. Two rows let one run be listed while
another is claimed, and a continuation have a parked run; one caller and one stopper
each restart on the other row, and with the scheduler, the finish handler and the
outcome write give four writers of one row. A second dispatch needs MaxExec = 2, no
more. Two clients are needed for a race on a task, and two visits for a task to be
replaced; every turn is written the same way, so three are plenty. Two sessions in one
chat are the least that shares a stream, and two updates with pages of one leave a
cursor between them. A clock of 4 with periods of 2 and 3 and a fallback of 2 has both
schedules due together and apart, and a wait that the fallback cuts. Two databases and
two requests are enough for every order of two switches; loops do not see each other,
so one stands for both. A start and three nodes that do or do not join are the least
graph in which two paths meet, a path splits again, and a loop comes back into either;
every one of its 512 wirings is an input, for each of three choices of joins. Routing
has every pair of rows and of port names with their spellings, messages every pair of
an explicit list and one in the body. Two installs, of which one has no account, and
two plugins serving one action are the least in which an identity is foreign, a pick
ambiguous, or a compile refused. Two records with MaxK = 2 fill the page of the index;
two gateways have a default to move; a row of a store, a hook or a flow meets every
pair of writers with two servers, and a sync meets the rows of the one before it.
Two pids are enough to have the recorded one dead, another's, or not the plugin's; two
revisions tell a stale build from a new one.

Runs differ in what they exclude, each for a reason found in the code: process_queue
has rows that come due only once they are booked, and one replica, since a time in the
past or a second replica dispatches twice (section 7). It has no stops: with them the
ledger's "queued" rows are dropped by writes that race a claim. Stops, deletes and
everything else meet AtMostOneDispatch in its theorem. Serial is serial because the
store gives operations no isolation; Outcome overlaps them but waits for the parked
run. The properties of the tables say themselves what they ask when operations
overlap (`~crowd`, `~race`, `~clash`, `~jam`, `~overlapping`): the rest of section 7.

Fairness. Weak fairness on each step of an operation that has begun (a goroutine runs
on), on the loops of the schedulers and of the bridge (timers with a fallback), on the
engine's ends and pushes (`proc_timeout` ends every run) and on time. Strong fairness
on `Poll` (it fails now and then, not always), on the saving of a cursor, and on `Lock`
(Go's mutex hands itself to a waiter that starves). Nothing is assumed of clients,
stops, switches, restarts or failures. flows and tables check safety and steps only,
and assume none.

## 4. Proofs

A theorem states a property of the runs for every value of the constants; its module
proves that an invariant holds initially, outlives every action, and implies the
property. The tables below name the invariant beyond the types, and why the property
alone is not inductive. Assumptions on the constants are those the modules declare
(TLC evaluates them), and those a theorem names in its ASSUME.

### Process runs (ProcessRunsProofs)

| Theorem | Assumes | Argument |
|---|---|---|
| TypeCorrect | - | an operation under way has a row and a copy that may be written back |
| OneDispatch | OneScheduler, ComesDue # "any" | DispatchInv, below |
| FinishFinds | the same | PidKnown: a row that can be running has its pid except while its booking call has yet to write it, and is then unsent; DirectKnown is the part that survives a restart |
| LedgerIsImplemented | also NobodyStops | StatusKept: a row has the status its launch gave it until its run is sent; then each action is a ledger step or a stutter under `Phase` |
| DirectKept | also Stoppers = {}, ~LostReplies | CallersApart, EngineOver, DirectClosed: once a direct run is over, no call, stop or event holds a copy from before |
| ResumeIsSeeded | ComesDue = "parked", NobodyStops, ~LostReplies | Resumed: what a scheduler is about to dispatch continues a run that has ended, with its outcome on its row |
| OverStays | - | SchedHolds: the row a scheduler is booking or sending is on its list; Over: the copies left of such a row are the finish events' and the outcome's, all final |

That no row has been sent twice needs to know who may send. DispatchInv says:
a row in status "scheduled" has not been sent (ScheduledUnsent); nobody but the booking
call ever writes "scheduled" (ClosersClose, EngineKnowsSent); a booking call has its row
to itself until it is done (BookingApart), which is where ComesDue # "any" is needed; a
row on the scheduler's list is unsent until its turn, and by its turn claimed, so no later list
has it (QueueUnsent), which is where one scheduler is needed; unused rows have no
history (AbsentFresh). The frame lemmas (`NotRequeued`, `NoNewBooking`, `NoNewCopy`)
carry these parts over the steps that do not touch them, and one lemma per handler does
the rest. No assumption is there for the proof's convenience: without any one of them TLC
finds the property violated. A second replica or a time in the past dispatches twice;
a stopper or a delete breaks the ledger, and the stopper, a lost reply or an early due
time the seed of a continuation; a stop or a lost reply writes a stale copy over a
direct run's end; and with a restart between a booking and its update the event finds
no pid, which is why FinishFindsItsRow exempts booked rows after a restart.

### Human tasks and the bridge (TelegramBridgeProofs)

| Theorem | Assumes | Argument |
|---|---|---|
| TypeCorrect | - | Base, in every interleaving: an operation's task and copy fit its step (HandOk), the pass and the bridge's operation go together (PassOk), no cursor is ahead of the stream |
| TurnsAreKept, ClosedStaysClosed | - (they speak of ~Overlap) | Alone: at most one operation per task, and the copy it holds is the row (CurrentOp); RowKept ties the row to the visits, the acknowledged turns and the resumes |
| WhatIsOwedIsKept | OneBridge | OwedInv: an owed update is above Telegram's offset and its session's cursor (OwedRows), and along a pass it is above the cursor polled from, then on the page, then above what will be saved (PassOwed) |
| UpdatesHandledOnce | OneBridge (it speaks of Quiet settings) | HandledInv: an update handed out is dropped by Telegram, or no open session is behind it but those the mark or the saves of this pass will move past it (PassHandled). AskedInv: a session that was asked has spoken, is gone, or is being asked |
| OutcomeIsSeen | OneOutcome (it speaks of closes after the parked run) | OutcomeInv: what an operation holds is of the latest visit (HeldOp); a close is under way only once the parked run has ended, and is about to resume only with its outcome in the document (ClosingOp), where it stays and from where the resumed run loads it (ResumedRun) |

The bridge holds copies of rows across a whole pass, while clients close, delete and
append; the point of PassOwed is what of such a list stays true: a session on it that
is open and has spoken is at least as far as listed. OneBridge is the single goroutine
of `StartHitlTelegramBridge`. OneOutcome is about the nodes: the one with a result key,
if there is one, is the only one with a key, nothing else parks the run, and its session
is in the console; and where operations overlap it is visited once. Each part is needed:
without any one of them TLC finds OutcomeSeen violated (section 7). The flat lemmas say what each action leaves in the
table, the operations and the pass, so that an invariant is checked against some ten
shapes of step and not against every action.

### Triggers (FlowsProofs)

SchedulesAreArmed and FiresOnSchedule assume ~EditsSpec (section 6 has what an edit
does), OneForEachFlow OneClient (section 7), WakesInTime and LateOnce nothing. They
share TriggersInv: as long as nobody has signalled, the pass under way has every
enabled schedule armed or still on its list (Covered, the step that ArmedBySpec lacks
in the middle of a pass); the wait never exceeds the next fire of what was visited but
for the time the pass took (WaitFits); what fired late is neither enabled nor listed
any more (LateIsOver); without edits, the row, the saves under way, the list, the map
and the last fire go by one spec (OneSpec); with one client, a flow being given a
trigger has no other (OneTrigger).

### Flow files (FlowsProofs)

*IdentityStaysLocal* and *RunsAreMatched* (for any installs, plugins, profiles and
documents, and graphs of any size) share FlowInv: each install's flow is a graph of its
own (GraphOK: finitely many nodes and edges, edges between nodes of it, each node of a known
kind and, by Local, with no other install's identity), its plugin list is derived from that
graph, and the document in hand is one an import can read (FileOK). IdentityIsLocal alone
is not inductive: what an import saves depends on the document, and that on what an
export wrote, of which PortableOK says that no identity is left in it. For a plugin node
the argument is StampDecides: whatever the hint and the plugins the install has, the stamp
leaves exactly one of bound, missing and left to the operator, and MergeKeeps,
ProfileResolved and BuildWrites that nothing after it in the import undoes that. As long
as nothing has changed on an install, ProfilesOK has the values on each node be its
profile's; BodySettings follows them into the body the plugin is sent.

What a run calls is what the compiler lowers. The compiler's walk is a recursive function,
and TLA+ takes nothing for granted about one: WalkExists shows that there is a function
its definition is of (any number of steps can be walked, in one way only), and LoweredOK,
again by a least counterexample, that the walk lowers nothing but the start and targets of
edges, and nothing that was not built. Such a node is on an edge, so it is in the list
(CalledIsListed). InOrderLists, on which the order of edges and nodes rests, is a lemma
about finite sets of numbers by the same means.

DocumentsOK is what the documents are held to: their fields; that only plugin-backed nodes
carry an identity (the palette and the stamp give it to no other); that the settings inside
a body are a plugin's own; that a person's task with a profile has its id; and that a plugin
node with a request has the action it is of (section 7 has what happens otherwise). Each
part is needed: without any one of them TLC finds a document that violates the property.

*SilenceIsRight* adds SilentInv to FlowInv: as long as the last import had nothing to say,
the saved graph is Calm, that is, built and lowered to its last node, with nothing to say
about its convergence. A pick on the canvas can clear a body or bind a plugin, and
CalmKept has what it changes nothing of: whether a node can be built, and where the walk
goes (SameWalk: two walks that agree on what can be built lower the same). That every
node runs once (CalmIsQuiet) is an argument about the edges, which is where recursion comes
back: Reach is a function of rounds, so it has to be shown to exist (ReachExists) and
to be closed after as many rounds as there are edges (ReachClosed, by Cardinality: a
round that adds a node uses up an edge). Along an edge that closes no loop what can be
reached shrinks (ReachShrinks), so a node with the largest such set among those where two
solutions of the engine's recursive equation differ has none before it where they do:
the equation has one solution, and the constant one solves it (RunsOnce). Without loops
the warnings leave one edge into every node but the joins (OneWayIn), and of a join no
feeder that runs more than once. The proof does not use that nothing routes: EngineRuns
follows every edge, and only where nothing routes is that what the engine does.

*DesignsReturn* adds DesignInv to FlowInv: every saved flow is as the planner leaves one
(Normal: the rows edges leave from with ids, a scope given, a model's messages settled, a bound plugin's
rows those the plugin declares), and the document in hand, if an install exported it, is the
one made of the graph that install exported last, whatever has happened on the canvases
since. An import of it then has to find everything again. The refs are a recursive function
of the slugs, shown to exist and to give no ref twice (RefsAreUnique); so the planner looks
up what the export wrote (PatchIs, NodeReturns). Planning a node changes nothing of one that
is planned already: settled messages settle to themselves (MessagesSettle) and an id is
stamped only where there is none. An edge is written with the name of its port, and
PortReturns has that name resolve to that port, where Nameable says that no other port
answers to it and that the edge is on a port its node has; EdgeReturns has its tags back.
A flow's edges have an id each (OneEach, which
the planner ensures), so the export's list in the order of the ids leaves none out. The proof asks two things of the
documents that the code gives: a row of a plugin's action or of a document has no blank tag
(`designer/patch.go:356-418` drops them), and "none" is not an install. It found Nameable
too weak as TLC had checked it: two rows may share an id, and a pick on the canvas can take
away the port an edge is on. Both lose the edge's port in the file, the instance had neither,
and Nameable now names them.

### Switchable store (SwitchableStoreProofs)

*ReportedIsLive*, *SavedWasRun* and *TimersAreFresh* (no assumption
beyond the constants being distinct) share the invariant SwInv. Its parts: the mutex holder is
the request between Lock and its end (Holder); between Repoint and the hooks the live
database is the holder's target (Pointing); the reported database differs only between
the two stores (Configured); what is about to be saved has been run on (Saving); until
a switch repoints, what a loop has *read or* sleeps on is the live database's or a token
waits (Fresh: FreshTimers alone is not inductive, since a loop that has read may go to
sleep during a switch); and a dead instance has nothing in flight (Down).
*RestartComesBack* follows the lone request from its asking to its end: it is alone
(Lone), finds its own target live and its own text in the file (Undisturbed), and
without a request that decides otherwise what was trusted still is (Trusted).

### Tables

| Theorem | Invariant |
|---|---|
| GatewaysKept | GatewaysInv: never two defaults, none between clear and set (OneDefault); the flag is missing only while an operation that will set it is under way, or was cut short (SomeDefault); what an operation has read and is about to write keeps the secrets it does not change (OthersIntact, SecretsStay) |
| ControlKept | ControlInv: once start has found the pid free no instance is up (Starting), stop means the recorded pid (Stopping), promises stand between commands (Promising) |
| WorkflowsKept | WorkflowsInv: the opening pass is by itself and its pending writes are what the graphs say (Opening), and an operation that does not overlap saves what was asked for over what is wanted (Faithful) |
| WebhooksKept | HooksInv: a stored or held log is an excerpt of the lines written (Plausible); where nothing overlaps one operation is under way (OneOperation), what it holds is the log as it is, and the row's slug and secret are those last given (Truthful) |
| ExtensionsKept | ExtensionsInv: where requests do not overlap one is under way (OneWorks); of the list a sync asked for, what it has told has a row each, and besides those and the rows no action has claimed no row is one of the plugin's (SyncFits, with Written); a sync of what the palette shows already finds every action by its method and leaves the table as it is (Resynced), so that a crash during it breaks nothing; what was synced stays written until something else is (SyncedFits); of each built-in one row, planted once its seed is done (BootFits, for tables no administrator has edited); an edit is in its row (EditFits) |
| SeedsKept | SeedsInv: where operations do not overlap one is under way (SeedsApart), a seed about to be written goes over what it has read, and defaults over nothing (SeedFits), what was submitted is among the values that will be written (LaunchShape), a launch about to start has its input (Supplied) |
| MemoryKept | MemoryInv, below; assumes OneTableEach |

Each of the first three is proved of its module (DefaultIsKept and TokensAreKept,
ScriptReaches and RestartIsFresh, ListsMatchGraphs and FieldsKeepApart) and then of
MCTables' scenes, which the run checks; HooksInv and SeedsInv are proved of their scenes
directly, and ExtensionsInv and PluginIdStep of ExtensionSync. StepsAreKept puts the two
action properties together: a save writes the plugin id its row had when it was read,
which is the one it has (WorkFits), a sync claims rows of its own plugin only
(SyncFits); and what a seed leaves is SeedKeepsStep. That a seed is found where it was
put, and leaves the rest, is SeedWritten, a lemma about documents as functions from
paths, which are sequences; it assumes that what comes in is a JSON object
(SeedsAreTrees). ExtensionsKept assumes ExtensionData: fields have their types, a plugin
reports a method once (it is "the action's true identity", `sync.go:134`), a built-in is
no plugin's action (`models/extension.go`, Action), and the table found at the first
boot has one built-in of each name.

A sync lists its rows in order of age and skips nameless actions. Both are InOrder, the
increasing enumeration of a finite set of numbers, and its existence and that of a least
element (Min) are proved without induction: NatLessThanWellFounded and WFMin give a
least counterexample, which is taken apart (LeastNat, CanBeOrdered).

Of the memory stores four things are claimed at once, and each needs what the others
know. A call's copy of the row is the row, as long as there is one (CallsFit): only a
delete changes a row, and no id is handed out twice. A document store with its row has
the documents acknowledged, and its table from the answer on (DocsBacked); what a delete
is about to drop has no row. That it is no other store's table either is OneTableEach, the
one assumption: neither door checks that a table's name is free (section 7). An index holds
what was handed in, as far as it keeps it, until its store's row is gone (VectorsFit); what
a search makes of that is SearchAnswers, about any set of records told apart by their ids:
a record's rank counts the nearer ones (RankCounts, RanksFill), so reading the first MaxK,
up to the threshold, and then filtering is reading the first k of what is wanted
(SearchFindsNearest), where the filter is blank or the partition fits (the property's
exception). Of a node's documents all but the one it remembers and the one it is about to
answer with are from lost replies (NodesFit), which is inductive only with: before it makes
another document, the one it remembers is gone (Forgotten). MemoryOK says that clients are
not nodes and a distance is a natural number.

### What stays with TLC

Liveness (EveryDueRowResolves, EveryRunCloses, CatchesUp, RequestsEnd, ClosedIsResumed,
EverythingIsHandled) is outside what the prover can do, and so is ENABLED. Recursion over
data is not: where a proof needs what a recursive function computes (the compiler's walk,
Reach, the refs of an export), a least counterexample stands for the induction that the
library's theorems do not give here.

## 5. Plan

What is left, in order of what it adds:

1. Full updates of a memory store's row, and the read-only queries over document tables.

There are a dozen runs, each with a question of its own; a further one would replace
one of these.

## 6. Findings

- **A finished run may be running again** (`inflow/scheduler.go:209`, process_lost_finish).
  launch writes the copy it claimed over the row after Exec. A fast run has been closed
  by then.
- **Two /done close and resume a session twice** (`inflow/hitl_telegram.go:560`,
  people_done_twice). The page is routed by the copies the pass listed, and `finish` has
  no check that the session is still open, as the console's close has.
- **An edited schedule keeps its old time** (`inflow/trigger_scheduler.go:110`,
  trigger_edited). The armed map is keyed by id; a save wakes the loop, which finds the
  id armed.
- **An operation may span two databases** (`repository/switchable.go:73`, store_spans).
  The comments say a request keeps the repositories it resolved; every call resolves anew,
  and the second call of a read-modify-write lands on the new database's row of that key.

## 7. Other behaviour found while modelling

These have no run of their own. Where a constant or a setting is named, changing it
shows the behaviour in TLC.

Process runs
- Two replicas dispatch a row twice (`scheduler.go:154`, the claim is unconditional):
  Replicas = {r1, r2}, AtMostOneDispatch.
- A run booked for a time already past is listed between Create and the Update that
  records it, and the Update puts it back to scheduled (`process.go:349`): ComesDue = "any".
- StopWorkflow's write-back loses an outcome stored meanwhile (`process.go:595`), though
  `wire.go:90-91` reasons about lost updates: add a stopper to process_queue, DirectIsKept.
- A scheduled row that is stopped while on the scheduler's list still fires
  (`scheduler.go:152`).
- A continuation that comes due before its parked run has pushed starts blank
  (`scheduler.go:189`): ComesDue = "any" with "continue", ResumeSeesOutcome.
- A crash between the claim and Exec leaves a row running for ever; a lost Exec reply
  marks a live run failed. The status "waiting" of `models/process.go` is never assigned.
- If the node handlers do not load (`app.go:145`), no scheduler starts until a restart.

Human tasks and the bridge
- A context write that fails ends the close before the resume (`api/hitl/crud.go:134`),
  where the comment at 131-132 says it does not block it; no later close resumes the run:
  contextFails in the setting Outcome, ClosedIsResumed.
- A second visit takes over the opened flag (`inflow/svc/hitl.go:166`), so its question
  is never put: two visits in the setting Shared, a state with an opened row whose
  visit was never asked.
- When operations overlap: two closes resume twice (`crud.go:116`), a turn undoes a close
  or another turn or takes the cursor back (`repository/sqlite/hitl.go:208`), and
  OutcomeSeen fails with two visits: overlap in the setting Serial.
- With two nodes that have a result key, one outcome goes over the other, also when each
  task has its operations one at a time: a close reads and writes the whole context
  document (`inflow/hitl_context.go:28`), and a resumed run pushes its own copy. Two
  tasks keyed, one or both parking, in the setting Outcome: OutcomeSeen. So does a /done
  from Telegram, whose close may come before the parked run has pushed.
- An early close loses its outcome to the parked run's push (`wire.go:71`): parkedFirst
  FALSE in the setting Outcome.
- A crash between close and resume leaves a run nobody resumes (`crud.go:120`).
- With two visits and another session in the chat an update is handed out twice
  (`inflow/svc/hitl.go:166-169`): the fresh task starts from the cursor the visit before
  was closed with, and an update in between was handled for the other session, where
  `hitl_telegram.go:36` has "nothing is delivered twice": visits 2 in the setting Shared,
  HandledOnce without that condition.
- A crash before the cursors are saved hands a page out again (`hitl_telegram.go:418`),
  and an opening turn may be sent again (`hitl_telegram.go:302`). A failed save is only logged.

Triggers and webhooks
- Two concurrent saves, or a List that fails, give a workflow two triggers: Clients =
  {c1, c2}, OneTriggerPerFlow.
- Turning a schedule into a webhook does not wake the loop, which fires it at most once more.
- An interval restarts from the boot; two replicas fire every occurrence twice.
- Deliveries that overlap, or meet a save, can lose lines of the log
  (`api/trigger/ingress.go:26`); LogIsTrue says what is left of it.
- A slug that is taken is recognised by the text of sqlite's error
  (`api/trigger/crud.go:233-236`); on postgres the same conflict is an internal error.

Switchable store
- Two requests that overlap may leave another database saved than the live one, since
  SaveConfig runs outside the mutex (`api/database/crud.go:87`): SelectionSurvives without
  its `crowd` part.
- A crash inside SaveConfig leaves a file the next boot refuses (`repository/config.go:211`).
- A reset whose switch fails has removed the selection all the same
  (`api/database/crud.go:106`): the instance stays where it is and moves at its next start.
- Runs of the replaced database finish without a row to close.

Gateways and extensions
- A save that takes the flag from the default leaves none, and an operation cut short
  between its statements does too, though `repository/sqlite/connect.go:126-127` says a
  default always exists while any connection does (DefaultMoves' exceptions).
- Over NATS a padded connection id is not trimmed and a path without its slash is on no
  surface (`inflow/ocproxy.go:144`); over HTTP both are put right (TwinsAgree's exceptions).
- A sync matches rows by method, then by title: a live action that has taken another's
  title takes its row and id (`api/extension/sync.go:24-26` calls the reuse hygiene).
- A save whose read of the stored row fails issues a new plugin id, and so does saving a
  plugin under the kind "builtin" and back (PluginIdKept's exceptions).
- The PowerShell script's check that a recorded pid is alive (`api/extension/install_ps.go:357-359`)
  does not tell the plugin from a program that was given its pid; start then says it is
  running (RestartRuns' exception).
- The script's header promises that start builds if needed (`install.go:284`); start
  dies with "not built yet" (353).

Flow files
- A plugin node with a request and no action is built and calls that request
  (`inflow/node_builders.go:291`), while the flow's plugin list leaves it out
  (`models/flow_plugins.go:152-153`: "the node cannot compile either"): such a node in a
  document, without DocumentsOK, RunMatchesFlow.

Memory stores
- Two document stores may name one table; deleting one drops the other's documents, where
  `repository/sqlite/memory.go:79` has "so a store never lacks its table" (OneTableEach).
- A filtered search fetches MaxK neighbours and filters afterwards, so it may miss
  matches in a larger partition (SearchIsRight's exception).
- A query tool's row cap is defeated by a LIMIT inside a subquery
  (`mcpserver/tools_memory.go:223`); `models/storequery.go:46-55` fills a shared cache
  without a lock.
- The REST route stores a metric as written, the tool trims it.

Flows
- The planner calls a join that waits on another join an error, since it counts the
  inner join's edges as runs (`designer/patch.go:644-654`); the engine runs both once, and
  `designer/assets/preamble.md:150` says a `promissall` may wait on another.
  SilentFlowRunsOnce is the other direction: the planner's silence can be trusted.
- Settings a builder has put into a free body stay in the record and travel in an
  exported plugin node (`inflow/node_builders.go:296`), where `designer/export.go:20-23`
  has settings left behind.
- The guide lets a patch name canvas ids, an import passes no existing graph
  (`flowfile/flowfile.go`), so such an edge is an unknown ref.
- A builder whose field is missing panics in CompileFlow; an import then saves nothing.
- Export and import lose a node of an uncatalogued kind and the port of an edge where the
  names of two ports differ only in case, where two rows share an id, and where a pick of
  another plugin's action has taken the port away (Nameable's exceptions).

Workflows and contexts
- A relabel or a change of preferences writes back the graph it read and can undo a save
  made meanwhile (`api/workflow/crud.go:121-125` gives not overwriting it as the route's
  purpose), and one that races a delete makes the row again. FieldsStandAlone holds
  without races; PluginsMatchGraph with them.
- Labels are made unique before they are shortened, so two of them may end up alike.
- An entry target is checked by the preferences and patch routes only.
- A booked launch decides on its defaults when it is booked and writes them over input
  that came since (`inflow/process.go:193-196`): DefaultsYield's exception.
- A merge from a webhook replaces a body that is no object, where a seed refuses it; a
  body "null" leaves a nil map that the merge then writes to.
- A run's read of its context takes any failure for a miss and stores an empty object
  (`inflow/wire.go:32-54`).

## 8. Not modelled

Prompts, resources and settings (one statement per request on one row), generated
queries and the SQL dialects, the MCP transport and the tools that only read, the log
stream, the directory of Telegram recipients, embedded assets, layout, catalog texts,
seeds and vendored code: conversions and I/O in which no order of steps matters. The
engine, its compiler's walk and the plugins are outside the repository; the models have
what this code sees of them, marked external in `PROJECT.json`. Start-up beyond the
built-ins and the backfill is not modelled: the schedulers are taken to start.
`PROJECT.json` gives the reason for each part under "components".
