------------------------------ MODULE MCTables ------------------------------
(***************************************************************************)
(* The tables of the API and the components around each, on small         *)
(* instances for TLC.  They share no state: a behaviour plays in one of    *)
(* them, its scene, and the others are not there.                          *)
(***************************************************************************)
EXTENDS MemoryStores, Gateways, ExtensionSync, PluginControl, MCWorkflows,
        MCContextSeeds, Webhooks, TLC

VARIABLE scene

tvars == <<scene, mvars, gvars, xvars, pvars, wvars, svars, hookVars>>

-----------------------------------------------------------------------------
(* Values of the constants                                                 *)

\* One new store, whichever type it is made, or one from before partitions.
TablesNamed == "s1" :> "notes" @@ "v0" :> "none"
NodesAt == "n1" :> "s1"
AtStart == {[old |-> {}, fresh |-> {"s1"}], [old |-> {"v0"}, fresh |-> {}]}

\* A vector store, one whose metric is padded, and a document store that asks
\* for an index it cannot have.
VectorSpec == [name |-> TRUE, type |-> "vector", provider |-> TRUE, model |-> TRUE,
               dimensions |-> 3, metric |-> "cosine", safe |-> FALSE, columns |-> 0]
StoreSpecs == {VectorSpec, [VectorSpec EXCEPT !.metric = " euclidean"],
               [VectorSpec EXCEPT !.type = "document", !.safe = TRUE, !.columns = 1]}

Plain == [partition |-> "", metadata |-> {}, scoped |-> [partition |-> "", metadata |-> {}]]
SomeRequests ==
  {Plain, [Plain EXCEPT !.partition = " p"], [Plain EXCEPT !.metadata = {"a"}],
   [Plain EXCEPT !.scoped = [partition |-> "p", metadata |-> {"a"}]]}

AllAsks == [id : {"", "g1", "g2"}, surface : {"management", "execution"},
            padded : BOOLEAN, slash : BOOLEAN]

\* What a plugin's address answers: two actions, a renamed and reordered list
\* with a nameless one, nothing.
OneAct(m, t) == [method |-> m, title |-> t]
SomeLives == {[up |-> TRUE, list |-> <<OneAct("a", "A"), OneAct("b", "")>>],
              [up |-> TRUE, list |-> <<OneAct("c", "A"), OneAct("a", "A"), OneAct("", "Z")>>],
              [up |-> FALSE, list |-> << >>]}
OneBody(k, n, e) == [kind |-> k, name |-> n, plugin |-> 0, action |-> "", edit |-> e]
SomeExtBodies == {OneBody("extension", "P", ""), OneBody("builtin", "LLM", "e")}
SomeBuiltins == "LLM" :> 1 @@ "Goto" :> 0
OldBuiltin(n) == [kind |-> "builtin", name |-> n, plugin |-> 0, action |-> "", edit |-> ""]
SomeOldRows == {<< >>, <<OldBuiltin("LLM"), OldBuiltin("Void")>>}
WorkAllowed == TRUE :> 2 @@ FALSE :> 3

\* Of a hook, two changes.
TwoEach == [overlap \in BOOLEAN |-> 2]


-----------------------------------------------------------------------------
(* One scene at a time                                                     *)

Off == "off"

NoMemory ==
  /\ backend = Off /\ stores = Off /\ tables = Off /\ indexes = Off /\ calls = Off
  /\ visits = Off /\ carried = Off /\ ids = Off /\ cuts = Off /\ created = Off
  /\ kept = Off /\ unsaid = Off
NoGateways ==
  /\ crowd = Off /\ conns = Off /\ drawn = Off /\ saving = Off /\ saves = Off
  /\ breaks = Off /\ secrets = Off /\ turnedOff = Off
NoExtensions ==
  /\ overlapping = Off /\ rows = Off /\ live = Off /\ boot = Off /\ work = Off
  /\ begun = Off /\ crashes = Off /\ unread = Off /\ synced = Off /\ edited = Off
NoControl ==
  /\ kind = Off /\ upstream = Off /\ checkout = Off /\ built = Off /\ dotenv = Off
  /\ pidFile = Off /\ procs = Off /\ container = Off /\ shell = Off
  /\ commands = Off /\ mishaps = Off /\ promised = Off
NoWorkflows ==
  /\ race = Off /\ flows = Off /\ opened = Off /\ pending = Off /\ editing = Off
  /\ edits = Off /\ stops = Off /\ wanted = Off
NoSeeds ==
  /\ clash = Off /\ held = Off /\ form = Off /\ launches = Off /\ hook = Off
  /\ writes = Off /\ blinks = Off /\ overrun = Off
NoWebhooks ==
  /\ jam = Off /\ hooks = Off /\ deliveries = Off /\ savers = Off /\ changes = Off
  /\ logged = Off /\ meant = Off

InMemory == scene = "memory" /\ MInit /\ NoGateways /\ NoExtensions /\ NoControl
              /\ NoWorkflows /\ NoSeeds /\ NoWebhooks
InGateways == scene = "gateways" /\ NoMemory /\ GInit /\ NoExtensions /\ NoControl
                /\ NoWorkflows /\ NoSeeds /\ NoWebhooks
InExtensions == scene = "extensions" /\ NoMemory /\ NoGateways /\ XInit /\ NoControl
                  /\ NoWorkflows /\ NoSeeds /\ NoWebhooks
InControl == scene = "control" /\ NoMemory /\ NoGateways /\ NoExtensions /\ PInit
               /\ NoWorkflows /\ NoSeeds /\ NoWebhooks
InWorkflows == scene = "workflows" /\ NoMemory /\ NoGateways /\ NoExtensions /\ NoControl
                 /\ WInit /\ NoSeeds /\ NoWebhooks
InSeeds == scene = "seeds" /\ NoMemory /\ NoGateways /\ NoExtensions /\ NoControl
             /\ NoWorkflows /\ SInit /\ NoWebhooks
InWebhooks == scene = "webhooks" /\ NoMemory /\ NoGateways /\ NoExtensions /\ NoControl
                /\ NoWorkflows /\ NoSeeds /\ HooksInit

TInit == InMemory \/ InGateways \/ InExtensions \/ InControl \/ InWorkflows
           \/ InSeeds \/ InWebhooks

TNext ==
  \/ /\ scene = "memory"
     /\ MNext
     /\ UNCHANGED <<scene, gvars, xvars, pvars, wvars, svars, hookVars>>
  \/ /\ scene = "gateways"
     /\ GNext
     /\ UNCHANGED <<scene, mvars, xvars, pvars, wvars, svars, hookVars>>
  \/ /\ scene = "extensions"
     /\ XNext
     /\ UNCHANGED <<scene, mvars, gvars, pvars, wvars, svars, hookVars>>
  \/ /\ scene = "control"
     /\ PNext
     /\ UNCHANGED <<scene, mvars, gvars, xvars, wvars, svars, hookVars>>
  \/ /\ scene = "workflows"
     /\ WNext
     /\ UNCHANGED <<scene, mvars, gvars, xvars, pvars, svars, hookVars>>
  \/ /\ scene = "seeds"
     /\ SNext
     /\ UNCHANGED <<scene, mvars, gvars, xvars, pvars, wvars, hookVars>>
  \/ /\ scene = "webhooks"
     /\ HooksNext
     /\ UNCHANGED <<scene, mvars, gvars, xvars, pvars, wvars, svars>>

TSpec == TInit /\ [][TNext]_tvars

-----------------------------------------------------------------------------
(* The properties of each component, in its scene.                         *)

\* A store whose create was answered has what its type needs behind it as long
\* as it has its row (sqlite and postgres Create, Delete), and a keyed node
\* keeps one document in it however often it runs (the store handler's insert
\* or update).  A search from a flow, the data browser or a tool returns the
\* acknowledged records its partition, filter, metric and threshold call for,
\* nearest first (OpMetadata and its twins, VectorStore.Search, FetchK).
MemoryHolds ==
  scene = "memory" =>
    MTypeOK /\ StoreIsBacked /\ NodeKeepsOneDocument /\ SearchIsRight

\* Among gateways changed one request at a time there is one default, which
\* moves only when asked to; a save that leaves a secret blank keeps it; both
\* proxies answer alike (connect repositories, ProxyHTTP, ProxyNATS).
GatewaysHold == scene = "gateways" => GTypeOK /\ DefaultMoves /\ SecretsKept /\ TwinsAgree

\* After a sync that nobody disturbed the palette has the plugin's live actions,
\* each once; an administrator's edit of a built-in survives every boot (Seed,
\* Backfill, Prune, syncActions).
ExtensionsHold == scene = "extensions" => XTypeOK /\ PaletteFollows /\ BuiltinsSurvive

\* The control script reaches every process it has started, and a restart that
\* reports success runs what was built last (start, stop, restart, verify).
ControlHolds == scene = "control" => PTypeOK /\ InReach /\ RestartRuns

\* A flow's plugin list is that of its graph, and a write of one field leaves
\* the others, whoever reads the row between the statements of a save (Upsert,
\* SetTags, the start-up backfill).
WorkflowsHold == scene = "workflows" => WTypeOK /\ PluginsMatchGraph /\ FieldsStandAlone

\* A launch that says it is seeded has its input where the form puts it, what a
\* launcher shows is what is seeded, and defaults yield to what is there
\* (SeedEntry, ResolveEntryView, PrepareEntryValues).
SeedsHold == scene = "seeds" => STypeOK /\ InputIsThere /\ ShownIsSeeded /\ DefaultsYield

\* The delivery log and the counters say what happened to each call that was
\* logged, and a hook keeps its address and secret through saves that do not
\* name them (RecordHit, MarkFired, Upsert, ensureSlug).
WebhooksHold == scene = "webhooks" => HooksTypeOK /\ LogIsTrue /\ AddressSurvives

\* No save, sync, crash or boot changes the id an imported plugin answers to
\* (resolvePluginID), and a seed leaves everything in the document that is not
\* at its place (SetAtContextPath).
StepsKeep ==
  [][/\ scene = "extensions" => PluginIdKept
     /\ scene = "seeds" => SeedKeepsRest]_tvars

=============================================================================
