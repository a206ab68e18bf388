------------------------------- MODULE FlowFiles ------------------------------
(***************************************************************************)
(* Workflow documents on their way between installs: the import that       *)
(* stamps a document with an install's identities, plans, resolves,        *)
(* compiles and saves it, the export that writes a saved flow as a         *)
(* document, and the plugins and profiles that come and go on an install   *)
(* meanwhile.  One action is one request; an import's statements before    *)
(* its single save are reads.                                              *)
(*                                                                         *)
(* The canvas is a client outside this repository: of it, the operator's   *)
(* pick of a plugin and of a settings profile for a node, each saved.      *)
(***************************************************************************)
EXTENDS FlowCompiler

CONSTANTS
  Install,     \* installs of FloMorphic, one flow on each
  Connected,   \* those with an OpenConnector account
  Plugin,      \* importable plugins, each serving one action
  ActionOf,    \* the action a plugin serves
  PortsFor,    \* the outbound rows its action declares
  Profile,     \* settings profiles; an install may have each
  Documents,   \* documents an author or a package brings
  MaxChanges   \* bound on changes to plugins, profiles and canvases

IsList(s) == Len(s) \in Nat /\ s = [k \in 1..Len(s) |-> s[k]]

\* Rows have their fields, and no tag is blank: reading a row drops the blank
\* ones (derivedPorts, designer/patch.go:356-418).
RowsOK(rows) ==
  /\ IsList(rows)
  /\ \A k \in DOMAIN rows :
       /\ DOMAIN rows[k] = {"id", "tags", "routes"} /\ IsList(rows[k].tags)
       /\ \A j \in DOMAIN rows[k].tags : rows[k].tags[j] # <<>>

\* "none" is no install.
ASSUME FlowFilesOK ==
  /\ Connected \subseteq Install /\ "none" \notin Install
  /\ DOMAIN ActionOf = Plugin /\ DOMAIN PortsFor = Plugin
  /\ \A p \in Plugin : RowsOK(PortsFor[p])
  /\ MaxChanges \in Nat

NoId == <<>>

\* What the documents are: lists of nodes and of edges, a node with each field
\* of its data.  Only a plugin-backed node carries an identity, only a plugin's
\* body has settings of its own, a person's task with a profile has its id, and
\* a plugin node that names a request names the action it is of.
DataFields == {"scope", "msgs", "rows", "text", "object", "has", "lang", "body",
               "settings", "bodySettings", "profile", "channel", "action", "plugin",
               "missing", "bind"}
DataOK(kind, data) ==
  /\ DOMAIN data = DataFields
  /\ kind \notin PluginKinds => data.plugin = NoId
  /\ kind # "plugin" => data.bodySettings = "none" /\ "settings" \notin data.body
  /\ kind = "hitl" /\ data.profile # "none" => "settingsId" \in data.has
  /\ kind = "plugin" /\ "request" \in data.has => "action" \in data.has
ListsOK(data) == RowsOK(data.rows) /\ IsList(data.msgs.list) /\ IsList(data.msgs.body)
DocumentOK(doc) ==
  /\ DOMAIN doc = {"nodes", "edges"} /\ IsList(doc.nodes) /\ IsList(doc.edges)
  /\ \A k \in DOMAIN doc.nodes :
       /\ DOMAIN doc.nodes[k] = {"ref", "kind", "title", "data"}
       /\ DataOK(doc.nodes[k].kind, doc.nodes[k].data) /\ ListsOK(doc.nodes[k].data)

\* "none" is no profile.
ASSUME DocumentsOK ==
  "none" \notin Profile /\ \A doc \in Documents : DocumentOK(doc)

VARIABLES
  ext,      \* per install: the plugins registered and synced
  profiles, \* per install: the profiles it has
  flows,    \* per install: the saved flow
  file,     \* the document in hand
  report,   \* per install: what the last import said
  origin,   \* history: the graph the document in hand was exported from
  left      \* how many changes may still happen

fvars == <<ext, profiles, flows, file, report, origin, left>>

NoFlow == [nodes |-> << >>, edges |-> {}, plugins |-> {}]
NoOrigin == [install |-> "none", nodes |-> << >>, edges |-> {}]
NoReport == [problems |-> {}, issues |-> {}, missing |-> {}, unbound |-> {}]

\* A document that names neither a plugin nor a profile reads the same on every
\* install, however it changes: it goes to one, and MaxChanges is for the others.
Names(doc) ==
  \E k \in DOMAIN doc.nodes :
    doc.nodes[k].kind = "plugin" \/ doc.nodes[k].data.profile # "none"

Goes(i) == Names(file) \/ i = CHOOSE j \in Connected : TRUE

HasFlow(i) == flows[i] # NoFlow

FInit ==
  /\ file \in Documents
  /\ ext \in [Install -> IF Names(file) THEN SUBSET Plugin ELSE {{}}]
  /\ profiles = [i \in Install |-> Profile]
  /\ flows = [i \in Install |-> NoFlow]
  /\ report = [i \in Install |-> NoReport]
  /\ origin = NoOrigin
  /\ left = IF Names(file) THEN MaxChanges ELSE 0

-----------------------------------------------------------------------------
(* Identities.  A pluginId is a per-install address.                       *)

IdOf(i, p) == <<i, p>>

Serving(i, action) == {p \in ext[i] : ActionOf[p] = action}

Unstamped(data) ==
  [data EXCEPT !.plugin = NoId, !.missing = FALSE, !.rows = <<>>]
Bound(i, data, p) ==
  [Unstamped(data) EXCEPT !.plugin = IdOf(i, p), !.rows = PortsFor[p], !.bind = ""]

TrustsDocument(i, data) ==
  IF data.plugin # NoId THEN data
  ELSE IF Cardinality(Serving(i, data.action)) = 1
    THEN Bound(i, data, CHOOSE p \in Serving(i, data.action) : TRUE)
    ELSE [Unstamped(data) EXCEPT !.missing = Serving(i, data.action) = {},
                                 !.bind = IF Serving(i, data.action) = {} THEN ""
                                          ELSE "manual"]

\* The exact pair the document carries, else the only plugin serving the
\* action unless it asks for the pick to be made here; nothing is guessed.
StampPlugin(i, data) ==
  LET cands == Serving(i, data.action)
      exact == {p \in cands : IdOf(i, p) = data.plugin}
      only == IF data.bind # "manual" /\ Cardinality(cands) = 1 THEN cands ELSE {}
  IN CASE "action" \notin data.has -> Unstamped(data)
       [] "action" \in data.has /\ exact # {} ->
            Bound(i, data, CHOOSE p \in exact : TRUE)
       [] "action" \in data.has /\ exact = {} /\ only # {} ->
            Bound(i, data, CHOOSE p \in only : TRUE)
       [] "action" \in data.has /\ cands = {} ->
            [Unstamped(data) EXCEPT !.missing = TRUE, !.bind = ""]
       [] OTHER -> [Unstamped(data) EXCEPT !.bind = "manual"]

\* A builtin kind takes its builtin row's identity.
Stamp(i, node) ==
  [node EXCEPT !.data =
     IF node.kind = "plugin" THEN StampPlugin(i, @)
     ELSE IF node.kind \in PluginKinds THEN [@ EXCEPT !.plugin = IdOf(i, node.kind)]
     ELSE @]

StampIdentities(i, doc) ==
  [doc EXCEPT !.nodes = Made([k \in DOMAIN @ |-> Stamp(i, @[k])])]

\* A node's profile, by its id; a HITL node's is read when it runs.
ResolveProfile(i, node) ==
  IF node.data.profile = "none" THEN node
  ELSE [node EXCEPT !.data.settings =
          IF node.kind # "hitl" /\ node.data.profile \in profiles[i]
            THEN node.data.profile ELSE "none"]

OnlySources(graph) ==
  {IF graph.nodes[k].kind # "plugin" THEN <<"builtin", graph.nodes[k].kind>>
   ELSE graph.nodes[k].data.plugin :
     k \in {e.from : e \in {d \in graph.edges : graph.nodes[d.from].kind \in PluginKinds}}}

\* CollectFlowPlugins: the plugins behind the nodes with an edge on them.
FlowPlugins(graph) ==
  LET wired == {e.from : e \in graph.edges} \cup {e.to : e \in graph.edges}
      named(n) == n.data.plugin # NoId \/ "action" \in n.data.has
      key(n) == CASE n.kind = "jev" -> <<"builtin", "ai-decision">>
                  [] n.kind \notin {"jev", "plugin"} -> <<"builtin", n.kind>>
                  [] n.kind = "plugin" /\ n.data.plugin # NoId -> n.data.plugin
                  [] OTHER -> <<"action", n.data.action>>
      served == {k \in wired \cap DOMAIN graph.nodes :
                   /\ graph.nodes[k].kind \in PluginKinds
                   /\ graph.nodes[k].kind = "plugin" => named(graph.nodes[k])}
  IN {key(graph.nodes[k]) : k \in served}

-----------------------------------------------------------------------------
(* Import and export                                                       *)

\* What the plugin builders write into the bodies they share with the record.
Built(graph, lowered) ==
  [k \in DOMAIN graph.nodes |->
     IF k \in lowered
       THEN [graph.nodes[k] EXCEPT !.data = AfterBuild(graph.nodes[k].kind, @)]
       ELSE graph.nodes[k]]

Saved(graph) == [nodes |-> graph.nodes, edges |-> graph.edges,
                 plugins |-> FlowPlugins(graph)]

Panics(graph, i) ==
  Starts(graph) # {} /\ Walk(graph, i \in Connected).why = "panic"

\* Import: refused without exactly one start, lost to a builder's panic, else
\* saved whatever the compile pass says.  The compile comes before the save.
Import(i) ==
  LET plan == PlanPatch(StampIdentities(i, file))
      graph == [nodes |-> Made([k \in DOMAIN plan.nodes |-> ResolveProfile(i, plan.nodes[k])]),
                edges |-> plan.edges]
      compiled == CompileFlow(graph, TRUE, i \in Connected)
      flagged(P(_)) == {k \in DOMAIN graph.nodes : P(graph.nodes[k].data)}
  IN /\ Goes(i)
     /\ Cardinality(Starts(graph)) = 1
     /\ ~Panics(graph, i)
     /\ flows' = [flows EXCEPT ![i] =
          Saved([graph EXCEPT !.nodes = Built(graph, compiled.lowered)])]
     /\ report' = [report EXCEPT ![i] =
          [problems |-> plan.problems, issues |-> compiled.issues,
           missing |-> flagged(LAMBDA d : d.missing),
           unbound |-> flagged(LAMBDA d : d.bind = "manual" /\ d.plugin = NoId
                                            /\ ~d.missing /\ "action" \in d.has)]]
     /\ UNCHANGED <<ext, profiles, file, origin, left>>

\* What never leaves an install: identities, forms, ports a plugin declares,
\* resolved settings and the markers of this install's own reading.
PortableData(kind, data) ==
  [data EXCEPT !.plugin = NoId, !.settings = "none", !.missing = FALSE, !.bind = "",
               !.scope = IF @ = "$" THEN "" ELSE @,
               !.rows = IF kind = "plugin" THEN <<>> ELSE @]

SlugOf(node) == <<node.title>>

Export(i) ==
  /\ HasFlow(i)
  /\ LET nodes == flows[i].nodes
     IN file' = GraphToPatch(flows[i], [k \in DOMAIN nodes |-> SlugOf(nodes[k])],
                             [k \in DOMAIN nodes |->
                                PortableData(nodes[k].kind, nodes[k].data)])
  /\ origin' = [install |-> i, nodes |-> flows[i].nodes, edges |-> flows[i].edges]
  /\ UNCHANGED <<ext, profiles, flows, report, left>>

-----------------------------------------------------------------------------
(* What changes on an install                                              *)

Changes == left > 0 /\ left' = left - 1

SyncPlugin(i, p) ==
  /\ Changes
  /\ ext' = [ext EXCEPT ![i] = IF p \in @ THEN @ \ {p} ELSE @ \cup {p}]
  /\ UNCHANGED <<profiles, flows, file, report, origin>>

EditProfile(i, f) ==
  /\ Changes
  /\ profiles' = [profiles EXCEPT ![i] = IF f \in @ THEN @ \ {f} ELSE @ \cup {f}]
  /\ UNCHANGED <<ext, flows, file, report, origin>>

\* The canvas saves its graph as it is; the compile follows the save.
SaveCanvas(i, k, data) ==
  LET nodes == [flows[i].nodes EXCEPT ![k].data = data]
  IN flows' = [flows EXCEPT ![i] = Saved([nodes |-> nodes, edges |-> @.edges])]

\* The drawer binds a plugin serving the node's action.
PickPlugin(i, k, p) ==
  /\ Changes
  /\ HasFlow(i) /\ k \in DOMAIN flows[i].nodes
  /\ flows[i].nodes[k].kind = "plugin"
  /\ p \in Serving(i, flows[i].nodes[k].data.action)
  /\ SaveCanvas(i, k, Bound(i, flows[i].nodes[k].data, p))
  /\ UNCHANGED <<ext, profiles, file, report, origin>>

\* The drawer puts a profile's values on the node, or clears the choice.
PickProfile(i, k, f) ==
  /\ Changes
  /\ HasFlow(i) /\ k \in DOMAIN flows[i].nodes
  /\ flows[i].nodes[k].kind = "plugin"
  /\ f \in profiles[i] \cup {"none"}
  /\ SaveCanvas(i, k, [flows[i].nodes[k].data EXCEPT !.profile = f, !.settings = f])
  /\ UNCHANGED <<ext, profiles, file, report, origin>>

FNext ==
  \E i \in Install :
    \/ Import(i)
    \/ Export(i)
    \/ \E p \in Plugin : SyncPlugin(i, p)
    \/ \E f \in Profile : EditProfile(i, f)
    \/ \E k \in DOMAIN flows[i].nodes :
         \/ \E p \in Plugin : PickPlugin(i, k, p)
         \/ \E f \in Profile \cup {"none"} : PickProfile(i, k, f)

FSpec == FInit /\ [][FNext]_fvars

-----------------------------------------------------------------------------
(* Properties                                                              *)

FTypeOK ==
  /\ ext \in [Install -> SUBSET Plugin]
  /\ profiles \in [Install -> SUBSET Profile]
  /\ \A i \in Install :
       /\ \A k \in DOMAIN flows[i].nodes : flows[i].nodes[k].kind \in Catalog \cup {"plugin"}
       /\ \A e \in flows[i].edges : {e.from, e.to} \subseteq DOMAIN flows[i].nodes
       /\ \A x \in report[i].problems \cup report[i].issues : x.level \in {"error", "warn"}
  /\ left \in 0..MaxChanges

Clean(i) == report[i].problems = {} /\ report[i].issues = {}
Unrouted(graph) ==
  \A k \in DOMAIN graph.nodes : PortsOf(graph.nodes[k].kind, graph.nodes[k].data) = <<>>
Lowered(i) == CompileFlow(flows[i], FALSE, TRUE)

\* A flow without loops and routing about which the planner and the guard have
\* nothing to say runs each of its nodes exactly once, and no join of it waits
\* for ever: what the convergence checks and the depends guard are for.
SilentFlowRunsOnce ==
  \A i \in Install :
    HasFlow(i) /\ Clean(i) /\ LoopClosing(flows[i].edges) = {} /\ Unrouted(flows[i])
      => /\ EngineRuns(flows[i], Lowered(i)) = [k \in DOMAIN flows[i].nodes |-> 1]
         /\ ~EngineStalls(flows[i], Lowered(i))

\* What the file format can name: ports told apart by their ids, and by their
\* names whatever the case; and edges on a port of their node as it is now, which
\* a pick of another plugin may have changed.
Nameable(graph) ==
  /\ \A k \in DOMAIN graph.nodes :
       LET ports == PortsOf(graph.nodes[k].kind, graph.nodes[k].data)
       IN \A a, b \in DOMAIN ports :
            a # b => ports[a].id # ports[b].id /\ ~Answers(ports[a], NameOf(ports[b]))
  /\ \A e \in graph.edges :
       LET ports == PortsOf(graph.nodes[e.from].kind, graph.nodes[e.from].data)
       IN \/ ports = <<>> /\ e.handle = <<>> /\ e.tags = <<>>
          \/ \E a \in DOMAIN ports : ports[a].id = e.handle /\ ports[a].tags = e.tags

\* A plugin node is compared only where it is bound to the same plugin again.
Rebound(old, new) ==
  old.kind = "plugin" => old.data.plugin = new.data.plugin /\ new.data.plugin # NoId

SameNode(old, new) ==
  /\ old.kind = new.kind /\ old.title = new.title
  /\ old.data.scope = new.data.scope /\ old.data.msgs = new.data.msgs
  /\ old.data.rows = new.data.rows

\* An edge between two places: the port it is on, and its tags.
Wire(e, from, to) == [from |-> from, to |-> to, handle |-> e.handle, tags |-> e.tags]

\* What an import finds again of the graph its install last exported.
ReturnsAsExported ==
  \A i \in Install :
    LET was == InOrder(DOMAIN origin.nodes)
        now == flows[i]'
        at(n) == CHOOSE k \in DOMAIN was : was[k] = n
    IN /\ origin.install = i
       /\ Import(i)
       /\ Nameable(origin)
       => /\ DOMAIN now.nodes = DOMAIN was
          /\ (\A k \in DOMAIN was : Rebound(origin.nodes[was[k]], now.nodes[k]))
               => /\ \A k \in DOMAIN was : SameNode(origin.nodes[was[k]], now.nodes[k])
                  /\ {Wire(e, e.from, e.to) : e \in now.edges}
                     = {Wire(e, at(e.from), at(e.to)) : e \in origin.edges}

\* Exported and imported again where it came from, a flow is the same design:
\* its nodes with their messages and rows, and each edge on its port and tags.
DesignSurvives == [][ReturnsAsExported]_fvars

\* An identity in a saved flow is its own install's, and a plugin node with an
\* action is either bound or says why not: its plugin is missing, or the pick
\* is the operator's.
IdentityIsLocal ==
  /\ FTypeOK
  /\ \A i \in Install : \A k \in DOMAIN flows[i].nodes :
    LET node == flows[i].nodes[k]
        d == node.data
    IN /\ d.plugin # NoId => d.plugin[1] = i
       /\ node.kind = "plugin" /\ "action" \in d.has
            => Cardinality({w \in {"bound", "missing", "manual"} :
                 CASE w = "bound" -> d.plugin # NoId
                   [] w = "missing" -> d.missing
                   [] w = "manual" -> d.bind = "manual"}) = 1

\* Every plugin a run of the flow would call is in its plugin list; and the
\* profile chosen for a node is the one its run uses: a plugin is sent its
\* values, a person's task its id and never the values, as long as nothing has
\* changed since the import that resolved it.
Sends == {"llm", "http", "ai-decision", "jev", "plugin"}
Called(node) ==
  IF node.kind = "jev" THEN <<"builtin", "ai-decision">>
  ELSE IF node.kind # "plugin" THEN <<"builtin", node.kind>>
  ELSE IF node.data.plugin # NoId THEN node.data.plugin
  ELSE <<"action", node.data.action>>
RunMatchesFlow ==
  \A i \in Install :
    HasFlow(i) => \A k \in Lowered(i).lowered :
      LET n == flows[i].nodes[k]
      IN /\ n.kind \in PluginKinds => Called(n) \in flows[i].plugins
         /\ left = MaxChanges =>
              /\ n.kind \in Sends /\ n.data.profile \in profiles[i]
                   => SettingsSent(n.kind, n.data) = n.data.profile
              /\ n.kind = "hitl" /\ n.data.profile # "none"
                   => n.data.settings = "none" /\ "settingsId" \in PayloadOf("hitl", n.data)

=============================================================================
