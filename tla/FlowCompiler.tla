----------------------------- MODULE FlowCompiler -----------------------------
(***************************************************************************)
(* The flow compiler: a canvas graph lowered node by node to the engine's  *)
(* primitives, the joins wired after the walk, and the diagnostics of it.  *)
(* Operators only; FlowFiles runs them.                                    *)
(*                                                                         *)
(* To the planner's part of a node's data comes what the builders read:    *)
(* which of the drawer's fields hold a value of their type (`has`), the    *)
(* keys of its free `body`, the profile values on the node (`settings`)    *)
(* and those a body may have of its own (`bodySettings`).  The walk, the   *)
(* depends guard and the engine's rounds are external: the vendored        *)
(* compiler and the runtime.                                               *)
(***************************************************************************)
EXTENDS FlowPlan

PluginKinds == {"llm", "mcp", "cast", "http", "ai-decision", "jev", "plugin"}
StoreKeys == {"storeId", "query", "input", "key", "text", "topK", "partition",
              "minScore"}
TelegramKeys == {"telegramConnection", "telegramAlias", "telegramChatId"}

-----------------------------------------------------------------------------
(* Builders                                                                *)

PrimitiveOf(kind) ==
  CASE kind \in {"startNode", "promissall", "void"} -> "void"
    [] kind \in {"js", "opa"} -> "code"
    [] kind \in {"rule", "contract"} -> "contract"
    [] kind = "goto" -> "goto"
    [] kind \in PluginKinds -> "plugin"
    [] kind \in {"hitl", "docstore", "vecstore", "until"} -> "extrinsic"
    [] OTHER -> "untyped"

\* The code and contract builders assert the fields their language needs; one
\* that is missing is a panic.  Without a language there is no rule to build.
CodeNeeds(data) ==
  CASE data.lang = "js" -> {"logic_rule"}
    [] data.lang = "opa" -> {"logic_rule", "opa_result"}
    [] OTHER -> {}
GotoNeeds(data) ==
  IF "goto" \in data.has THEN {"flowId", "from_nodeId", "end_nodeId"} ELSE {}
Asserted(kind, data) ==
  IF PrimitiveOf(kind) \in {"code", "contract"} THEN CodeNeeds(data)
  ELSE IF kind = "goto" THEN GotoNeeds(data) ELSE {}

\* What a plugin-backed node asks its plugin for.
McpMode(data) == IF "mcpMode" \in data.has THEN "run" ELSE "call_tool"
RequestOf(kind, data) ==
  CASE kind = "plugin" /\ "action" \in data.has -> "action"
    [] "request" \in data.has -> "request"
    [] kind = "plugin" -> "none"
    [] kind = "mcp" -> McpMode(data)
    [] OTHER -> "run"

\* Where each key of the body a plugin is sent comes from: the profile, the
\* drawer's rows, its fields, or its free body.
From(keys, origin) == [k \in keys |-> origin]
\* What f says, and g where f says nothing.
f ++ g == [k \in DOMAIN f \cup DOMAIN g |-> IF k \in DOMAIN f THEN f[k] ELSE g[k]]
OwnBody(data) ==
  From(data.body \cup (IF data.bodySettings # "none" THEN {"settings"} ELSE {}),
       "body")

LlmBody(data) ==
  OwnBody(data) ++ From({"settings"}, "profile") ++ From({"functions"}, "rows")
HttpBody(data) == OwnBody(data) ++ From({"settings"}, "profile")
McpBody(data) ==
  IF RequestOf("mcp", data) = "call_tool"
    THEN From({"connection", "tool", "arguments"}, "fields")
    ELSE LlmBody(data) ++ From({"connection"}, "fields")
CastBody(data) == From({"mappings", "storeId"} \cap data.has, "fields") ++ OwnBody(data)
DecisionBody(data) ==
  From({"evidence"} \cap data.has, "rows") ++ OwnBody(data)
    ++ From({"settings"}, "profile") ++ From({"questions"}, "rows")
ActionBody(data) ==
  (IF data.settings # "none" THEN From({"settings"}, "profile") ELSE << >>)
    ++ OwnBody(data)

BodyOf(kind, data) ==
  CASE kind = "llm" -> LlmBody(data)
    [] kind = "mcp" -> McpBody(data)
    [] kind = "cast" -> CastBody(data)
    [] kind = "http" -> HttpBody(data)
    [] kind \in {"ai-decision", "jev"} -> DecisionBody(data)
    [] kind = "plugin" -> ActionBody(data)

\* The profile values the plugin is sent.
SettingsSent(kind, data) ==
  LET body == BodyOf(kind, data)
  IN IF "settings" \notin DOMAIN body THEN "none"
     ELSE IF body["settings"] = "profile" THEN data.settings ELSE data.bodySettings

\* buildPluginActionNode writes into the node's own body when it has one.
BodyIsShared(data) == data.body # {}
AfterBuild(kind, data) ==
  IF kind = "plugin" /\ BodyIsShared(data) /\ data.settings # "none"
    THEN [data EXCEPT !.bodySettings = data.settings] ELSE data

\* What a handler of this backend is sent in the operation payload.
Channel(data) ==
  IF data.channel \in {"telegram", "whatsapp"} THEN data.channel ELSE "direct"
HitlPayload(data) ==
  {"nodeId", "mode", "channel"} \cup (data.has \cap {"title", "prompt", "settingsId", "key"})
    \cup (IF Channel(data) = "telegram" THEN data.has \cap TelegramKeys ELSE {})
StorePayload(data) == {"action"} \cup (data.has \cap (StoreKeys \cup {"metadata"}))
UntilPayload(data) ==
  {"mode"} \cup (IF data.channel = "at" THEN {"at", "continueAt"} ELSE {"delaySeconds"})
PayloadOf(kind, data) ==
  CASE kind = "hitl" -> HitlPayload(data)
    [] kind \in {"docstore", "vecstore"} -> StorePayload(data)
    [] kind = "until" -> UntilPayload(data)

\* NodeBuilder: a node, a refusal, or a panic.
Build(node, connected) ==
  CASE ~node.data.object -> "invalid"
    [] node.data.object /\ ~(Asserted(node.kind, node.data) \subseteq node.data.has)
         -> "panic"
    [] node.data.object /\ node.kind \in PluginKinds /\ ~connected -> "account"
    [] node.data.object /\ node.kind \in PluginKinds /\ connected
         /\ RequestOf(node.kind, node.data) = "none" -> "invalid"
    [] OTHER -> "node"

-----------------------------------------------------------------------------
(* CompileFlow                                                             *)

Starts(graph) == {i \in DOMAIN graph.nodes : graph.nodes[i].kind = "startNode"}
GetStartNodeId(graph) ==
  IF Starts(graph) = {} THEN 0
  ELSE CHOOSE i \in Starts(graph) : \A j \in Starts(graph) : i <= j

\* The walk from the start, depth first in edge order, to its first refusal:
\* the nodes lowered, the one refused (0 for none) and those seen.
WalkFrom(graph) ==
  [todo |-> <<GetStartNodeId(graph)>>, lowered |-> {}, stop |-> 0, why |-> "ok"]
Targets(graph, i) ==
  LET outs == EdgesInOrder({e \in graph.edges : e.from = i})
  IN [k \in DOMAIN outs |-> outs[k].to]
WalkOn(graph, connected, w) ==
  LET i == Head(w.todo)
      outcome == Build(graph.nodes[i], connected)
  IN CASE w.todo = <<>> -> w
       [] w.todo # <<>> /\ i \in w.lowered -> [w EXCEPT !.todo = Tail(@)]
       [] w.todo # <<>> /\ i \notin w.lowered /\ outcome # "node" ->
            [w EXCEPT !.todo = <<>>, !.stop = i, !.why = outcome]
       [] OTHER -> [w EXCEPT !.lowered = @ \cup {i},
                             !.todo = Targets(graph, i) \o Tail(@)]
Walk(graph, connected) ==
  LET f[k \in Nat] == IF k = 0 THEN WalkFrom(graph)
                      ELSE WalkOn(graph, connected, f[k - 1])
  IN f[Cardinality(graph.edges) + 1]

\* A join waits for the source of every edge into it.
InboundSources(graph, i) == {e.from : e \in {d \in graph.edges : d.to = i}}
Depends(graph, lowered) ==
  Made([i \in lowered |-> IF graph.nodes[i].kind = "promissall"
                            THEN InboundSources(graph, i) ELSE {}])

\* The guard: a join may wait neither for a step after it nor for one the walk
\* never lowers.
ValidateDepends(graph, lowered) ==
  LET deps == Depends(graph, lowered)
  IN {[level |-> "error", at |-> i, what |-> "dependDeadlock"] :
        i \in {j \in lowered : \E d \in deps[j] : d \in Reach(graph.edges, j)}}
     \cup {[level |-> "error", at |-> i, what |-> "dependUnreachable"] :
        i \in {j \in lowered : \E d \in deps[j] : d \notin lowered}}

Unreachable(graph, lowered) ==
  {[level |-> "warn", at |-> i, what |-> "nodeUnreachable"] :
     i \in DOMAIN graph.nodes \ lowered}

BuildIssue(w) ==
  IF w.stop = 0 THEN {} ELSE {[level |-> "error", at |-> w.stop, what |-> w.why]}

\* CompileFlow; a panic leaves no result.
CompileFlow(graph, guard, connected) ==
  IF Starts(graph) = {}
    THEN [start |-> 0, lowered |-> {}, depends |-> << >>,
          issues |-> {[level |-> "error", at |-> 0, what |-> "startNodeMissing"]}]
    ELSE LET w == Walk(graph, connected)
         IN [start |-> GetStartNodeId(graph), lowered |-> w.lowered,
             depends |-> Depends(graph, w.lowered),
             issues |-> BuildIssue(w)
               \cup (IF ~guard THEN {} ELSE ValidateDepends(graph, w.lowered))
               \cup (IF ~guard \/ w.stop # 0 THEN {}
                     ELSE Unreachable(graph, w.lowered))]

-----------------------------------------------------------------------------
(* The engine on a graph without loops: one task per edge it follows, a    *)
(* join once its inbound nodes have reached the same round.                *)

EngineRuns(graph, compiled) ==
  LET into(i) == {e \in graph.edges : e.to = i /\ e.from \in compiled.lowered}
      Least(S) == CHOOSE x \in S : \A y \in S : x <= y
      f[i \in compiled.lowered] ==
        IF i = compiled.start THEN 1
        ELSE IF graph.nodes[i].kind = "promissall"
          THEN Least({f[d] : d \in compiled.depends[i]})
          ELSE FoldSet(LAMBDA e, n : n + f[e.from], 0, into(i))
  IN f

\* A join whose inbound nodes run unequally often waits for a round that never
\* comes.
EngineStalls(graph, compiled) ==
  LET runs == EngineRuns(graph, compiled)
  IN \E i \in compiled.lowered : \E c, d \in compiled.depends[i] : runs[c] # runs[d]

=============================================================================
