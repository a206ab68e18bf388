------------------------------- MODULE FlowPlan -------------------------------
(***************************************************************************)
(* The designer's planner: a graph patch (nodes named by refs, wired by    *)
(* port names) to a canvas graph with the design problems found, and the   *)
(* way back.  Operators only; FlowFiles runs them.                         *)
(*                                                                         *)
(* Refs and names of ports are tuples: <<word>> or, made unique,           *)
(* <<word, n>>; <<>> is blank.                                             *)
(* A node's data is the part of it the planner reads: its port rows, its   *)
(* messages, and what its text templates address.  A canvas id is the      *)
(* node's place in the patch, an edge id the edge's.                       *)
(***************************************************************************)
EXTENDS Naturals, Sequences, FiniteSets, SequencesExt

CONSTANTS
  FoldOf,     \* tags (and port names) to their spelling without case
  Catalog     \* node kinds of the embedded catalog

Exception == <<"_exception">>
Routing == {"llm", "ai-decision", "jev", "rule", "plugin"}
ModelKinds == {"llm", "mcp"}

\* The function itself.  TLC evaluates the set of a CHOOSE once and a function
\* constructor at every use.
Made(f) == CHOOSE g \in {f} : g = f

\* The least of a set of numbers: where a search through a list stops.
Earliest(S) == CHOOSE k \in S : \A l \in S : k <= l

\* A set of numbers, smallest first.
InOrder(S) ==
  Made([k \in 1..Cardinality(S) |->
          CHOOSE x \in S : Cardinality({y \in S : y < x}) = k - 1])
\* Edges in the order of their ids.
EdgesInOrder(E) ==
  LET ids == InOrder({e.id : e \in E})
  IN Made([k \in DOMAIN ids |-> CHOOSE e \in E : e.id = ids[k]])

SameFold(s, t) == s = t \/ (s \in DOMAIN FoldOf /\ t \in DOMAIN FoldOf
                              /\ FoldOf[s] = FoldOf[t])

-----------------------------------------------------------------------------
(* Messages.  A text is "blank" or not; a list is <<"none">> when the data  *)
(* has no such array.                                                      *)

NoMessages == <<[role |-> "none", text |-> "none"]>>
RoleOf(m) == IF m.role = "system" THEN "system" ELSE "user"

\* A role's message: the shorthand's, else the first usable one of the list.
Picked(role, short, list) ==
  LET said == {k \in DOMAIN list : list[k].text # "blank" /\ RoleOf(list[k]) = role}
  IN CASE short # "blank" -> <<[role |-> role, text |-> short]>>
       [] short = "blank" /\ said # {} ->
            <<[role |-> role, text |-> list[Earliest(said)].text]>>
       [] OTHER -> <<>>

\* body.messages once the shorthand is folded in: one of each role, system first.
PickMessages(msgs) ==
  LET fromBody == msgs.list = NoMessages
      raw == IF fromBody THEN msgs.body ELSE msgs.list
      list == IF raw = NoMessages THEN <<>> ELSE raw
      rows == Picked("system", msgs.system, list) \o Picked("user", msgs.prompt, list)
  IN CASE rows # <<>> -> rows
       [] rows = <<>> /\ ~fromBody -> <<>>
       [] OTHER -> msgs.body

InBodyOnly(list) ==
  [system |-> "blank", prompt |-> "blank", list |-> NoMessages, body |-> list]

-----------------------------------------------------------------------------
(* Nodes                                                                   *)

\* Rows of functions, options, handlers or outbound branches: an id (<<>> until
\* stamped), tags, and whether the question of an option routes.
Stamped(rows, i) ==
  Made([k \in DOMAIN rows |->
          IF rows[k].id = <<>> THEN [rows[k] EXCEPT !.id = <<"row", i, k>>]
          ELSE rows[k]])

\* data over the kind's defaults, scope "$" unless given, rows stamped.
MergeData(raw, i) ==
  [raw.data EXCEPT
     !.scope = IF raw.data.scope = "" THEN "$" ELSE @,
     !.msgs = IF raw.kind \in ModelKinds THEN InBodyOnly(PickMessages(@)) ELSE @,
     !.rows = IF raw.kind \in Routing \ {"plugin"} THEN Stamped(@, i) ELSE @]

RefOf(patch, i) ==
  IF patch.nodes[i].ref = <<>> THEN <<"node#", i>> ELSE patch.nodes[i].ref

Known(kind) == kind \in Catalog \/ kind = "plugin"

\* The first node of a ref and a known kind is planned, the others dropped.
ByRef(patch) ==
  LET known == {i \in DOMAIN patch.nodes : Known(patch.nodes[i].kind)}
  IN Made([r \in {RefOf(patch, i) : i \in known} |->
             CHOOSE i \in known : /\ RefOf(patch, i) = r
                                  /\ \A j \in known : RefOf(patch, j) = r => i <= j])

PlannedNodes(patch, byRef) ==
  Made([i \in Range(byRef) |->
          [kind |-> patch.nodes[i].kind, title |-> patch.nodes[i].title,
           data |-> MergeData(patch.nodes[i], i)]])

ManyScope(data) == data.scope = "many"

\* The ports a node grows from its own rows.
PortsOf(kind, data) ==
  LET routed == InOrder({k \in DOMAIN data.rows : data.rows[k].routes})
      end == [id |-> Exception, tags |-> <<Exception>>]
      port(r) == [id |-> IF r.id # <<>> THEN r.id
                         ELSE IF r.tags # <<>> THEN r.tags[1] ELSE <<"row">>,
                  tags |-> r.tags]
      ports == Made([k \in DOMAIN routed |-> port(data.rows[routed[k]])])
  IN IF kind \notin Routing \/ DOMAIN routed = {} THEN <<>>
     ELSE IF kind \in {"rule", "plugin"} THEN ports ELSE Append(ports, end)

Inspect(kind, data) ==
  (IF ManyScope(data) /\ PortsOf(kind, data) # <<>> THEN {"routesMany"} ELSE {})
  \cup (IF ManyScope(data) /\ data.text = "root" THEN {"rowRefs"} ELSE {})

NodeProblems(patch, nodes) ==
  {[level |-> "error", at |-> i, what |-> "dropped"] :
     i \in DOMAIN patch.nodes \ DOMAIN nodes}
  \cup UNION {{[level |-> "warn", at |-> i, what |-> w] :
                 w \in Inspect(nodes[i].kind, nodes[i].data)} : i \in DOMAIN nodes}

-----------------------------------------------------------------------------
(* Edges                                                                   *)

Answers(port, want) ==
  port.id = want \/ \E k \in DOMAIN port.tags : SameFold(port.tags[k], want)

NoPort == [id |-> <<>>, tags |-> <<>>]

\* The port an edge leaves by: the first that answers to the name.
ResolvePort(ports, want) ==
  LET hits == {k \in DOMAIN ports : Answers(ports[k], want)}
  IN CASE ports = <<>> /\ want = <<>>  -> [port |-> NoPort, level |-> "ok"]
       [] ports = <<>> /\ want # <<>>  -> [port |-> NoPort, level |-> "warn"]
       [] ports # <<>> /\ (want = <<>> \/ hits = {})
                                     -> [port |-> NoPort, level |-> "error"]
       [] OTHER -> [port |-> ports[Earliest(hits)], level |-> "ok"]

\* An edge of the patch: without both ends, or without the port its source
\* needs, it is dropped.
PlanEdge(nodes, byRef, k, e) ==
  LET ends == {e.from, e.to} \subseteq DOMAIN byRef
      src == nodes[byRef[e.from]]
      found == IF ends THEN ResolvePort(PortsOf(src.kind, src.data), e.port)
               ELSE [port |-> NoPort, level |-> "error"]
  IN [id |-> k, level |-> found.level,
      edge |-> IF found.level = "error" THEN << >>
               ELSE [id |-> k, from |-> byRef[e.from], to |-> byRef[e.to],
                     handle |-> found.port.id, tags |-> found.port.tags]]

PlannedEdges(patch, nodes, byRef) ==
  {PlanEdge(nodes, byRef, k, patch.edges[k]) : k \in DOMAIN patch.edges}

EdgeProblems(planned) ==
  {[level |-> p.level, at |-> p.id,
    what |-> IF p.level = "error" THEN "edgeDropped" ELSE "portIgnored"] :
     p \in {q \in planned : q.level # "ok"}}

-----------------------------------------------------------------------------
(* Convergence                                                             *)

Next1(E, S) == S \cup {e.to : e \in {d \in E : d.from \in S}}

\* Nodes reachable from n, n included.
Reach(E, n) ==
  LET f[k \in Nat] == IF k = 0 THEN {n} ELSE Next1(E, f[k - 1])
  IN f[Cardinality(E)]

\* An edge whose target can reach its source closes a loop.
LoopClosing(E) == {e \in E : e.from \in Reach(E, e.to)}
Forward(E) == E \ LoopClosing(E)
Inbound(F, n) == Cardinality({e \in F : e.to = n})
MoreThanTwo(F, n) == Inbound(F, n) > 2
Multi(F, n) == Inbound(F, n) > 1

Convergence(kinds, E) ==
  LET F == Forward(E)
      targets == {e.to : e \in E}
  IN {[level |-> "warn", at |-> n, what |-> "runsTwice"] :
        n \in {m \in targets : kinds[m] # "promissall" /\ Multi(F, m)}}
     \cup {[level |-> "warn", at |-> n, what |-> "joinsNothing"] :
        n \in {m \in DOMAIN kinds : kinds[m] = "promissall" /\ Inbound(F, m) < 2}}
     \cup {[level |-> "error", at |-> e.from, what |-> "waitsForMany"] :
        e \in {d \in E : kinds[d.to] = "promissall" /\ Multi(F, d.from)}}

\* PlanPatch.
PlanPatch(patch) ==
  LET byRef == ByRef(patch)
      nodes == PlannedNodes(patch, byRef)
      planned == PlannedEdges(patch, nodes, byRef)
      edges == {p.edge : p \in {q \in planned : q.level # "error"}}
  IN [nodes |-> nodes, edges |-> edges,
      problems |-> NodeProblems(patch, nodes) \cup EdgeProblems(planned)
                     \cup Convergence([i \in DOMAIN nodes |-> nodes[i].kind], edges)]

-----------------------------------------------------------------------------
(* The way back                                                            *)

SlugAlone(slug, taken) == slug

\* The slug itself, or with the first free number from 2 on.
FreeRef(slug, taken) ==
  IF slug \notin taken THEN slug
  ELSE LET n == CHOOSE m \in 2..(Cardinality(taken) + 2) :
                  /\ Append(slug, m) \notin taken
                  /\ \A l \in 2..(m - 1) : Append(slug, l) \in taken
       IN Append(slug, n)

\* In the order of the list, each apart from those before it.
UniqueRefs(slugs) ==
  LET ref[k \in DOMAIN slugs] == FreeRef(slugs[k], {ref[j] : j \in 1..(k - 1)})
  IN Made(ref)

NameOf(port) == IF port.tags # <<>> THEN port.tags[1] ELSE port.id

\* By handle, else by the edge's tags; blank when neither finds a port.
PortName(ports, edge) ==
  LET byId == {k \in DOMAIN ports : edge.handle # <<>> /\ ports[k].id = edge.handle}
      byTag(t) == {k \in DOMAIN ports :
                     \E j \in DOMAIN ports[k].tags : SameFold(ports[k].tags[j], t)}
      tagged == {j \in DOMAIN edge.tags : byTag(edge.tags[j]) # {}}
  IN CASE byId # {} -> NameOf(ports[Earliest(byId)])
       [] byId = {} /\ tagged # {} ->
            NameOf(ports[Earliest(byTag(edge.tags[Earliest(tagged)]))])
       [] OTHER -> <<>>

\* GraphToPatch: nodes in canvas order; an identity, a form, a plugin's ports
\* and settings stay (portable); an edge without both ends is left out.
GraphToPatch(graph, slugs, portable) ==
  LET ids == InOrder(DOMAIN graph.nodes)
      at(i) == CHOOSE k \in DOMAIN ids : ids[k] = i
      refs == UniqueRefs([k \in DOMAIN ids |-> slugs[ids[k]]])
      es == EdgesInOrder({e \in graph.edges : {e.from, e.to} \subseteq Range(ids)})
      port(e) == PortName(PortsOf(graph.nodes[e.from].kind,
                                  graph.nodes[e.from].data), e)
  IN [nodes |-> [k \in DOMAIN ids |->
                   LET n == graph.nodes[ids[k]]
                   IN [ref |-> refs[k], kind |-> n.kind, title |-> n.title,
                       data |-> portable[ids[k]]]],
      edges |-> [k \in DOMAIN es |->
                   [from |-> refs[at(es[k].from)], to |-> refs[at(es[k].to)],
                    port |-> port(es[k])]]]

=============================================================================
