----------------------------- MODULE MCFlowFiles -----------------------------
(* Instances of FlowFiles for TLC: the documents authors and packages bring. *)
EXTENDS FlowFiles

Folds == (<<"a">> :> "a") @@ (<<"A">> :> "a") @@ (<<"b">> :> "b")
Kinds == {"startNode", "promissall", "llm", "mcp", "rule", "ai-decision", "cast",
          "http", "docstore", "vecstore", "until", "hitl", "js", "opa", "goto"}

NoMsgs == [system |-> "blank", prompt |-> "blank", list |-> NoMessages, body |-> NoMessages]
Data ==
  [scope |-> "", msgs |-> NoMsgs, rows |-> <<>>, text |-> "plain", object |-> TRUE,
   has |-> {}, lang |-> "none", body |-> {}, settings |-> "none",
   bodySettings |-> "none", profile |-> "none", channel |-> "", action |-> "none",
   plugin |-> NoId, missing |-> FALSE, bind |-> ""]

Node(k, kind, data) ==
  [ref |-> <<"n", k>>, kind |-> kind, title |-> "step", data |-> data]
Edge(j, k, port) == [from |-> <<"n", j>>, to |-> <<"n", k>>, port |-> port]
Doc(kinds, data, edges) ==
  [nodes |-> [k \in DOMAIN kinds |-> Node(k, kinds[k], data[k])], edges |-> edges]

\* Every wiring of a start and three nodes that do or do not join.
Arrows == {<<j, k>> \in (1..4) \X (2..4) : j # k}
ArrowNo(a) == 4 * a[1] + a[2]
Listed(E) ==
  LET nos == InOrder({ArrowNo(a) : a \in E})
  IN [n \in DOMAIN nos |-> CHOOSE a \in E : ArrowNo(a) = nos[n]]
Wirings ==
  {Doc(<<"startNode", a, b, c>>, [k \in 1..4 |-> Data],
       LET s == Listed(E) IN [n \in DOMAIN s |-> Edge(s[n][1], s[n][2], <<>>)]) :
     <<a, b, c>> \in {<<"docstore", "docstore", "docstore">>, <<"docstore", "docstore", "promissall">>,
                     <<"docstore", "promissall", "promissall">>},
     E \in SUBSET Arrows}

\* Two edges through a routing node's ports.
Row(id, tag) == [id |-> id, tags |-> tag, routes |-> TRUE]
RowsOf == {Row(<<>>, tag) : tag \in {<<>>, <<<<"a">>>>, <<<<"A">>>>, <<<<"b">>>>}}
            \cup {Row(<<"b">>, <<>>)} \cup {Row(<<"c">>, tag) : tag \in {<<<<"a">>>>, <<<<"b">>>>}}
PortNames == {<<>>, <<"a">>, <<"A">>, <<"b">>, <<"c">>}
Routings ==
  {Doc(<<"startNode", kind, "docstore">>,
       <<Data, [Data EXCEPT !.rows = rows, !.scope = scope], Data>>,
       <<Edge(1, 2, <<>>), Edge(2, 3, p), Edge(2, 3, q)>>) :
     kind \in {"llm", "rule", "ai-decision"}, scope \in {"", "many"},
     rows \in {<<>>} \cup {<<r>> : r \in RowsOf} \cup (RowsOf \X RowsOf),
     p \in PortNames, q \in {<<"a">>, <<"b">>, <<"c">>}}

\* A model's messages, in each shape an assistant writes.
Msg(role, text) == [role |-> role, text |-> text]
Lists == {NoMessages, <<>>, <<Msg("user", "t")>>, <<Msg("system", "blank")>>,
          <<Msg("user", "t"), Msg("system", "u")>>, <<Msg("other", "t"), Msg("user", "u")>>}
Prompts ==
  {Doc(<<"startNode", "llm">>,
       <<Data, [Data EXCEPT !.msgs = [system |-> s, prompt |-> p, list |-> l, body |-> b]]>>,
       <<Edge(1, 2, <<>>)>>) :
     s \in {"blank", "s"}, p \in {"blank", "p"}, l \in Lists, b \in Lists}

\* Two packages: a plugin node with two outcomes to a person's or a model's
\* node, one that leaves the pick to the operator, one from another install.
PluginData(hint, bind, f) ==
  [Data EXCEPT !.has = {"action"}, !.action = "x", !.plugin = hint, !.bind = bind,
               !.body = {"q"}, !.profile = f]
WithProfile == [Data EXCEPT !.has = {"settingsId"}, !.profile = "f"]
Package(kind, plugin) ==
  Doc(<<"startNode", "plugin", kind>>, <<Data, plugin, WithProfile>>,
      <<Edge(1, 2, <<>>), Edge(2, 3, <<"b">>)>>)
Packages == {Package("hitl", PluginData(NoId, "manual", "none")),
             Package("llm", PluginData(<<"away", "p">>, "", "f"))}

\* A kind the catalog does not have, and two nodes of one ref.
Strangers ==
  {[Doc(<<"startNode", "jev", "docstore", "llm">>, [k \in 1..4 |-> Data],
        <<Edge(1, 2, <<>>), Edge(1, 3, <<>>), Edge(2, 4, <<>>)>>)
      EXCEPT !.nodes[4].ref = ref] : ref \in {<<>>, <<"n", 3>>, <<"n", 4>>}}

MCActionOf == [p \in {"p", "q"} |-> "x"]
MCPortsFor ==
  [p \in {"p", "q"} |-> <<Row(<<"a">>, <<<<"a">>>>),
                         Row(<<"b">>, IF p = "p" THEN <<<<"b">>>> ELSE <<<<"c">>, <<"b">>>>)>>]
AllDocs == Wirings \cup Routings \cup Prompts \cup Strangers \cup Packages
=============================================================================
