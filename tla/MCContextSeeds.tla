--------------------------- MODULE MCContextSeeds ---------------------------
(* Instances of ContextSeeds for TLC.                                      *)
EXTENDS ContextSeeds, TLC

\* A context with a person's input where a form would put it, one it would
\* have to write through, one with a neighbour.
SomeDocuments == {Empty, <<"_entry", "qty">> :> "person",
                  (<<"input">> :> "scalar") @@ (<<"note">> :> "person"),
                  <<"input", "else">> :> "person"}
SomeGivens == {Empty, <<"qty">> :> "given", <<"size">> :> "given"}
SomeForms ==
  LET AskFor(target, required, schema, now, defaults) ==
        [target |-> target, required |-> required, schema |-> schema, needs |-> {"qty"},
         defaults |-> defaults, live |-> now, fields |-> TRUE]
  IN {NoForm, AskFor(<<"_entry">>, TRUE, TRUE, TRUE, Empty),
      AskFor(<<"_entry">>, FALSE, TRUE, TRUE, <<"qty">> :> "default"),
      AskFor(<<"input", "order">>, TRUE, FALSE, FALSE, <<"qty">> :> "default"),
      AskFor(<< >>, FALSE, FALSE, TRUE, <<"qty">> :> "default")}
SomePayload == <<"body">> :> "webhook"
=============================================================================
