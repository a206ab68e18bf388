------------------------------ MODULE Workflows ------------------------------
(***************************************************************************)
(* The workflows table and everything that writes it: the canvas, an       *)
(* import, the two routes that change only a flow's labels or only its     *)
(* entry form, the delete, and the pass over old rows when the database is *)
(* opened.  Each of them saves a whole row; what a save says nothing about *)
(* is read from the stored row first.                                      *)
(*                                                                         *)
(* An action is one statement with the local work up to the next.  A graph *)
(* is a drawing with the plugins its wired nodes reach; an entry form is   *)
(* "form", or "astray" when its target names no single place.              *)
(***************************************************************************)
EXTENDS Naturals, FiniteSets

CONSTANTS
  Flow,       \* ids of workflows
  OldFlows,   \* those whose row may predate the column of plugins
  Graph,      \* graphs: [drawing, plugins], drawing "garbled" is no JSON
  Label,      \* tags
  Editors,    \* goroutines that serve the /flow routes and the MCP tools
  Races,      \* may two of them overlap?  the settings to check
  MaxChanges,   \* bound on operations begun, with races and without
  MaxStops    \* bound on failures and restarts

ASSUME WorkflowsOK ==
  /\ OldFlows \subseteq Flow
  /\ Races \subseteq BOOLEAN
  /\ MaxChanges \in [BOOLEAN -> Nat]
  /\ MaxStops \in Nat

VARIABLES
  race,      \* do operations overlap?
  flows,     \* the table, by id
  opened,    \* is the database open to requests?
  pending,   \* the rows the opening pass has yet to update, with their lists
  editing,   \* the operation each editor is in
  edits,     \* operations begun
  stops,     \* failures and restarts
  wanted     \* history: what the operations done so far asked each flow to be

wvars == <<race, flows, opened, pending, editing, edits, stops, wanted>>

Field == {"graph", "tags", "entry"}
Entries == {"none", "form", "astray"}
BlankGraph == [drawing |-> "none", plugins |-> {}]
NoFlow == [there |-> FALSE, graph |-> BlankGraph, tags |-> {}, entry |-> "none",
           derived |-> FALSE, plugins |-> {}]
\* A save: the fields it carries, and those it says something about.
NoBody == [graph |-> BlankGraph, tags |-> {}, entry |-> "none", says |-> {}]
\* An operation: the flow, the body it saves, and what was asked of it.
NoEdit == [pc |-> "idle", id |-> "none", body |-> NoBody, ask |-> NoBody, adds |-> FALSE]

Stored == {f \in Flow : flows[f].there}
Readable(f) == flows[f].graph.drawing # "garbled"
EditorIdle(e) == editing[e].pc = "idle"
EditorsIdle == \A e \in Editors : EditorIdle(e)

CollectFlowPlugins(graph) == graph.plugins

-----------------------------------------------------------------------------
(* Opening the database                                                    *)

WInit ==
  /\ race \in Races
  /\ \E old \in SUBSET OldFlows, graphs \in [OldFlows -> Graph] :
       flows = [f \in Flow |-> IF f \in old
                                 THEN [NoFlow EXCEPT !.there = TRUE, !.graph = graphs[f]]
                                 ELSE NoFlow]
  /\ opened = FALSE
  /\ pending = {}
  /\ editing = [e \in Editors |-> NoEdit]
  /\ edits = 0
  /\ stops = 0
  /\ wanted = [f \in Flow |-> [graph |-> flows[f].graph, tags |-> {}, entry |-> "none"]]

\* The rows whose column holds the sentinel of a list that was never derived.
Underived == {f \in Stored : ~flows[f].derived}
\* What the pass writes for a row it read; of a graph it cannot read, none.
Backfilled(f) == IF Readable(f) THEN CollectFlowPlugins(flows[f].graph) ELSE {}

BackfillRead ==
  /\ ~opened /\ pending = {} /\ Underived # {}
  /\ pending' = {[id |-> f, plugins |-> Backfilled(f)] : f \in Underived}
  /\ UNCHANGED <<race, flows, opened, editing, edits, stops, wanted>>

\* One row at a time.
BackfillWrite ==
  /\ \E p \in pending :
       /\ flows' = [flows EXCEPT ![p.id].plugins = p.plugins, ![p.id].derived = TRUE]
       /\ pending' = pending \ {p}
  /\ opened' = (pending' = {})
  /\ UNCHANGED <<race, editing, edits, stops, wanted>>

NothingToBackfill ==
  /\ ~opened /\ Underived = {}
  /\ opened' = TRUE
  /\ UNCHANGED <<race, flows, pending, editing, edits, stops, wanted>>

\* Best effort: the database opens without the rest of the lists.
BackfillFails ==
  /\ ~opened /\ Underived # {} /\ stops < MaxStops
  /\ stops' = stops + 1
  /\ opened' = TRUE
  /\ pending' = {}
  /\ UNCHANGED <<race, flows, editing, edits, wanted>>

\* The process stops, in the pass or out of it, and opens the database again.
Reopen ==
  /\ stops < MaxStops
  /\ stops' = stops + 1
  /\ opened' = FALSE
  /\ pending' = {}
  /\ editing' = [e \in Editors |-> NoEdit]
  /\ UNCHANGED <<race, flows, edits, wanted>>

-----------------------------------------------------------------------------
(* The operations, up to the repository                                    *)

BeginEdit(e, edit) ==
  /\ opened
  /\ race \/ EditorsIdle
  /\ EditorIdle(e)
  /\ edits < MaxChanges[race]
  /\ edits' = edits + 1
  /\ editing' = [editing EXCEPT ![e] = edit]
  /\ UNCHANGED <<race, flows, opened, pending, stops, wanted>>

\* POST /flow: the canvas saves its graph, with or without the rest.  A flow
\* that is not stored stands for a new one: nothing is kept for either.
SaveCanvas(e, f, body) ==
  BeginEdit(e, [NoEdit EXCEPT !.pc = "read", !.id = f, !.body = body, !.ask = body])

\* What the call says overrides what the document says.
Imported(doc, over) ==
  [graph |-> doc.graph,
   tags |-> IF "tags" \in over.says THEN over.tags ELSE doc.tags,
   entry |-> IF "entry" \in over.says THEN over.entry ELSE doc.entry,
   says |-> doc.says \cup over.says]

\* A document over a flow, by the import route or tool.  A dry run saves nothing.
ImportFlow(e, f, doc, over) ==
  SaveCanvas(e, f, Imported(doc, over))

\* A patch is a document of its own, refused when its form points astray.
ApplyPatch(e, f, doc) ==
  /\ ~("entry" \in doc.says /\ doc.entry = "astray")
  /\ SaveCanvas(e, f, doc)

\* A row as it is read: no labels, or no form, is said nothing about.
ReadRow(f) ==
  [graph |-> flows[f].graph, tags |-> flows[f].tags, entry |-> flows[f].entry,
   says |-> {"graph"} \cup (IF flows[f].tags = {} THEN {} ELSE {"tags"})
                      \cup (IF flows[f].entry = "none" THEN {} ELSE {"entry"})]

\* PUT /flow/id/:id/tags: the labels are set, or added to those there are.
SetTags(e, f, labels, merge) ==
  LET row == ReadRow(f)
      tags == IF merge THEN row.tags \cup labels ELSE labels
  IN /\ f \in Stored /\ Readable(f)
     /\ BeginEdit(e, [pc |-> "read", id |-> f, adds |-> merge,
                      body |-> [row EXCEPT !.tags = tags, !.says = @ \cup {"tags"}],
                      ask |-> [NoBody EXCEPT !.tags = labels, !.says = {"tags"}]])

\* PUT /flow/id/:id/preferences; no entry clears the form.
SetPreferences(e, f, entry) ==
  /\ f \in Stored /\ Readable(f)
  /\ entry # "astray"
  /\ BeginEdit(e, [pc |-> "read", id |-> f, adds |-> FALSE,
                   body |-> [ReadRow(f) EXCEPT !.entry = entry, !.says = @ \cup {"entry"}],
                   ask |-> [NoBody EXCEPT !.entry = entry, !.says = {"entry"}]])

\* The tool that does the same, in its own words.
SetFlowPreferences(e, f, entry) ==
  /\ f \in Stored /\ Readable(f)
  /\ entry # "astray"
  /\ BeginEdit(e, [pc |-> "read", id |-> f, adds |-> FALSE,
                   body |-> [ReadRow(f) EXCEPT !.entry = entry, !.says = @ \cup {"entry"}],
                   ask |-> [NoBody EXCEPT !.entry = entry, !.says = {"entry"}]])

\* DELETE /flow/id/:id, one statement.
DeleteFlow(f) ==
  /\ opened /\ (race \/ EditorsIdle)
  /\ f \in Stored
  /\ edits < MaxChanges[race]
  /\ edits' = edits + 1
  /\ flows' = [flows EXCEPT ![f] = NoFlow]
  /\ wanted' = [wanted EXCEPT ![f] = [graph |-> BlankGraph, tags |-> {}, entry |-> "none"]]
  /\ UNCHANGED <<race, opened, pending, editing, stops>>

-----------------------------------------------------------------------------
(* The repository's upsert: a read, then a write of every column           *)

\* What a save says nothing about stays as it is stored, if it is stored.
NilKeeps(body, row) ==
  [body EXCEPT !.tags = IF "tags" \in body.says THEN @ ELSE row.tags,
               !.entry = IF "entry" \in body.says THEN @ ELSE row.entry]

UpsertRead(e) ==
  LET f == editing[e].id
  IN /\ editing[e].pc = "read"
     /\ Readable(f)
     /\ editing' = [editing EXCEPT ![e].pc = "write", ![e].body = NilKeeps(@, flows[f])]
     /\ UNCHANGED <<race, flows, opened, pending, edits, stops, wanted>>

\* A row that cannot be read cannot be saved over.
UpsertRefused(e) ==
  /\ editing[e].pc = "read"
  /\ ~Readable(editing[e].id)
  /\ editing' = [editing EXCEPT ![e] = NoEdit]
  /\ UNCHANGED <<race, flows, opened, pending, edits, stops, wanted>>

\* The list of plugins is derived from the graph the save carries.
PluginsAsStored(body, row) ==
  [there |-> TRUE, graph |-> body.graph, tags |-> body.tags, entry |-> body.entry,
   derived |-> TRUE, plugins |-> row.plugins]
RowOfSave(body, row) ==
  [there |-> TRUE, graph |-> body.graph, tags |-> body.tags, entry |-> body.entry,
   derived |-> TRUE, plugins |-> CollectFlowPlugins(body.graph)]

\* What the operation asked of the flow, field by field.
Granted(edit, was) ==
  [graph |-> IF "graph" \in edit.ask.says THEN edit.ask.graph ELSE was.graph,
   tags |-> IF "tags" \notin edit.ask.says THEN was.tags
            ELSE IF edit.adds THEN was.tags \cup edit.ask.tags ELSE edit.ask.tags,
   entry |-> IF "entry" \in edit.ask.says THEN edit.ask.entry ELSE was.entry]

UpsertWrite(e) ==
  LET f == editing[e].id
  IN /\ editing[e].pc = "write"
     /\ flows' = [flows EXCEPT ![f] = RowOfSave(editing[e].body, @)]
     /\ wanted' = [wanted EXCEPT ![f] = Granted(editing[e], @)]
     /\ editing' = [editing EXCEPT ![e] = NoEdit]
     /\ UNCHANGED <<race, opened, pending, edits, stops>>

-----------------------------------------------------------------------------
Bodies ==
  {[graph |-> g, tags |-> IF "tags" \in says THEN tags ELSE {},
    entry |-> IF "entry" \in says THEN entry ELSE "none", says |-> {"graph"} \cup says] :
     g \in {h \in Graph : h.drawing # "garbled"}, tags \in SUBSET Label,
     entry \in Entries, says \in SUBSET {"tags", "entry"}}
Overrides == {b \in Bodies : b.graph = CHOOSE g \in Graph : g.drawing # "garbled"}

WNext ==
  \/ BackfillRead \/ BackfillWrite \/ NothingToBackfill \/ BackfillFails \/ Reopen
  \/ \E e \in Editors, f \in Flow :
       \/ \E body \in Bodies : SaveCanvas(e, f, body) \/ ApplyPatch(e, f, body)
       \/ \E doc \in Bodies, over \in Overrides : ImportFlow(e, f, doc, over)
       \/ \E labels \in SUBSET Label, merge \in BOOLEAN : SetTags(e, f, labels, merge)
       \/ \E entry \in Entries : SetPreferences(e, f, entry) \/ SetFlowPreferences(e, f, entry)
  \/ \E f \in Flow : DeleteFlow(f)
  \/ \E e \in Editors : UpsertRead(e) \/ UpsertRefused(e) \/ UpsertWrite(e)

WSpec == WInit /\ [][WNext]_wvars

-----------------------------------------------------------------------------
WTypeOK ==
  /\ \A f \in Flow :
       /\ flows[f].graph \in Graph \cup {BlankGraph}
       /\ flows[f].tags \subseteq Label
       /\ flows[f].entry \in Entries
       /\ ~flows[f].there => flows[f] = NoFlow
  /\ {p.id : p \in pending} \subseteq Underived
  /\ \A e \in Editors : editing[e].pc \in {"idle", "read", "write"}
  /\ opened => pending = {}

\* The stored list of plugins and the stored graph never tell two stories,
\* however many saves overlap: every row that has a list has its graph's, and
\* after an opening pass that did not fail every row has one.
PluginsMatchGraph ==
  /\ \A f \in Stored : flows[f].derived => flows[f].plugins = Backfilled(f)
  /\ opened /\ stops = 0 => Underived = {}

\* Operations that do not overlap change what they name and nothing else: a
\* flow's graph, labels and form are each what the last operation that spoke
\* of them asked for, whichever routes the others came by.
FieldsStandAlone ==
  ~race => \A f \in Stored : \A field \in Field : flows[f][field] = wanted[f][field]
=============================================================================
