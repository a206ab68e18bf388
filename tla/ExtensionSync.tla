----------------------------- MODULE ExtensionSync -----------------------------
(***************************************************************************)
(* The extensions table: the built-in palette nodes seeded on every boot,  *)
(* the plugins a user registers, and the palette rows a sync makes of the  *)
(* actions a running plugin reports.                                       *)
(*                                                                         *)
(* A sync reads the registration, asks the plugin, lists the rows it made  *)
(* before and then writes row after row; an action here is one of those    *)
(* statements.  A row's id is the order in which it was made.              *)
(***************************************************************************)
EXTENDS Naturals, Sequences, FiniteSets, SequencesExt

CONSTANTS
  Servers,     \* goroutines that serve the extension endpoints
  Lives,       \* what the plugin may answer: a list of actions, or nothing
  ExtBodies,      \* what a save may carry: kind, name, plugin, edit
  Builtins,    \* the built-in definitions: plugin id by name, 0 for none
  Retired,     \* names of built-ins that are pruned
  OldRows,     \* the tables that may be found at the first boot
  Overlapping, \* may requests overlap?  the settings to check
  MaxRows,     \* bound on rows ever made
  MaxWork,     \* bound on requests begun, by setting
  MaxCrashes,  \* bound on crashes
  MaxUnread    \* bound on reads that fail

ASSUME ExtensionsOK ==
  /\ Overlapping \subseteq BOOLEAN
  /\ DOMAIN Builtins \cap Retired = {}
  /\ \A rows \in OldRows : Len(rows) <= MaxRows
  /\ {MaxRows, MaxCrashes, MaxUnread} \subseteq Nat
  /\ MaxWork \in [Overlapping -> Nat]

\* The text in a field, which may be empty.
Text == STRING \cup {""}
ExtRowsOf(kinds) == [kind : kinds, name : Text, plugin : Nat, action : Text, edit : Text]
ReportedAction == [method : Text, title : Text]
Nameless(a) == a.method = ""
Untitled(a) == a.title = ""
\* A row that is not made of a plugin's action.
NoAction(r) == r.action = ""

\* The method is an action's identity: a plugin reports it once.  A built-in is
\* no plugin's action, and a table has one of each name as earlier boots left it.
ASSUME ExtensionData ==
  /\ \A answer \in Lives :
       /\ answer.list \in Seq(ReportedAction)
       /\ \A m, n \in DOMAIN answer.list :
            answer.list[m].method = answer.list[n].method /\ ~Nameless(answer.list[m]) => m = n
  /\ \A body \in ExtBodies :
       /\ body \in ExtRowsOf({"builtin", "extension"})
       /\ body.kind = "builtin" => NoAction(body)
  /\ DOMAIN Builtins \subseteq STRING /\ Builtins \in [DOMAIN Builtins -> Nat]
  /\ \A rows \in OldRows :
       /\ rows \in Seq(ExtRowsOf({"builtin", "extension"}))
       /\ \A i \in DOMAIN rows : rows[i].kind = "builtin" => NoAction(rows[i])
       /\ \A i, j \in DOMAIN rows :
            rows[i].kind = "builtin" /\ rows[j].kind = "builtin" /\ rows[i].name = rows[j].name
              => i = j

VARIABLES
  overlapping, \* do requests overlap?
  rows,        \* the table: one row, or NoRow, for each id handed out
  live,        \* what the plugin answers now
  boot,        \* seeding still to be done; the API serves when none is left
  work,        \* the request each goroutine is in
  begun,       \* requests begun
  crashes,     \* crashes so far
  unread,      \* reads that failed
  synced,      \* history: the list the palette was last brought in line with
  edited       \* history: what an administrator last wrote on a built-in

xvars == <<overlapping, rows, live, boot, work, begun, crashes, unread, synced, edited>>

NoRow == [kind |-> "none", name |-> "", plugin |-> 0, action |-> "", edit |-> ""]
NoWork == [pc |-> "idle", id |-> 0, plugin |-> 0, body |-> NoRow, asked |-> << >>,
           rest |-> << >>, index |-> << >>, claimed |-> {}]
NoSync == [plugin |-> 0, list |-> << >>]
Nothing == [prune |-> {}, seed |-> {}]
AllSeeding == [prune |-> Retired, seed |-> DOMAIN Builtins]

Ids == DOMAIN rows
RowsWhere(where(_)) == {i \in Ids : where(rows[i])}
Serving == boot = Nothing
NobodyWorks == \A s \in Servers : work[s].pc = "idle"

XInit ==
  /\ overlapping \in Overlapping
  /\ rows \in OldRows
  /\ live \in Lives
  /\ boot = AllSeeding
  /\ work = [s \in Servers |-> NoWork]
  /\ begun = 0
  /\ crashes = 0
  /\ unread = 0
  /\ synced = NoSync
  /\ edited = << >>

-----------------------------------------------------------------------------
(* Seeding                                                                 *)

BuiltinNamed(name) == RowsWhere(LAMBDA r : r.kind = "builtin" /\ r.name = name)

Prune(name) ==
  /\ name \in boot.prune
  /\ boot' = [boot EXCEPT !.prune = @ \ {name}]
  /\ IF BuiltinNamed(name) = {} THEN UNCHANGED rows
     ELSE rows' = [rows EXCEPT ![Min(BuiltinNamed(name))] = NoRow]
  /\ UNCHANGED <<overlapping, live, work, begun, crashes, unread, synced, edited>>

\* A row that is there gets the plugin id it lacks, and nothing else.
Backfill(row, name) == IF row.plugin = 0 THEN [row EXCEPT !.plugin = Builtins[name]] ELSE row

Seed(name) ==
  LET found == BuiltinNamed(name)
  IN /\ boot.prune = {} /\ name \in boot.seed
     /\ boot' = [boot EXCEPT !.seed = @ \ {name}]
     /\ IF found # {} THEN rows' = [rows EXCEPT ![Min(found)] = Backfill(@, name)]
        ELSE /\ Len(rows) < MaxRows
             /\ rows' = Append(rows, [NoRow EXCEPT !.kind = "builtin", !.name = name,
                                                  !.plugin = Builtins[name]])
     /\ UNCHANGED <<overlapping, live, work, begun, crashes, unread, synced, edited>>

\* The process stops at any point and is started again.
Restart ==
  /\ crashes < MaxCrashes
  /\ crashes' = crashes + 1
  /\ boot' = AllSeeding
  /\ work' = [s \in Servers |-> NoWork]
  /\ UNCHANGED <<overlapping, rows, live, begun, unread, synced, edited>>

-----------------------------------------------------------------------------
(* The requests                                                            *)

Takes(s, w) ==
  /\ Serving
  /\ overlapping \/ NobodyWorks
  /\ work[s].pc = "idle"
  /\ begun < MaxWork[overlapping]
  /\ begun' = begun + 1
  /\ work' = [work EXCEPT ![s] = w]
Proceeds(s, w) == work' = [work EXCEPT ![s] = w]
Done(s) == Proceeds(s, NoWork)

\* The plugin is redeployed, stops, or comes up again.
Redeploy(answer) ==
  /\ answer # live
  /\ live' = answer
  /\ synced' = NoSync
  /\ UNCHANGED <<overlapping, rows, boot, work, begun, crashes, unread, edited>>

\* A new plugin id is one nobody has; the built-ins' are below ten.
NewPluginID == 10 + begun
\* The id an imported plugin keeps, or is given.
ResolvePluginID(existing) ==
  IF existing.plugin # 0 THEN existing.plugin ELSE NewPluginID

BeginSave(s, i, body) ==
  /\ i \in Ids \cup {0}
  /\ LET existing == IF i = 0 THEN NoRow ELSE rows[i]
         plugin == IF body.kind = "extension" THEN ResolvePluginID(existing)
                   ELSE body.plugin
     IN Takes(s, [NoWork EXCEPT !.pc = "save", !.id = i,
                                !.body = [body EXCEPT !.plugin = plugin]])
  /\ UNCHANGED <<overlapping, rows, live, boot, crashes, unread, synced, edited>>

\* A read that fails is taken for a row that is not there.
BeginSaveUnread(s, i, body) ==
  /\ i \in Ids /\ body.kind = "extension"
  /\ unread < MaxUnread /\ unread' = unread + 1
  /\ Takes(s, [NoWork EXCEPT !.pc = "save", !.id = i,
                             !.body = [body EXCEPT !.plugin = NewPluginID]])
  /\ UNCHANGED <<overlapping, rows, live, boot, crashes, synced, edited>>

Save(s) ==
  LET w == work[s]
      i == IF w.id = 0 THEN Len(rows) + 1 ELSE w.id
  IN /\ w.pc = "save" /\ i <= MaxRows
     /\ rows' = IF w.id = 0 THEN Append(rows, w.body) ELSE [rows EXCEPT ![i] = w.body]
     /\ edited' = IF w.body.kind # "builtin" THEN edited
                  ELSE [k \in DOMAIN edited \cup {i} |-> IF k = i THEN w.body.edit ELSE edited[k]]
     /\ synced' = NoSync
     /\ Done(s)
     /\ UNCHANGED <<overlapping, live, boot, begun, crashes, unread>>

BeginDelete(s, i) ==
  /\ i \in Ids /\ rows[i] # NoRow
  /\ Takes(s, [NoWork EXCEPT !.pc = "delete", !.id = i, !.body = rows[i]])
  /\ UNCHANGED <<overlapping, rows, live, boot, crashes, unread, synced, edited>>

\* The row; somebody else may have deleted it, and then that is the answer.
Delete(s) ==
  LET w == work[s]
  IN /\ w.pc = "delete"
     /\ rows' = [rows EXCEPT ![w.id] = NoRow]
     /\ IF rows[w.id] # NoRow /\ NoAction(w.body) /\ w.body.plugin # 0
          THEN Proceeds(s, [w EXCEPT !.pc = "sweep"])
          ELSE Done(s)
     /\ synced' = NoSync
     /\ UNCHANGED <<overlapping, live, boot, begun, crashes, unread, edited>>

ActionsOf(plugin) == RowsWhere(LAMBDA r : r.plugin = plugin /\ ~NoAction(r))

\* With a registration go the rows made of its plugin's actions.
Sweep(s) ==
  LET w == work[s]
  IN /\ w.pc = "sweep"
     /\ rows' = [i \in Ids |-> IF i \in ActionsOf(w.body.plugin) THEN NoRow ELSE rows[i]]
     /\ Done(s)
     /\ UNCHANGED <<overlapping, live, boot, begun, crashes, unread, synced, edited>>

-----------------------------------------------------------------------------
(* Sync                                                                    *)

\* Refused: a row that is not there, is no plugin, or is one action of one.
BeginSync(s, i) ==
  /\ i \in Ids
  /\ rows[i] # NoRow /\ rows[i].plugin # 0 /\ NoAction(rows[i])
  /\ Takes(s, [NoWork EXCEPT !.pc = "ask", !.id = i, !.plugin = rows[i].plugin])
  /\ UNCHANGED <<overlapping, rows, live, boot, crashes, unread, synced, edited>>

\* Some of the numbers, in their order.
InOrder(S) ==
  CHOOSE f \in [1..Cardinality(S) -> S] : \A m, n \in DOMAIN f : m < n => f[m] < f[n]

\* A nameless action has no subject to call.
Named(list) ==
  LET at == InOrder({n \in DOMAIN list : ~Nameless(list[n])})
  IN [n \in DOMAIN at |-> list[at[n]]]

\* A plugin that does not answer leaves its palette as it is.
Ask(s) ==
  /\ work[s].pc = "ask"
  /\ IF ~live.up THEN Done(s)
     ELSE Proceeds(s, [work[s] EXCEPT !.pc = "list", !.asked = Named(live.list),
                                      !.rest = Named(live.list)])
  /\ UNCHANGED <<overlapping, rows, live, boot, begun, crashes, unread, synced, edited>>

\* The rows as they were, oldest first.
List(s) ==
  LET w == work[s]
      found == InOrder(ActionsOf(w.plugin))
  IN /\ w.pc = "list"
     /\ Proceeds(s, [w EXCEPT !.pc = "write",
                   !.index = [n \in DOMAIN found |-> <<found[n], rows[found[n]]>>]])
     /\ UNCHANGED <<overlapping, rows, live, boot, begun, crashes, unread, synced, edited>>

\* The first of the rows that share a method, or a name, has it.
ByMethod(index, a) == {n \in DOMAIN index : index[n][2].action = a.method}
ByName(index, a) == {n \in DOMAIN index : index[n][2].name = a.title}
First(S) == IF S = {} THEN {} ELSE {Min(S)}

\* An action has the row of its method or else the row of its name, unless
\* another action of this sync has taken it; 0: no row.
Claim(index, claimed, a) ==
  LET method == First(ByMethod(index, a)) \ claimed
      name == First(ByName(index, a)) \ claimed
  IN IF method # {} THEN CHOOSE n \in method : TRUE
     ELSE IF name # {} THEN CHOOSE n \in name : TRUE ELSE 0

NameOf(a) == IF Untitled(a) THEN a.method ELSE a.title
ActionRow(plugin, a) ==
  [NoRow EXCEPT !.kind = "extension", !.name = NameOf(a), !.plugin = plugin,
                !.action = a.method]

\* The next action: its row is written over, or a row is made for it.
WriteAction(s) ==
  LET w == work[s]
      a == [Head(w.rest) EXCEPT !.title = NameOf(Head(w.rest))]
      n == Claim(w.index, w.claimed, a)
  IN /\ w.pc = "write" /\ w.rest # << >>
     /\ IF n # 0 THEN rows' = [rows EXCEPT ![w.index[n][1]] = ActionRow(w.plugin, a)]
        ELSE Len(rows) < MaxRows /\ rows' = Append(rows, ActionRow(w.plugin, a))
     /\ Proceeds(s, [w EXCEPT !.rest = Tail(@), !.claimed = @ \cup ({n} \ {0})])
     /\ UNCHANGED <<overlapping, live, boot, begun, crashes, unread, synced, edited>>

KeepsStale(w) == {}
\* What no action has claimed is a method the plugin dropped.
Unclaimed(w) == DOMAIN w.index \ w.claimed

\* The next stale row; a row somebody else deleted ends the sync.
DropStale(s) ==
  LET w == work[s]
      n == Min(Unclaimed(w))
      i == w.index[n][1]
  IN /\ w.pc = "write" /\ w.rest = << >> /\ Unclaimed(w) # {}
     /\ rows' = [rows EXCEPT ![i] = NoRow]
     /\ IF rows[i] = NoRow THEN Done(s) ELSE Proceeds(s, [w EXCEPT !.claimed = @ \cup {n}])
     /\ UNCHANGED <<overlapping, live, boot, begun, crashes, unread, synced, edited>>

EndSync(s) ==
  LET w == work[s]
  IN /\ w.pc = "write" /\ w.rest = << >> /\ Unclaimed(w) = {}
     /\ synced' = IF overlapping \/ w.asked # live.list THEN NoSync ELSE [plugin |-> w.plugin, list |-> w.asked]
     /\ Done(s)
     /\ UNCHANGED <<overlapping, rows, live, boot, begun, crashes, unread, edited>>

-----------------------------------------------------------------------------
XNext ==
  \/ \E name \in Retired : Prune(name)
  \/ \E name \in DOMAIN Builtins : Seed(name)
  \/ Restart
  \/ \E answer \in Lives : Redeploy(answer)
  \/ \E s \in Servers, i \in 0..MaxRows :
       \/ \E body \in ExtBodies : BeginSave(s, i, body) \/ BeginSaveUnread(s, i, body)
       \/ BeginDelete(s, i) \/ BeginSync(s, i)
  \/ \E s \in Servers : \/ Save(s) \/ Delete(s) \/ Sweep(s) \/ Ask(s) \/ List(s)
                        \/ WriteAction(s) \/ DropStale(s) \/ EndSync(s)

XSpec == XInit /\ [][XNext]_xvars
-----------------------------------------------------------------------------
XTypeOK ==
  /\ Len(rows) <= MaxRows
  /\ \A i \in Ids :
       /\ rows[i].kind \in {"none", "builtin", "extension"}
       /\ rows[i].plugin \in Nat
       /\ rows[i].kind = "none" => rows[i] = NoRow
  /\ boot.prune \subseteq Retired /\ boot.seed \subseteq DOMAIN Builtins
  /\ \A s \in Servers :
       /\ work[s].pc \in {"idle", "save", "delete", "sweep", "ask", "list", "write"}
       /\ work[s].id \in Ids \cup {0}
       /\ work[s].claimed \subseteq DOMAIN work[s].index
  /\ DOMAIN edited \subseteq Ids

\* A finished sync leaves the palette with what the plugin reported: a row
\* for each action, under its own title, and no other row of the plugin,
\* whatever a crash half way through an earlier sync has left.
PaletteFollows ==
  NobodyWorks /\ synced # NoSync =>
    LET shown == [i \in ActionsOf(synced.plugin) |-> <<rows[i].action, rows[i].name>>]
    IN /\ Range(shown) = {<<a.method, NameOf(a)>> : a \in Range(synced.list)}
       /\ Cardinality(DOMAIN shown) = Len(synced.list)

\* A boot, also one that follows a crash during seeding, ends with every
\* built-in there and none of the retired ones, and what an administrator
\* wrote on a built-in row stays as written.
BuiltinsSurvive ==
  /\ \A i \in DOMAIN edited : rows[i].kind = "builtin" => rows[i].edit = edited[i]
  /\ boot.prune = {} /\ boot.seed # {} =>
       /\ \A name \in DOMAIN Builtins \ boot.seed :
            /\ BuiltinNamed(name) # {}
            /\ Builtins[name] # 0 => rows[Min(BuiltinNamed(name))].plugin # 0
       /\ edited = << >> => \A name \in Retired : BuiltinNamed(name) = {}

\* Saving an imported plugin never changes the plugin id it has, the address its
\* credential is bound to, and neither does a sync, a crash or a new boot, as
\* long as requests do not overlap and the row can be read.
PluginIdKept ==
  \A i \in Ids : rows[i].kind = "extension" /\ rows'[i].kind = "extension"
      /\ rows[i].plugin # 0 /\ ~overlapping /\ unread = 0
    => rows'[i].plugin = rows[i].plugin
=============================================================================
