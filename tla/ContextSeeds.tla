----------------------------- MODULE ContextSeeds -----------------------------
(***************************************************************************)
(* The input of a run: the entry form a flow declares, what a launcher     *)
(* shows of it, the values a launch settles on, and the one place of the   *)
(* context document they are written to, next to everything else that      *)
(* writes the same document: people, webhooks and other launches.          *)
(*                                                                         *)
(* A document is a function from paths, sequences of member names, to      *)
(* scalars; values are such a function too, from paths below their place.  *)
(* An action is one statement with the local work up to the next.          *)
(***************************************************************************)
EXTENDS Naturals, FiniteSets, SequencesExt

CONSTANTS
  Launches,    \* launches of runs over the one context
  Forms,       \* entry forms a flow may declare
  Givens,      \* values a launcher may submit; none is the empty function
  Documents,   \* documents a person saves, or the context starts with
  Payload,     \* what a webhook merges
  Clashes,     \* may operations overlap?  the settings to check
  MaxWrites,   \* bound on saves, deletes and merges
  MaxBlinks    \* bound on reads of the table that fail

\* What a JSON object holds: scalars at paths, none of them beneath another.
Tree(doc) ==
  /\ doc = [p \in DOMAIN doc |-> doc[p]]
  /\ DOMAIN doc \subseteq Seq(STRING) \ {<< >>}
  /\ \A p, q \in DOMAIN doc : ~IsStrictPrefix(p, q)

ASSUME SeedsOK ==
  /\ Clashes \subseteq BOOLEAN
  /\ {MaxWrites, MaxBlinks} \subseteq Nat

ASSUME SeedsAreTrees ==
  /\ \A doc \in Documents \cup Givens \cup {Payload} : Tree(doc)
  /\ \A f \in Forms : Tree(f.defaults) /\ f.target \in Seq(STRING)

VARIABLES
  clash,      \* do operations overlap?
  held,       \* the context row: [is, doc]
  form,       \* the entry form the flow declares now
  launches,   \* the launches, by name
  hook,       \* the webhook delivery that is merging its payload
  writes,     \* saves, deletes and merges
  blinks,     \* failed reads
  overrun     \* history: defaults that went over what was there, by launch

svars == <<clash, held, form, launches, hook, writes, blinks, overrun>>

Empty == << >>
Object(doc) == [is |-> "object", doc |-> doc]
Absent == [is |-> "absent", doc |-> Empty]
\* A body that is no JSON object; a run's push can leave one.
NoObject == [is |-> "other", doc |-> Empty]

NoForm == [target |-> << >>, required |-> FALSE, schema |-> FALSE, needs |-> {},
           defaults |-> Empty, live |-> FALSE, fields |-> FALSE]
NoLaunch == [pc |-> "idle", form |-> NoForm, given |-> Empty, values |-> Empty,
             read |-> Absent, later |-> FALSE, booked |-> FALSE]
NoMerge == [pc |-> "idle", read |-> Absent]

Busy(l) == launches[l].pc \in {"look", "seed", "write", "start"}
Undisturbed == hook.pc = "idle" /\ \A l \in Launches : ~Busy(l)

-----------------------------------------------------------------------------
(* Paths and documents                                                     *)

Under(doc, place) == {p \in DOMAIN doc : IsStrictPrefix(place, p)}
At(doc, place) ==
  LET n == Len(place)
  IN [p \in {SubSeq(q, n + 1, Len(q)) : q \in Under(doc, place)} |-> doc[place \o p]]
Without(doc, paths) == [p \in DOMAIN doc \ paths |-> doc[p]]

\* Key by key, the top's members in place of the base's.
Over(base, top) ==
  LET keys == {Head(p) : p \in DOMAIN top}
  IN [p \in {q \in DOMAIN base : Head(q) \notin keys} \cup DOMAIN top |->
        IF p \in DOMAIN top THEN top[p] ELSE base[p]]

\* A member on the way that holds a scalar would have to be overwritten.
Blocked(doc, place) ==
  \E p \in DOMAIN doc : p # << >> /\ IsStrictPrefix(p, place)

SetAnew(doc, place, values) ==
  [p \in {place \o q : q \in DOMAIN values} |->
     values[SubSeq(p, Len(place) + 1, Len(p))]]
\* At the root the values are merged; deeper down they take the member.
SetAtContextPath(doc, place, values) ==
  IF place = << >> THEN Over(doc, values)
  ELSE LET kept == Without(doc, Under(doc, place) \cup {place})
           put == {place \o p : p \in DOMAIN values}
       IN [p \in DOMAIN kept \cup put |->
             IF p \in put THEN values[SubSeq(p, Len(place) + 1, Len(p))] ELSE kept[p]]

-----------------------------------------------------------------------------
(* The entry form                                                          *)

EntryDefaults(f) == f.defaults

AnyInContext(row, place) == row.doc
\* The values at the target, none when the body is no object.
EntryValuesInContext(row, place) == At(row.doc, place)

\* What the launcher shows: the defaults, under what a live form finds.
ResolveEntryView(f, row) ==
  IF ~f.live THEN EntryDefaults(f)
  ELSE Over(EntryDefaults(f), EntryValuesInContext(row, f.target))

PrepareEntryValues(f, given) == Over(EntryDefaults(f), given)
\* The check against the schema, of its required members; plain values have none.
ValidEntry(f, values) == f.schema => \A key \in f.needs : <<key>> \in DOMAIN values

-----------------------------------------------------------------------------
SInit ==
  /\ clash \in Clashes
  /\ held \in {Absent, NoObject} \cup {Object(doc) : doc \in Documents}
  /\ form \in Forms
  /\ launches = [l \in Launches |-> NoLaunch]
  /\ hook = NoMerge
  /\ writes = 0
  /\ blinks = 0
  /\ overrun = {}

(* A launch                                                                *)

Goes(l, pc) == launches' = [launches EXCEPT ![l].pc = pc]

\* The flow is read for its form; a continuation skips the form.
BeginLaunch(l, given, later, skip) ==
  /\ clash \/ Undisturbed
  /\ launches[l] = NoLaunch
  /\ launches' = [launches EXCEPT
       ![l] = [NoLaunch EXCEPT !.form = IF skip THEN NoForm ELSE form, !.given = given,
                               !.later = later,
                               !.pc = IF ~skip /\ form.fields THEN "look"
                                      ELSE IF later THEN "booked" ELSE "start",
                               !.booked = later]]
  /\ UNCHANGED <<clash, held, form, hook, writes, blinks, overrun>>

\* The context is read; what is there and what is submitted settle the values.
Settle(l, values) ==
  launches' = [launches EXCEPT ![l].values = values,
    ![l].pc = IF launches[l].later THEN "booked"
              ELSE IF values = Empty THEN "start" ELSE "seed"]

LookAt(l) ==
  LET f == launches[l].form
      given == launches[l].given
      there == EntryValuesInContext(held, f.target)
  IN /\ launches[l].pc = "look"
     /\ \/ /\ given # Empty
           /\ ValidEntry(f, PrepareEntryValues(f, given))
           /\ Settle(l, PrepareEntryValues(f, given))
        \/ /\ given # Empty
           /\ ~ValidEntry(f, PrepareEntryValues(f, given))
           /\ Goes(l, "refused")
        \/ /\ given = Empty /\ there # Empty
           /\ Settle(l, Empty)
        \/ /\ given = Empty /\ there = Empty /\ f.required
           /\ Goes(l, "refused")
        \/ /\ given = Empty /\ there = Empty /\ ~f.required
           /\ Settle(l, EntryDefaults(f))
     /\ UNCHANGED <<clash, held, form, hook, writes, blinks, overrun>>

\* The scheduler seeds a booked row by the form the flow declares by then.
FireBooked(l) ==
  /\ clash \/ Undisturbed
  /\ launches[l].pc = "booked"
  /\ IF launches[l].values = Empty \/ ~form.fields
       THEN Goes(l, "start")
       ELSE launches' = [launches EXCEPT ![l].pc = "seed", ![l].form = form]
  /\ UNCHANGED <<clash, held, form, hook, writes, blinks, overrun>>

\* SeedEntry's read.  A body it cannot parse, or a place behind a scalar, is
\* left as it is and the launch fails.
SeedRead(l) ==
  /\ launches[l].pc = "seed"
  /\ IF held.is = "other" \/ Blocked(held.doc, launches[l].form.target)
       THEN Goes(l, "failed")
       ELSE launches' = [launches EXCEPT ![l].pc = "write", ![l].read = held]
  /\ UNCHANGED <<clash, held, form, hook, writes, blinks, overrun>>

\* SeedEntry's write: a missing row is created with the seed alone.
SeedWrite(l) ==
  LET call == launches[l]
      place == call.form.target
  IN /\ call.pc = "write"
     /\ held' = Object(SetAtContextPath(call.read.doc, place, call.values))
     /\ overrun' = IF call.given = Empty /\ At(held.doc, place) # Empty
                     THEN overrun \cup {l} ELSE overrun
     /\ launches' = [launches EXCEPT ![l].pc = "start", ![l].read = Absent]
     /\ UNCHANGED <<clash, form, hook, writes, blinks>>

\* The run asks for its context; a row that is not there is created empty.
RunLoads(l) ==
  /\ launches[l].pc = "start"
  /\ held' = IF held.is = "absent" THEN Object(Empty) ELSE held
  /\ Goes(l, "ran")
  /\ UNCHANGED <<clash, form, hook, writes, blinks, overrun>>

\* A read that fails for any other reason counts as a miss as well.
RunMisses(l) ==
  /\ launches[l].pc = "start"
  /\ blinks < MaxBlinks
  /\ blinks' = blinks + 1
  /\ held' = Object(Empty)
  /\ Goes(l, "ran")
  /\ UNCHANGED <<clash, form, hook, writes, overrun>>

-----------------------------------------------------------------------------
(* The others                                                              *)

Writes == (clash \/ Undisturbed) /\ writes < MaxWrites /\ writes' = writes + 1

\* A person saves the document whole; the routes take an object only.
SaveContext(doc) ==
  /\ Writes
  /\ held' = Object(doc)
  /\ UNCHANGED <<clash, form, launches, hook, blinks, overrun>>

DeleteContext ==
  /\ Writes
  /\ held.is # "absent"
  /\ held' = Absent
  /\ UNCHANGED <<clash, form, launches, hook, blinks, overrun>>

\* The flow is saved with another form, or without one.
SaveForm(f) ==
  /\ Writes
  /\ f # form
  /\ form' = f
  /\ UNCHANGED <<clash, held, launches, hook, blinks, overrun>>

\* A webhook on a chosen context: a missing one fails the launch.
MergeRead ==
  /\ Writes
  /\ hook.pc = "idle"
  /\ held.is # "absent"
  /\ hook' = [pc |-> "write", read |-> held]
  /\ UNCHANGED <<clash, held, form, launches, blinks, overrun>>

\* Key by key; a body that is no object is overwritten whole.
MergeWrite ==
  /\ hook.pc = "write"
  /\ held' = Object(Over(hook.read.doc, Payload))
  /\ hook' = NoMerge
  /\ UNCHANGED <<clash, form, launches, writes, blinks, overrun>>

SNext ==
  \/ \E l \in Launches :
       \/ \E given \in Givens, later \in BOOLEAN, skip \in BOOLEAN :
            BeginLaunch(l, given, later, skip)
       \/ LookAt(l) \/ FireBooked(l) \/ SeedRead(l) \/ SeedWrite(l)
       \/ RunLoads(l) \/ RunMisses(l)
  \/ \E doc \in Documents : SaveContext(doc)
  \/ DeleteContext
  \/ \E f \in Forms : SaveForm(f)
  \/ MergeRead \/ MergeWrite

SSpec == SInit /\ [][SNext]_svars

-----------------------------------------------------------------------------
STypeOK ==
  /\ held.is \in {"absent", "other", "object"}
  /\ held.is # "object" => held.doc = Empty
  /\ \A p, q \in DOMAIN held.doc : ~IsStrictPrefix(p, q)
  /\ \A l \in Launches : launches[l].pc \in
       {"idle", "look", "seed", "write", "start", "booked", "refused", "failed", "ran"}
  /\ hook.pc \in {"idle", "write"}
  /\ writes \in 0..MaxWrites
  /\ overrun \subseteq Launches

\* A run that is about to start and was not booked finds its input: something
\* at the target where the form requires it, every member the schema needs
\* where values were submitted, and those that were submitted, as they were.
InputIsThere ==
  ~clash =>
    \A l \in Launches :
      LET call == launches[l]
          there == EntryValuesInContext(held, call.form.target)
      IN call.pc = "start" /\ ~call.booked /\ call.form.fields =>
           /\ call.form.required => At(held.doc, call.form.target) # Empty
           /\ call.given # Empty => /\ ValidEntry(call.form, there)
                                    /\ \A p \in DOMAIN call.given :
                                         p \in DOMAIN there /\ there[p] = call.given[p]

\* A seed writes its one place: whatever else the document holds, and at the
\* root every key the values do not name, is as it was; nobody else's write
\* loses a key it does not name either.
SeedKeepsRest ==
  ~clash /\ held.is = "object" =>
    \A l \in Launches : launches[l].pc = "write" /\ launches'[l].pc = "start" =>
      \A p \in DOMAIN held.doc :
        \/ p \in DOMAIN held'.doc /\ held'.doc[p] = held.doc[p]
        \/ IsPrefix(launches[l].form.target, p) /\ launches[l].form.target # << >>
        \/ \E q \in DOMAIN launches[l].values :
             launches[l].form.target = << >> /\ Head(p) = Head(q)

\* What a launcher shows, submitted as it is, is what the flow will read.
ShownIsSeeded ==
  held.is = "object" /\ form.fields /\ ~Blocked(held.doc, form.target) =>
    LET shown == ResolveEntryView(form, held)
        doc == SetAtContextPath(held.doc, form.target, PrepareEntryValues(form, shown))
    IN \A p \in DOMAIN shown : p \in DOMAIN At(doc, form.target)
                               /\ At(doc, form.target)[p] = shown[p]

\* Only a booked launch can write its defaults over input that came to the
\* target meanwhile.
DefaultsYield == ~clash => \A l \in overrun : launches[l].booked
=============================================================================
