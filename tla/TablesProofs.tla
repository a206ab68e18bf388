---------------------------- MODULE TablesProofs -----------------------------
(* The theorems of the tables' components, as properties of the one        *)
(* specification the tables' run checks: a behaviour plays in one scene,   *)
(* where it steps as its component does, or changes nothing of it.         *)
EXTENDS MCTables, PluginsProofs, SavedRowsProofs, MemoryProofs, SequenceTheorems

-----------------------------------------------------------------------------
\* Where no step was taken a state formula's variables are as they were.
LEMMA ScenesApart ==
  ASSUME [TNext]_tvars
  PROVE  /\ scene' = scene
         /\ scene = "memory" => [MNext]_mvars
         /\ scene = "gateways" => [GNext]_gvars
         /\ scene = "extensions" => [XNext]_xvars
         /\ scene = "control" => [PNext]_pvars
         /\ scene = "workflows" => [WNext]_wvars
         /\ scene = "seeds" => [SNext]_svars
         /\ scene = "webhooks" => [HooksNext]_hookVars
<1>1. CASE TNext
  <2>1. /\ scene' = scene
        /\ scene = "memory" => MNext
        /\ scene = "gateways" => GNext
        /\ scene = "extensions" => XNext
        /\ scene = "control" => PNext
        /\ scene = "workflows" => WNext
        /\ scene = "seeds" => SNext
        /\ scene = "webhooks" => HooksNext
    BY <1>1, Zenon DEF TNext
  <2> QED BY <2>1
<1>2. CASE UNCHANGED tvars BY <1>2 DEF tvars
<1> QED BY <1>1, <1>2

\* In its scene a component starts as it does by itself.
LEMMA ScenesOpen ==
  ASSUME TInit
  PROVE  /\ scene = "memory" => MInit
         /\ scene = "gateways" => GInit
         /\ scene = "extensions" => XInit
         /\ scene = "control" => PInit
         /\ scene = "workflows" => WInit
         /\ scene = "seeds" => SInit
         /\ scene = "webhooks" => HooksInit
BY Zenon DEF TInit, InMemory, InGateways, InExtensions, InControl, InWorkflows, InSeeds, InWebhooks

-----------------------------------------------------------------------------
\* Connections, saved, deleted and made the default by operations that may be
\* cut short: one default, no lost token, the same answer from both proxies.
THEOREM GatewaysKept == TSpec => []GatewaysHold
<1> DEFINE Inv == scene = "gateways" => GatewaysInv
<1>1. TInit => Inv BY ScenesOpen, GatewaysInitial
<1>2. Inv /\ [TNext]_tvars => Inv' BY ScenesApart, GatewaysStep
<1>3. Inv => GatewaysHold BY GatewaysShown DEF GatewaysHold
<1> QED BY <1>1, <1>2, <1>3, PTL DEF TSpec

\* Memory stores, where no two are given one document table: a store is backed
\* as long as it has its row, a node with a key keeps one document and one more
\* for each reply that was lost, and a search answers with the nearest of what
\* was handed in, whatever overlaps, fails or crashes.
THEOREM MemoryKept ==
  ASSUME OneTableEach
  PROVE  TSpec => []MemoryHolds
<1> DEFINE Inv == scene = "memory" => MemoryInv
<1>1. TInit => Inv BY ScenesOpen, MemoryInitial
<1>2. Inv /\ [TNext]_tvars => Inv' BY ScenesApart, MemoryStep
<1>3. Inv => MemoryHolds BY MemoryShown DEF MemoryHolds
<1> QED BY <1>1, <1>2, <1>3, PTL DEF TSpec

\* The control script of a plugin: what it starts it can reach, and a restart
\* that succeeds runs the last build.
THEOREM ControlKept == TSpec => []ControlHolds
<1> DEFINE Inv == scene = "control" => ControlInv
<1>1. TInit => Inv BY ScenesOpen, ControlInitial
<1>2. Inv /\ [TNext]_tvars => Inv' BY ScenesApart, ControlStep
<1>3. Inv => ControlHolds
  BY DEF ControlHolds, ControlInv, ControlTypes, Promising, PTypeOK, Shells, PStates
<1> QED BY <1>1, <1>2, <1>3, PTL DEF TSpec

\* A finished sync leaves the palette with the plugin's live actions, each once,
\* whatever a crash half way through an earlier one left, and every boot ends with
\* every built-in there, none of the retired ones, and an administrator's edits as
\* they were written (syncActions, Seed, Prune, Upsert), for any answers,
\* tables and number of requests.
THEOREM ExtensionsKept == TSpec => []ExtensionsHold
<1> DEFINE Inv == scene = "extensions" => ExtensionsInv
<1>1. TInit => Inv BY ScenesOpen, ExtensionsInitial
<1>2. Inv /\ [TNext]_tvars => Inv' BY ScenesApart, ExtensionsStep
<1>3. Inv => ExtensionsHold BY ExtensionsShown DEF ExtensionsHold
<1> QED BY <1>1, <1>2, <1>3, PTL DEF TSpec

\* The workflow table: a flow's plugin list is its graph's, and a write of one
\* field leaves the others.
THEOREM WorkflowsKept == TSpec => []WorkflowsHold
<1> DEFINE Inv == scene = "workflows" => WorkflowsInv
<1>1. TInit => Inv BY ScenesOpen, WorkflowsInitial
<1>2. Inv /\ [TNext]_tvars => Inv' BY ScenesApart, WorkflowsStep
<1>3. Inv => WorkflowsHold BY WorkflowsShown DEF WorkflowsHold
<1> QED BY <1>1, <1>2, <1>3, PTL DEF TSpec

-----------------------------------------------------------------------------
(* Webhooks: whatever overlaps, a log is an excerpt of what was written;   *)
(* where nothing does, it is its newest lines, and the stored slug and     *)
(* secret are those last given.                                            *)

Lines == [call : Calls, status : Nat]
HookRows == [there : BOOLEAN, kind : {"webhook", "schedule"}, on : BOOLEAN,
             slug : Slug \cup Hook,
             auth : [method : {"nil", "none", "static"}, secret : Secret],
             listed : BOOLEAN, gated : BOOLEAN, hits : Seq(Lines), last : Nat]
HookBase ==
  /\ jam \in BOOLEAN
  /\ hooks \in [Hook -> HookRows]
  /\ deliveries \in [Calls -> [pc : {"waits", "launch", "hit", "log", "over"},
                               id : Hook \cup {"none"}, status : Nat,
                               hits : Seq(Lines), last : Nat]]
  /\ savers \in [Savers -> [pc : {"idle", "read", "write", "mark"}, id : Hook \cup {"none"},
                            row : HookRows, slug : Slug, secret : Secret]]
  /\ changes \in 0..MaxEdits[jam]
  /\ logged \in [Hook -> Seq(Lines)]
  /\ meant \in [Hook -> [slug : Slug \cup Hook, secret : Secret, from : Nat]]
  /\ \A d \in Calls : deliveries[d].pc \in {"launch", "hit", "log"} => deliveries[d].id \in Hook
  /\ \A s \in Savers : savers[s].pc # "idle" => savers[s].id \in Hook

\* Some of the lines of a log, in their order.
Excerpt(hits, all) ==
  \E at \in [1..Len(hits) -> 1..Len(all)] :
    /\ \A i \in 1..Len(hits) : hits[i] = all[at[i]]
    /\ \A i, j \in 1..Len(hits) : i < j => at[i] < at[j]
Fits(hits, all) == Len(hits) <= MaxHits /\ Excerpt(hits, all)

Shape(row) == row.kind = "webhook" <=> row.auth.method # "nil"
Plausible ==
  /\ \A h \in Hook : /\ Fits(hooks[h].hits, logged[h])
                     /\ Shape(hooks[h])
                     /\ ~hooks[h].there => hooks[h] = NoHook
  /\ \A d \in Calls : deliveries[d].pc = "log" => Fits(deliveries[d].hits, logged[deliveries[d].id])
  /\ \A s \in Savers : savers[s].pc # "idle" =>
       Shape(savers[s].row) /\ Fits(savers[s].row.hits, logged[savers[s].id])

OneOperation ==
  /\ \A d, e \in Calls : ~CallAtRest(d) /\ ~CallAtRest(e) => d = e
  /\ \A s, t \in Savers : savers[s].pc # "idle" /\ savers[t].pc # "idle" => s = t
  /\ \A d \in Calls, s \in Savers : CallAtRest(d) \/ savers[s].pc = "idle"

Top(m) == IF m < MaxHits THEN m ELSE MaxHits
Newest(h) == SubSeq(logged[h], 1, Top(Len(logged[h]) - meant[h].from))
Public(h) == h \in Rows /\ hooks[h].kind = "webhook"
TruthOf(h) ==
  /\ meant[h].from <= Len(logged[h])
  /\ h \notin Rows => meant[h].from = Len(logged[h])
  /\ hooks[h].hits = Newest(h)
  /\ meant[h].slug = IF Public(h) THEN hooks[h].slug ELSE ""
  /\ meant[h].secret = IF Public(h) THEN hooks[h].auth.secret ELSE ""
TruthOfCall(d) ==
  deliveries[d].pc = "log" =>
    deliveries[d].id \in Rows /\ deliveries[d].hits = hooks[deliveries[d].id].hits
TruthOfSave(s) ==
  LET w == savers[s]
  IN /\ w.pc \in {"write", "mark"} => w.row.hits = hooks[w.id].hits
     /\ w.pc = "read" => w.row.hits = << >>
     /\ w.pc \in {"read", "write"} /\ w.row.kind = "webhook" =>
          w.row.slug = Given(w.slug, KeptSlug(w.id))
     /\ w.pc = "read" /\ w.row.kind = "webhook" => w.row.auth.secret = w.secret
     /\ w.pc = "write" /\ w.row.kind = "webhook" =>
          w.row.auth.secret = Given(w.secret, meant[w.id].secret)
Truthful ==
  /\ \A h \in Hook : TruthOf(h)
  /\ \A d \in Calls : TruthOfCall(d)
  /\ \A s \in Savers : TruthOfSave(s)
HooksInv == HookBase /\ Plausible /\ (~jam => OneOperation /\ Truthful)

LEMMA ExcerptEmpty ==
  ASSUME NEW all \in Seq(Lines)
  PROVE  Excerpt(<< >>, all)
<1> DEFINE at == [i \in 1..Len(<< >>) |-> 1]
<1>1. Len(<< >>) = 0 BY EmptySeq
<1>2. at \in [1..Len(<< >>) -> 1..Len(all)] BY <1>1
<1>3. /\ \A i \in 1..Len(<< >>) : << >>[i] = all[at[i]]
      /\ \A i, j \in 1..Len(<< >>) : i < j => at[i] < at[j]
  BY <1>1
<1> QED BY <1>2, <1>3 DEF Excerpt

\* A new line does not disturb what an excerpt shows.
LEMMA ExcerptGrows ==
  ASSUME NEW all \in Seq(Lines), NEW hits \in Seq(Lines), NEW line \in Lines,
         Excerpt(hits, all)
  PROVE  Excerpt(hits, <<line>> \o all)
<1>1. PICK at \in [1..Len(hits) -> 1..Len(all)] :
        /\ \A i \in 1..Len(hits) : hits[i] = all[at[i]]
        /\ \A i, j \in 1..Len(hits) : i < j => at[i] < at[j]
  BY DEF Excerpt
<1> DEFINE longer == <<line>> \o all
           next == [i \in 1..Len(hits) |-> at[i] + 1]
<1>2. <<line>> \in Seq(Lines) /\ Len(<<line>>) = 1 /\ Len(all) \in Nat /\ Len(hits) \in Nat
  BY LenProperties
<1>3. /\ Len(longer) = Len(all) + 1
      /\ \A i \in 1..Len(all) + 1 : longer[i] = IF i <= 1 THEN <<line>>[i] ELSE all[i - 1]
  BY <1>2, ConcatProperties
<1> HIDE DEF longer
<1>4. next \in [1..Len(hits) -> 1..Len(longer)]
  BY <1>1, <1>2, <1>3
<1>5. \A i \in 1..Len(hits) : hits[i] = longer[next[i]]
  <2> TAKE i \in 1..Len(hits)
  <2>1. at[i] \in 1..Len(all) /\ next[i] = at[i] + 1 BY <1>1
  <2>2. longer[at[i] + 1] = all[at[i]] BY <1>2, <1>3, <2>1
  <2> QED BY <1>1, <2>1, <2>2
<1>6. \A i, j \in 1..Len(hits) : i < j => next[i] < next[j]
  BY <1>1, <1>2
<1> QED BY <1>4, <1>5, <1>6 DEF Excerpt, longer

LEMMA PrependedIs ==
  ASSUME NEW hits \in Seq(Lines), NEW line \in Lines, MaxHits \in Nat \ {0}
  PROVE  LET n == IF Len(hits) < MaxHits THEN Len(hits) + 1 ELSE MaxHits
         IN /\ Prepended(line, hits) \in Seq(Lines)
            /\ Len(Prepended(line, hits)) = n
            /\ \A i \in 1..n : Prepended(line, hits)[i] = IF i = 1 THEN line ELSE hits[i - 1]
<1> DEFINE n == IF Len(hits) < MaxHits THEN Len(hits) + 1 ELSE MaxHits
           longer == <<line>> \o hits
<1>1. <<line>> \in Seq(Lines) /\ Len(<<line>>) = 1 /\ <<line>>[1] = line /\ Len(hits) \in Nat
  BY LenProperties
<1>2. /\ longer \in Seq(Lines)
      /\ Len(longer) = Len(hits) + 1
      /\ \A i \in 1..Len(hits) + 1 : longer[i] = IF i <= 1 THEN <<line>>[i] ELSE hits[i - 1]
  BY <1>1, ConcatProperties
<1>3. n \in Nat \ {0} /\ n <= Len(hits) + 1
  BY <1>1
<1> HIDE DEF longer, n
<1>4. \A i \in 1..n : longer[i] \in Lines
  BY <1>1, <1>2, <1>3, ElementOfSeq
<1>5. /\ SubSeq(longer, 1, n) \in Seq(Lines)
      /\ Len(SubSeq(longer, 1, n)) = n
      /\ \A i \in 1..n : SubSeq(longer, 1, n)[i] = longer[i]
  <2>1. /\ SubSeq(longer, 1, n) \in Seq(Lines)
        /\ Len(SubSeq(longer, 1, n)) = IF 1 <= n THEN n - 1 + 1 ELSE 0
        /\ \A i \in 1 .. n - 1 + 1 : SubSeq(longer, 1, n)[i] = longer[1 + i - 1]
    BY <1>3, <1>4, SubSeqProperties
  <2> QED BY <1>3, <2>1
<1>6. Prepended(line, hits) = SubSeq(longer, 1, n)
  BY DEF Prepended, longer, n
<1>7. \A i \in 1..n : SubSeq(longer, 1, n)[i] = IF i = 1 THEN line ELSE hits[i - 1]
  BY <1>1, <1>2, <1>3, <1>5
<1> QED BY <1>5, <1>6, <1>7 DEF n

\* A line goes before an excerpt and before the log alike.
LEMMA ExcerptPrepended ==
  ASSUME NEW all \in Seq(Lines), NEW hits \in Seq(Lines), NEW line \in Lines,
         MaxHits \in Nat \ {0}, Excerpt(hits, all)
  PROVE  /\ Excerpt(Prepended(line, hits), <<line>> \o all)
         /\ Len(Prepended(line, hits)) <= MaxHits
<1>1. PICK at \in [1..Len(hits) -> 1..Len(all)] :
        /\ \A i \in 1..Len(hits) : hits[i] = all[at[i]]
        /\ \A i, j \in 1..Len(hits) : i < j => at[i] < at[j]
  BY DEF Excerpt
<1> DEFINE longer == <<line>> \o all
           shown == Prepended(line, hits)
           n == IF Len(hits) < MaxHits THEN Len(hits) + 1 ELSE MaxHits
           next == [i \in 1..n |-> IF i = 1 THEN 1 ELSE at[i - 1] + 1]
<1>2. <<line>> \in Seq(Lines) /\ Len(<<line>>) = 1 /\ <<line>>[1] = line
      /\ Len(all) \in Nat /\ Len(hits) \in Nat
  BY LenProperties
<1>3. /\ Len(longer) = Len(all) + 1
      /\ \A i \in 1..Len(all) + 1 : longer[i] = IF i <= 1 THEN <<line>>[i] ELSE all[i - 1]
  BY <1>2, ConcatProperties
<1>4. /\ Len(shown) = n
      /\ \A i \in 1..n : shown[i] = IF i = 1 THEN line ELSE hits[i - 1]
  BY PrependedIs
<1>5. n \in Nat \ {0} /\ n <= Len(hits) + 1 /\ n <= MaxHits
  BY <1>2
<1> HIDE DEF longer, shown, n
<1>6. \A i \in 1..n : i # 1 => i - 1 \in 1..Len(hits)
  BY <1>2, <1>5
<1>7. next \in [1..n -> 1..Len(longer)]
  BY <1>1, <1>2, <1>3, <1>6
<1>8. \A i \in 1..n : shown[i] = longer[next[i]]
  <2> TAKE i \in 1..n
  <2>1. CASE i = 1
    BY <1>2, <1>3, <1>4, <2>1
  <2>2. CASE i # 1
    <3>1. i - 1 \in 1..Len(hits) /\ at[i - 1] \in 1..Len(all) /\ next[i] = at[i - 1] + 1
      BY <1>1, <1>6, <2>2
    <3>2. longer[at[i - 1] + 1] = all[at[i - 1]]
      BY <1>2, <1>3, <3>1
    <3>3. shown[i] = hits[i - 1] /\ hits[i - 1] = all[at[i - 1]]
      BY <1>1, <1>4, <2>2, <3>1
    <3> QED BY <3>1, <3>2, <3>3
  <2> QED BY <2>1, <2>2
<1>9. \A i, j \in 1..n : i < j => next[i] < next[j]
  <2> TAKE i, j \in 1..n
  <2> HAVE i < j
  <2>0. j # 1 /\ j - 1 \in 1..Len(hits)
    BY <1>5, <1>6
  <2>1. at[j - 1] \in 1..Len(all) /\ next[j] = at[j - 1] + 1
    BY <1>1, <2>0
  <2>2. CASE i = 1
    BY <2>0, <2>1, <2>2, <1>2
  <2>3. CASE i # 1
    <3>1. i - 1 \in 1..Len(hits) /\ at[i - 1] \in 1..Len(all) /\ next[i] = at[i - 1] + 1
      BY <1>1, <1>6, <2>3
    <3>2. i - 1 < j - 1
      BY <1>5
    <3>3. at[i - 1] < at[j - 1]
      BY <1>1, <2>0, <3>1, <3>2
    <3> QED BY <1>2, <2>0, <2>1, <3>1, <3>3
  <2> QED BY <2>2, <2>3
<1> QED BY <1>4, <1>5, <1>7, <1>8, <1>9 DEF Excerpt, longer, shown

\* With the newest lines on show, a new line makes them the newest again.
LEMMA NewestPrepended ==
  ASSUME NEW all \in Seq(Lines), NEW line \in Lines, MaxHits \in Nat \ {0},
         NEW own \in 0..Len(all)
  PROVE  Prepended(line, SubSeq(all, 1, Top(own))) = SubSeq(<<line>> \o all, 1, Top(own + 1))
<1> DEFINE longer == <<line>> \o all
           k == Top(own)
           n == Top(own + 1)
           hits == SubSeq(all, 1, k)
<1>1. <<line>> \in Seq(Lines) /\ Len(<<line>>) = 1 /\ <<line>>[1] = line /\ Len(all) \in Nat
  BY LenProperties
<1>2. /\ longer \in Seq(Lines)
      /\ Len(longer) = Len(all) + 1
      /\ \A i \in 1..Len(all) + 1 : longer[i] = IF i <= 1 THEN <<line>>[i] ELSE all[i - 1]
  BY <1>1, ConcatProperties
<1>3. /\ own \in Nat /\ k \in Nat /\ k <= Len(all) /\ n \in Nat \ {0} /\ n <= Len(all) + 1
      /\ n = IF k < MaxHits THEN k + 1 ELSE MaxHits
  BY <1>1 DEF Top
<1> HIDE DEF longer, k, n
<1>4. /\ hits \in Seq(Lines)
      /\ Len(hits) = k
      /\ \A i \in 1..k : hits[i] = all[i]
  <2>1. \A i \in 1..k : all[i] \in Lines
    BY <1>1, <1>3, ElementOfSeq
  <2>2. /\ hits \in Seq(Lines)
        /\ Len(hits) = IF 1 <= k THEN k - 1 + 1 ELSE 0
        /\ \A i \in 1 .. k - 1 + 1 : hits[i] = all[1 + i - 1]
    BY <1>3, <2>1, SubSeqProperties
  <2> QED BY <1>3, <2>2
<1>5. /\ SubSeq(longer, 1, n) \in Seq(Lines)
      /\ Len(SubSeq(longer, 1, n)) = n
      /\ \A i \in 1..n : SubSeq(longer, 1, n)[i] = longer[i]
  <2>1. \A i \in 1..n : longer[i] \in Lines
    BY <1>1, <1>2, <1>3, ElementOfSeq
  <2>2. /\ SubSeq(longer, 1, n) \in Seq(Lines)
        /\ Len(SubSeq(longer, 1, n)) = IF 1 <= n THEN n - 1 + 1 ELSE 0
        /\ \A i \in 1 .. n - 1 + 1 : SubSeq(longer, 1, n)[i] = longer[1 + i - 1]
    BY <1>3, <2>1, SubSeqProperties
  <2> QED BY <1>3, <2>2
<1> HIDE DEF hits
<1>6. /\ Prepended(line, hits) \in Seq(Lines)
      /\ Len(Prepended(line, hits)) = n
      /\ \A i \in 1..n : Prepended(line, hits)[i] = IF i = 1 THEN line ELSE hits[i - 1]
  BY <1>3, <1>4, PrependedIs
<1>7. \A i \in 1..n : Prepended(line, hits)[i] = SubSeq(longer, 1, n)[i]
  <2> TAKE i \in 1..n
  <2>1. CASE i = 1
    BY <1>1, <1>2, <1>3, <1>5, <1>6, <2>1
  <2>2. CASE i # 1
    <3>1. i - 1 \in 1..k
      BY <1>3, <2>2
    <3>2. longer[i] = all[i - 1] /\ hits[i - 1] = all[i - 1]
      BY <1>1, <1>2, <1>3, <1>4, <2>2, <3>1
    <3> QED BY <1>5, <1>6, <2>2, <3>2
  <2> QED BY <2>1, <2>2
<1>8. Prepended(line, hits) = SubSeq(longer, 1, n)
  <2>1. Len(Prepended(line, hits)) = Len(SubSeq(longer, 1, n))
    BY <1>5, <1>6
  <2> QED BY <1>5, <1>6, <1>7, <2>1, SeqEqual
<1> QED BY <1>8 DEF hits, longer, k, n

LEMMA FormsAreHooks ==
  ASSUME NEW row \in HookForms
  PROVE  row \in HookRows /\ row.slug \in Slug /\ row.hits = << >> /\ row.there = FALSE
<1>0. NoHook \in HookRows /\ NoHook.slug \in Slug /\ NoHook.hits = << >> /\ NoHook.there = FALSE
  <2>1. << >> \in Seq(Lines)
    BY EmptySeq
  <2> QED BY <2>1, WebhooksOK DEF NoHook, NoAuth, HookRows
<1> DEFINE fits(r) == r \in HookRows /\ r.slug \in Slug /\ r.hits = << >> /\ r.there = FALSE
<1>1. ASSUME NEW w \in WebhookForms PROVE fits(w)
  <2>1. AuthForms \subseteq [method : {"nil", "none", "static"}, secret : Secret]
    BY WebhooksOK DEF AuthForms
  <2>2. << >> \in Seq(Lines)
    BY EmptySeq
  <2>3. /\ w.there = FALSE /\ w.kind = "webhook" /\ w.slug \in Slug /\ w.hits = << >>
        /\ w.auth \in AuthForms
    BY <1>1 DEF WebhookForms
  <2> DEFINE no == {FALSE}
             yes == {TRUE}
             either == BOOLEAN
             none == {<< >>}
             logs == Seq(Lines)
             auths == [method : {"nil", "none", "static"}, secret : Secret]
  <2>4. w \in [there : no, kind : {"webhook"}, on : either, slug : Slug, auth : AuthForms,
               listed : either, gated : yes, hits : none, last : {0}]
    BY <1>1 DEF WebhookForms
  <2>5. no \subseteq either /\ yes \subseteq either /\ none \subseteq logs /\ AuthForms \subseteq auths
    BY <2>1, <2>2
  <2>6. w \in HookRows
    <3> HIDE DEF no, yes, either, none, logs, auths
    <3>1. w \in [there : either, kind : {"webhook", "schedule"}, on : either,
                 slug : Slug \cup Hook, auth : auths, listed : either, gated : either,
                 hits : logs, last : Nat]
      BY <2>4, <2>5
    <3> QED BY <3>1 DEF HookRows, either, logs, auths
  <2> QED BY <2>3, <2>6
<1>2. ASSUME NEW on \in BOOLEAN PROVE fits([NoHook EXCEPT !.on = on])
  BY <1>0 DEF HookRows
<1>3. ASSUME NEW w \in WebhookForms PROVE fits([w EXCEPT !.kind = "schedule"])
  BY <1>1 DEF HookRows
<1> QED BY <1>1, <1>2, <1>3 DEF HookForms

LEMMA NormalizedShape ==
  ASSUME NEW row \in HookRows, row.slug \in Slug
  PROVE  /\ Normalized(row) \in HookRows
         /\ Normalized(row).slug \in Slug
         /\ Normalized(row).hits = row.hits
         /\ Shape(Normalized(row))
         /\ Normalized(row).kind = row.kind
         /\ row.kind = "webhook" => /\ Normalized(row).slug = row.slug
                                    /\ Normalized(row).auth.secret = row.auth.secret
<1>1. CASE row.kind = "schedule"
  BY <1>1, WebhooksOK DEF Normalized, HookRows, Shape, NoAuth
<1>2. CASE row.kind = "webhook" /\ row.auth.method = "nil"
  BY <1>2, WebhooksOK DEF Normalized, HookRows, Shape
<1>3. CASE row.kind = "webhook" /\ row.auth.method # "nil"
  BY <1>3, WebhooksOK DEF Normalized, HookRows, Shape
<1> QED BY <1>1, <1>2, <1>3 DEF HookRows

\* What a save carries into the repository.
LEMMA SaveBegun ==
  ASSUME HookBase, NEW s \in Savers, NEW h \in Hook, NEW row \in HookForms,
         BeginSaveHook(s, h, row)
  PROVE  LET w == savers'[s]
         IN /\ w.pc = "read" /\ w.id = h /\ w.slug \in Slug /\ w.secret \in Secret
            /\ w \in [pc : {"read"}, id : {h}, row : HookRows, slug : Slug, secret : Secret]
            /\ w.row.hits = << >>
            /\ Shape(w.row)
            /\ w.row.kind = "webhook" =>
                 /\ w.row.slug = Given(w.slug, KeptSlug(h))
                 /\ w.row.auth.secret = w.secret
            /\ savers' = [savers EXCEPT ![s] = w]
<1> DEFINE r == Normalized(row)
           full == IF r.kind = "webhook" /\ r.slug = ""
                     THEN [r EXCEPT !.slug = KeptSlug(h)] ELSE r
           saved == [pc |-> "read", id |-> h, slug |-> row.slug, secret |-> row.auth.secret,
                 row |-> full]
<1>1. /\ row \in HookRows /\ row.slug \in Slug /\ row.hits = << >>
      /\ r \in HookRows /\ r.hits = << >> /\ Shape(r) /\ r.kind = row.kind
      /\ r.kind = "webhook" => r.slug = row.slug /\ r.auth.secret = row.auth.secret
  BY FormsAreHooks, NormalizedShape
<1>2. KeptSlug(h) \in Slug \cup Hook
  BY DEF KeptSlug, HookBase, HookRows
<1> HIDE DEF r
<1>3. /\ full \in HookRows /\ full.hits = << >> /\ Shape(full)
      /\ full.kind = "webhook" => /\ full.slug = Given(row.slug, KeptSlug(h))
                                  /\ full.auth.secret = row.auth.secret
  <2>1. CASE r.kind = "webhook" /\ r.slug = ""
    BY <1>1, <1>2, <2>1 DEF HookRows, Shape, Given
  <2>2. CASE ~(r.kind = "webhook" /\ r.slug = "")
    BY <1>1, <2>2 DEF Given
  <2> QED BY <2>1, <2>2
<1>4. PICK new \in HookRows :
        /\ savers' = [savers EXCEPT ![s] =
             [pc |-> "read", id |-> h, slug |-> row.slug, secret |-> row.auth.secret, row |-> new]]
        /\ new.hits = << >> /\ Shape(new)
        /\ new.kind = "webhook" => /\ new.slug = Given(row.slug, KeptSlug(h))
                                   /\ new.auth.secret = row.auth.secret
  <2>1. savers' = [savers EXCEPT ![s] = saved]
    BY Zenon DEF BeginSaveHook, r
  <2> HIDE DEF full
  <2> QED BY <1>3, <2>1
<1>5. savers'[s] = [pc |-> "read", id |-> h, slug |-> row.slug, secret |-> row.auth.secret,
                    row |-> new]
  BY <1>4 DEF HookBase
<1>6. row.auth.secret \in Secret
  BY <1>1 DEF HookRows
<1>7. savers'[s] \in [pc : {"read"}, id : {h}, row : HookRows, slug : Slug, secret : Secret]
  BY <1>1, <1>5, <1>6
<1>8. savers'[s].row = new /\ savers'[s].slug = row.slug /\ savers'[s].secret = row.auth.secret
  BY <1>5
<1>9. savers'[s].pc = "read" /\ savers'[s].id = h /\ savers' = [savers EXCEPT ![s] = savers'[s]]
  <2>1. savers' = [savers EXCEPT ![s] = savers'[s]]
    BY <1>4, <1>5, Zenon
  <2> QED BY <1>5, <2>1
<1> QED BY <1>1, <1>4, <1>6, <1>7, <1>8, <1>9

\* What the repository keeps of the row it replaces.
LEMMA RuntimeIsKept ==
  ASSUME NEW row \in HookRows, NEW old \in HookRows
  PROVE  LET new == RuntimeKept(row, old)
         IN /\ new \in HookRows
            /\ new.kind = row.kind /\ new.slug = row.slug /\ new.hits = old.hits
            /\ new.auth.method = row.auth.method
            /\ row.auth.method # "nil" /\ old.auth.method # "nil" =>
                 new.auth.secret = Given(row.auth.secret, old.auth.secret)
            /\ row.auth.method = "nil" \/ old.auth.method = "nil" =>
                 new.auth.secret = row.auth.secret
BY DEF RuntimeKept, KeepsAll, HookRows, Given

LEMMA SaveRead ==
  ASSUME HookBase, NEW s \in Savers, ReadForSave(s)
  PROVE  LET w == savers[s]
             v == savers'[s]
         IN /\ w.pc = "read" /\ w.id \in Hook
            /\ v.pc = "write" /\ v.id = w.id /\ v.slug = w.slug /\ v.secret = w.secret
            /\ v.row = IF w.id \in Rows THEN RuntimeKept(w.row, hooks[w.id]) ELSE w.row
            /\ v.row \in HookRows
            /\ savers' = [savers EXCEPT ![s] = v]
            /\ savers' \in [Savers -> [pc : {"idle", "read", "write", "mark"},
                                       id : Hook \cup {"none"},
                                       row : HookRows, slug : Slug, secret : Secret]]
<1> DEFINE w == savers[s]
           new == IF w.id \in Rows THEN RuntimeKept(w.row, hooks[w.id]) ELSE w.row
           v == [w EXCEPT !.pc = "write", !.row = new]
<1>1. w.pc = "read" /\ w.id \in Hook /\ w.row \in HookRows /\ hooks[w.id] \in HookRows
  BY DEF ReadForSave, HookBase
<1>2. new \in HookRows
  BY <1>1, RuntimeIsKept
<1>3. savers' = [savers EXCEPT ![s] = v]
  <2>1. savers' = [savers EXCEPT ![s].pc = "write", ![s].row = new]
    BY DEF ReadForSave
  <2> HIDE DEF new
  <2> QED BY <2>1 DEF HookBase
<1> HIDE DEF new
<1> HIDE DEF new
<1>4. savers'[s] = v
  BY <1>3 DEF HookBase
<1>5. v.pc = "write" /\ v.id = w.id /\ v.slug = w.slug /\ v.secret = w.secret /\ v.row = new
      /\ v \in [pc : {"idle", "read", "write", "mark"}, id : Hook \cup {"none"},
                row : HookRows, slug : Slug, secret : Secret]
  BY <1>1, <1>2 DEF HookBase
<1> HIDE DEF v
<1>6. savers' \in [Savers -> [pc : {"idle", "read", "write", "mark"}, id : Hook \cup {"none"},
                              row : HookRows, slug : Slug, secret : Secret]]
  BY <1>3, <1>5 DEF HookBase
<1>7. savers'[s].row = IF w.id \in Rows THEN RuntimeKept(w.row, hooks[w.id]) ELSE w.row
  BY <1>4, <1>5 DEF new
<1> QED BY <1>1, <1>2, <1>3, <1>4, <1>5, <1>6, <1>7

\* What a row says of itself but for its log and its last fire.
SameHook(new, old) ==
  /\ new.there = old.there /\ new.kind = old.kind /\ new.slug = old.slug /\ new.auth = old.auth

LEMMA HooksMarked ==
  ASSUME HookBase, NEW s \in Savers, MarkFired(s)
  PROVE  LET h == savers[s].id
         IN /\ savers[s].pc = "mark" /\ h \in Hook
            /\ h \notin Rows => hooks' = hooks
            /\ h \in Rows =>
                 /\ hooks' = [hooks EXCEPT ![h] = hooks'[h]]
                 /\ hooks'[h] \in HookRows
                 /\ hooks'[h].hits = savers[s].row.hits
                 /\ SameHook(hooks'[h], hooks[h])
            /\ savers' = [savers EXCEPT ![s] = NoSaver]
<1> DEFINE h == savers[s].id
           new == [hooks[h] EXCEPT !.last = changes, !.hits = savers[s].row.hits]
<1>1. savers[s].pc = "mark" /\ h \in Hook /\ savers[s].row \in HookRows /\ hooks[h] \in HookRows
      /\ changes \in Nat
  <2>1. jam \in BOOLEAN /\ changes \in 0..MaxEdits[jam]
    BY DEF HookBase
  <2>2. MaxEdits[jam] \in Nat
    BY <2>1, WebhooksOK
  <2> QED BY <2>1, <2>2 DEF MarkFired, HookBase
<1>2. h \notin Rows => hooks' = hooks
  BY DEF MarkFired
<1>3. new \in HookRows /\ new.hits = savers[s].row.hits /\ SameHook(new, hooks[h])
  BY <1>1 DEF HookRows, SameHook
<1>4. h \in Rows => hooks' = [hooks EXCEPT ![h] = new]
  BY <1>1 DEF MarkFired, HookBase
<1>5. savers' = [savers EXCEPT ![s] = NoSaver]
  BY DEF MarkFired
<1> HIDE DEF new
<1>6. h \in Rows => hooks'[h] = new
  BY <1>1, <1>4 DEF HookBase
<1> QED BY <1>1, <1>2, <1>3, <1>4, <1>5, <1>6

LEMMA HitsWritten ==
  ASSUME HookBase, NEW d \in Calls, WriteHits(d)
  PROVE  LET h == deliveries[d].id
             line == [call |-> d, status |-> deliveries[d].status]
         IN /\ deliveries[d].pc = "log" /\ h \in Hook /\ line \in Lines
            /\ h \notin Rows => hooks' = hooks /\ logged' = logged
            /\ h \in Rows =>
                 /\ hooks' = [hooks EXCEPT ![h] = hooks'[h]]
                 /\ hooks'[h] \in HookRows
                 /\ hooks'[h].hits = Prepended(line, deliveries[d].hits)
                 /\ SameHook(hooks'[h], hooks[h])
                 /\ logged' = [logged EXCEPT ![h] = <<line>> \o logged[h]]
            /\ deliveries' = [deliveries EXCEPT ![d] = deliveries'[d]]
            /\ deliveries'[d].pc = "over"
            /\ deliveries' \in [Calls -> [pc : {"waits", "launch", "hit", "log", "over"},
                                          id : Hook \cup {"none"}, status : Nat,
                                          hits : Seq(Lines), last : Nat]]
            /\ UNCHANGED <<savers, meant>>
<1> DEFINE h == deliveries[d].id
           line == [call |-> d, status |-> deliveries[d].status]
           shown == Prepended(line, deliveries[d].hits)
           new == [hooks[h] EXCEPT !.hits = shown, !.last = deliveries[d].last]
           over == [NoDelivery EXCEPT !.pc = "over", !.id = h]
<1>1. /\ deliveries[d].pc = "log" /\ h \in Hook /\ hooks[h] \in HookRows
      /\ deliveries[d].hits \in Seq(Lines) /\ deliveries[d].status \in Nat
      /\ deliveries[d].last \in Nat
  BY DEF WriteHits, HookBase
<1>2. line \in Lines
  BY <1>1 DEF Lines
<1>3. shown \in Seq(Lines)
  BY <1>1, <1>2, WebhooksOK, PrependedIs
<1>4. h \notin Rows => hooks' = hooks /\ logged' = logged
  BY DEF WriteHits
<1>5. h \in Rows => logged' = [logged EXCEPT ![h] = <<line>> \o logged[h]]
  BY DEF WriteHits
<1>6. h \in Rows => hooks' = [hooks EXCEPT ![h].hits = shown, ![h].last = deliveries[d].last]
  BY DEF WriteHits
<1>7. deliveries' = [deliveries EXCEPT ![d] = over]
  BY DEF WriteHits
<1> HIDE DEF shown, line
<1>8. new \in HookRows /\ new.hits = shown /\ SameHook(new, hooks[h])
  BY <1>1, <1>3 DEF HookRows, SameHook
<1>9. h \in Rows => hooks' = [hooks EXCEPT ![h] = new]
  BY <1>1, <1>6 DEF HookBase
<1> HIDE DEF new
<1>10. h \in Rows => hooks'[h] = new
  BY <1>1, <1>9 DEF HookBase
<1>11. << >> \in Seq(Lines)
  BY EmptySeq
<1>12. over \in [pc : {"waits", "launch", "hit", "log", "over"}, id : Hook \cup {"none"},
                 status : Nat, hits : Seq(Lines), last : Nat] /\ over.pc = "over"
  BY <1>1, <1>11 DEF NoDelivery
<1> HIDE DEF over
<1>13. deliveries'[d] = over /\ deliveries' = [deliveries EXCEPT ![d] = deliveries'[d]]
       /\ deliveries' \in [Calls -> [pc : {"waits", "launch", "hit", "log", "over"},
                                     id : Hook \cup {"none"}, status : Nat,
                                     hits : Seq(Lines), last : Nat]]
  BY <1>7, <1>12 DEF HookBase
<1>14. UNCHANGED <<savers, meant>>
  BY DEF WriteHits
<1>15. line \in Lines /\ line = [call |-> d, status |-> deliveries[d].status]
  BY <1>2 DEF line
<1>16. h \in Rows => hooks'[h].hits = Prepended([call |-> d, status |-> deliveries[d].status], deliveries[d].hits)
  BY <1>8, <1>10 DEF shown, line
<1>17. h \in Rows => logged' = [logged EXCEPT ![h] = <<[call |-> d, status |-> deliveries[d].status]>> \o logged[h]]
  BY <1>5 DEF line
<1> QED BY <1>1, <1>4, <1>8, <1>9, <1>10, <1>12, <1>13, <1>14, <1>15, <1>16, <1>17

LEMMA HookWritten ==
  ASSUME HookBase, NEW s \in Savers, SaveHook(s)
  PROVE  LET w == savers[s]
             h == savers[s].id
         IN /\ w.pc = "write" /\ h \in Hook
            /\ hooks' = [hooks EXCEPT ![h] = hooks'[h]]
            /\ hooks'[h] \in HookRows
            /\ hooks'[h].there /\ hooks'[h].kind = w.row.kind /\ hooks'[h].slug = w.row.slug
            /\ hooks'[h].auth = w.row.auth /\ hooks'[h].hits = w.row.hits
            /\ meant' = [meant EXCEPT ![h] = meant'[h]]
            /\ meant'[h].from = meant[h].from
            /\ w.row.kind = "schedule" => meant'[h].slug = "" /\ meant'[h].secret = ""
            /\ w.row.kind = "webhook" =>
                 /\ meant'[h].slug = Given(w.slug, IF meant[h].slug = "" THEN w.row.slug
                                                   ELSE meant[h].slug)
                 /\ meant'[h].secret = Given(w.secret, meant[h].secret)
            /\ meant' \in [Hook -> [slug : Slug \cup Hook, secret : Secret, from : Nat]]
            /\ savers' = [savers EXCEPT ![s] = NoSaver]
            /\ UNCHANGED <<deliveries, logged>>
<1> DEFINE w == savers[s]
           h == savers[s].id
           new == [w.row EXCEPT !.there = TRUE]
           m == meant[h]
           slug == Given(w.slug, IF m.slug = "" THEN w.row.slug ELSE m.slug)
           secret == Given(w.secret, m.secret)
           mean == IF w.row.kind = "schedule" THEN [m EXCEPT !.slug = "", !.secret = ""]
                   ELSE [m EXCEPT !.slug = slug, !.secret = secret]
<1>1. /\ w.pc = "write" /\ h \in Hook /\ w.row \in HookRows
      /\ w.slug \in Slug /\ w.secret \in Secret
      /\ m \in [slug : Slug \cup Hook, secret : Secret, from : Nat]
  BY DEF SaveHook, HookBase
<1>2. /\ new \in HookRows /\ new.there /\ new.kind = w.row.kind /\ new.slug = w.row.slug
      /\ new.auth = w.row.auth /\ new.hits = w.row.hits
  BY <1>1 DEF HookRows
<1>3. hooks' = [hooks EXCEPT ![h] = new]
  BY DEF SaveHook
<1>4. meant' = [meant EXCEPT ![h] = mean]
  <2>1. meant' = [meant EXCEPT ![h] = MeantBy(m, w, new)]
    BY DEF SaveHook
  <2>2. MeantBy(m, w, new) = mean
    <3>1. new.kind = w.row.kind /\ new.slug = w.row.slug
      BY <1>2
    <3> HIDE DEF new
    <3> QED BY <3>1 DEF MeantBy
  <2> HIDE DEF mean, new
  <2> QED BY <2>1, <2>2
<1>5. slug \in Slug \cup Hook /\ secret \in Secret
  BY <1>1 DEF Given, HookRows
<1> HIDE DEF slug, secret
<1>7. /\ mean \in [slug : Slug \cup Hook, secret : Secret, from : Nat] /\ mean.from = m.from
      /\ w.row.kind = "schedule" => mean.slug = "" /\ mean.secret = ""
      /\ w.row.kind = "webhook" => mean.slug = slug /\ mean.secret = secret
  BY <1>1, <1>5, WebhooksOK DEF HookRows
<1> HIDE DEF mean, new
<1>8. hooks'[h] = new /\ meant'[h] = mean
      /\ meant' \in [Hook -> [slug : Slug \cup Hook, secret : Secret, from : Nat]]
  BY <1>1, <1>3, <1>4, <1>7 DEF HookBase
<1>9. savers' = [savers EXCEPT ![s] = NoSaver] /\ UNCHANGED <<deliveries, logged>>
  BY DEF SaveHook
<1> QED BY <1>1, <1>2, <1>3, <1>4, <1>7, <1>8, <1>9 DEF slug, secret

Deliveries == [pc : {"waits", "launch", "hit", "log", "over"}, id : Hook \cup {"none"},
               status : Nat, hits : Seq(Lines), last : Nat]
Saves == [pc : {"idle", "read", "write", "mark"}, id : Hook \cup {"none"},
          row : HookRows, slug : Slug, secret : Secret]

LEMMA NothingIs ==
  /\ NoHook \in HookRows /\ NoHook.hits = << >> /\ NoHook.there = FALSE /\ Shape(NoHook)
  /\ NoHook.kind = "schedule"
  /\ NoSaver \in Saves /\ NoSaver.pc = "idle"
  /\ NoDelivery \in Deliveries /\ NoDelivery.pc = "waits"
  /\ NeverMeant \in [slug : Slug \cup Hook, secret : Secret, from : Nat]
  /\ NeverMeant.from = 0
<1>0. << >> \in Seq(Lines)
  BY EmptySeq
<1>1. NoHook \in HookRows /\ NoHook.hits = << >> /\ NoHook.there = FALSE /\ Shape(NoHook)
      /\ NoHook.kind = "schedule"
  BY <1>0, WebhooksOK DEF NoHook, NoAuth, HookRows, Shape
<1>2. NoSaver \in Saves /\ NoSaver.pc = "idle"
  BY <1>1, WebhooksOK DEF NoSaver, Saves
<1>3. NoDelivery \in Deliveries /\ NoDelivery.pc = "waits"
  BY <1>0 DEF NoDelivery, Deliveries
<1>4. /\ NeverMeant \in [slug : Slug \cup Hook, secret : Secret, from : Nat]
      /\ NeverMeant.from = 0
  BY WebhooksOK DEF NeverMeant
<1> QED BY <1>1, <1>2, <1>3, <1>4

\* A delivery's own statements, which change nothing but the delivery.
DeliveryIs(d, e) ==
  /\ e \in Deliveries
  /\ deliveries' = [deliveries EXCEPT ![d] = e]
  /\ e.pc \in {"launch", "hit", "log"} => e.id \in Hook
  /\ e.pc = "log" => e.id \in Rows /\ e.hits = hooks[e.id].hits /\ ~CallAtRest(d)

LEMMA Received ==
  ASSUME HookBase, NEW d \in Calls, NEW slug \in Slug \cup Hook, NEW method \in BOOLEAN,
         NEW ip \in BOOLEAN, NEW header \in Secret, Receive(d, slug, method, ip, header)
  PROVE  /\ jam \/ AllAtRest
         /\ UNCHANGED <<jam, hooks, savers, changes, logged, meant>>
         /\ \E e \in Deliveries : DeliveryIs(d, e)
<1> DEFINE v == deliveries[d]
           found == {h \in Rows : hooks[h].slug = slug /\ hooks[h].on
                                    /\ hooks[h].kind = "webhook"}
           call == [method |-> method, ip |-> ip, header |-> header]
           got(h, status) == [NoDelivery EXCEPT !.id = h, !.status = status,
                                !.pc = IF status = 200 THEN "launch" ELSE "hit"]
<1>0. v \in Deliveries
  BY DEF HookBase, Deliveries
<1>1. (jam \/ AllAtRest) /\ UNCHANGED <<jam, hooks, savers, changes, logged, meant>>
  BY DEF Receive
<1>2. CASE found = {}
  <2>1. deliveries' = [deliveries EXCEPT ![d] = [v EXCEPT !.pc = "over"]]
    BY <1>2 DEF Receive
  <2>2. [v EXCEPT !.pc = "over"] \in Deliveries /\ [v EXCEPT !.pc = "over"].pc = "over"
    BY <1>0 DEF Deliveries
  <2> QED BY <1>1, <2>1, <2>2 DEF DeliveryIs
<1>3. CASE found # {}
  <2>1. PICK h \in found : deliveries' = [deliveries EXCEPT ![d] = got(h, Verdict(hooks[h], call))]
    BY <1>3 DEF Receive
  <2>2. h \in Hook /\ Verdict(hooks[h], call) \in {200, 401, 403, 405}
    BY DEF Rows, Verdict, Authorize
  <2>3. PICK status \in Nat : status = Verdict(hooks[h], call)
    BY <2>2
  <2>4. deliveries' = [deliveries EXCEPT ![d] = got(h, status)]
    BY <2>1, <2>3
  <2> HIDE DEF call, found
  <2>5. got(h, status) \in Deliveries /\ got(h, status).pc \in {"launch", "hit"}
        /\ got(h, status).id = h
    <3>1. /\ NoDelivery \in Deliveries
      BY NothingIs
    <3> QED BY <2>2, <3>1 DEF Deliveries
  <2>6. PICK e \in Deliveries : e = got(h, status)
    BY <2>5
  <2>7. deliveries' = [deliveries EXCEPT ![d] = e] /\ e.pc \in {"launch", "hit"} /\ e.id = h
    BY <2>4, <2>5, <2>6
  <2>8. DeliveryIs(d, e)
    BY <2>2, <2>7 DEF DeliveryIs
  <2> QED BY <1>1, <2>8
<1> QED BY <1>2, <1>3

LEMMA Launched ==
  ASSUME HookBase, NEW d \in Calls, LaunchHook(d)
  PROVE  /\ ~CallAtRest(d)
         /\ UNCHANGED <<jam, hooks, savers, changes, logged, meant>>
         /\ \E e \in Deliveries : DeliveryIs(d, e)
<1> DEFINE v == deliveries[d]
<1>1. v \in Deliveries /\ v.pc = "launch" /\ v.id \in Hook
  BY DEF HookBase, Deliveries, LaunchHook
<1>2. PICK status \in Nat :
        deliveries' = [deliveries EXCEPT ![d].pc = "hit", ![d].status = status]
  <2>1. \E status \in {202, 502} :
          deliveries' = [deliveries EXCEPT ![d].pc = "hit", ![d].status = status]
    BY DEF LaunchHook
  <2>2. {202, 502} \subseteq Nat
    OBVIOUS
  <2> HIDE DEF v
  <2> QED BY <2>1, <2>2, ZenonT(60)
<1> DEFINE e == [v EXCEPT !.pc = "hit", !.status = status]
<1>3. e \in Deliveries /\ e.pc = "hit" /\ e.id = v.id
  BY <1>1 DEF Deliveries
<1>4. deliveries' = [deliveries EXCEPT ![d] = e]
  BY <1>2 DEF HookBase
<1> HIDE DEF e
<1>5. DeliveryIs(d, e)
  BY <1>1, <1>3, <1>4 DEF DeliveryIs
<1> QED BY <1>1, <1>3, <1>5 DEF CallAtRest, LaunchHook

LEMMA HitsRead ==
  ASSUME HookBase, NEW d \in Calls, ReadHits(d)
  PROVE  /\ ~CallAtRest(d)
         /\ UNCHANGED <<jam, hooks, savers, changes, logged, meant>>
         /\ \E e \in Deliveries : DeliveryIs(d, e)
<1> DEFINE v == deliveries[d]
           h == v.id
           e == [v EXCEPT !.pc = IF h \in Rows THEN "log" ELSE "over",
                          !.hits = hooks[h].hits, !.last = hooks[h].last]
<1>1. v \in Deliveries /\ v.pc = "hit" /\ h \in Hook
  BY DEF HookBase, Deliveries, ReadHits
<1>2. hooks[h].hits \in Seq(Lines) /\ hooks[h].last \in Nat
  BY <1>1 DEF HookBase, HookRows
<1>3. deliveries' = [deliveries EXCEPT ![d].pc = IF h \in Rows THEN "log" ELSE "over",
                                       ![d].hits = hooks[h].hits, ![d].last = hooks[h].last]
  BY DEF ReadHits
<1>4. e \in Deliveries /\ e.id = h /\ e.hits = hooks[h].hits /\ (e.pc = "log" => h \in Rows)
  BY <1>1, <1>2 DEF Deliveries
<1>5. deliveries' = [deliveries EXCEPT ![d] = e]
  BY <1>3 DEF HookBase
<1> HIDE DEF e
<1>6. ~CallAtRest(d)
  BY <1>1 DEF CallAtRest
<1>7. DeliveryIs(d, e)
  BY <1>1, <1>4, <1>5, <1>6 DEF DeliveryIs
<1> QED BY <1>4, <1>6, <1>7 DEF ReadHits

LEMMA BegunInBounds ==
  ASSUME HookBase, Change
  PROVE  changes' \in 0..MaxEdits[jam]
<1>1. jam \in BOOLEAN /\ changes \in 0..MaxEdits[jam]
  BY DEF HookBase
<1>2. MaxEdits[jam] \in Nat
  BY <1>1, WebhooksOK
<1>3. changes < MaxEdits[jam] /\ changes' = changes + 1
  BY DEF Change
<1> QED BY <1>1, <1>2, <1>3

MarkOf(h) == [NoSaver EXCEPT !.pc = "mark", !.id = h, !.row = hooks[h]]

LEMMA MarkIs ==
  ASSUME HookBase, NEW h \in Hook
  PROVE  /\ MarkOf(h) \in Saves /\ MarkOf(h).pc = "mark" /\ MarkOf(h).id = h
         /\ MarkOf(h).row = hooks[h]
<1>1. hooks[h] \in HookRows
  BY DEF HookBase
<1> QED BY <1>1, NothingIs DEF MarkOf, Saves

LEMMA BaseStep ==
  ASSUME HookBase, [HooksNext]_hookVars
  PROVE  HookBase'
<1> USE DEF Deliveries, Saves
<1>1. ASSUME NEW s \in Savers, NEW h \in Hook, NEW row \in HookForms, BeginSaveHook(s, h, row)
      PROVE  HookBase'
  <2>1. /\ changes' \in 0..MaxEdits[jam]
        /\ UNCHANGED <<jam, hooks, deliveries, logged, meant>>
    BY <1>1, BegunInBounds DEF BeginSaveHook
  <2>2. /\ savers' = [savers EXCEPT ![s] = savers'[s]]
        /\ savers'[s].id = h /\ savers'[s] \in Saves
    BY <1>1, SaveBegun
  <2> QED BY <2>1, <2>2 DEF HookBase
<1>2. ASSUME NEW s \in Savers, NEW h \in Hook, BeginMark(s, h) PROVE HookBase'
  <2>1. /\ changes' \in 0..MaxEdits[jam]
        /\ UNCHANGED <<jam, hooks, deliveries, logged, meant>>
        /\ savers' = [savers EXCEPT ![s] = MarkOf(h)]
    BY <1>2, BegunInBounds DEF BeginMark, MarkOf
  <2>2. MarkOf(h) \in Saves /\ MarkOf(h).id = h
    BY MarkIs
  <2> QED BY <2>1, <2>2 DEF HookBase
<1>3. ASSUME NEW s \in Savers, ReadForSave(s) PROVE HookBase'
  <2>1. UNCHANGED <<jam, hooks, deliveries, changes, logged, meant>>
    BY <1>3 DEF ReadForSave
  <2>2. /\ savers' = [savers EXCEPT ![s] = savers'[s]]
        /\ savers' \in [Savers -> Saves]
        /\ savers'[s].id = savers[s].id /\ savers[s].id \in Hook
    BY <1>3, SaveRead
  <2> QED BY <2>1, <2>2 DEF HookBase
<1>4. ASSUME NEW s \in Savers, SlugConflict(s) PROVE HookBase'
  BY <1>4, NothingIs DEF SlugConflict, HookBase
<1>5. ASSUME NEW s \in Savers, SaveHook(s) PROVE HookBase'
  <2>1. UNCHANGED <<jam, deliveries, changes, logged>>
    BY <1>5 DEF SaveHook
  <2>2. hooks' \in [Hook -> HookRows]
    BY <1>5, HookWritten DEF HookBase
  <2>3. meant' \in [Hook -> [slug : Slug \cup Hook, secret : Secret, from : Nat]]
        /\ savers' = [savers EXCEPT ![s] = NoSaver]
    BY <1>5, HookWritten
  <2> QED BY <2>1, <2>2, <2>3, NothingIs DEF HookBase
<1>6. ASSUME NEW s \in Savers, MarkFired(s) PROVE HookBase'
  <2>1. UNCHANGED <<jam, deliveries, changes, logged, meant>>
    BY <1>6 DEF MarkFired
  <2>2. hooks' \in [Hook -> HookRows]
    BY <1>6, HooksMarked DEF HookBase
  <2>3. savers' = [savers EXCEPT ![s] = NoSaver]
    BY <1>6, HooksMarked
  <2> QED BY <2>1, <2>2, <2>3, NothingIs DEF HookBase
<1>7. ASSUME NEW h \in Hook, DeleteHook(h) PROVE HookBase'
  <2>1. /\ changes' \in 0..MaxEdits[jam]
        /\ UNCHANGED <<jam, deliveries, savers, logged>>
        /\ hooks' = [hooks EXCEPT ![h] = NoHook]
        /\ meant' = [meant EXCEPT ![h] = [NeverMeant EXCEPT !.from = Len(logged[h])]]
    BY <1>7, BegunInBounds DEF DeleteHook
  <2>2. [NeverMeant EXCEPT !.from = Len(logged[h])]
           \in [slug : Slug \cup Hook, secret : Secret, from : Nat]
    BY NothingIs, LenProperties DEF HookBase
  <2> QED BY <2>1, <2>2, NothingIs DEF HookBase
<1>8. ASSUME NEW d \in Calls, UNCHANGED <<jam, hooks, savers, changes, logged, meant>>,
             \E e \in Deliveries : DeliveryIs(d, e)
      PROVE  HookBase'
  BY <1>8 DEF HookBase, DeliveryIs
<1>9. ASSUME NEW d \in Calls, WriteHits(d) PROVE HookBase'
  <2> DEFINE h == deliveries[d].id
             line == [call |-> d, status |-> deliveries[d].status]
  <2>1. UNCHANGED <<jam, savers, changes, meant>>
    BY <1>9 DEF WriteHits
  <2>2. hooks' \in [Hook -> HookRows]
    BY <1>9, HitsWritten DEF HookBase
  <2>3. /\ deliveries' \in [Calls -> Deliveries]
        /\ deliveries' = [deliveries EXCEPT ![d] = deliveries'[d]]
        /\ deliveries'[d].pc = "over"
    BY <1>9, HitsWritten
  <2>4. /\ h \in Hook /\ line \in Lines
        /\ logged' = logged \/ logged' = [logged EXCEPT ![h] = <<line>> \o logged[h]]
    BY <1>9, HitsWritten
  <2>5. <<line>> \o logged[h] \in Seq(Lines)
    <3> HIDE DEF line
    <3>1. <<line>> \in Seq(Lines) /\ logged[h] \in Seq(Lines)
      BY <2>4 DEF HookBase
    <3> QED BY <3>1, ConcatProperties
  <2>6. logged' \in [Hook -> Seq(Lines)]
    BY <2>4, <2>5 DEF HookBase
  <2> QED BY <2>1, <2>2, <2>3, <2>6 DEF HookBase
<1>10. CASE UNCHANGED hookVars
  BY <1>10 DEF hookVars, HookBase
<1> QED BY <1>1, <1>2, <1>3, <1>4, <1>5, <1>6, <1>7, <1>8, <1>9, <1>10, Received, Launched,
           HitsRead DEF HooksNext

LEMMA FitsEmpty ==
  ASSUME NEW all \in Seq(Lines)
  PROVE  Fits(<< >>, all)
<1>1. Len(<< >>) = 0 /\ 0 <= MaxHits
  <2>1. Len(<< >>) = 0
    BY EmptySeq
  <2>2. MaxHits \in Nat
    BY WebhooksOK
  <2> QED BY <2>1, <2>2
<1>2. Excerpt(<< >>, all)
  BY ExcerptEmpty
<1> QED BY <1>1, <1>2 DEF Fits

LEMMA PlausibleStep ==
  ASSUME HookBase, Plausible, [HooksNext]_hookVars
  PROVE  Plausible'
<1>0. \A h \in Hook : logged[h] \in Seq(Lines) /\ Fits(<< >>, logged[h])
  BY FitsEmpty DEF HookBase
<1>1. ASSUME NEW s \in Savers, NEW h \in Hook, NEW row \in HookForms, BeginSaveHook(s, h, row)
      PROVE  Plausible'
  <2>1. UNCHANGED <<hooks, deliveries, logged>>
    BY <1>1 DEF BeginSaveHook
  <2>2. /\ savers' = [savers EXCEPT ![s] = savers'[s]]
        /\ savers'[s].id = h /\ savers'[s].row.hits = << >> /\ Shape(savers'[s].row)
    BY <1>1, SaveBegun
  <2> QED BY <1>0, <2>1, <2>2, ZenonT(60) DEF HookBase, Plausible
<1>2. ASSUME NEW s \in Savers, NEW h \in Hook, BeginMark(s, h) PROVE Plausible'
  <2>1. /\ UNCHANGED <<hooks, deliveries, logged>>
        /\ savers' = [savers EXCEPT ![s] = MarkOf(h)]
    BY <1>2 DEF BeginMark, MarkOf
  <2>2. MarkOf(h).row = hooks[h] /\ MarkOf(h).id = h
    BY MarkIs
  <2> QED BY <2>1, <2>2 DEF HookBase, Plausible
<1>3. ASSUME NEW s \in Savers, ReadForSave(s) PROVE Plausible'
  <2> DEFINE w == savers[s]
             v == savers'[s]
  <2>1. UNCHANGED <<hooks, deliveries, logged>>
    BY <1>3 DEF ReadForSave
  <2>2. /\ w.pc = "read" /\ w.id \in Hook /\ v.id = w.id
        /\ v.row = IF w.id \in Rows THEN RuntimeKept(w.row, hooks[w.id]) ELSE w.row
        /\ savers' = [savers EXCEPT ![s] = v]
    BY <1>3, SaveRead
  <2>3. w.row \in HookRows /\ hooks[w.id] \in HookRows
    BY <2>2 DEF HookBase
  <2>4. Shape(v.row) /\ Fits(v.row.hits, logged[v.id])
    <3>1. Shape(w.row) /\ Fits(w.row.hits, logged[w.id]) /\ Fits(hooks[w.id].hits, logged[w.id])
      BY <2>2 DEF Plausible
    <3>2. CASE w.id \in Rows
      <4>1. v.row = RuntimeKept(w.row, hooks[w.id])
        BY <2>2, <3>2
      <4>2. v.row.kind = w.row.kind /\ v.row.auth.method = w.row.auth.method
            /\ v.row.hits = hooks[w.id].hits
        BY <2>3, <4>1, RuntimeIsKept
      <4> QED BY <2>2, <3>1, <4>2 DEF Shape
    <3> QED BY <2>2, <3>1, <3>2
  <2> HIDE DEF w, v
  <2> QED BY <2>1, <2>2, <2>4 DEF HookBase, Plausible, v
<1>4. ASSUME NEW s \in Savers, SlugConflict(s) PROVE Plausible'
  BY <1>4, NothingIs DEF SlugConflict, HookBase, Plausible
<1>5. ASSUME NEW s \in Savers, SaveHook(s) PROVE Plausible'
  <2> DEFINE h == savers[s].id
  <2>1. UNCHANGED <<deliveries, logged>> /\ savers' = [savers EXCEPT ![s] = NoSaver]
    BY <1>5 DEF SaveHook
  <2>2. /\ savers[s].pc = "write" /\ h \in Hook
        /\ hooks' = [hooks EXCEPT ![h] = hooks'[h]]
        /\ hooks'[h].there /\ hooks'[h].kind = savers[s].row.kind
        /\ hooks'[h].auth = savers[s].row.auth /\ hooks'[h].hits = savers[s].row.hits
    BY <1>5, HookWritten
  <2>3. Shape(hooks'[h]) /\ Fits(hooks'[h].hits, logged[h])
    BY <2>2 DEF Plausible, Shape
  <2>4. \A t \in Savers : savers'[t].pc # "idle" => savers'[t] = savers[t]
    BY <2>1, NothingIs DEF HookBase
  <2>5. \A g \in Hook : g # h => hooks'[g] = hooks[g]
    BY <2>2 DEF HookBase
  <2> QED BY <2>1, <2>2, <2>3, <2>4, <2>5 DEF Plausible
<1>6. ASSUME NEW s \in Savers, MarkFired(s) PROVE Plausible'
  <2> DEFINE h == savers[s].id
  <2>1. UNCHANGED <<deliveries, logged>> /\ savers' = [savers EXCEPT ![s] = NoSaver]
    BY <1>6 DEF MarkFired
  <2>2. /\ savers[s].pc = "mark" /\ h \in Hook
        /\ h \notin Rows => hooks' = hooks
        /\ h \in Rows => /\ hooks' = [hooks EXCEPT ![h] = hooks'[h]]
                         /\ hooks'[h].hits = savers[s].row.hits
                         /\ SameHook(hooks'[h], hooks[h])
    BY <1>6, HooksMarked
  <2>3. CASE h \notin Rows
    BY <2>1, <2>2, <2>3, NothingIs DEF HookBase, Plausible
  <2>4. CASE h \in Rows
    <3>1. /\ Shape(hooks'[h]) /\ Fits(hooks'[h].hits, logged[h]) /\ hooks'[h].there
      BY <2>2, <2>4 DEF Plausible, Shape, SameHook, Rows
    <3>2. \A t \in Savers : savers'[t].pc # "idle" => savers'[t] = savers[t]
      BY <2>1, NothingIs DEF HookBase
    <3>3. \A g \in Hook : g # h => hooks'[g] = hooks[g]
      BY <2>2, <2>4 DEF HookBase
    <3> QED BY <2>1, <2>2, <3>1, <3>2, <3>3 DEF Plausible
  <2> QED BY <2>3, <2>4
<1>7. ASSUME NEW h \in Hook, DeleteHook(h) PROVE Plausible'
  <2>1. UNCHANGED <<deliveries, savers, logged>> /\ hooks' = [hooks EXCEPT ![h] = NoHook]
    BY <1>7 DEF DeleteHook
  <2> QED BY <1>0, <2>1, NothingIs DEF HookBase, Plausible
<1>8. ASSUME NEW d \in Calls, UNCHANGED <<jam, hooks, savers, changes, logged, meant>>,
             \E e \in Deliveries : DeliveryIs(d, e)
      PROVE  Plausible'
  <2>1. PICK e \in Deliveries : DeliveryIs(d, e)
    BY <1>8
  <2>2. e.pc = "log" => Fits(e.hits, logged[e.id])
    BY <2>1 DEF DeliveryIs, Rows, Plausible
  <2> QED BY <1>8, <2>1, <2>2 DEF HookBase, Plausible, DeliveryIs
<1>9. ASSUME NEW d \in Calls, WriteHits(d) PROVE Plausible'
  <2> DEFINE h == deliveries[d].id
             line == [call |-> d, status |-> deliveries[d].status]
  <2>1. /\ deliveries[d].pc = "log" /\ h \in Hook /\ line \in Lines
        /\ h \notin Rows => hooks' = hooks /\ logged' = logged
        /\ h \in Rows => /\ hooks' = [hooks EXCEPT ![h] = hooks'[h]]
                         /\ hooks'[h].hits = Prepended(line, deliveries[d].hits)
                         /\ SameHook(hooks'[h], hooks[h])
                         /\ logged' = [logged EXCEPT ![h] = <<line>> \o logged[h]]
        /\ deliveries' = [deliveries EXCEPT ![d] = deliveries'[d]]
        /\ deliveries'[d].pc = "over"
        /\ savers' = savers
    BY <1>9, HitsWritten
  <2> HIDE DEF line
  <2>2. CASE h \notin Rows
    BY <2>1, <2>2 DEF HookBase, Plausible
  <2>3. CASE h \in Rows
    <3>1. ASSUME NEW g \in Hook, NEW hits \in Seq(Lines), Fits(hits, logged[g])
          PROVE  Fits(hits, logged'[g])
      <4>1. CASE g = h
        <5>1. logged'[g] = <<line>> \o logged[g]
          BY <2>1, <2>3, <4>1 DEF HookBase
        <5> QED BY <1>0, <2>1, <3>1, <5>1, ExcerptGrows DEF Fits
      <4>2. CASE g # h
        <5>1. logged'[g] = logged[g]
          BY <2>1, <2>3, <4>2 DEF HookBase
        <5> QED BY <3>1, <5>1
      <4> QED BY <4>1, <4>2
    <3>2. Fits(hooks'[h].hits, logged'[h]) /\ Shape(hooks'[h]) /\ hooks'[h].there
      <4>1. deliveries[d].hits \in Seq(Lines) /\ Excerpt(deliveries[d].hits, logged[h])
        BY <2>1 DEF HookBase, Plausible, Fits
      <4>2. logged'[h] = <<line>> \o logged[h]
        BY <2>1, <2>3 DEF HookBase
      <4>3. Fits(Prepended(line, deliveries[d].hits), <<line>> \o logged[h])
        BY <1>0, <2>1, <4>1, WebhooksOK, ExcerptPrepended DEF Fits
      <4>4. Shape(hooks'[h]) /\ hooks'[h].there
        BY <2>1, <2>3 DEF Plausible, Shape, SameHook, Rows
      <4> QED BY <2>1, <2>3, <4>2, <4>3, <4>4
    <3>3. ASSUME NEW g \in Hook
          PROVE  /\ Fits(hooks'[g].hits, logged'[g])
                 /\ Shape(hooks'[g])
                 /\ ~hooks'[g].there => hooks'[g] = NoHook
      <4>1. CASE g = h
        BY <3>2, <4>1
      <4>2. CASE g # h
        <5>1. hooks'[g] = hooks[g] /\ hooks[g] \in HookRows
          BY <2>1, <2>3, <4>2 DEF HookBase
        <5>2. hooks[g].hits \in Seq(Lines)
          BY <5>1 DEF HookRows
        <5> QED BY <3>1, <5>1, <5>2 DEF Plausible
      <4> QED BY <4>1, <4>2
    <3>4. ASSUME NEW e \in Calls, deliveries'[e].pc = "log"
          PROVE  Fits(deliveries'[e].hits, logged'[deliveries'[e].id])
      <4>1. e # d /\ deliveries'[e] = deliveries[e]
        BY <2>1, <3>4 DEF HookBase
      <4>2. deliveries[e].hits \in Seq(Lines) /\ deliveries[e].id \in Hook
        BY <3>4, <4>1 DEF HookBase
      <4> QED BY <3>1, <3>4, <4>1, <4>2 DEF Plausible
    <3>5. ASSUME NEW s \in Savers, savers[s].pc # "idle"
          PROVE  Shape(savers[s].row) /\ Fits(savers[s].row.hits, logged'[savers[s].id])
      <4>1. savers[s].row.hits \in Seq(Lines) /\ savers[s].id \in Hook
        BY <3>5 DEF HookBase, HookRows
      <4> QED BY <3>1, <3>5, <4>1 DEF Plausible
    <3> QED BY <2>1, <3>3, <3>4, <3>5 DEF Plausible
  <2> QED BY <2>2, <2>3
<1>10. CASE UNCHANGED hookVars
  BY <1>10 DEF hookVars, Plausible
<1> QED BY <1>1, <1>2, <1>3, <1>4, <1>5, <1>6, <1>7, <1>8, <1>9, <1>10, Received, Launched,
           HitsRead DEF HooksNext

\* With nothing overlapping, whatever begins finds everything at rest.
LEMMA AloneStep ==
  ASSUME HookBase, ~jam, OneOperation, [HooksNext]_hookVars
  PROVE  OneOperation'
<1>0. \A s, t \in Savers : /\ savers[s].pc # "idle" /\ savers[t].pc # "idle" => s = t
  BY DEF OneOperation
<1>1. ASSUME NEW s \in Savers, AllAtRest \/ savers[s].pc # "idle",
             UNCHANGED deliveries,
             \A t \in Savers : t # s => savers'[t] = savers[t]
      PROVE  OneOperation'
  BY <1>1 DEF OneOperation, AllAtRest, CallAtRest
<1>2. ASSUME NEW d \in Calls, AllAtRest \/ ~CallAtRest(d), UNCHANGED savers,
             \A e \in Calls : e # d => deliveries'[e] = deliveries[e]
      PROVE  OneOperation'
  BY <1>2 DEF OneOperation, AllAtRest, CallAtRest
<1>3. ASSUME NEW s \in Savers, NEW h \in Hook, NEW row \in HookForms, BeginSaveHook(s, h, row)
      PROVE  OneOperation'
  <2>1. AllAtRest /\ UNCHANGED deliveries
    BY <1>3 DEF BeginSaveHook, Change
  <2>2. savers' = [savers EXCEPT ![s] = savers'[s]]
    BY <1>3, SaveBegun
  <2> QED BY <1>1, <2>1, <2>2 DEF HookBase
<1>4. ASSUME NEW s \in Savers, NEW h \in Hook, BeginMark(s, h) PROVE OneOperation'
  BY <1>1, <1>4 DEF BeginMark, Change, HookBase
<1>5. ASSUME NEW s \in Savers, ReadForSave(s) \/ SlugConflict(s) \/ SaveHook(s) \/ MarkFired(s)
      PROVE  OneOperation'
  <2>1. savers[s].pc # "idle" /\ UNCHANGED deliveries
    BY <1>5 DEF ReadForSave, SlugConflict, SaveHook, MarkFired
  <2>2. \A t \in Savers : t # s => savers'[t] = savers[t]
    BY <1>5 DEF ReadForSave, SlugConflict, SaveHook, MarkFired, HookBase
  <2> QED BY <1>1, <2>1, <2>2
<1>6. ASSUME NEW h \in Hook, DeleteHook(h) PROVE OneOperation'
  BY <1>6 DEF DeleteHook, OneOperation, CallAtRest
<1>7. ASSUME NEW d \in Calls, AllAtRest \/ ~CallAtRest(d),
             UNCHANGED <<jam, hooks, savers, changes, logged, meant>>,
             \E e \in Deliveries : DeliveryIs(d, e)
      PROVE  OneOperation'
  BY <1>2, <1>7 DEF DeliveryIs, HookBase
<1>8. ASSUME NEW d \in Calls, WriteHits(d) PROVE OneOperation'
  <2>1. deliveries[d].pc = "log" /\ UNCHANGED savers
        /\ deliveries' = [deliveries EXCEPT ![d] = deliveries'[d]]
    BY <1>8, HitsWritten
  <2>2. ~CallAtRest(d)
    BY <2>1 DEF CallAtRest
  <2> QED BY <1>2, <2>1, <2>2 DEF HookBase
<1>9. CASE UNCHANGED hookVars
  BY <1>9 DEF hookVars, OneOperation, CallAtRest
<1> QED BY <1>3, <1>4, <1>5, <1>6, <1>7, <1>8, <1>9, Received, Launched, HitsRead DEF HooksNext

LEMMA NeverMeantIs == NeverMeant.slug = "" /\ NeverMeant.secret = ""
BY WebhooksOK DEF NeverMeant

LEMMA TopZero == Top(0) = 0
<1>1. MaxHits \in Nat \ {0}
  BY WebhooksOK
<1> QED BY <1>1 DEF Top

LEMMA TruthAtRest ==
  /\ \A d \in Calls : CallAtRest(d) => TruthOfCall(d)
  /\ \A s \in Savers : savers[s].pc = "idle" => TruthOfSave(s)
BY DEF CallAtRest, TruthOfCall, TruthOfSave

\* What a save in hand stores: the log as it is, and the address and the
\* secret last given.
LEMMA ReadIsTrue ==
  ASSUME HookBase, Plausible, Truthful, NEW s \in Savers, NEW h, h = savers[s].id,
         ReadForSave(s)
  PROVE  TruthOfSave(s)'
<1> DEFINE w == savers[s]
           v == savers'[s]
           old == hooks[h]
<1>1. /\ w.pc = "read" /\ h \in Hook /\ v.pc = "write" /\ v.id = h
      /\ v.slug = w.slug /\ v.secret = w.secret
      /\ v.row = IF h \in Rows THEN RuntimeKept(w.row, old) ELSE w.row
  BY SaveRead
<1>2. UNCHANGED <<hooks, logged, meant>>
  BY DEF ReadForSave
<1>3. w.row \in HookRows /\ old \in HookRows
  BY <1>1 DEF HookBase
<1>4. /\ w.row.hits = << >>
      /\ w.row.kind = "webhook" => w.row.slug = Given(w.slug, KeptSlug(h))
                                   /\ w.row.auth.secret = w.secret
  BY <1>1 DEF Truthful, TruthOfSave
<1>5. Shape(w.row) /\ Shape(old) /\ (~old.there => old = NoHook)
  BY <1>1 DEF Plausible
<1>6. meant[h].secret = IF Public(h) THEN old.auth.secret ELSE ""
  BY <1>1 DEF Truthful, TruthOf
<1>7. v.row.kind = w.row.kind /\ v.row.slug = w.row.slug /\ v.row.hits = old.hits
  <2>1. CASE h \in Rows
    BY <1>1, <1>3, <2>1, RuntimeIsKept
  <2>2. CASE h \notin Rows
    BY <1>1, <1>4, <1>5, <2>2, NothingIs DEF Rows
  <2> QED BY <2>1, <2>2
<1>8. w.row.kind = "webhook" => v.row.auth.secret = Given(w.secret, meant[h].secret)
  <2> HAVE w.row.kind = "webhook"
  <2>1. CASE Public(h)
    <3>1. /\ v.row = RuntimeKept(w.row, old)
          /\ w.row.auth.method # "nil" /\ old.auth.method # "nil"
      BY <1>1, <1>5, <2>1 DEF Public, Shape
    <3>2. v.row.auth.secret = Given(w.row.auth.secret, old.auth.secret)
      BY <1>3, <3>1, RuntimeIsKept
    <3> QED BY <1>4, <1>6, <2>1, <3>2
  <2>2. CASE ~Public(h)
    <3>1. v.row.auth.secret = w.row.auth.secret
      <4>1. CASE h \in Rows
        <5>1. v.row = RuntimeKept(w.row, old) /\ old.auth.method = "nil"
          BY <1>1, <1>5, <2>2, <4>1 DEF Public, Shape
        <5> QED BY <1>3, <5>1, RuntimeIsKept
      <4>2. CASE h \notin Rows
        BY <1>1, <4>2
      <4> QED BY <4>1, <4>2
    <3> QED BY <1>4, <1>6, <2>2, <3>1 DEF Given
  <2> QED BY <2>1, <2>2
<1>9. KeptSlug(h)' = KeptSlug(h) /\ v.row.hits = hooks'[h].hits /\ meant'[h] = meant[h]
  BY <1>2, <1>7 DEF KeptSlug
<1> HIDE DEF old
<1> QED BY <1>1, <1>4, <1>7, <1>8, <1>9 DEF TruthOfSave, KeptSlug

LEMMA SavedIsTrue ==
  ASSUME HookBase, Plausible, Truthful, NEW s \in Savers, NEW h, h = savers[s].id,
         SaveHook(s)
  PROVE  TruthOf(h)'
<1> DEFINE w == savers[s]
           new == hooks'[h]
           told == meant'[h]
<1>1. /\ w.pc = "write" /\ h \in Hook /\ new \in HookRows
      /\ new.there /\ new.kind = w.row.kind /\ new.slug = w.row.slug
      /\ new.auth = w.row.auth /\ new.hits = w.row.hits
      /\ told.from = meant[h].from
      /\ w.row.kind = "schedule" => told.slug = "" /\ told.secret = ""
      /\ w.row.kind = "webhook" =>
           /\ told.slug = Given(w.slug, IF meant[h].slug = "" THEN w.row.slug ELSE meant[h].slug)
           /\ told.secret = Given(w.secret, meant[h].secret)
      /\ UNCHANGED logged
  BY HookWritten
<1>2. TruthOf(h) /\ TruthOfSave(s) /\ hooks[h] \in HookRows
  BY <1>1 DEF Truthful, HookBase
<1>3. new.hits = Newest(h)
  BY <1>1, <1>2 DEF TruthOf, TruthOfSave
<1>4. w.row.kind = "webhook" => told.slug = new.slug /\ told.secret = new.auth.secret
  <2> HAVE w.row.kind = "webhook"
  <2>1. w.row.slug = Given(w.slug, KeptSlug(h)) /\ w.row.auth.secret = Given(w.secret, meant[h].secret)
    BY <1>1, <1>2 DEF TruthOfSave
  <2>2. meant[h].slug # "" => hooks[h].slug = meant[h].slug
    BY <1>2 DEF TruthOf
  <2> QED BY <1>1, <2>1, <2>2, ZenonT(60) DEF Given, KeptSlug
<1>5. Newest(h)' = Newest(h)
  BY <1>1 DEF Newest
<1>6. Public(h)' <=> w.row.kind = "webhook"
  BY <1>1 DEF Public, Rows
<1>7. h \in Rows'
  BY <1>1 DEF Rows
<1>8. w.row.kind \in {"webhook", "schedule"}
  BY <1>1 DEF HookRows
<1>9. meant[h].from <= Len(logged[h])
  BY <1>2 DEF TruthOf
<1> QED BY <1>1, <1>3, <1>4, <1>5, <1>6, <1>7, <1>8, <1>9 DEF TruthOf

LEMMA WrittenIsTrue ==
  ASSUME HookBase, Plausible, Truthful, NEW d \in Calls, NEW h, h = deliveries[d].id,
         WriteHits(d)
  PROVE  TruthOf(h)'
<1> DEFINE line == [call |-> d, status |-> deliveries[d].status]
           own == Len(logged[h]) - meant[h].from
<1>1. deliveries[d].pc = "log" /\ h \in Hook /\ line \in Lines /\ meant' = meant
  BY HitsWritten
<1>2. h \in Rows /\ deliveries[d].hits = hooks[h].hits /\ TruthOf(h)
  BY <1>1 DEF Truthful, TruthOfCall
<1>3. /\ hooks'[h].hits = Prepended(line, deliveries[d].hits)
      /\ SameHook(hooks'[h], hooks[h])
      /\ logged' = [logged EXCEPT ![h] = <<line>> \o logged[h]]
  BY <1>2, HitsWritten
<1> HIDE DEF line
<1>4. /\ logged[h] \in Seq(Lines) /\ meant[h].from \in Nat /\ Len(logged[h]) \in Nat
      /\ meant[h].from <= Len(logged[h])
  <2>1. logged[h] \in Seq(Lines) /\ meant[h].from \in Nat
    BY <1>1 DEF HookBase
  <2> QED BY <1>2, <2>1, LenProperties DEF TruthOf
<1>5. logged'[h] = <<line>> \o logged[h] /\ Len(logged'[h]) = Len(logged[h]) + 1
  <2>1. logged'[h] = <<line>> \o logged[h]
    BY <1>1, <1>3 DEF HookBase
  <2>2. <<line>> \in Seq(Lines) /\ Len(<<line>>) = 1
    BY <1>1
  <2> QED BY <1>4, <2>1, <2>2, ConcatProperties
<1>6. own \in 0..Len(logged[h]) /\ Len(logged'[h]) - meant'[h].from = own + 1
  BY <1>1, <1>4, <1>5, SMTT(60)
<1>7. hooks'[h].hits = Prepended(line, SubSeq(logged[h], 1, Top(own)))
  BY <1>2, <1>3 DEF TruthOf, Newest
<1> HIDE DEF own
<1>8. hooks'[h].hits = SubSeq(<<line>> \o logged[h], 1, Top(own + 1))
  BY <1>1, <1>4, <1>6, <1>7, WebhooksOK, NewestPrepended
<1>9. hooks'[h].hits = Newest(h)'
  BY <1>5, <1>6, <1>8 DEF Newest, Top
<1>10. h \in Rows' /\ Public(h)' = Public(h)
  BY <1>1, <1>2, <1>3 DEF Rows, Public, SameHook
<1>11. meant'[h].from <= Len(logged'[h])
  BY <1>1, <1>4, <1>5
<1> QED BY <1>1, <1>2, <1>3, <1>9, <1>10, <1>11 DEF TruthOf, SameHook

LEMMA TruthStep ==
  ASSUME HookBase, Plausible, ~jam, OneOperation, Truthful, [HooksNext]_hookVars
  PROVE  Truthful'
<1>0. OneOperation' /\ HookBase'
  BY AloneStep, BaseStep
<1> DEFINE Resting(d) == deliveries'[d].pc \in {"waits", "over"}
\* What stands when only one operation may be under way after the step.
<1>1. ASSUME NEW s \in Savers, savers'[s].pc # "idle", TruthOfSave(s)',
             UNCHANGED <<hooks, logged, meant>>
      PROVE  Truthful'
  <2>1. \A h \in Hook : TruthOf(h)'
    BY <1>1 DEF Truthful, TruthOf, Newest, Public, Rows
  <2>2. \A d \in Calls : TruthOfCall(d)'
    BY <1>0, <1>1 DEF OneOperation, CallAtRest, TruthOfCall
  <2>3. \A t \in Savers : TruthOfSave(t)'
    <3>1. ASSUME NEW t \in Savers, t # s PROVE savers'[t].pc = "idle"
      BY <1>0, <1>1, <3>1 DEF OneOperation
    <3> QED BY <1>1, <3>1 DEF TruthOfSave
  <2> QED BY <2>1, <2>2, <2>3 DEF Truthful
<1>2. ASSUME \A d \in Calls : Resting(d), \A s \in Savers : savers'[s].pc = "idle",
             \A h \in Hook : TruthOf(h)'
      PROVE  Truthful'
  BY <1>2 DEF Truthful, TruthOfCall, TruthOfSave
<1>3. ASSUME NEW s \in Savers, savers[s].pc # "idle", savers' = [savers EXCEPT ![s] = NoSaver],
             UNCHANGED deliveries
      PROVE  (\A d \in Calls : Resting(d)) /\ (\A t \in Savers : savers'[t].pc = "idle")
  BY <1>3, NothingIs DEF OneOperation, CallAtRest, HookBase
<1>4. ASSUME NEW h \in Hook, UNCHANGED <<logged, meant>>, hooks'[h] = hooks[h]
      PROVE  TruthOf(h)'
  BY <1>4 DEF Truthful, TruthOf, Newest, Public, Rows
<1>5. ASSUME NEW s \in Savers, NEW h \in Hook, NEW row \in HookForms, BeginSaveHook(s, h, row)
      PROVE  Truthful'
  <2>1. UNCHANGED <<hooks, logged, meant>>
    BY <1>5 DEF BeginSaveHook
  <2>2. /\ savers'[s].pc = "read" /\ savers'[s].id = h /\ savers'[s].row.hits = << >>
        /\ savers'[s].row.kind = "webhook" =>
             /\ savers'[s].row.slug = Given(savers'[s].slug, KeptSlug(h))
             /\ savers'[s].row.auth.secret = savers'[s].secret
    BY <1>5, SaveBegun
  <2>3. TruthOfSave(s)'
    BY <2>1, <2>2 DEF TruthOfSave, KeptSlug
  <2> QED BY <1>1, <2>1, <2>2, <2>3
<1>6. ASSUME NEW s \in Savers, NEW h \in Hook, BeginMark(s, h) PROVE Truthful'
  <2>1. UNCHANGED <<hooks, logged, meant>> /\ savers' = [savers EXCEPT ![s] = MarkOf(h)]
    BY <1>6 DEF BeginMark, MarkOf
  <2>2. savers'[s].pc = "mark" /\ savers'[s].id = h /\ savers'[s].row = hooks[h]
    BY <2>1, MarkIs DEF HookBase
  <2>3. TruthOfSave(s)'
    BY <2>1, <2>2 DEF TruthOfSave
  <2> QED BY <1>1, <2>1, <2>2, <2>3
<1>7. ASSUME NEW s \in Savers, ReadForSave(s) PROVE Truthful'
  <2>1. UNCHANGED <<hooks, logged, meant>>
    BY <1>7 DEF ReadForSave
  <2>2. savers'[s].pc = "write"
    BY <1>7, SaveRead
  <2>3. TruthOfSave(s)'
    BY <1>7, ReadIsTrue
  <2> QED BY <1>1, <2>1, <2>2, <2>3
<1>8. ASSUME NEW s \in Savers, SlugConflict(s) PROVE Truthful'
  <2>1. /\ UNCHANGED <<hooks, deliveries, logged, meant>>
        /\ savers[s].pc # "idle" /\ savers' = [savers EXCEPT ![s] = NoSaver]
    BY <1>8 DEF SlugConflict
  <2> QED BY <1>2, <1>3, <1>4, <2>1
<1>9. ASSUME NEW s \in Savers, SaveHook(s) PROVE Truthful'
  <2> DEFINE h == savers[s].id
  <2>1. /\ savers[s].pc # "idle" /\ savers' = [savers EXCEPT ![s] = NoSaver]
        /\ UNCHANGED <<deliveries, logged>> /\ h \in Hook
        /\ hooks' = [hooks EXCEPT ![h] = hooks'[h]]
        /\ meant' = [meant EXCEPT ![h] = meant'[h]]
    BY <1>9, HookWritten
  <2>2. ASSUME NEW g \in Hook, g # h PROVE TruthOf(g)'
    <3>1. hooks'[g] = hooks[g] /\ meant'[g] = meant[g] /\ logged' = logged
      BY <2>1, <2>2 DEF HookBase
    <3> QED BY <3>1 DEF Truthful, TruthOf, Newest, Public, Rows
  <2>3. ASSUME NEW g \in Hook, g = h PROVE TruthOf(g)'
    BY <1>9, <2>3, SavedIsTrue
  <2>4. \A g \in Hook : TruthOf(g)'
    BY <2>2, <2>3
  <2> QED BY <1>2, <1>3, <2>1, <2>4
<1>10. ASSUME NEW s \in Savers, MarkFired(s) PROVE Truthful'
  <2> DEFINE h == savers[s].id
  <2>1. /\ savers[s].pc = "mark" /\ savers' = [savers EXCEPT ![s] = NoSaver]
        /\ h \in Hook /\ UNCHANGED <<deliveries, logged, meant>>
        /\ h \notin Rows => hooks' = hooks
        /\ h \in Rows => /\ hooks' = [hooks EXCEPT ![h] = hooks'[h]]
                         /\ hooks'[h].hits = savers[s].row.hits
                         /\ SameHook(hooks'[h], hooks[h])
    BY <1>10, HooksMarked DEF MarkFired
  <2>2. savers[s].row.hits = hooks[h].hits
    BY <2>1 DEF Truthful, TruthOfSave
  <2>3. ASSUME NEW g \in Hook PROVE TruthOf(g)'
    <3>1. CASE h \in Rows /\ g = h
      <4>1. hooks'[g].hits = hooks[g].hits /\ SameHook(hooks'[g], hooks[g])
        BY <2>1, <2>2, <3>1
      <4>2. UNCHANGED <<logged, meant>>
        BY <2>1
      <4> QED BY <4>1, <4>2 DEF Truthful, TruthOf, Newest, Public, Rows, SameHook
    <3>2. CASE ~(h \in Rows /\ g = h)
      <4>1. hooks'[g] = hooks[g]
        BY <2>1, <3>2 DEF HookBase
      <4> QED BY <1>4, <2>1, <4>1
    <3> QED BY <3>1, <3>2
  <2> QED BY <1>2, <1>3, <2>1, <2>3
<1>11. ASSUME NEW h \in Hook, DeleteHook(h) PROVE Truthful'
  <2>1. /\ AllAtRest /\ UNCHANGED <<deliveries, savers, logged>>
        /\ hooks' = [hooks EXCEPT ![h] = NoHook]
        /\ meant' = [meant EXCEPT ![h] = [NeverMeant EXCEPT !.from = Len(logged[h])]]
    BY <1>11 DEF DeleteHook, Change
  <2>2. hooks'[h] = NoHook /\ meant'[h] = [NeverMeant EXCEPT !.from = Len(logged[h])]
    BY <2>1 DEF HookBase
  <2>3. meant'[h].from = Len(logged[h])
    BY <2>2 DEF NeverMeant
  <2>a. meant'[h].slug = "" /\ meant'[h].secret = ""
    BY <2>2 DEF NeverMeant
  <2>4. Newest(h)' = << >>
    <3>1. Len(logged'[h]) - meant'[h].from = 0 /\ Top(0) = 0
      <4>1. Len(logged[h]) \in Nat
        BY LenProperties DEF HookBase
      <4> QED BY <2>1, <2>3, <4>1, TopZero
    <3>2. Newest(h)' = SubSeq(logged'[h], 1, 0)
      BY <3>1 DEF Newest, Top
    <3> QED BY <3>2, SubSeqEmpty
  <2>5. TruthOf(h)'
    <3>1. h \notin Rows' /\ ~Public(h)' /\ hooks'[h].hits = << >>
      BY <2>2, NothingIs DEF Rows, Public
    <3>2. Len(logged[h]) \in Nat
      BY LenProperties DEF HookBase
    <3>3. meant'[h].from <= Len(logged'[h]) /\ meant'[h].from = Len(logged'[h])
      BY <2>1, <2>3, <3>2
    <3> QED BY <2>a, <2>4, <3>1, <3>3, Zenon DEF TruthOf
  <2>6. ASSUME NEW g \in Hook, g # h PROVE TruthOf(g)'
    <3>1. hooks'[g] = hooks[g] /\ meant'[g] = meant[g] /\ logged' = logged
      BY <2>1, <2>6 DEF HookBase
    <3> QED BY <3>1 DEF Truthful, TruthOf, Newest, Public, Rows
  <2>7. \A g \in Hook : TruthOf(g)'
    BY <2>5, <2>6
  <2> QED BY <1>2, <2>1, <2>7 DEF AllAtRest, CallAtRest
<1>12. ASSUME NEW d \in Calls, UNCHANGED <<jam, hooks, savers, changes, logged, meant>>,
              AllAtRest \/ ~CallAtRest(d), \E e \in Deliveries : DeliveryIs(d, e)
       PROVE  Truthful'
  <2>1. PICK e \in Deliveries : DeliveryIs(d, e)
    BY <1>12
  <2>2. deliveries' = [deliveries EXCEPT ![d] = e] /\ deliveries'[d] = e
    BY <2>1 DEF DeliveryIs, HookBase
  <2>3. TruthOfCall(d)'
    BY <1>12, <2>1, <2>2 DEF DeliveryIs, TruthOfCall, Rows
  <2>4. \A c \in Calls : TruthOfCall(c)'
    <3>1. ASSUME NEW c \in Calls, c # d PROVE TruthOfCall(c)'
      <4>1. deliveries'[c] = deliveries[c] /\ TruthOfCall(c)
        BY <2>2, <3>1 DEF HookBase, Truthful
      <4> QED BY <1>12, <4>1 DEF TruthOfCall, Rows
    <3> QED BY <2>3, <3>1
  <2>5. \A s \in Savers : TruthOfSave(s)'
    BY <1>12 DEF Truthful, TruthOfSave, KeptSlug
  <2>6. \A h \in Hook : TruthOf(h)'
    BY <1>4, <1>12
  <2> QED BY <2>4, <2>5, <2>6 DEF Truthful
<1>13. ASSUME NEW d \in Calls, WriteHits(d) PROVE Truthful'
  <2> DEFINE h == deliveries[d].id
  <2>1. /\ deliveries[d].pc = "log" /\ h \in Hook
        /\ h \in Rows => /\ hooks' = [hooks EXCEPT ![h] = hooks'[h]]
                         /\ logged' = [logged EXCEPT ![h] = logged'[h]]
        /\ deliveries' = [deliveries EXCEPT ![d] = deliveries'[d]]
        /\ deliveries'[d].pc = "over"
        /\ UNCHANGED <<savers, meant>>
    <3>1. /\ h \in Hook
          /\ h \in Rows => logged' = [logged EXCEPT ![h] =
                             <<[call |-> d, status |-> deliveries[d].status]>> \o logged[h]]
      BY <1>13, HitsWritten
    <3>2. h \in Rows => logged' = [logged EXCEPT ![h] = logged'[h]]
      BY <3>1 DEF HookBase
    <3> QED BY <1>13, <3>2, HitsWritten
  <2>2. h \in Rows
    BY <2>1 DEF Truthful, TruthOfCall
  <2>3. (\A c \in Calls : Resting(c)) /\ (\A s \in Savers : savers'[s].pc = "idle")
    BY <2>1 DEF OneOperation, CallAtRest, HookBase
  <2>4. ASSUME NEW g \in Hook, g # h PROVE TruthOf(g)'
    <3>1. hooks'[g] = hooks[g] /\ meant'[g] = meant[g] /\ logged'[g] = logged[g]
      BY <2>1, <2>2, <2>4 DEF HookBase
    <3> QED BY <3>1 DEF Truthful, TruthOf, Newest, Public, Rows
  <2>5. ASSUME NEW g \in Hook, g = h PROVE TruthOf(g)'
    BY <1>13, <2>5, WrittenIsTrue
  <2>6. \A g \in Hook : TruthOf(g)'
    BY <2>4, <2>5
  <2> QED BY <1>2, <2>3, <2>6
<1>14. CASE UNCHANGED hookVars
  BY <1>14 DEF hookVars, Truthful, TruthOf, TruthOfCall, TruthOfSave, Newest, Public, Rows, KeptSlug
<1> QED BY <1>5, <1>6, <1>7, <1>8, <1>9, <1>10, <1>11, <1>12, <1>13, <1>14, Received, Launched,
           HitsRead DEF HooksNext

-----------------------------------------------------------------------------
LEMMA WebhooksInitial ==
  ASSUME HooksInit
  PROVE  HooksInv
<1>1. /\ jam \in BOOLEAN /\ hooks = [h \in Hook |-> NoHook]
      /\ deliveries = [d \in Calls |-> NoDelivery] /\ savers = [s \in Savers |-> NoSaver]
      /\ changes = 0 /\ logged = [h \in Hook |-> << >>] /\ meant = [h \in Hook |-> NeverMeant]
  BY WebhooksOK DEF HooksInit
<1>2. MaxEdits[jam] \in Nat /\ << >> \in Seq(Lines) /\ Len(<< >>) = 0
  BY <1>1, WebhooksOK, EmptySeq
<1>3. HookBase
  BY <1>1, <1>2, NothingIs DEF HookBase, Deliveries, Saves
<1>4. Plausible
  BY <1>1, <1>2, FitsEmpty, NothingIs DEF Plausible
<1>5. OneOperation
  BY <1>1, NothingIs DEF OneOperation, CallAtRest
<1>6. Truthful
  <2>1. ASSUME NEW h \in Hook PROVE TruthOf(h)
    <3>1. hooks[h] = NoHook /\ meant[h] = NeverMeant /\ logged[h] = << >>
      BY <1>1
    <3>2. Top(0) = 0
      BY TopZero
    <3>3. Len(logged[h]) - meant[h].from = 0 /\ meant[h].from = 0 /\ Len(logged[h]) = 0
      BY <1>2, <3>1, NothingIs
    <3>4. Newest(h) = SubSeq(<< >>, 1, 0)
      BY <3>1, <3>2, <3>3 DEF Newest
    <3>5. Newest(h) = << >>
      BY <3>4, SubSeqEmpty
    <3>6. h \notin Rows /\ ~Public(h)
      BY <3>1, NothingIs DEF Rows, Public
    <3>7. meant[h].from <= Len(logged[h]) /\ meant[h].from = Len(logged[h])
          /\ hooks[h].hits = << >>
      BY <3>1, <3>3, NothingIs
    <3>8. meant[h].slug = "" /\ meant[h].secret = ""
      <4>1. meant[h] = NeverMeant
        BY <3>1
      <4> QED BY <4>1, NeverMeantIs, Zenon
    <3> QED BY <3>5, <3>6, <3>7, <3>8, Zenon DEF TruthOf
  <2> QED BY <1>1, <2>1, NothingIs DEF Truthful, TruthOfCall, TruthOfSave
<1> QED BY <1>3, <1>4, <1>5, <1>6 DEF HooksInv

LEMMA WebhooksStep ==
  ASSUME HooksInv, [HooksNext]_hookVars
  PROVE  HooksInv'
<1>1. jam' = jam
  BY DEF HooksNext, hookVars, BeginSaveHook, BeginMark, ReadForSave, SlugConflict, SaveHook,
         MarkFired, DeleteHook, Receive, LaunchHook, ReadHits, WriteHits
<1>2. HookBase' /\ Plausible'
  BY BaseStep, PlausibleStep DEF HooksInv
<1>3. ~jam => OneOperation' /\ Truthful'
  BY AloneStep, TruthStep DEF HooksInv
<1> QED BY <1>1, <1>2, <1>3 DEF HooksInv

LEMMA WebhooksShown ==
  ASSUME HooksInv
  PROVE  HooksTypeOK /\ LogIsTrue /\ AddressSurvives
<1>1. HookBase /\ Plausible
  BY DEF HooksInv
<1>2. HooksTypeOK
  <2>1. \A h \in Hook : hooks[h] \in HookRows /\ Len(hooks[h].hits) <= MaxHits
                        /\ (~hooks[h].there => hooks[h] = NoHook)
    BY <1>1 DEF HookBase, Plausible, Fits
  <2>2. \A h \in Hook : /\ hooks[h].kind \in {"webhook", "schedule"}
                        /\ hooks[h].slug \in Slug \cup Hook
                        /\ hooks[h].auth.secret \in Secret
    BY <2>1 DEF HookRows
  <2>3. /\ \A d \in Calls : deliveries[d].pc \in {"waits", "launch", "hit", "log", "over"}
        /\ \A s \in Savers : savers[s].pc \in {"idle", "read", "write", "mark"}
        /\ changes \in 0..MaxEdits[jam]
    BY <1>1 DEF HookBase
  <2> QED BY <2>1, <2>2, <2>3 DEF HooksTypeOK
<1>3. LogIsTrue
  <2> SUFFICES ASSUME NEW h \in Rows
               PROVE  /\ ~jam => hooks[h].hits = Newest(h)
                      /\ Excerpt(hooks[h].hits, logged[h])
    BY DEF LogIsTrue, Newest, Top, Excerpt
  <2>1. h \in Hook
    BY DEF Rows
  <2> QED BY <1>1, <2>1 DEF HooksInv, Truthful, TruthOf, Plausible, Fits
<1>4. AddressSurvives
  BY DEF AddressSurvives, HooksInv, Truthful, TruthOf, Public, Rows
<1> QED BY <1>2, <1>3, <1>4

\* The delivery log of a hook never repeats or reorders a line, and where nothing
\* overlaps it is the newest lines; its slug and secret outlive the saves that
\* leave them blank.
THEOREM WebhooksKept == TSpec => []WebhooksHold
<1> DEFINE Inv == scene = "webhooks" => HooksInv
<1>1. TInit => Inv BY ScenesOpen, WebhooksInitial
<1>2. Inv /\ [TNext]_tvars => Inv' BY ScenesApart, WebhooksStep
<1>3. Inv => WebhooksHold BY WebhooksShown DEF WebhooksHold
<1> QED BY <1>1, <1>2, <1>3, PTL DEF TSpec

-----------------------------------------------------------------------------
(* DocPaths.                                                                  *)

LEMMA StrictPrefixMeans ==
  ASSUME NEW S, NEW s \in Seq(S), NEW t \in Seq(S)
  PROVE  IsStrictPrefix(s, t) <=> Len(s) < Len(t) /\ \A i \in 1..Len(s) : s[i] = t[i]
<1>1. Len(s) \in Nat /\ Len(t) \in Nat
  BY LenProperties
<1>2. SubSeq(s, 1, Len(s)) = s /\ SubSeq(t, 1, Len(t)) = t
  BY SubSeqFull
<1>3. ASSUME Len(s) <= Len(t)
      PROVE  /\ SubSeq(t, 1, Len(s)) \in Seq(S)
             /\ Len(SubSeq(t, 1, Len(s))) = Len(s)
             /\ \A i \in 1..Len(s) : SubSeq(t, 1, Len(s))[i] = t[i]
  <2>1. \A i \in 1..Len(s) : t[i] \in S
    BY <1>1, <1>3, ElementOfSeq
  <2>2. 1 \in Int /\ Len(s) \in Int
    BY <1>1
  <2>3. /\ SubSeq(t, 1, Len(s)) \in Seq(S)
        /\ Len(SubSeq(t, 1, Len(s))) = IF 1 <= Len(s) THEN Len(s) - 1 + 1 ELSE 0
        /\ \A i \in 1..Len(s) - 1 + 1 : SubSeq(t, 1, Len(s))[i] = t[1 + i - 1]
    BY <2>1, <2>2, SubSeqProperties
  <2> QED BY <1>1, <2>3
<1>4. ASSUME IsStrictPrefix(s, t)
      PROVE  Len(s) < Len(t) /\ \A i \in 1..Len(s) : s[i] = t[i]
  <2>1. Len(s) <= Len(t) /\ s = SubSeq(t, 1, Len(s)) /\ s # t
    BY <1>2, <1>4 DEF IsStrictPrefix, IsPrefix
  <2>2. Len(s) # Len(t)
    BY <1>2, <2>1
  <2> QED BY <1>1, <1>3, <2>1, <2>2
<1>5. ASSUME Len(s) < Len(t), \A i \in 1..Len(s) : s[i] = t[i]
      PROVE  IsStrictPrefix(s, t)
  <2>1. Len(s) <= Len(t) /\ s # t
    BY <1>1, <1>5
  <2>2. s = SubSeq(t, 1, Len(s))
    <3> DEFINE u == SubSeq(t, 1, Len(s))
    <3>1. u \in Seq(S) /\ Len(s) = Len(u) /\ \A i \in 1..Len(s) : s[i] = u[i]
      BY <1>3, <1>5, <2>1
    <3> HIDE DEF u
    <3>2. s = u
      BY <3>1, SeqEqual
    <3> QED BY <3>2 DEF u
  <2> QED BY <1>2, <2>1, <2>2 DEF IsStrictPrefix, IsPrefix
<1> QED BY <1>4, <1>5

\* What stands beneath a place, and what is left of its path there.
LEMMA PathsBeneath ==
  ASSUME NEW S, NEW place \in Seq(S), NEW q \in Seq(S), q # << >>
  PROVE  /\ place \o q \in Seq(S)
         /\ place \o q # << >>
         /\ place \o q # place
         /\ IsStrictPrefix(place, place \o q)
         /\ SubSeq(place \o q, Len(place) + 1, Len(place \o q)) = q
<1> DEFINE p == place \o q
<1>1. Len(place) \in Nat /\ Len(q) \in Nat \ {0}
  BY LenProperties, EmptySeq
<1>2. /\ p \in Seq(S)
      /\ Len(p) = Len(place) + Len(q)
      /\ \A i \in 1..Len(place) + Len(q) : p[i] = IF i <= Len(place) THEN place[i] ELSE q[i - Len(place)]
  BY ConcatProperties
<1> HIDE DEF p
<1>3. p # << >> /\ p # place
  BY <1>1, <1>2, EmptySeq
<1>4. IsStrictPrefix(place, p)
  BY <1>1, <1>2, StrictPrefixMeans
<1>5. SubSeq(p, Len(place) + 1, Len(p)) = q
  <2> DEFINE m == Len(place) + 1
             n == Len(p)
             r == SubSeq(p, m, n)
  <2>1. m \in Int /\ n \in Int /\ \A i \in m..n : p[i] \in S
    BY <1>1, <1>2, ElementOfSeq
  <2> HIDE DEF m, n
  <2>2. /\ r \in Seq(S)
        /\ Len(r) = IF m <= n THEN n - m + 1 ELSE 0
        /\ \A i \in 1..n - m + 1 : r[i] = p[m + i - 1]
    BY <2>1, SubSeqProperties
  <2> HIDE DEF r
  <2>3. Len(r) = Len(q)
    BY <1>1, <1>2, <2>2 DEF m, n
  <2>4. ASSUME NEW i \in 1..Len(q)
        PROVE  r[i] = q[i]
    <3>1. r[i] = p[Len(place) + i]
      BY <1>1, <1>2, <2>2 DEF m, n
    <3>2. Len(place) + i \in 1..Len(place) + Len(q) /\ ~(Len(place) + i <= Len(place))
          /\ Len(place) + i - Len(place) = i
      BY <1>1
    <3>3. p[Len(place) + i] = q[Len(place) + i - Len(place)]
      BY <1>2, <3>2
    <3> QED BY <3>1, <3>2, <3>3
  <2>5. r = q
    BY <2>2, <2>3, <2>4, SeqEqual
  <2> QED BY <2>5 DEF r, m, n
<1> QED BY <1>2, <1>3, <1>4, <1>5 DEF p

LEMMA PathSplits ==
  ASSUME NEW S, NEW place \in Seq(S), NEW p \in Seq(S), IsStrictPrefix(place, p)
  PROVE  /\ SubSeq(p, Len(place) + 1, Len(p)) \in Seq(S)
         /\ SubSeq(p, Len(place) + 1, Len(p)) # << >>
         /\ p = place \o SubSeq(p, Len(place) + 1, Len(p))
<1> DEFINE m == Len(place) + 1
           n == Len(p)
           r == SubSeq(p, m, n)
<1>1. /\ Len(place) \in Nat /\ Len(p) \in Nat /\ Len(place) < Len(p)
      /\ \A i \in 1..Len(place) : place[i] = p[i]
  BY LenProperties, StrictPrefixMeans
<1>2. m \in Int /\ n \in Int /\ \A i \in m..n : p[i] \in S
  BY <1>1, ElementOfSeq
<1> HIDE DEF m, n
<1>3. /\ r \in Seq(S)
      /\ Len(r) = IF m <= n THEN n - m + 1 ELSE 0
      /\ \A i \in 1..n - m + 1 : r[i] = p[m + i - 1]
  BY <1>2, SubSeqProperties
<1> HIDE DEF r
<1>4. Len(r) = Len(p) - Len(place) /\ \A i \in 1..Len(r) : r[i] = p[Len(place) + i]
  BY <1>1, <1>3 DEF m, n
<1>5. r # << >>
  BY <1>1, <1>4, EmptySeq
<1>6. /\ place \o r \in Seq(S)
      /\ Len(place \o r) = Len(place) + Len(r)
      /\ \A i \in 1..Len(place) + Len(r) :
           (place \o r)[i] = IF i <= Len(place) THEN place[i] ELSE r[i - Len(place)]
  BY <1>3, ConcatProperties
<1>7. p = place \o r
  <2> DEFINE c == place \o r
  <2> HIDE DEF c
  <2>1. c \in Seq(S) /\ Len(p) = Len(c)
    BY <1>1, <1>4, <1>6 DEF c
  <2>2. \A i \in 1..Len(p) : p[i] = c[i]
    BY <1>1, <1>4, <1>6, SMTT(60) DEF c
  <2>3. p = c
    BY <2>1, <2>2, SeqEqual
  <2> QED BY <2>3 DEF c
<1> QED BY <1>3, <1>5, <1>7 DEF r, m, n

\* Two paths beneath one place stand to each other as what is left of them.
LEMMA BeneathAlike ==
  ASSUME NEW S, NEW place \in Seq(S), NEW p \in Seq(S), NEW q \in Seq(S),
         IsStrictPrefix(place \o p, place \o q)
  PROVE  IsStrictPrefix(p, q)
<1>1. Len(place) \in Nat /\ Len(p) \in Nat /\ Len(q) \in Nat
  BY LenProperties
<1>2. /\ place \o p \in Seq(S)
      /\ Len(place \o p) = Len(place) + Len(p)
      /\ \A i \in 1..Len(place) + Len(p) :
           (place \o p)[i] = IF i <= Len(place) THEN place[i] ELSE p[i - Len(place)]
  BY ConcatProperties
<1>3. /\ place \o q \in Seq(S)
      /\ Len(place \o q) = Len(place) + Len(q)
      /\ \A i \in 1..Len(place) + Len(q) :
           (place \o q)[i] = IF i <= Len(place) THEN place[i] ELSE q[i - Len(place)]
  BY ConcatProperties
<1> DEFINE a == place \o p
           b == place \o q
<1> HIDE DEF a, b
<1>4. Len(a) < Len(b) /\ \A i \in 1..Len(a) : a[i] = b[i]
  BY <1>2, <1>3, StrictPrefixMeans, ZenonT(60) DEF a, b
<1>5. Len(p) < Len(q)
  BY <1>1, <1>2, <1>3, <1>4 DEF a, b
<1>6. ASSUME NEW i \in 1..Len(p)
      PROVE  p[i] = q[i]
  <2>1. Len(place) + i \in 1..Len(a) /\ Len(place) + i \in 1..Len(b)
    BY <1>1, <1>2, <1>3, <1>5 DEF a, b
  <2>2. a[Len(place) + i] = p[i] /\ b[Len(place) + i] = q[i]
    BY <1>1, <1>2, <1>3, <1>5, <2>1 DEF a, b
  <2> QED BY <1>4, <2>1, <2>2
<1> QED BY <1>5, <1>6, StrictPrefixMeans

LEMMA HeadOf ==
  ASSUME NEW S, NEW p \in Seq(S), p # << >>
  PROVE  Head(p) = p[1] /\ 1 \in 1..Len(p)
<1>1. Len(p) \in Nat \ {0} /\ 1 \in 1..Len(p) /\ Len(p) \in 1..Len(p)
  BY EmptySeq
<1>2. Head(SubSeq(p, 1, Len(p))) = p[1]
  BY <1>1, HeadTailOfSubSeq
<1>3. SubSeq(p, 1, Len(p)) = p
  BY SubSeqFull
<1> QED BY <1>1, <1>2, <1>3

LEMMA PrefixSharesHead ==
  ASSUME NEW S, NEW p \in Seq(S), NEW q \in Seq(S), p # << >>, q # << >>, IsStrictPrefix(p, q)
  PROVE  Head(p) = Head(q)
<1>1. \A i \in 1..Len(p) : p[i] = q[i]
  BY StrictPrefixMeans
<1> QED BY <1>1, HeadOf

\* Of two paths that lead to the same end one leads through the other's start.
LEMMA PrefixesMeet ==
  ASSUME NEW S, NEW p \in Seq(S), NEW place \in Seq(S), NEW r \in Seq(S),
         IsStrictPrefix(p, r), IsStrictPrefix(place, r)
  PROVE  IsStrictPrefix(p, place) \/ p = place \/ IsStrictPrefix(place, p)
<1>1. Len(p) \in Nat /\ Len(place) \in Nat /\ Len(r) \in Nat
  BY LenProperties
<1>2. /\ Len(p) < Len(r) /\ \A i \in 1..Len(p) : p[i] = r[i]
      /\ Len(place) < Len(r) /\ \A i \in 1..Len(place) : place[i] = r[i]
  BY StrictPrefixMeans
<1>3. CASE Len(p) < Len(place)
  <2>1. \A i \in 1..Len(p) : p[i] = place[i] BY <1>1, <1>2, <1>3
  <2> QED BY <1>3, <2>1, StrictPrefixMeans
<1>4. CASE Len(p) = Len(place)
  <2>1. \A i \in 1..Len(p) : p[i] = place[i] BY <1>1, <1>2, <1>4
  <2> QED BY <1>4, <2>1, SeqEqual
<1>5. CASE Len(place) < Len(p)
  <2>1. \A i \in 1..Len(place) : place[i] = p[i] BY <1>1, <1>2, <1>5
  <2> QED BY <1>5, <2>1, StrictPrefixMeans
<1> QED BY <1>1, <1>3, <1>4, <1>5

LEMMA PrefixGoesOn ==
  ASSUME NEW S, NEW p \in Seq(S), NEW q \in Seq(S), NEW r \in Seq(S),
         IsStrictPrefix(p, q), IsStrictPrefix(q, r)
  PROVE  IsStrictPrefix(p, r)
<1>1. Len(p) \in Nat /\ Len(q) \in Nat /\ Len(r) \in Nat
  BY LenProperties
<1>2. /\ Len(p) < Len(q) /\ \A i \in 1..Len(p) : p[i] = q[i]
      /\ Len(q) < Len(r) /\ \A i \in 1..Len(q) : q[i] = r[i]
  BY StrictPrefixMeans
<1>3. Len(p) < Len(r) /\ \A i \in 1..Len(p) : p[i] = r[i]
  BY <1>1, <1>2
<1> QED BY <1>3, StrictPrefixMeans

-----------------------------------------------------------------------------
(* What is at a place, merged over, and written there.                     *)

DocPaths == Seq(STRING) \ {<< >>}

LEMMA EmptyIsTree ==
  /\ Tree(Empty)
  /\ DOMAIN Empty = {}
  /\ \A doc : Tree(doc) /\ DOMAIN doc = {} => doc = Empty
<1>1. DOMAIN << >> = {} /\ << >> = [p \in {} |-> << >>[p]]
  OBVIOUS
<1>2. Tree(<< >>)
  BY <1>1 DEF Tree
<1>3. ASSUME NEW doc, Tree(doc), DOMAIN doc = {}
      PROVE  doc = << >>
  <2>1. doc = [p \in {} |-> doc[p]]
    BY <1>3 DEF Tree
  <2>2. [p \in {} |-> doc[p]] = << >>
    OBVIOUS
  <2> QED BY <2>1, <2>2
<1> QED BY <1>1, <1>2, <1>3 DEF Empty

\* The members at a place are those of the document under it.
LEMMA WhatIsAt ==
  ASSUME NEW doc, DOMAIN doc \subseteq DocPaths, NEW place \in Seq(STRING)
  PROVE  /\ At(doc, place) = [q \in DOMAIN At(doc, place) |-> At(doc, place)[q]]
         /\ DOMAIN At(doc, place) = {q \in DocPaths : place \o q \in DOMAIN doc}
         /\ \A q \in DOMAIN At(doc, place) : At(doc, place)[q] = doc[place \o q]
<1> DEFINE rest(p) == SubSeq(p, Len(place) + 1, Len(p))
           below == {rest(p) : p \in Under(doc, place)}
<1>1. At(doc, place) = [q \in below |-> doc[place \o q]]
  BY DEF At
<1>2. below = {q \in DocPaths : place \o q \in DOMAIN doc}
  <2>1. ASSUME NEW p \in Under(doc, place)
        PROVE  rest(p) \in DocPaths /\ place \o rest(p) \in DOMAIN doc
    <3>1. p \in DOMAIN doc /\ p \in Seq(STRING) /\ IsStrictPrefix(place, p)
      BY DEF Under, DocPaths
    <3>2. rest(p) \in Seq(STRING) /\ rest(p) # << >> /\ p = place \o rest(p)
      BY <3>1, PathSplits
    <3> QED BY <3>1, <3>2 DEF DocPaths
  <2>2. ASSUME NEW q \in DocPaths, place \o q \in DOMAIN doc
        PROVE  \E p \in Under(doc, place) : q = rest(p)
    <3>1. q \in Seq(STRING) /\ q # << >>
      BY DEF DocPaths
    <3>2. IsStrictPrefix(place, place \o q) /\ rest(place \o q) = q
      BY <3>1, PathsBeneath
    <3>3. place \o q \in Under(doc, place)
      BY <2>2, <3>2 DEF Under
    <3> QED BY <3>2, <3>3
  <2> HIDE DEF rest
  <2> QED BY <2>1, <2>2
<1> HIDE DEF below
<1> QED BY <1>1, <1>2

LEMMA OverAll ==
  ASSUME NEW base, Tree(base), NEW top, Tree(top)
  PROVE  /\ Tree(Over(base, top))
         /\ \A q \in DOMAIN top : q \in DOMAIN Over(base, top) /\ Over(base, top)[q] = top[q]
         /\ \A p \in DOMAIN base :
              \/ p \in DOMAIN Over(base, top) /\ Over(base, top)[p] = base[p]
              \/ \E q \in DOMAIN top : Head(p) = Head(q)
<1> DEFINE keys == {Head(q) : q \in DOMAIN top}
           rest == {q \in DOMAIN base : Head(q) \notin keys}
           all == Over(base, top)
<1>1. all = [p \in rest \cup DOMAIN top |-> IF p \in DOMAIN top THEN top[p] ELSE base[p]]
  BY DEF Over
<1>2. /\ DOMAIN base \subseteq DocPaths /\ DOMAIN top \subseteq DocPaths
      /\ \A p, q \in DOMAIN base : ~IsStrictPrefix(p, q)
      /\ \A p, q \in DOMAIN top : ~IsStrictPrefix(p, q)
  BY DEF Tree, DocPaths
<1>3. DOMAIN all = rest \cup DOMAIN top
  BY <1>1
<1>4. \A p \in rest, q \in DOMAIN top : Head(p) # Head(q)
  OBVIOUS
<1>5. rest \subseteq DOMAIN base
  OBVIOUS
<1>6. \A p \in DOMAIN base : p \in rest \/ \E q \in DOMAIN top : Head(p) = Head(q)
  OBVIOUS
<1>7. \A p \in rest : p \notin DOMAIN top
  BY <1>4
<1> HIDE DEF keys, rest, all
<1>8. ASSUME NEW p \in DOMAIN all, NEW q \in DOMAIN all
      PROVE  ~IsStrictPrefix(p, q)
  <2>1. p \in Seq(STRING) /\ q \in Seq(STRING) /\ p # << >> /\ q # << >>
    BY <1>2, <1>3, <1>5 DEF DocPaths
  <2>2. IsStrictPrefix(p, q) => Head(p) = Head(q)
    BY <2>1, PrefixSharesHead
  <2>3. \/ p \in DOMAIN base /\ q \in DOMAIN base
        \/ p \in DOMAIN top /\ q \in DOMAIN top
        \/ Head(p) # Head(q)
    BY <1>3, <1>4, <1>5
  <2> QED BY <1>2, <2>2, <2>3
<1>9. Tree(all)
  <2>1. all = [p \in DOMAIN all |-> all[p]]
    BY <1>1
  <2>2. DOMAIN all \subseteq DocPaths
    BY <1>2, <1>3, <1>5
  <2> QED BY <1>8, <2>1, <2>2 DEF Tree, DocPaths
<1>10. \A q \in DOMAIN top : q \in DOMAIN all /\ all[q] = top[q]
  BY <1>1
<1>11. \A p \in rest : p \in DOMAIN all /\ all[p] = base[p]
  BY <1>1, <1>7
<1> QED BY <1>6, <1>9, <1>10, <1>11 DEF all

\* What a seed writes: its values at their place, and nothing else of what was there.
LEMMA SeedWritten ==
  ASSUME NEW doc, Tree(doc), NEW values, Tree(values),
         NEW place \in Seq(STRING), ~Blocked(doc, place)
  PROVE  /\ Tree(SetAtContextPath(doc, place, values))
         /\ \A q \in DOMAIN values :
              /\ q \in DOMAIN At(SetAtContextPath(doc, place, values), place)
              /\ At(SetAtContextPath(doc, place, values), place)[q] = values[q]
         /\ \A p \in DOMAIN doc :
              \/ /\ p \in DOMAIN SetAtContextPath(doc, place, values)
                 /\ SetAtContextPath(doc, place, values)[p] = doc[p]
              \/ IsPrefix(place, p) /\ place # << >>
              \/ \E q \in DOMAIN values : place = << >> /\ Head(p) = Head(q)
<1> DEFINE after == SetAtContextPath(doc, place, values)
<1>1. /\ DOMAIN doc \subseteq DocPaths /\ DOMAIN values \subseteq DocPaths
      /\ \A p, q \in DOMAIN doc : ~IsStrictPrefix(p, q)
      /\ \A p, q \in DOMAIN values : ~IsStrictPrefix(p, q)
  BY DEF Tree, DocPaths
<1>2. SUFFICES /\ Tree(after)
               /\ \A q \in DOMAIN values : place \o q \in DOMAIN after /\ after[place \o q] = values[q]
               /\ \A p \in DOMAIN doc :
                    \/ p \in DOMAIN after /\ after[p] = doc[p]
                    \/ IsPrefix(place, p) /\ place # << >>
                    \/ \E q \in DOMAIN values : place = << >> /\ Head(p) = Head(q)
  <2> HIDE DEF after
  <2>1. DOMAIN after \subseteq DocPaths
    BY <1>2 DEF Tree, DocPaths
  <2>2. /\ DOMAIN At(after, place) = {q \in DocPaths : place \o q \in DOMAIN after}
        /\ \A q \in DOMAIN At(after, place) : At(after, place)[q] = after[place \o q]
    BY <2>1, WhatIsAt
  <2>3. \A q \in DOMAIN values : q \in DOMAIN At(after, place) /\ At(after, place)[q] = values[q]
    BY <1>1, <1>2, <2>2
  <2> QED BY <1>2, <2>3 DEF after
<1>3. CASE place = << >>
  <2>1. after = Over(doc, values)
    BY <1>3 DEF SetAtContextPath
  <2>2. \A q \in DOMAIN values : place \o q = q
    <3> TAKE q \in DOMAIN values
    <3>1. q \in Seq(STRING)
      BY <1>1 DEF DocPaths
    <3>2. << >> \o q = q
      BY <3>1, ConcatEmptySeq
    <3> QED BY <1>3, <3>2
  <2> HIDE DEF after
  <2> QED BY <1>3, <2>1, <2>2, OverAll
<1>4. CASE place # << >>
  <2> DEFINE gone == Under(doc, place) \cup {place}
             stays == Without(doc, gone)
             put == {place \o p : p \in DOMAIN values}
             rest(p) == SubSeq(p, Len(place) + 1, Len(p))
  <2>1. after = [p \in DOMAIN stays \cup put |-> IF p \in put THEN values[rest(p)] ELSE stays[p]]
    BY <1>4 DEF SetAtContextPath
  <2>2. DOMAIN stays = DOMAIN doc \ gone /\ \A p \in DOMAIN stays : stays[p] = doc[p]
    BY DEF Without
  <2>3. ASSUME NEW q \in DOMAIN values
        PROVE  /\ place \o q \in put
               /\ rest(place \o q) = q
               /\ place \o q \in DocPaths
               /\ IsStrictPrefix(place, place \o q)
    <3>1. q \in Seq(STRING) /\ q # << >>
      BY <1>1 DEF DocPaths
    <3>2. /\ place \o q \in Seq(STRING) /\ place \o q # << >>
          /\ IsStrictPrefix(place, place \o q) /\ rest(place \o q) = q
      BY <3>1, PathsBeneath
    <3> QED BY <3>2 DEF DocPaths
  <2>4. \A r \in put : \E q \in DOMAIN values : r = place \o q
    OBVIOUS
  <2>5. /\ \A p \in DOMAIN doc : IsStrictPrefix(place, p) \/ p = place => p \in gone
        /\ \A p \in DOMAIN doc : p \in gone => IsStrictPrefix(place, p) \/ p = place
    BY DEF Under
  <2>6. \A p \in DOMAIN doc : ~IsStrictPrefix(p, place)
    BY <1>1 DEF Blocked, DocPaths
  <2> HIDE DEF gone, stays, put, rest, after
  <2>7. DOMAIN after = DOMAIN stays \cup put
    BY <2>1
  <2>8. DOMAIN after \subseteq DocPaths
    <3>1. \A q \in DOMAIN values : place \o q \in DocPaths
      BY <2>3
    <3>2. put \subseteq DocPaths
      BY <2>4, <3>1
    <3>3. DOMAIN stays \subseteq DocPaths
      BY <1>1, <2>2
    <3> QED BY <2>7, <3>2, <3>3
  <2>9. \A r \in put : IsStrictPrefix(place, r)
    BY <2>3, <2>4
  <2>10. ASSUME NEW p \in DOMAIN after, NEW r \in DOMAIN after, IsStrictPrefix(p, r)
         PROVE  FALSE
    <3>1. p \in Seq(STRING) /\ r \in Seq(STRING)
      BY <2>8 DEF DocPaths
    <3>2. CASE p \in DOMAIN stays /\ r \in DOMAIN stays
      BY <1>1, <2>2, <2>10, <3>2
    <3>3. CASE p \in put /\ r \in put
      <4>1. PICK a \in DOMAIN values, b \in DOMAIN values : p = place \o a /\ r = place \o b
        BY <2>4, <3>3
      <4>2. a \in Seq(STRING) /\ b \in Seq(STRING)
        BY <1>1 DEF DocPaths
      <4>3. IsStrictPrefix(a, b)
        BY <2>10, <4>1, <4>2, BeneathAlike
      <4> QED BY <1>1, <4>3
    <3>4. CASE p \in DOMAIN stays /\ r \in put
      <4>1. IsStrictPrefix(place, r)
        BY <2>9, <3>4
      <4>2. IsStrictPrefix(p, place) \/ p = place \/ IsStrictPrefix(place, p)
        BY <2>10, <3>1, <4>1, PrefixesMeet
      <4> QED BY <2>2, <2>5, <2>6, <3>4, <4>2
    <3>5. CASE p \in put /\ r \in DOMAIN stays
      <4>1. IsStrictPrefix(place, r)
        BY <2>9, <2>10, <3>1, <3>5, PrefixGoesOn
      <4> QED BY <2>2, <2>5, <3>5, <4>1
    <3> QED BY <2>7, <3>2, <3>3, <3>4, <3>5
  <2>11. Tree(after)
    <3>1. after = [p \in DOMAIN after |-> after[p]]
      BY <2>1
    <3> QED BY <2>8, <2>10, <3>1 DEF Tree, DocPaths
  <2>12. \A q \in DOMAIN values : place \o q \in DOMAIN after /\ after[place \o q] = values[q]
    BY <2>1, <2>3
  <2>13. ASSUME NEW p \in DOMAIN doc
         PROVE  (p \in DOMAIN after /\ after[p] = doc[p]) \/ IsPrefix(place, p)
    <3>1. CASE p \in gone
      <4>1. CASE IsStrictPrefix(place, p)
        BY <4>1 DEF IsStrictPrefix
      <4>2. CASE p = place
        <5>1. IsPrefix(place, place)
          <6>1. Len(place) \in Nat
            BY LenProperties
          <6> QED BY <6>1 DEF IsPrefix
        <5> QED BY <4>2, <5>1
      <4> QED BY <2>5, <3>1, <4>1, <4>2
    <3>2. CASE p \notin gone
      <4>1. p \in DOMAIN stays
        BY <2>2, <3>2
      <4>2. p \notin put
        BY <2>5, <2>9, <3>2
      <4> QED BY <2>1, <2>2, <4>1, <4>2
    <3> QED BY <3>1, <3>2
  <2> QED BY <1>4, <2>11, <2>12, <2>13
<1> QED BY <1>3, <1>4
LEMMA BeneathStays ==
  ASSUME NEW S, NEW place \in Seq(S), NEW p \in Seq(S), NEW q \in Seq(S), IsStrictPrefix(p, q)
  PROVE  IsStrictPrefix(place \o p, place \o q)
<1>1. Len(place) \in Nat /\ Len(p) \in Nat /\ Len(q) \in Nat
  BY LenProperties
<1>2. /\ place \o p \in Seq(S)
      /\ Len(place \o p) = Len(place) + Len(p)
      /\ \A i \in 1..Len(place) + Len(p) :
           (place \o p)[i] = IF i <= Len(place) THEN place[i] ELSE p[i - Len(place)]
  BY ConcatProperties
<1>3. /\ place \o q \in Seq(S)
      /\ Len(place \o q) = Len(place) + Len(q)
      /\ \A i \in 1..Len(place) + Len(q) :
           (place \o q)[i] = IF i <= Len(place) THEN place[i] ELSE q[i - Len(place)]
  BY ConcatProperties
<1>4. Len(p) < Len(q) /\ \A i \in 1..Len(p) : p[i] = q[i]
  BY StrictPrefixMeans
<1> DEFINE a == place \o p
           b == place \o q
<1> HIDE DEF a, b
<1>5. Len(a) < Len(b) /\ a \in Seq(S) /\ b \in Seq(S)
  BY <1>1, <1>2, <1>3, <1>4 DEF a, b
<1>6. ASSUME NEW i \in 1..Len(a)
      PROVE  a[i] = b[i]
  <2>1. CASE i <= Len(place)
    BY <1>1, <1>2, <1>3, <1>4, <2>1 DEF a, b
  <2>2. CASE ~(i <= Len(place))
    <3>1. i - Len(place) \in 1..Len(p)
      BY <1>1, <1>2, <2>2 DEF a
    <3>2. a[i] = p[i - Len(place)] /\ b[i] = q[i - Len(place)]
      BY <1>1, <1>2, <1>3, <1>4, <2>2 DEF a, b
    <3> QED BY <1>4, <3>1, <3>2
  <2> QED BY <2>1, <2>2
<1>7. IsStrictPrefix(a, b)
  BY <1>5, <1>6, StrictPrefixMeans
<1> QED BY <1>7 DEF a, b

LEMMA AtIsTree ==
  ASSUME NEW doc, Tree(doc), NEW place \in Seq(STRING)
  PROVE  Tree(At(doc, place))
<1> DEFINE there == At(doc, place)
<1>1. DOMAIN doc \subseteq DocPaths /\ \A p, q \in DOMAIN doc : ~IsStrictPrefix(p, q)
  BY DEF Tree, DocPaths
<1>2. there = [q \in DOMAIN there |-> there[q]]
      /\ DOMAIN there = {q \in DocPaths : place \o q \in DOMAIN doc}
  BY <1>1, WhatIsAt
<1> HIDE DEF there
<1>3. ASSUME NEW p \in DOMAIN there, NEW q \in DOMAIN there
      PROVE  ~IsStrictPrefix(p, q)
  <2>1. p \in Seq(STRING) /\ q \in Seq(STRING)
        /\ place \o p \in DOMAIN doc /\ place \o q \in DOMAIN doc
    BY <1>2 DEF DocPaths
  <2> QED BY <1>1, <2>1, BeneathStays
<1>4. Tree(there)
  BY <1>2, <1>3 DEF Tree, DocPaths
<1> QED BY <1>4 DEF there

-----------------------------------------------------------------------------
(* The launches: where operations do not overlap, what a launch has read   *)
(* or settled on is still so when it writes or starts.                     *)

SeedPcs == {"idle", "look", "seed", "write", "start", "booked", "refused", "failed", "ran"}
LaunchShape(call) ==
  /\ DOMAIN call = {"pc", "form", "given", "values", "read", "later", "booked"}
  /\ call.pc \in SeedPcs
  /\ call.form \in Forms \cup {NoForm}
  /\ call.given \in Givens \cup {Empty}
  /\ Tree(call.values)
  /\ Tree(call.read.doc)
  /\ call.booked = call.later
  /\ call.pc = "booked" => call.booked
  /\ call.pc = "write" => ~Blocked(call.read.doc, call.form.target)
  \* What was submitted is among what will be written, and passed the check.
  /\ call.pc \in {"seed", "write"} /\ ~call.booked =>
       /\ call.values # Empty
       /\ call.given # Empty => /\ ValidEntry(call.form, call.values)
                                /\ \A p \in DOMAIN call.given :
                                     p \in DOMAIN call.values /\ call.values[p] = call.given[p]
SeedBase ==
  /\ clash \in BOOLEAN
  /\ held.is \in {"absent", "other", "object"}
  /\ held.is # "object" => held.doc = Empty
  /\ Tree(held.doc)
  /\ form \in Forms
  /\ DOMAIN launches = Launches
  /\ \A l \in Launches : LaunchShape(launches[l])
  /\ hook.pc \in {"idle", "write"} /\ Tree(hook.read.doc)
  /\ writes \in 0..MaxWrites
  /\ overrun \subseteq Launches

\* One operation at a time.
SeedsApart ==
  /\ \A l, m \in Launches : Busy(l) /\ Busy(m) => l = m
  /\ \A l \in Launches : Busy(l) => hook.pc = "idle"
\* A seed that is about to be written goes over what it has read, and where it is
\* defaults over nothing.
SeedFits(l) ==
  LET call == launches[l]
  IN /\ call.pc = "write" => call.read = held
     /\ call.pc \in {"seed", "write"} /\ ~call.booked /\ call.given = Empty =>
          At(held.doc, call.form.target) = Empty
\* InputIsThere, of one launch.
Supplied(l) ==
  LET call == launches[l]
      there == EntryValuesInContext(held, call.form.target)
  IN call.pc = "start" /\ ~call.booked /\ call.form.fields =>
       /\ call.form.required => At(held.doc, call.form.target) # Empty
       /\ call.given # Empty => /\ ValidEntry(call.form, there)
                                /\ \A p \in DOMAIN call.given :
                                     p \in DOMAIN there /\ there[p] = call.given[p]
SeedsInv ==
  /\ SeedBase
  /\ ~clash => /\ SeedsApart
               /\ \A l \in Launches : SeedFits(l) /\ Supplied(l)
               /\ DefaultsYield

LEMMA SeedBlanks ==
  /\ Tree(NoForm.defaults) /\ NoForm.target \in Seq(STRING) /\ NoForm.fields = FALSE
  /\ LaunchShape(NoLaunch) /\ NoLaunch.pc = "idle" /\ NoLaunch.booked = FALSE
  /\ NoLaunch.later = FALSE
  /\ DOMAIN NoLaunch = {"pc", "form", "given", "values", "read", "later", "booked"}
  /\ NoLaunch.values = Empty /\ NoLaunch.read.doc = Empty
  /\ NoMerge.pc = "idle" /\ NoMerge.read.doc = Empty
  /\ Absent.is = "absent" /\ Absent.doc = Empty
  /\ NoObject.is = "other" /\ NoObject.doc = Empty
  /\ Tree(Empty)
<1>1. Tree(Empty) BY EmptyIsTree
<1>2. << >> \in Seq(STRING) BY EmptySeq
<1>3. Tree(NoForm.defaults) BY <1>1 DEF NoForm
<1>4. NoForm.target \in Seq(STRING) BY <1>2 DEF NoForm
<1>5. NoForm.fields = FALSE BY DEF NoForm
<1>6. NoLaunch.pc = "idle" /\ NoLaunch.booked = FALSE
      /\ NoLaunch.later = FALSE
      /\ DOMAIN NoLaunch = {"pc", "form", "given", "values", "read", "later", "booked"}
      /\ NoLaunch.values = Empty /\ NoLaunch.read.doc = Empty
      /\ NoLaunch.form = NoForm /\ NoLaunch.given = Empty
  BY DEF NoLaunch, Absent
<1>7. LaunchShape(NoLaunch)
  BY <1>1, <1>6 DEF LaunchShape, SeedPcs
<1>8. /\ NoMerge.pc = "idle" /\ NoMerge.read.doc = Empty
      /\ Absent.is = "absent" /\ Absent.doc = Empty
      /\ NoObject.is = "other" /\ NoObject.doc = Empty
  BY DEF NoMerge, Absent, NoObject
<1> QED BY <1>1, <1>3, <1>4, <1>5, <1>6, <1>7, <1>8

LEMMA SeedsInitial ==
  ASSUME SInit
  PROVE  SeedsInv
<1>1. /\ clash \in BOOLEAN /\ form \in Forms /\ launches = [l \in Launches |-> NoLaunch]
      /\ hook = NoMerge /\ writes = 0 /\ overrun = {}
  BY SeedsOK DEF SInit
<1>2. held.is \in {"absent", "other", "object"} /\ (held.is # "object" => held.doc = Empty)
      /\ Tree(held.doc)
  <2>1. CASE held \in {Absent, NoObject}
    BY <2>1, SeedBlanks
  <2>2. CASE held \in {Object(doc) : doc \in Documents}
    BY <2>2, SeedsAreTrees DEF Object
  <2> QED BY <2>1, <2>2 DEF SInit
<1>3. SeedBase
  BY <1>1, <1>2, SeedBlanks, SeedsOK DEF SeedBase
<1>4. /\ SeedsApart /\ DefaultsYield
      /\ \A l \in Launches : SeedFits(l) /\ Supplied(l)
  BY <1>1, SeedBlanks DEF SeedsApart, DefaultsYield, SeedFits, Supplied, Busy
<1> QED BY <1>3, <1>4 DEF SeedsInv

\* A form's parts.
LEMMA FormParts ==
  ASSUME NEW f \in Forms \cup {NoForm}
  PROVE  Tree(f.defaults) /\ f.target \in Seq(STRING)
BY SeedsAreTrees, SeedBlanks

LEMMA GivenParts ==
  ASSUME NEW given \in Givens \cup {Empty}
  PROVE  Tree(given) /\ (given # Empty => \E p \in DOMAIN given : TRUE)
BY SeedsAreTrees, EmptyIsTree

\* What submitted values settle on.
LEMMA ValuesPrepared ==
  ASSUME NEW f \in Forms \cup {NoForm}, NEW given \in Givens \cup {Empty}, given # Empty
  PROVE  LET values == PrepareEntryValues(f, given)
         IN /\ Tree(values) /\ values # Empty
            /\ \A p \in DOMAIN given : p \in DOMAIN values /\ values[p] = given[p]
<1> DEFINE values == PrepareEntryValues(f, given)
<1>1. Tree(values) /\ \A p \in DOMAIN given : p \in DOMAIN values /\ values[p] = given[p]
  BY FormParts, GivenParts, OverAll DEF PrepareEntryValues, EntryDefaults
<1> HIDE DEF values
<1>2. values # Empty
  BY <1>1, GivenParts, EmptyIsTree
<1>3. QED BY <1>1, <1>2 DEF values

\* A launch that goes on keeps the rest of its record, and the others theirs.
LEMMA LaunchGoesOn ==
  ASSUME SeedBase, NEW l \in Launches, NEW pc, Goes(l, pc)
  PROVE  /\ DOMAIN launches' = Launches
         /\ \A m \in Launches \ {l} : launches'[m] = launches[m]
         /\ launches'[l] = [launches[l] EXCEPT !.pc = pc]
         /\ DOMAIN launches'[l] = DOMAIN launches[l]
         /\ launches'[l].pc = pc
         /\ launches'[l].form = launches[l].form
         /\ launches'[l].given = launches[l].given
         /\ launches'[l].values = launches[l].values
         /\ launches'[l].read = launches[l].read
         /\ launches'[l].later = launches[l].later
         /\ launches'[l].booked = launches[l].booked
BY DEF SeedBase, LaunchShape, Goes
LEMMA LaunchSettles ==
  ASSUME SeedBase, NEW l \in Launches, NEW values, Settle(l, values)
  PROVE  /\ DOMAIN launches' = Launches
         /\ \A m \in Launches \ {l} : launches'[m] = launches[m]
         /\ DOMAIN launches'[l] = DOMAIN launches[l]
         /\ launches'[l].pc = IF launches[l].later THEN "booked"
                              ELSE IF values = Empty THEN "start" ELSE "seed"
         /\ launches'[l].form = launches[l].form
         /\ launches'[l].given = launches[l].given
         /\ launches'[l].values = values
         /\ launches'[l].read = launches[l].read
         /\ launches'[l].later = launches[l].later
         /\ launches'[l].booked = launches[l].booked
BY DEF SeedBase, LaunchShape, Settle

\* What a launch that has begun is.
LEMMA LaunchBegins ==
  ASSUME SeedBase, NEW l \in Launches, NEW given \in Givens, NEW later \in BOOLEAN,
         NEW skip \in BOOLEAN, BeginLaunch(l, given, later, skip)
  PROVE  /\ DOMAIN launches' = Launches
         /\ \A m \in Launches \ {l} : launches'[m] = launches[m]
         /\ LaunchShape(launches'[l])
         /\ launches'[l].pc \in {"look", "booked", "start"}
         /\ launches'[l].pc = "start" => launches'[l].form.fields = FALSE \/ ~launches'[l].form.fields
         /\ launches'[l].booked = later
<1> DEFINE new == [NoLaunch EXCEPT !.form = IF skip THEN NoForm ELSE form, !.given = given,
                               !.later = later,
                               !.pc = IF ~skip /\ form.fields THEN "look"
                                      ELSE IF later THEN "booked" ELSE "start",
                               !.booked = later]
<1>1. launches' = [launches EXCEPT ![l] = new]
  BY DEF BeginLaunch
<1>2. /\ DOMAIN new = DOMAIN NoLaunch
      /\ new.form = IF skip THEN NoForm ELSE form
      /\ new.given = given /\ new.later = later /\ new.booked = later
      /\ new.values = NoLaunch.values /\ new.read = NoLaunch.read
      /\ new.pc = IF ~skip /\ form.fields THEN "look"
                  ELSE IF later THEN "booked" ELSE "start"
  BY SeedBlanks
<1> HIDE DEF new
<1>3. DOMAIN launches' = Launches /\ launches'[l] = new
      /\ \A m \in Launches \ {l} : launches'[m] = launches[m]
  BY <1>1 DEF SeedBase
<1>4. new.pc \in {"look", "booked", "start"} /\ (new.pc = "booked" => later)
  BY <1>2
<1>5. LaunchShape(new)
  BY <1>2, <1>4, SeedBlanks DEF LaunchShape, SeedPcs, SeedBase
<1>6. new.pc = "start" => ~new.form.fields
  BY <1>2, SeedBlanks
<1> QED BY <1>2, <1>3, <1>4, <1>5, <1>6

LEMMA LaunchLooks ==
  ASSUME SeedBase, NEW l \in Launches, LookAt(l)
  PROVE  /\ DOMAIN launches' = Launches
         /\ \A m \in Launches \ {l} : launches'[m] = launches[m]
         /\ LaunchShape(launches'[l])
         /\ launches'[l].pc \in {"refused", "booked", "start", "seed"}
         /\ launches'[l].booked = launches[l].booked
         /\ launches'[l].form = launches[l].form
         \* a launch without values finds its input at the target already
         /\ launches'[l].pc = "start" /\ ~launches'[l].booked =>
              /\ launches'[l].given = Empty
              /\ launches'[l].form.required => At(held.doc, launches'[l].form.target) # Empty
         \* and where defaults are to be written there is none
         /\ launches'[l].pc = "seed" /\ launches'[l].given = Empty =>
              At(held.doc, launches'[l].form.target) = Empty
<1> DEFINE f == launches[l].form
           given == launches[l].given
           there == EntryValuesInContext(held, f.target)
<1>1. LaunchShape(launches[l]) /\ launches[l].pc = "look"
  BY DEF SeedBase, LookAt
<1>2. f \in Forms \cup {NoForm} /\ given \in Givens \cup {Empty} /\ Tree(launches[l].read.doc)
      /\ launches[l].booked = launches[l].later /\ Tree(launches[l].values)
      /\ DOMAIN launches[l] = {"pc", "form", "given", "values", "read", "later", "booked"}
  BY <1>1 DEF LaunchShape
<1>3. there = At(held.doc, f.target)
  BY DEF EntryValuesInContext
<1>4. CASE given # Empty /\ ValidEntry(f, PrepareEntryValues(f, given))
           /\ Settle(l, PrepareEntryValues(f, given))
  <2> DEFINE values == PrepareEntryValues(f, given)
  <2>1. Tree(values) /\ values # Empty
        /\ \A p \in DOMAIN given : p \in DOMAIN values /\ values[p] = given[p]
    BY <1>2, <1>4, ValuesPrepared
  <2>2. ValidEntry(f, values)
    BY <1>4
  <2>3. /\ DOMAIN launches' = Launches
        /\ \A m \in Launches \ {l} : launches'[m] = launches[m]
        /\ DOMAIN launches'[l] = DOMAIN launches[l]
        /\ launches'[l].pc = IF launches[l].later THEN "booked"
                             ELSE IF values = Empty THEN "start" ELSE "seed"
        /\ launches'[l].form = f
        /\ launches'[l].given = given
        /\ launches'[l].values = values
        /\ launches'[l].read = launches[l].read
        /\ launches'[l].later = launches[l].later
        /\ launches'[l].booked = launches[l].booked
    BY <1>4, LaunchSettles
  <2> HIDE DEF values, f, given, there
  <2>4. launches'[l].pc \in {"booked", "seed"} /\ (launches'[l].pc = "booked" => launches[l].later)
    BY <2>1, <2>3
  <2>5. LaunchShape(launches'[l])
    BY <1>2, <2>1, <2>2, <2>3, <2>4 DEF LaunchShape, SeedPcs
  <2> QED BY <1>4, <2>3, <2>4, <2>5 DEF f, given
<1>5. CASE Goes(l, "refused")
  <2>1. /\ DOMAIN launches' = Launches
        /\ \A m \in Launches \ {l} : launches'[m] = launches[m]
        /\ DOMAIN launches'[l] = DOMAIN launches[l]
        /\ launches'[l].pc = "refused"
        /\ launches'[l].form = f
        /\ launches'[l].given = given
        /\ launches'[l].values = launches[l].values
        /\ launches'[l].read = launches[l].read
        /\ launches'[l].later = launches[l].later
        /\ launches'[l].booked = launches[l].booked
    BY <1>5, LaunchGoesOn
  <2> HIDE DEF f, given, there
  <2>2. LaunchShape(launches'[l])
    BY <1>2, <2>1 DEF LaunchShape, SeedPcs
  <2> QED BY <2>1, <2>2 DEF f, given
<1>6. ASSUME NEW values, Tree(values), Settle(l, values), given = Empty,
             there # Empty \/ ~f.required, values # Empty => there = Empty
      PROVE  /\ DOMAIN launches' = Launches
             /\ \A m \in Launches \ {l} : launches'[m] = launches[m]
             /\ LaunchShape(launches'[l])
             /\ launches'[l].pc \in {"booked", "start", "seed"}
             /\ launches'[l].booked = launches[l].booked
             /\ launches'[l].form = f
             /\ launches'[l].given = Empty
             /\ f.required => there # Empty \/ launches'[l].pc # "start"
             /\ launches'[l].pc = "seed" => there = Empty
  <2>1. /\ DOMAIN launches' = Launches
        /\ \A m \in Launches \ {l} : launches'[m] = launches[m]
        /\ DOMAIN launches'[l] = DOMAIN launches[l]
        /\ launches'[l].pc = IF launches[l].later THEN "booked"
                             ELSE IF values = Empty THEN "start" ELSE "seed"
        /\ launches'[l].form = f
        /\ launches'[l].given = given
        /\ launches'[l].values = values
        /\ launches'[l].read = launches[l].read
        /\ launches'[l].later = launches[l].later
        /\ launches'[l].booked = launches[l].booked
    BY <1>6, LaunchSettles
  <2> HIDE DEF f, given, there
  <2>2. /\ launches'[l].pc \in {"booked", "start", "seed"}
        /\ launches'[l].pc = "booked" => launches[l].later
        /\ launches'[l].pc = "seed" => values # Empty
    BY <2>1
  <2>3. LaunchShape(launches'[l])
    BY <1>2, <1>6, <2>1, <2>2 DEF LaunchShape, SeedPcs
  <2> QED BY <1>6, <2>1, <2>2, <2>3
<1>7. \/ given # Empty /\ ValidEntry(f, PrepareEntryValues(f, given))
           /\ Settle(l, PrepareEntryValues(f, given))
      \/ Goes(l, "refused")
      \/ given = Empty /\ there # Empty /\ Settle(l, Empty)
      \/ given = Empty /\ there = Empty /\ ~f.required /\ Settle(l, f.defaults)
  BY DEF LookAt, EntryDefaults
<1>8. Tree(Empty) /\ Tree(f.defaults)
  BY <1>2, FormParts, SeedBlanks
<1> HIDE DEF f, given, there
<1>9. CASE given = Empty /\ there # Empty /\ Settle(l, Empty)
  BY <1>3, <1>6, <1>8, <1>9 DEF f
<1>10. CASE given = Empty /\ there = Empty /\ ~f.required /\ Settle(l, f.defaults)
  BY <1>3, <1>6, <1>8, <1>10 DEF f
<1> QED BY <1>4, <1>5, <1>7, <1>9, <1>10 DEF f

\* The other steps of a launch.
LEMMA LaunchMoves ==
  ASSUME SeedBase, NEW l \in Launches,
         FireBooked(l) \/ SeedRead(l) \/ SeedWrite(l) \/ RunLoads(l) \/ RunMisses(l)
  PROVE  /\ DOMAIN launches' = Launches
         /\ \A m \in Launches \ {l} : launches'[m] = launches[m]
         /\ LaunchShape(launches'[l])
         /\ launches'[l].booked = launches[l].booked
         /\ FireBooked(l) => launches'[l].booked /\ launches'[l].pc \in {"start", "seed"}
         /\ SeedRead(l) => \/ launches'[l].pc = "failed"
                           \/ /\ launches'[l].pc = "write" /\ launches'[l].read = held
                              /\ launches'[l].form = launches[l].form
                              /\ launches'[l].given = launches[l].given
         /\ SeedWrite(l) => /\ launches'[l].pc = "start"
                            /\ launches'[l].form = launches[l].form
                            /\ launches'[l].given = launches[l].given
                            /\ launches'[l].values = launches[l].values
         /\ RunLoads(l) \/ RunMisses(l) => launches'[l].pc = "ran"
<1> DEFINE call == launches[l]
<1>1. LaunchShape(call) /\ l \in DOMAIN launches
  BY DEF SeedBase
<1>2. ASSUME NEW new, launches' = [launches EXCEPT ![l] = new]
      PROVE  /\ DOMAIN launches' = Launches
             /\ \A m \in Launches \ {l} : launches'[m] = launches[m]
             /\ launches'[l] = new
  BY <1>2 DEF SeedBase
<1>3. CASE FireBooked(l)
  <2>1. call.pc = "booked" /\ call.booked
    BY <1>1, <1>3 DEF FireBooked, LaunchShape
  <2>2. CASE Goes(l, "start")
    <3>1. /\ DOMAIN launches' = Launches
          /\ \A m \in Launches \ {l} : launches'[m] = launches[m]
          /\ DOMAIN launches'[l] = DOMAIN call
          /\ launches'[l].pc = "start" /\ launches'[l].form = call.form
          /\ launches'[l].given = call.given /\ launches'[l].values = call.values
          /\ launches'[l].read = call.read /\ launches'[l].later = call.later
          /\ launches'[l].booked = call.booked
      BY <2>2, LaunchGoesOn
    <3> HIDE DEF call
    <3>2. LaunchShape(launches'[l])
      BY <1>1, <3>1 DEF LaunchShape, SeedPcs
    <3>3. ~SeedRead(l) /\ ~SeedWrite(l) /\ ~RunLoads(l) /\ ~RunMisses(l)
      BY <2>1 DEF SeedRead, SeedWrite, RunLoads, RunMisses, call
    <3> QED BY <2>1, <3>1, <3>2, <3>3 DEF call
  <2>3. CASE launches' = [launches EXCEPT ![l].pc = "seed", ![l].form = form]
    <3>1. /\ DOMAIN launches' = Launches
          /\ \A m \in Launches \ {l} : launches'[m] = launches[m]
          /\ DOMAIN launches'[l] = DOMAIN call
          /\ launches'[l].pc = "seed" /\ launches'[l].form = form
          /\ launches'[l].given = call.given /\ launches'[l].values = call.values
          /\ launches'[l].read = call.read /\ launches'[l].later = call.later
          /\ launches'[l].booked = call.booked
      BY <1>1, <2>3 DEF LaunchShape, SeedBase
    <3>2. form \in Forms
      BY DEF SeedBase
    <3> HIDE DEF call
    <3>3. LaunchShape(launches'[l])
      BY <1>1, <2>1, <3>1, <3>2 DEF LaunchShape, SeedPcs
    <3>4. ~SeedRead(l) /\ ~SeedWrite(l) /\ ~RunLoads(l) /\ ~RunMisses(l)
      BY <2>1 DEF SeedRead, SeedWrite, RunLoads, RunMisses, call
    <3> QED BY <2>1, <3>1, <3>3, <3>4 DEF call
  <2> QED BY <1>3, <2>2, <2>3 DEF FireBooked
<1>4. CASE SeedRead(l)
  <2>1. call.pc = "seed"
    BY <1>4 DEF SeedRead
  <2>2. CASE Goes(l, "failed")
    <3>1. /\ DOMAIN launches' = Launches
          /\ \A m \in Launches \ {l} : launches'[m] = launches[m]
          /\ DOMAIN launches'[l] = DOMAIN call
          /\ launches'[l].pc = "failed" /\ launches'[l].form = call.form
          /\ launches'[l].given = call.given /\ launches'[l].values = call.values
          /\ launches'[l].read = call.read /\ launches'[l].later = call.later
          /\ launches'[l].booked = call.booked
      BY <2>2, LaunchGoesOn
    <3> HIDE DEF call
    <3>2. LaunchShape(launches'[l])
      BY <1>1, <3>1 DEF LaunchShape, SeedPcs
    <3>3. ~FireBooked(l) /\ ~SeedWrite(l) /\ ~RunLoads(l) /\ ~RunMisses(l)
      BY <2>1 DEF FireBooked, SeedWrite, RunLoads, RunMisses, call
    <3> QED BY <2>1, <3>1, <3>2, <3>3 DEF call
  <2>3. CASE /\ ~Blocked(held.doc, call.form.target)
             /\ launches' = [launches EXCEPT ![l].pc = "write", ![l].read = held]
    <3>1. /\ DOMAIN launches' = Launches
          /\ \A m \in Launches \ {l} : launches'[m] = launches[m]
          /\ DOMAIN launches'[l] = DOMAIN call
          /\ launches'[l].pc = "write" /\ launches'[l].form = call.form
          /\ launches'[l].given = call.given /\ launches'[l].values = call.values
          /\ launches'[l].read = held /\ launches'[l].later = call.later
          /\ launches'[l].booked = call.booked
      BY <1>1, <2>3 DEF LaunchShape, SeedBase
    <3>2. Tree(held.doc)
      BY DEF SeedBase
    <3> HIDE DEF call
    <3>3. LaunchShape(launches'[l])
      BY <1>1, <2>1, <2>3, <3>1, <3>2 DEF LaunchShape, SeedPcs
    <3>4. ~FireBooked(l) /\ ~SeedWrite(l) /\ ~RunLoads(l) /\ ~RunMisses(l)
      BY <2>1 DEF FireBooked, SeedWrite, RunLoads, RunMisses, call
    <3> QED BY <2>1, <3>1, <3>3, <3>4 DEF call
  <2> QED BY <1>4, <2>2, <2>3 DEF SeedRead
<1>5. CASE SeedWrite(l)
  <2>1. call.pc = "write" /\ launches' = [launches EXCEPT ![l].pc = "start", ![l].read = Absent]
    BY <1>5 DEF SeedWrite
  <2>2. /\ DOMAIN launches' = Launches
        /\ \A m \in Launches \ {l} : launches'[m] = launches[m]
        /\ DOMAIN launches'[l] = DOMAIN call
        /\ launches'[l].pc = "start" /\ launches'[l].form = call.form
        /\ launches'[l].given = call.given /\ launches'[l].values = call.values
        /\ launches'[l].read = Absent /\ launches'[l].later = call.later
        /\ launches'[l].booked = call.booked
    BY <1>1, <2>1 DEF LaunchShape, SeedBase
  <2>3. Tree(Absent.doc)
    BY SeedBlanks
  <2> HIDE DEF call
  <2>4. LaunchShape(launches'[l])
    BY <1>1, <2>1, <2>2, <2>3 DEF LaunchShape, SeedPcs
  <2>5. ~FireBooked(l) /\ ~SeedRead(l) /\ ~RunLoads(l) /\ ~RunMisses(l)
    BY <2>1 DEF FireBooked, SeedRead, RunLoads, RunMisses, call
  <2> QED BY <2>2, <2>4, <2>5 DEF call
<1>6. CASE RunLoads(l) \/ RunMisses(l)
  <2>1. call.pc = "start" /\ Goes(l, "ran")
    BY <1>6 DEF RunLoads, RunMisses
  <2>2. /\ DOMAIN launches' = Launches
        /\ \A m \in Launches \ {l} : launches'[m] = launches[m]
        /\ DOMAIN launches'[l] = DOMAIN call
        /\ launches'[l].pc = "ran" /\ launches'[l].form = call.form
        /\ launches'[l].given = call.given /\ launches'[l].values = call.values
        /\ launches'[l].read = call.read /\ launches'[l].later = call.later
        /\ launches'[l].booked = call.booked
    BY <2>1, LaunchGoesOn
  <2> HIDE DEF call
  <2>3. LaunchShape(launches'[l])
    BY <1>1, <2>2 DEF LaunchShape, SeedPcs
  <2>4. ~FireBooked(l) /\ ~SeedRead(l) /\ ~SeedWrite(l)
    BY <2>1 DEF FireBooked, SeedRead, SeedWrite, call
  <2> QED BY <2>2, <2>3, <2>4 DEF call
<1> QED BY <1>3, <1>4, <1>5, <1>6
\* One step of the whole, seen from the launches.
LEMMA SeedSteps ==
  ASSUME SeedBase, [SNext]_svars
  PROVE  \/ /\ UNCHANGED <<clash, launches>>
            /\ \/ UNCHANGED <<held, form, hook, overrun>>
               \/ (clash \/ Undisturbed) /\ Tree(held'.doc) /\ held'.is = "object"
                    /\ UNCHANGED <<form, hook, overrun>>
               \/ (clash \/ Undisturbed) /\ held' = Absent /\ UNCHANGED <<form, hook, overrun>>
               \/ form' \in Forms /\ UNCHANGED <<held, hook, overrun>>
               \/ /\ clash \/ Undisturbed
                  /\ hook'.pc = "write" /\ Tree(hook'.read.doc) /\ UNCHANGED <<held, form, overrun>>
               \/ /\ hook.pc = "write" /\ hook' = NoMerge
                  /\ Tree(held'.doc) /\ held'.is = "object" /\ UNCHANGED <<form, overrun>>
         \/ \E l \in Launches, given \in Givens, later \in BOOLEAN, skip \in BOOLEAN :
              BeginLaunch(l, given, later, skip)
         \/ \E l \in Launches : \/ LookAt(l) \/ FireBooked(l) \/ SeedRead(l) \/ SeedWrite(l)
                                \/ RunLoads(l) \/ RunMisses(l)
<1>1. CASE UNCHANGED svars
  BY <1>1 DEF svars
<1>2. CASE \E doc \in Documents : SaveContext(doc)
  BY <1>2, SeedsAreTrees DEF SaveContext, Writes, Object
<1>3. CASE DeleteContext
  BY <1>3 DEF DeleteContext, Writes
<1>4. CASE \E f \in Forms : SaveForm(f)
  BY <1>4 DEF SaveForm
<1>5. CASE MergeRead
  BY <1>5 DEF MergeRead, Writes, SeedBase
<1>6. CASE MergeWrite
  <2>1. Tree(Over(hook.read.doc, Payload))
    BY SeedsAreTrees, OverAll DEF SeedBase
  <2> QED BY <1>6, <2>1 DEF MergeWrite, Object
<1> QED BY <1>1, <1>2, <1>3, <1>4, <1>5, <1>6 DEF SNext

\* What a step of a launch leaves of the rest.
LEMMA LaunchLeaves ==
  ASSUME SeedBase, NEW l \in Launches,
         \/ \E given \in Givens, later \in BOOLEAN, skip \in BOOLEAN :
              BeginLaunch(l, given, later, skip)
         \/ LookAt(l) \/ FireBooked(l) \/ SeedRead(l) \/ SeedWrite(l) \/ RunLoads(l) \/ RunMisses(l)
  PROVE  /\ UNCHANGED <<clash, form, hook, writes>>
         /\ \/ UNCHANGED <<held, overrun>>
            \/ SeedWrite(l) /\ held'.is = "object" /\ Tree(held'.doc) /\ overrun' \subseteq overrun \cup {l}
            \/ (RunLoads(l) \/ RunMisses(l)) /\ overrun' = overrun
                 /\ Tree(held'.doc) /\ held'.is \in {"absent", "other", "object"}
                 /\ (held'.is # "object" => held'.doc = Empty)
<1>1. CASE \E given \in Givens, later \in BOOLEAN, skip \in BOOLEAN : BeginLaunch(l, given, later, skip)
  BY <1>1 DEF BeginLaunch
<1>2. CASE LookAt(l) BY <1>2 DEF LookAt
<1>3. CASE FireBooked(l) BY <1>3 DEF FireBooked
<1>4. CASE SeedRead(l) BY <1>4 DEF SeedRead
<1>5. CASE SeedWrite(l)
  <2> DEFINE call == launches[l]
             doc == SetAtContextPath(call.read.doc, call.form.target, call.values)
  <2>1. LaunchShape(call) /\ call.pc = "write"
    BY <1>5 DEF SeedWrite, SeedBase
  <2>2. /\ Tree(call.read.doc) /\ Tree(call.values)
        /\ call.form.target \in Seq(STRING) /\ ~Blocked(call.read.doc, call.form.target)
    BY <2>1, FormParts DEF LaunchShape
  <2> HIDE DEF call
  <2>3. Tree(doc)
    BY <2>2, SeedWritten
  <2>4. held' = Object(doc)
    BY <1>5 DEF SeedWrite, call
  <2>5. UNCHANGED <<clash, form, hook, writes>> /\ overrun' \subseteq overrun \cup {l}
    BY <1>5 DEF SeedWrite
  <2> HIDE DEF doc
  <2>6. held'.is = "object" /\ held'.doc = doc
    BY <2>4 DEF Object
  <2> QED BY <1>5, <2>3, <2>5, <2>6
<1>6. CASE RunLoads(l)
  <2>1. held' = (IF held.is = "absent" THEN Object(Empty) ELSE held)
        /\ UNCHANGED <<clash, form, hook, writes, overrun>>
    BY <1>6 DEF RunLoads
  <2>2. Object(Empty).is = "object" /\ Object(Empty).doc = Empty
    BY DEF Object
  <2> QED BY <1>6, <2>1, <2>2, SeedBlanks DEF SeedBase
<1>7. CASE RunMisses(l)
  <2>1. held' = Object(Empty) /\ UNCHANGED <<clash, form, hook, writes, overrun>>
    BY <1>7 DEF RunMisses
  <2>2. Object(Empty).is = "object" /\ Object(Empty).doc = Empty
    BY DEF Object
  <2> QED BY <1>7, <2>1, <2>2, SeedBlanks
<1> QED BY <1>1, <1>2, <1>3, <1>4, <1>5, <1>6, <1>7

LEMMA SeedBaseStep ==
  ASSUME SeedBase, [SNext]_svars
  PROVE  SeedBase'
<1>1. writes' \in 0..MaxWrites
  <2>1. writes' = writes \/ (writes < MaxWrites /\ writes' = writes + 1)
    BY DEF SNext, svars, SaveContext, DeleteContext, SaveForm, MergeRead, Writes, MergeWrite,
           BeginLaunch, LookAt, FireBooked, SeedRead, SeedWrite, RunLoads, RunMisses
  <2> QED BY <2>1, SeedsOK, SMTT(60) DEF SeedBase
<1>2. CASE UNCHANGED <<clash, launches>>
           /\ \/ UNCHANGED <<held, form, hook, overrun>>
              \/ Tree(held'.doc) /\ held'.is = "object" /\ UNCHANGED <<form, hook, overrun>>
              \/ held' = Absent /\ UNCHANGED <<form, hook, overrun>>
              \/ form' \in Forms /\ UNCHANGED <<held, hook, overrun>>
              \/ hook'.pc = "write" /\ Tree(hook'.read.doc) /\ UNCHANGED <<held, form, overrun>>
              \/ /\ hook' = NoMerge
                 /\ Tree(held'.doc) /\ held'.is = "object" /\ UNCHANGED <<form, overrun>>
  BY <1>1, <1>2, SeedBlanks DEF SeedBase
<1>3. ASSUME NEW l \in Launches, UNCHANGED <<clash, form, hook>>,
             Tree(held'.doc), held'.is \in {"absent", "other", "object"},
             held'.is # "object" => held'.doc = Empty, overrun' \subseteq overrun \cup {l},
             DOMAIN launches' = Launches,
             \A m \in Launches \ {l} : launches'[m] = launches[m], LaunchShape(launches'[l])
      PROVE  SeedBase'
  BY <1>1, <1>3 DEF SeedBase
<1>4. ASSUME NEW l \in Launches, NEW given \in Givens, NEW later \in BOOLEAN,
             NEW skip \in BOOLEAN, BeginLaunch(l, given, later, skip)
      PROVE  SeedBase'
  <2>1. UNCHANGED <<clash, form, hook, held, overrun>>
    BY <1>4 DEF BeginLaunch
  <2> QED BY <1>3, <1>4, <2>1, LaunchBegins DEF SeedBase
<1>5. ASSUME NEW l \in Launches,
             LookAt(l) \/ FireBooked(l) \/ SeedRead(l) \/ SeedWrite(l) \/ RunLoads(l) \/ RunMisses(l)
      PROVE  SeedBase'
  <2>1. DOMAIN launches' = Launches /\ LaunchShape(launches'[l])
        /\ \A m \in Launches \ {l} : launches'[m] = launches[m]
    BY <1>5, LaunchLooks, LaunchMoves
  <2>2. UNCHANGED <<clash, form, hook>> /\ Tree(held'.doc)
        /\ held'.is \in {"absent", "other", "object"} /\ (held'.is # "object" => held'.doc = Empty)
        /\ overrun' \subseteq overrun \cup {l}
    BY <1>5, LaunchLeaves DEF SeedBase
  <2> QED BY <1>3, <2>1, <2>2
<1> QED BY <1>2, <1>4, <1>5, SeedSteps

LEMMA SeedsApartStep ==
  ASSUME SeedBase, ~clash, SeedsApart, [SNext]_svars
  PROVE  SeedsApart'
<1>1. \A m \in Launches : hook.pc = "write" => ~Busy(m)
  BY DEF SeedsApart
<1>2. CASE launches' = launches /\ (hook' = hook \/ Undisturbed \/ hook'.pc = "idle")
  BY <1>2 DEF SeedsApart, Busy, Undisturbed
<1>3. ASSUME NEW l \in Launches, hook' = hook,
             Undisturbed \/ Busy(l) \/ ~(launches'[l].pc \in {"look", "seed", "write", "start"}),
             \A m \in Launches \ {l} : launches'[m] = launches[m]
      PROVE  SeedsApart'
  <2>1. \A m \in Launches \ {l} : Busy(m)' = Busy(m)
    BY <1>3 DEF Busy
  <2>2. Busy(l)' => Undisturbed \/ Busy(l)
    BY <1>3 DEF Busy
  <2> QED BY <1>3, <2>1, <2>2 DEF SeedsApart, Undisturbed
<1>4. ASSUME NEW l \in Launches, NEW given \in Givens, NEW later \in BOOLEAN,
             NEW skip \in BOOLEAN, BeginLaunch(l, given, later, skip)
      PROVE  SeedsApart'
  <2>1. Undisturbed /\ hook' = hook
    BY <1>4 DEF BeginLaunch
  <2> QED BY <1>3, <1>4, <2>1, LaunchBegins
<1>5. ASSUME NEW l \in Launches,
             LookAt(l) \/ FireBooked(l) \/ SeedRead(l) \/ SeedWrite(l) \/ RunLoads(l) \/ RunMisses(l)
      PROVE  SeedsApart'
  <2>1. Undisturbed \/ Busy(l)
    BY <1>5 DEF LookAt, FireBooked, SeedRead, SeedWrite, RunLoads, RunMisses, Busy
  <2>2. \A m \in Launches \ {l} : launches'[m] = launches[m]
    BY <1>5, LaunchLooks, LaunchMoves
  <2>3. hook' = hook
    BY <1>5, LaunchLeaves
  <2> QED BY <1>3, <2>1, <2>2, <2>3
<1> QED BY <1>2, <1>4, <1>5, SeedSteps, SeedBlanks
\* What SeedWrite leaves at the target of the form.
LEMMA WriteSupplies ==
  ASSUME SeedBase, NEW l \in Launches, SeedWrite(l)
  PROVE  LET place == launches[l].form.target
             values == launches[l].values
         IN /\ held'.doc = SetAtContextPath(launches[l].read.doc, place, values)
            /\ \A q \in DOMAIN values : q \in DOMAIN At(held'.doc, place) /\ At(held'.doc, place)[q] = values[q]
            /\ \A p \in DOMAIN launches[l].read.doc :
                 \/ p \in DOMAIN held'.doc /\ held'.doc[p] = launches[l].read.doc[p]
                 \/ IsPrefix(place, p) /\ place # << >>
                 \/ \E q \in DOMAIN values : place = << >> /\ Head(p) = Head(q)
<1> DEFINE call == launches[l]
           doc == SetAtContextPath(call.read.doc, call.form.target, call.values)
<1>1. LaunchShape(call) /\ call.pc = "write"
  BY DEF SeedWrite, SeedBase
<1>2. /\ Tree(call.read.doc) /\ Tree(call.values)
      /\ call.form.target \in Seq(STRING) /\ ~Blocked(call.read.doc, call.form.target)
  BY <1>1, FormParts DEF LaunchShape
<1>3. held' = Object(doc)
  BY DEF SeedWrite
<1>4. held'.doc = doc
  BY <1>3 DEF Object
<1> HIDE DEF call
<1>5. /\ \A q \in DOMAIN call.values :
           q \in DOMAIN At(doc, call.form.target) /\ At(doc, call.form.target)[q] = call.values[q]
      /\ \A p \in DOMAIN call.read.doc :
           \/ p \in DOMAIN doc /\ doc[p] = call.read.doc[p]
           \/ IsPrefix(call.form.target, p) /\ call.form.target # << >>
           \/ \E q \in DOMAIN call.values : call.form.target = << >> /\ Head(p) = Head(q)
  BY <1>2, SeedWritten
<1> HIDE DEF doc
<1> QED BY <1>4, <1>5 DEF call, doc

LEMMA SuppliedByWrite ==
  ASSUME SeedBase, NEW l \in Launches, SeedWrite(l)
  PROVE  Supplied(l)'
<1> DEFINE call == launches[l]
           there == At(held'.doc, call.form.target)
<1>1. LaunchShape(call) /\ call.pc = "write"
  BY DEF SeedWrite, SeedBase
<1>2. /\ launches'[l].pc = "start" /\ launches'[l].form = call.form
      /\ launches'[l].given = call.given /\ launches'[l].booked = call.booked
  BY LaunchMoves
<1>3. \A q \in DOMAIN call.values : q \in DOMAIN there /\ there[q] = call.values[q]
  BY WriteSupplies
<1> HIDE DEF call, there
<1>4. ASSUME ~call.booked
      PROVE  /\ there # Empty
             /\ call.given # Empty => /\ ValidEntry(call.form, there)
                                      /\ \A p \in DOMAIN call.given :
                                           p \in DOMAIN there /\ there[p] = call.given[p]
  <2>1. /\ call.values # Empty /\ Tree(call.values)
        /\ call.given # Empty => /\ ValidEntry(call.form, call.values)
                                 /\ \A p \in DOMAIN call.given :
                                      p \in DOMAIN call.values /\ call.values[p] = call.given[p]
    BY <1>1, <1>4 DEF LaunchShape
  <2>2. DOMAIN call.values # {} /\ DOMAIN Empty = {}
    BY <2>1, EmptyIsTree
  <2>3. there # Empty
    BY <1>3, <2>2
  <2>4. ValidEntry(call.form, call.values) => ValidEntry(call.form, there)
    BY <1>3 DEF ValidEntry
  <2> QED BY <1>3, <2>1, <2>3, <2>4
<1>5. SUFFICES ASSUME ~call.booked
               PROVE  /\ call.form.required => there # Empty
                      /\ call.given # Empty => /\ ValidEntry(call.form, there)
                                               /\ \A p \in DOMAIN call.given :
                                                    p \in DOMAIN there /\ there[p] = call.given[p]
  BY <1>2, Zenon DEF Supplied, EntryValuesInContext, call, there
<1> QED BY <1>4, <1>5

LEMMA SeedsFitStep ==
  ASSUME SeedBase, ~clash, SeedsApart, [SNext]_svars,
         \A l \in Launches : SeedFits(l) /\ Supplied(l), DefaultsYield
  PROVE  DefaultsYield' /\ \A l \in Launches : SeedFits(l)' /\ Supplied(l)'
<1>1. ASSUME NEW m \in Launches, ~(launches'[m].pc \in {"seed", "write", "start"})
      PROVE  SeedFits(m)' /\ Supplied(m)'
  BY <1>1 DEF SeedFits, Supplied
<1>2. ASSUME NEW m \in Launches, launches'[m] = launches[m], held' = held \/ ~Busy(m)
      PROVE  SeedFits(m)' /\ Supplied(m)'
  <2>1. CASE held' = held
    <3>1. SeedFits(m) /\ Supplied(m)
      OBVIOUS
    <3> QED BY <1>2, <2>1, <3>1 DEF SeedFits, Supplied, EntryValuesInContext
  <2>2. CASE ~Busy(m)
    BY <1>1, <1>2, <2>2 DEF Busy
  <2> QED BY <1>2, <2>1, <2>2
<1>3. CASE UNCHANGED <<clash, launches, overrun>> /\ (held' = held \/ Undisturbed \/ hook.pc = "write")
  <2>1. \A m \in Launches : launches'[m] = launches[m] /\ (held' = held \/ ~Busy(m))
    BY <1>3 DEF SeedsApart, Undisturbed
  <2>2. DefaultsYield'
    BY <1>3 DEF DefaultsYield
  <2> QED BY <1>2, <2>1, <2>2
<1>4. ASSUME NEW l \in Launches, Busy(l) \/ Undisturbed,
             \A m \in Launches \ {l} : launches'[m] = launches[m],
             SeedFits(l)', Supplied(l)'
      PROVE  \A m \in Launches : SeedFits(m)' /\ Supplied(m)'
  <2>1. \A m \in Launches \ {l} : ~Busy(m)
    BY <1>4 DEF SeedsApart, Undisturbed
  <2> QED BY <1>2, <1>4, <2>1
<1>5. ASSUME NEW l \in Launches, NEW given \in Givens, NEW later \in BOOLEAN,
             NEW skip \in BOOLEAN, BeginLaunch(l, given, later, skip)
      PROVE  DefaultsYield' /\ \A m \in Launches : SeedFits(m)' /\ Supplied(m)'
  <2>1. Undisturbed /\ launches[l] = NoLaunch /\ overrun' = overrun
    BY <1>5 DEF BeginLaunch
  <2>2. /\ launches'[l].pc \in {"look", "booked", "start"}
        /\ launches'[l].pc = "start" => ~launches'[l].form.fields
        /\ \A m \in Launches \ {l} : launches'[m] = launches[m]
    BY <1>5, LaunchBegins
  <2>3. SeedFits(l)' /\ Supplied(l)'
    BY <2>2 DEF SeedFits, Supplied
  <2>4. l \notin overrun
    BY <2>1, SeedBlanks DEF DefaultsYield
  <2>5. DefaultsYield'
    BY <2>1, <2>2, <2>4 DEF DefaultsYield, SeedBase
  <2> QED BY <1>4, <2>1, <2>2, <2>3, <2>5
<1>6. ASSUME NEW l \in Launches,
             LookAt(l) \/ FireBooked(l) \/ SeedRead(l) \/ SeedWrite(l) \/ RunLoads(l) \/ RunMisses(l)
      PROVE  DefaultsYield' /\ \A m \in Launches : SeedFits(m)' /\ Supplied(m)'
  <2>1. Busy(l) \/ Undisturbed
    BY <1>6 DEF LookAt, FireBooked, SeedRead, SeedWrite, RunLoads, RunMisses, Busy
  <2>2. /\ \A m \in Launches \ {l} : launches'[m] = launches[m]
        /\ launches'[l].booked = launches[l].booked
    BY <1>6, LaunchLooks, LaunchMoves
  <2>3. SeedFits(l) /\ Supplied(l)
    OBVIOUS
  <2>4. SeedFits(l)' /\ Supplied(l)'
    <3>1. CASE LookAt(l)
      <4>1. held' = held
        BY <3>1 DEF LookAt
      <4>2. /\ launches'[l].pc \in {"refused", "booked", "start", "seed"}
            /\ launches'[l].pc = "start" /\ ~launches'[l].booked =>
                 /\ launches'[l].given = Empty
                 /\ launches'[l].form.required => At(held.doc, launches'[l].form.target) # Empty
            /\ launches'[l].pc = "seed" /\ launches'[l].given = Empty =>
                 At(held.doc, launches'[l].form.target) = Empty
        BY <3>1, LaunchLooks
      <4> QED BY <4>1, <4>2 DEF SeedFits, Supplied
    <3>2. CASE FireBooked(l)
      BY <3>2, LaunchMoves DEF SeedFits, Supplied
    <3>3. CASE SeedRead(l)
      <4>1. held' = held /\ launches[l].pc = "seed"
        BY <3>3 DEF SeedRead
      <4>2. launches'[l].pc = "failed"
            \/ /\ launches'[l].pc = "write" /\ launches'[l].read = held
               /\ launches'[l].form = launches[l].form
               /\ launches'[l].given = launches[l].given
        BY <3>3, LaunchMoves
      <4> QED BY <2>2, <2>3, <4>1, <4>2 DEF SeedFits, Supplied
    <3>4. CASE SeedWrite(l)
      <4>1. launches'[l].pc = "start"
        BY <3>4, LaunchMoves
      <4>2. SeedFits(l)'
        BY <4>1 DEF SeedFits
      <4> QED BY <3>4, <4>2, SuppliedByWrite
    <3>5. CASE RunLoads(l) \/ RunMisses(l)
      BY <1>1, <3>5, LaunchMoves
    <3> QED BY <1>6, <3>1, <3>2, <3>3, <3>4, <3>5
  <2>5. \A k \in overrun' : k \in overrun \/ (k = l /\ launches[l].booked)
    <3>1. CASE overrun' = overrun
      BY <3>1
    <3>2. CASE SeedWrite(l)
      <4>1. launches[l].pc = "write" /\ launches[l].read = held
            /\ (~launches[l].booked /\ launches[l].given = Empty =>
                  At(held.doc, launches[l].form.target) = Empty)
        BY <2>3, <3>2 DEF SeedFits, SeedWrite
      <4>2. overrun' = IF launches[l].given = Empty /\ At(held.doc, launches[l].form.target) # Empty
                         THEN overrun \cup {l} ELSE overrun
        BY <3>2 DEF SeedWrite
      <4> QED BY <4>1, <4>2
    <3> QED BY <1>6, <3>1, <3>2, LaunchLeaves
  <2>6. DefaultsYield'
    BY <2>2, <2>5 DEF DefaultsYield, SeedBase
  <2> QED BY <1>4, <2>1, <2>2, <2>4, <2>6
<1> QED BY <1>3, <1>5, <1>6, SeedSteps

LEMMA SeedsStep ==
  ASSUME SeedsInv, [SNext]_svars
  PROVE  SeedsInv'
<1>1. clash' = clash
  BY DEF SNext, svars, SaveContext, DeleteContext, SaveForm, MergeRead, Writes, MergeWrite,
         BeginLaunch, LookAt, FireBooked, SeedRead, SeedWrite, RunLoads, RunMisses
<1>2. SeedBase'
  BY SeedBaseStep DEF SeedsInv
<1>3. ~clash => /\ SeedsApart' /\ DefaultsYield'
                /\ \A l \in Launches : SeedFits(l)' /\ Supplied(l)'
  BY SeedsApartStep, SeedsFitStep DEF SeedsInv
<1> QED BY <1>1, <1>2, <1>3 DEF SeedsInv

\* What a launcher shows of a form is a set of values one may submit.
LEMMA WhatIsShown ==
  ASSUME SeedBase
  PROVE  ShownIsSeeded
<1> DEFINE shown == ResolveEntryView(form, held)
           values == PrepareEntryValues(form, shown)
           doc == SetAtContextPath(held.doc, form.target, values)
<1>1. Tree(form.defaults) /\ form.target \in Seq(STRING) /\ Tree(held.doc)
  BY FormParts DEF SeedBase
<1>2. Tree(At(held.doc, form.target))
  BY <1>1, AtIsTree
<1>3. Tree(shown)
  BY <1>1, <1>2, OverAll DEF ResolveEntryView, EntryDefaults, EntryValuesInContext
<1> HIDE DEF shown
<1>4. Tree(values) /\ \A p \in DOMAIN shown : p \in DOMAIN values /\ values[p] = shown[p]
  BY <1>1, <1>3, OverAll DEF PrepareEntryValues, EntryDefaults
<1> HIDE DEF values
<1>5. ASSUME ~Blocked(held.doc, form.target)
      PROVE  \A p \in DOMAIN shown : p \in DOMAIN At(doc, form.target)
                                     /\ At(doc, form.target)[p] = shown[p]
  <2>1. \A q \in DOMAIN values : q \in DOMAIN At(doc, form.target) /\ At(doc, form.target)[q] = values[q]
    BY <1>1, <1>4, <1>5, SeedWritten
  <2> QED BY <1>4, <2>1
<1> QED BY <1>5 DEF ShownIsSeeded, shown, values

LEMMA SeedsShown ==
  ASSUME SeedsInv
  PROVE  STypeOK /\ InputIsThere /\ ShownIsSeeded /\ DefaultsYield
<1>1. SeedBase
  BY DEF SeedsInv
<1>2. STypeOK
  BY <1>1 DEF STypeOK, SeedBase, LaunchShape, SeedPcs, Tree
<1>3. InputIsThere
  BY DEF SeedsInv, InputIsThere, Supplied
<1>4. DefaultsYield
  BY DEF SeedsInv, DefaultsYield
<1> QED BY <1>1, <1>2, <1>3, <1>4, WhatIsShown

LEMMA SeedKeepsStep ==
  ASSUME SeedsInv, [SNext]_svars
  PROVE  SeedKeepsRest
<1>1. SUFFICES ASSUME ~clash, NEW l \in Launches, launches[l].pc = "write",
                      launches'[l].pc = "start", NEW p \in DOMAIN held.doc
               PROVE  \/ p \in DOMAIN held'.doc /\ held'.doc[p] = held.doc[p]
                      \/ IsPrefix(launches[l].form.target, p) /\ launches[l].form.target # << >>
                      \/ \E q \in DOMAIN launches[l].values :
                           launches[l].form.target = << >> /\ Head(p) = Head(q)
  BY DEF SeedKeepsRest
<1>2. SeedBase /\ SeedFits(l)
  BY <1>1 DEF SeedsInv
<1>3. SeedWrite(l)
  <2>1. launches'[l] # launches[l]
    BY <1>1
  <2>2. ASSUME NEW m \in Launches, NEW given \in Givens, NEW later \in BOOLEAN,
               NEW skip \in BOOLEAN, BeginLaunch(m, given, later, skip)
        PROVE  FALSE
    <3>1. m = l
      BY <1>2, <2>1, <2>2, LaunchBegins
    <3> QED BY <1>1, <2>2, <3>1, SeedBlanks DEF BeginLaunch
  <2>3. ASSUME NEW m \in Launches,
               LookAt(m) \/ FireBooked(m) \/ SeedRead(m) \/ SeedWrite(m) \/ RunLoads(m) \/ RunMisses(m)
        PROVE  SeedWrite(l)
    <3>1. m = l
      BY <1>2, <2>1, <2>3, LaunchLooks, LaunchMoves
    <3> QED BY <1>1, <2>3, <3>1 DEF LookAt, FireBooked, SeedRead, RunLoads, RunMisses
  <2> QED BY <1>2, <2>1, <2>2, <2>3, SeedSteps
<1>4. launches[l].read = held
  BY <1>1, <1>2 DEF SeedFits
<1> QED BY <1>2, <1>3, <1>4, WriteSupplies

\* A launch that starts finds its input where the form puts it, what a launcher
\* shows is what submitting it seeds, and defaults yield to what is there: the entry
\* form's seed (SeedEntry, PrepareEntryValues, ResolveEntryView), for any documents,
\* forms and launches.
THEOREM SeedsKept == TSpec => []SeedsHold
<1> DEFINE Inv == scene = "seeds" => SeedsInv
<1>1. TInit => Inv BY ScenesOpen, SeedsInitial
<1>2. Inv /\ [TNext]_tvars => Inv' BY ScenesApart, SeedsStep
<1>3. Inv => SeedsHold BY SeedsShown DEF SeedsHold
<1> QED BY <1>1, <1>2, <1>3, PTL DEF TSpec

\* No save, sync, crash or boot changes the id an imported plugin answers to
\* (resolvePluginID) when requests come one at a time and its row can be read, and
\* a seed leaves everything in the document that is not at its place
\* (SetAtContextPath).
THEOREM StepsAreKept == TSpec => StepsKeep
<1> DEFINE Inv == /\ scene = "extensions" => ExtensionsInv
                  /\ scene = "seeds" => SeedsInv
           AsItWas == /\ scene = "extensions" => PluginIdKept
                      /\ scene = "seeds" => SeedKeepsRest
<1>1. TInit => Inv BY ScenesOpen, ExtensionsInitial, SeedsInitial
<1>2. Inv /\ [TNext]_tvars => Inv' BY ScenesApart, ExtensionsStep, SeedsStep
<1>3. Inv /\ [TNext]_tvars => AsItWas BY ScenesApart, PluginIdStep, SeedKeepsStep
<1> QED BY <1>1, <1>2, <1>3, PTL DEF TSpec, StepsKeep
=============================================================================
