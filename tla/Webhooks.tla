------------------------------- MODULE Webhooks -------------------------------
(***************************************************************************)
(* Webhook triggers: a delivery from the slug it names to its line in the  *)
(* hook's bounded log, next to the saves, the deletes and the scheduler's  *)
(* mark that write the same row.                                           *)
(*                                                                         *)
(* An action is one statement with the local work up to the next.  A call  *)
(* says what the checks ask of it: its method is listed, its address is    *)
(* listed, its header is missing, wrong, or proves one secret.  A line of  *)
(* the log is the number of its delivery with its status.                  *)
(***************************************************************************)
EXTENDS Naturals, FiniteSets, SequencesExt

CONSTANTS
  Hook,        \* ids of triggers
  Slug,        \* slugs a save may name; "" asks for the stored or a fresh one
  Secret,      \* secrets; "" is a field the client left blank
  Calls,       \* deliveries, a goroutine each
  Savers,      \* goroutines that serve the trigger routes and tools
  Jams,        \* may operations overlap?  the settings to check
  MaxHits,     \* lines a log keeps: MaxTriggerHits
  MaxEdits     \* bound on saves, deletes and marks, with overlaps and without

ASSUME WebhooksOK ==
  /\ "" \in Slug
  /\ Hook \cap Slug = {}
  /\ "" \in Secret
  /\ Jams \subseteq BOOLEAN
  /\ MaxHits \in Nat \ {0}
  /\ MaxEdits \in [BOOLEAN -> Nat]

VARIABLES
  jam,       \* do operations overlap?
  hooks,     \* the triggers table, by id
  deliveries,     \* the deliveries
  savers,    \* the save each saver is in, or the mark
  changes,   \* saves, deletes and marks begun
  logged,    \* history: the lines written for each row, the newest first
  meant      \* history: the slug and the secret each hook was last given, and
             \* how many lines were written before it was last created

hookVars == <<jam, hooks, deliveries, savers, changes, logged, meant>>

NoAuth == [method |-> "nil", secret |-> ""]
NoHook == [there |-> FALSE, kind |-> "schedule", on |-> FALSE, slug |-> "",
           auth |-> NoAuth, listed |-> FALSE, gated |-> FALSE, hits |-> << >>, last |-> 0]
NoDelivery == [pc |-> "waits", id |-> "none", status |-> 0, hits |-> << >>, last |-> 0]
NoSaver == [pc |-> "idle", id |-> "none", row |-> NoHook, slug |-> "", secret |-> ""]
NeverMeant == [slug |-> "", secret |-> "", from |-> 0]

Rows == {h \in Hook : hooks[h].there}
CallAtRest(d) == deliveries[d].pc \in {"waits", "over"}
AllAtRest == /\ \A d \in Calls : CallAtRest(d)
             /\ \A s \in Savers : savers[s].pc = "idle"

HooksInit ==
  /\ jam \in Jams
  /\ hooks = [h \in Hook |-> NoHook]
  /\ deliveries = [d \in Calls |-> NoDelivery]
  /\ savers = [s \in Savers |-> NoSaver]
  /\ changes = 0
  /\ logged = [h \in Hook |-> << >>]
  /\ meant = [h \in Hook |-> NeverMeant]

-----------------------------------------------------------------------------
(* Saving a trigger                                                        *)

Change == (jam \/ AllAtRest) /\ changes < MaxEdits[jam] /\ changes' = changes + 1

\* What normalize refuses, and what it clears.
Refused(row) ==
  row.kind = "webhook" /\ row.auth.method \in {"nil", "none"} /\ ~row.listed
Normalized(row) ==
  IF row.kind = "schedule"
    THEN [row EXCEPT !.slug = "", !.auth = NoAuth, !.listed = FALSE, !.gated = FALSE]
  ELSE IF row.auth.method = "nil" THEN [row EXCEPT !.auth.method = "none"] ELSE row

\* ensureSlug: a blank slug is the stored one, or a fresh one, which is the
\* hook's own.
KeptSlug(h) == IF hooks[h].slug # "" THEN hooks[h].slug ELSE h

BeginSaveHook(s, h, row) ==
  /\ Change
  /\ savers[s].pc = "idle"
  /\ ~Refused(row)
  /\ savers' = [savers EXCEPT ![s] =
       [pc |-> "read", id |-> h, slug |-> row.slug, secret |-> row.auth.secret,
        row |-> LET r == Normalized(row)
                IN IF r.kind = "webhook" /\ r.slug = ""
                     THEN [r EXCEPT !.slug = KeptSlug(h)] ELSE r]]
  /\ UNCHANGED <<jam, hooks, deliveries, logged, meant>>

\* The repository keeps the log, the last fire, and a secret left blank.
KeepsAll(row, old) ==
  [row EXCEPT !.hits = old.hits, !.last = old.last,
              !.auth.secret = IF row.auth.method # "nil" /\ @ = "" /\ old.auth.method # "nil"
                                THEN old.auth.secret ELSE @]
DropsLog(row, old) == [KeepsAll(row, old) EXCEPT !.hits = row.hits]
RuntimeKept(row, old) == KeepsAll(row, old)

Given(new, old) == IF new = "" THEN old ELSE new

ReadForSave(s) ==
  /\ savers[s].pc = "read"
  /\ savers' = [savers EXCEPT ![s].pc = "write",
       ![s].row = IF savers[s].id \in Rows THEN RuntimeKept(@, hooks[savers[s].id]) ELSE @]
  /\ UNCHANGED <<jam, hooks, deliveries, changes, logged, meant>>

\* The table has one row of a slug.
Taken(h, slug) == slug # "" /\ \E g \in Rows \ {h} : hooks[g].slug = slug

SlugConflict(s) ==
  /\ savers[s].pc = "write"
  /\ Taken(savers[s].id, savers[s].row.slug)
  /\ savers' = [savers EXCEPT ![s] = NoSaver]
  /\ UNCHANGED <<jam, hooks, deliveries, changes, logged, meant>>

\* What a save gives its hook, as it is stored.
MeantBy(told, save, row) ==
  IF row.kind = "schedule" THEN [told EXCEPT !.slug = "", !.secret = ""]
  ELSE [told EXCEPT !.slug = Given(save.slug, IF told.slug = "" THEN row.slug ELSE told.slug),
                    !.secret = Given(save.secret, told.secret)]

SaveHook(s) ==
  LET h == savers[s].id
      row == [savers[s].row EXCEPT !.there = TRUE]
  IN /\ savers[s].pc = "write"
     /\ ~Taken(h, row.slug)
     /\ hooks' = [hooks EXCEPT ![h] = row]
     /\ meant' = [meant EXCEPT ![h] = MeantBy(@, savers[s], row)]
     /\ savers' = [savers EXCEPT ![s] = NoSaver]
     /\ UNCHANGED <<jam, deliveries, changes, logged>>

DeleteHook(h) ==
  /\ Change
  /\ h \in Rows
  /\ hooks' = [hooks EXCEPT ![h] = NoHook]
  /\ meant' = [meant EXCEPT ![h] = [NeverMeant EXCEPT !.from = Len(logged[h])]]
  /\ UNCHANGED <<jam, deliveries, savers, logged>>

-----------------------------------------------------------------------------
(* The scheduler's mark: a read, then the time with the log as it was read *)

BeginMark(s, h) ==
  /\ Change
  /\ savers[s].pc = "idle"
  /\ h \in Rows /\ hooks[h].kind = "schedule" /\ hooks[h].on
  /\ savers' = [savers EXCEPT ![s] = [NoSaver EXCEPT !.pc = "mark", !.id = h,
                                                     !.row = hooks[h]]]
  /\ UNCHANGED <<jam, hooks, deliveries, logged, meant>>

MarkFired(s) ==
  LET h == savers[s].id
  IN /\ savers[s].pc = "mark"
     /\ hooks' = IF h \in Rows
                   THEN [hooks EXCEPT ![h].last = changes, ![h].hits = savers[s].row.hits]
                   ELSE hooks
     /\ savers' = [savers EXCEPT ![s] = NoSaver]
     /\ UNCHANGED <<jam, deliveries, changes, logged, meant>>

-----------------------------------------------------------------------------
(* A delivery                                                              *)

\* A token, credentials or a signature made with the hook's secret.
Proves(header, secret) == header # "" /\ header = secret

\* The check of the address comes first: alone it admits only where there is
\* no credential to ask for.  An entry of the list is needed for that.
Authorize(hook, call) ==
  IF hook.auth.method = "none" /\ ~hook.listed THEN 401
  ELSE IF hook.listed /\ ~call.ip THEN 403
  ELSE IF hook.auth.method = "none" \/ Proves(call.header, hook.auth.secret) THEN 200
  ELSE 401

\* The verdict before a launch: OPTIONS is answered without a line.
Verdict(hook, call) ==
  IF hook.gated /\ ~call.method THEN 405 ELSE Authorize(hook, call)

\* An enabled row of the slug that is a webhook; anything else is not found.
Receive(d, slug, method, ip, header) ==
  LET found == {h \in Rows : hooks[h].slug = slug /\ hooks[h].on
                             /\ hooks[h].kind = "webhook"}
      call == [method |-> method, ip |-> ip, header |-> header]
  IN /\ jam \/ AllAtRest
     /\ deliveries[d].pc = "waits"
     /\ slug # ""
     /\ IF found = {} THEN deliveries' = [deliveries EXCEPT ![d].pc = "over"]
        ELSE \E h \in found :
               LET status == Verdict(hooks[h], call)
               IN deliveries' = [deliveries EXCEPT ![d] =
                    [NoDelivery EXCEPT !.id = h, !.status = status,
                                   !.pc = IF status = 200 THEN "launch" ELSE "hit"]]
     /\ UNCHANGED <<jam, hooks, savers, changes, logged, meant>>

\* LaunchTrigger succeeds, or it does not.
LaunchHook(d) ==
  /\ deliveries[d].pc = "launch"
  /\ \E status \in {202, 502} :
       deliveries' = [deliveries EXCEPT ![d].pc = "hit", ![d].status = status]
  /\ UNCHANGED <<jam, hooks, savers, changes, logged, meant>>

\* RecordHit: best effort, a row that is gone has no log.
ReadHits(d) ==
  LET h == deliveries[d].id
  IN /\ deliveries[d].pc = "hit"
     /\ deliveries' = [deliveries EXCEPT ![d].pc = IF h \in Rows THEN "log" ELSE "over",
                               ![d].hits = hooks[h].hits, ![d].last = hooks[h].last]
     /\ UNCHANGED <<jam, hooks, savers, changes, logged, meant>>

Prepended(line, hits) ==
  SubSeq(<<line>> \o hits, 1, IF Len(hits) < MaxHits THEN Len(hits) + 1 ELSE MaxHits)

WriteHits(d) ==
  LET h == deliveries[d].id
      line == [call |-> d, status |-> deliveries[d].status]
  IN /\ deliveries[d].pc = "log"
     /\ hooks' = IF h \in Rows
                   THEN [hooks EXCEPT ![h].hits = Prepended(line, deliveries[d].hits),
                                      ![h].last = deliveries[d].last]
                   ELSE hooks
     /\ logged' = IF h \in Rows THEN [logged EXCEPT ![h] = <<line>> \o @] ELSE logged
     /\ deliveries' = [deliveries EXCEPT ![d] = [NoDelivery EXCEPT !.pc = "over", !.id = h]]
     /\ UNCHANGED <<jam, savers, changes, meant>>

-----------------------------------------------------------------------------
\* What a client sends: webhooks of every kind, and a schedule that says
\* nothing of a webhook, or was one.
AuthForms == [method : {"none"}, secret : {""}] \cup [method : {"static"}, secret : Secret]
WebhookForms ==
  [there : {FALSE}, kind : {"webhook"}, on : BOOLEAN, slug : Slug, auth : AuthForms,
   listed : BOOLEAN, gated : {TRUE}, hits : {<< >>}, last : {0}]
HookForms ==
  WebhookForms
    \cup {[NoHook EXCEPT !.on = on] : on \in BOOLEAN}
    \cup {[row EXCEPT !.kind = "schedule"] :
             row \in {w \in WebhookForms : w.listed /\ w.on /\ w.slug # "" /\ w.auth.secret # ""}}

HooksNext ==
  \/ \E s \in Savers, h \in Hook :
       \/ \E row \in HookForms : BeginSaveHook(s, h, row)
       \/ BeginMark(s, h)
  \/ \E s \in Savers : ReadForSave(s) \/ SlugConflict(s) \/ SaveHook(s) \/ MarkFired(s)
  \/ \E h \in Hook : DeleteHook(h)
  \/ \E d \in Calls, slug \in Slug \cup Hook, method \in BOOLEAN, ip \in BOOLEAN,
        header \in Secret : Receive(d, slug, method, ip, header)
  \/ \E d \in Calls : LaunchHook(d) \/ ReadHits(d) \/ WriteHits(d)

HooksSpec == HooksInit /\ [][HooksNext]_hookVars

-----------------------------------------------------------------------------
HooksTypeOK ==
  /\ \A h \in Hook :
       /\ hooks[h].kind \in {"webhook", "schedule"}
       /\ hooks[h].slug \in Slug \cup Hook
       /\ hooks[h].auth.secret \in Secret
       /\ Len(hooks[h].hits) <= MaxHits
       /\ ~hooks[h].there => hooks[h] = NoHook
  /\ \A d \in Calls : deliveries[d].pc \in {"waits", "launch", "hit", "log", "over"}
  /\ \A s \in Savers : savers[s].pc \in {"idle", "read", "write", "mark"}
  /\ changes \in 0..MaxEdits[jam]

\* The log is the newest lines, in the order of their deliveries, whatever
\* was saved in between; and when deliveries, saves and marks overlap it may
\* miss lines, but it never repeats one or shows them out of order.
LogIsTrue ==
  \A h \in Rows :
    LET hits == hooks[h].hits
        all == logged[h]
        own == Len(all) - meant[h].from
    IN /\ ~jam => hits = SubSeq(all, 1, IF own < MaxHits THEN own ELSE MaxHits)
       /\ \E at \in [1..Len(hits) -> 1..Len(all)] :
            /\ \A i \in 1..Len(hits) : hits[i] = all[at[i]]
            /\ \A i, j \in 1..Len(hits) : i < j => at[i] < at[j]

\* A hook's public address and its secret outlive the saves that leave them
\* blank, until it stops being a webhook.
AddressSurvives ==
  ~jam => \A h \in Rows :
    hooks[h].kind = "webhook" =>
      /\ hooks[h].slug = meant[h].slug
      /\ hooks[h].auth.method # "nil" => hooks[h].auth.secret = meant[h].secret
=============================================================================
