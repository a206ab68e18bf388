----------------------------- MODULE MemoryStores -----------------------------
(***************************************************************************)
(* Memory stores: the memory_stores table, the document table or vector    *)
(* index behind each row, the operations of the data browser, of the MCP   *)
(* tools and of the store nodes of a flow.                                 *)
(*                                                                         *)
(* A store's id is new each time, its document table's name is the         *)
(* author's.  One action is one database statement with the local work up  *)
(* to the next: every operation begins by reading the row and goes on with *)
(* the copy, an index operation after the model has embedded its text.     *)
(***************************************************************************)
EXTENDS VectorIndex, Functions

CONSTANTS
  Store,      \* ids the repository hands out, each once
  TableOf,    \* the document table the author of each store names
  Specs,      \* what a create may ask for
  Old,        \* stores that may be there already: vector stores, unpartitioned
  Starts,      \* which of Old are there and which ids are yet to be handed out
  Clients,    \* goroutines serving HTTP and MCP requests
  Node,       \* document write nodes of flows
  NodeStore,  \* the store each of them names
  Keyed,      \* nodes with a key their result is merged under
  Requests,   \* what an index or search request may say
  Distances,  \* how far an embedded text may lie from the one searched for
  Backends,   \* "sqlite"; "postgres" with a sidecar index; "bare" without
  MaxDocs, MaxVectors,  \* bounds on ids
  MaxCuts               \* bound on crashes, lost replies and failed statements

ASSUME MemoryOK ==
  /\ Old \subseteq Store
  /\ \A b \in Starts : b.old \subseteq Old /\ b.fresh \subseteq Store \ Old
  /\ Keyed \subseteq Node
  /\ DOMAIN TableOf = Store
  /\ NodeStore \in [Node -> Store]
  /\ Backends \subseteq {"sqlite", "postgres", "bare"}
  /\ Clients \cap Node = {}
  /\ Distances \subseteq Nat
  /\ {MaxDocs, MaxVectors, MaxCuts} \subseteq Nat

VARIABLES
  backend,   \* the database the store rows are in
  stores,    \* memory_stores: by id
  tables,    \* document tables: by name
  indexes,   \* vector indexes: by store id
  calls,     \* the operation each client is in
  visits,    \* the write each node is in
  carried,   \* the id a node's last result left in its flow's data, or 0
  ids,       \* ids handed out: stores, documents, vectors
  cuts,      \* crashes and failures so far
  created,   \* history: stores whose create has been answered
  kept,      \* history: documents and vectors acknowledged and not removed
  unsaid     \* history: per node, inserts whose id never reached the data

mvars == <<backend, stores, tables, indexes, calls, visits, carried, ids, cuts,
           created, kept, unsaid>>
backed == <<stores, tables, indexes>>
history == <<created, kept, unsaid>>

NoStore == [type |-> "none", table |-> "", metric |-> ""]
NoTable == [there |-> FALSE, docs |-> {}]
NoCall == [pc |-> "idle", store |-> "none", row |-> NoStore, what |-> 0, req |-> <<>>]
NoVisit == [pc |-> "idle", row |-> NoStore, prior |-> 0, doc |-> {}, id |-> 0]

Exists(s) == stores[s].type # "none"

MInit ==
  /\ backend \in Backends
  /\ \E b \in Starts :
       /\ stores = [s \in Store |->
            IF s \in b.old THEN [type |-> "vector", table |-> "", metric |-> "cosine"]
            ELSE NoStore]
       /\ indexes = [s \in Store |->
            IF s \in b.old THEN [NoIndex EXCEPT !.there = TRUE, !.metric = "cosine"]
            ELSE NoIndex]
       /\ ids = [stores |-> Store \ b.fresh, docs |-> 0, vectors |-> 0]
       /\ created = b.old
  /\ tables = [t \in Range(TableOf) |-> NoTable]
  /\ calls = [c \in Clients |-> NoCall]
  /\ visits = [n \in Node |-> NoVisit]
  /\ carried = [n \in Node |-> 0]
  /\ cuts = 0
  /\ kept = [docs |-> {}, vectors |-> {}]
  /\ unsaid = [n \in Node |-> 0]

SetCall(c, call) == calls' = [calls EXCEPT ![c] = call]
Cut == cuts < MaxCuts /\ cuts' = cuts + 1

-----------------------------------------------------------------------------
(* Creating and deleting stores                                            *)

\* Both doors check a spec the same way and drop the other type's half.
ValidateMemory(spec) ==
  /\ spec.name
  /\ \/ spec.type = "vector" /\ spec.provider /\ spec.model /\ spec.dimensions > 0
     \/ spec.type = "document" /\ spec.safe /\ spec.columns > 0
ValidateNewStore(spec) ==
  /\ spec.name
  /\ CASE spec.type = "vector" -> spec.provider /\ spec.model /\ spec.dimensions > 0
       [] spec.type = "document" -> spec.safe /\ spec.columns > 0
       [] OTHER -> FALSE
Admits(door, spec) ==
  IF door = "web" THEN ValidateMemory(spec) ELSE ValidateNewStore(spec)

\* The web keeps the metric as it came; the tools trim it.
MetricOf(door, spec) ==
  IF door = "mcp" /\ spec.metric = " euclidean" THEN "euclidean" ELSE spec.metric

RowOf(door, s, spec) ==
  IF spec.type = "vector"
    THEN [type |-> "vector", table |-> "", metric |-> MetricOf(door, spec)]
    ELSE [type |-> "document", table |-> TableOf[s], metric |-> ""]

\* Without an index to put it in a vector store is refused before its row.
HasVectorIndex == backend # "bare"

Create(c, s, door, spec) ==
  /\ calls[c].pc = "idle"
  /\ s \notin ids.stores
  /\ Admits(door, spec)
  /\ backend # "sqlite" /\ spec.type = "vector" => HasVectorIndex
  /\ ids' = [ids EXCEPT !.stores = @ \cup {s}]
  /\ stores' = [stores EXCEPT ![s] = RowOf(door, s, spec)]
  /\ SetCall(c, [NoCall EXCEPT !.pc = "provision", !.store = s,
                               !.row = RowOf(door, s, spec)])
  /\ UNCHANGED <<backend, tables, indexes, visits, carried, cuts, history>>

TableMade(t) == [tables EXCEPT ![t].there = TRUE]

\* The index, or the table: one that is there is taken as it is.
Provisioned(c) ==
  LET call == calls[c]
      s == call.store
  IN /\ call.pc = "provision"
     /\ IF call.row.type = "vector"
          THEN /\ indexes' = [indexes EXCEPT ![s] = Provision(@, call.row.metric)]
               /\ UNCHANGED tables
          ELSE /\ tables' = TableMade(call.row.table)
               /\ UNCHANGED indexes
     /\ created' = created \cup {s}
     /\ SetCall(c, NoCall)
     /\ UNCHANGED <<backend, stores, visits, carried, ids, cuts, kept, unsaid>>

AfterFailedProvision(call) == [call EXCEPT !.pc = "rollback"]

ProvisionFails(c) ==
  /\ calls[c].pc = "provision"
  /\ Cut
  /\ SetCall(c, AfterFailedProvision(calls[c]))
  /\ UNCHANGED <<backend, backed, visits, carried, ids, history>>

\* The row is taken back, and the caller told of the failure.
RollBack(c) ==
  /\ calls[c].pc = "rollback"
  /\ stores' = [stores EXCEPT ![calls[c].store] = NoStore]
  /\ SetCall(c, NoCall)
  /\ UNCHANGED <<backend, tables, indexes, visits, carried, ids, cuts, history>>

\* Delete: the row first, then what is behind it.
DeleteStep(pc) ==
  CASE pc = "begin" -> "forget" [] pc = "forget" -> "drop" [] pc = "drop" -> "idle"
GoesOn(call) ==
  IF DeleteStep(call.pc) = "idle" THEN NoCall ELSE [call EXCEPT !.pc = DeleteStep(@)]

BeginDeleteStore(c, s) ==
  /\ calls[c].pc = "idle"
  /\ Exists(s)
  /\ SetCall(c, [NoCall EXCEPT !.pc = DeleteStep("begin"), !.store = s, !.row = stores[s]])
  /\ UNCHANGED <<backend, backed, visits, carried, ids, cuts, history>>

DeleteStoreRow(c) ==
  /\ calls[c].pc = "forget"
  /\ stores' = [stores EXCEPT ![calls[c].store] = NoStore]
  /\ SetCall(c, GoesOn(calls[c]))
  /\ UNCHANGED <<backend, tables, indexes, visits, carried, ids, cuts, history>>

\* What was behind it goes, if there is something that can drop it.
DropBacking(c) ==
  LET call == calls[c]
  IN /\ call.pc = "drop"
     /\ IF call.row.type = "document"
          THEN /\ tables' = [tables EXCEPT ![call.row.table] = NoTable]
               /\ UNCHANGED indexes
          ELSE /\ indexes' = IF HasVectorIndex
                               THEN [indexes EXCEPT ![call.store] = NoIndex]
                               ELSE indexes
               /\ UNCHANGED tables
     /\ SetCall(c, GoesOn(call))
     /\ UNCHANGED <<backend, stores, visits, carried, ids, cuts, history>>

\* The row is gone; what cannot be dropped is left.
DropFails(c) ==
  /\ calls[c].pc = "drop"
  /\ Cut
  /\ SetCall(c, NoCall)
  /\ UNCHANGED <<backend, backed, visits, carried, ids, history>>

-----------------------------------------------------------------------------
(* Records                                                                 *)

\* docStore and vecStore: the row, if it is of the type.
Resolves(c, s, type, call) ==
  /\ calls[c].pc = "idle"
  /\ stores[s].type = type
  /\ SetCall(c, [call EXCEPT !.store = s, !.row = stores[s]])
  /\ UNCHANGED <<backend, backed, visits, carried, ids, cuts, history>>

BeginWrite(c, s) == Resolves(c, s, "document", [NoCall EXCEPT !.pc = "write"])
BeginUpdateDoc(c, s, d) ==
  Resolves(c, s, "document", [NoCall EXCEPT !.pc = "update", !.what = d])
BeginRemove(c, s, d) ==
  Resolves(c, s, "document", [NoCall EXCEPT !.pc = "remove", !.what = d])
BeginIndex(c, s, door, req) ==
  Resolves(c, s, "vector", [NoCall EXCEPT !.pc = "embed", !.req = RecordOf(door, req)])
BeginUnindex(c, s, v) ==
  Resolves(c, s, "vector", [NoCall EXCEPT !.pc = "unindex", !.what = v])

\* The statement finds no table, or the gateway no embedding.
Fails(c) ==
  LET call == calls[c]
  IN /\ \/ call.pc \in {"write", "update", "remove"} /\ ~tables[call.row.table].there
        \/ call.pc = "embed"
        \/ call.pc \in {"index", "unindex"} /\ ~(HasVectorIndex /\ indexes[call.store].there)
     /\ SetCall(c, NoCall)
     /\ UNCHANGED <<backend, backed, visits, carried, ids, cuts, history>>

Doc(id, by, body) == [id |-> id, by |-> by, body |-> body]
Docs(t) == tables[t].docs
HasDoc(t, d) == \E x \in Docs(t) : x.id = d
WithoutAt(docs, d) == {x \in docs : x.id # d}

WriteDocument(c) ==
  LET call == calls[c]
      t == call.row.table
      d == ids.docs + 1
  IN /\ call.pc = "write"
     /\ tables[t].there
     /\ d <= MaxDocs
     /\ ids' = [ids EXCEPT !.docs = d]
     /\ tables' = [tables EXCEPT ![t].docs = @ \cup {Doc(d, c, {})}]
     /\ kept' = [kept EXCEPT !.docs = @ \cup {<<call.store, d>>}]
     /\ SetCall(c, NoCall)
     /\ UNCHANGED <<backend, stores, indexes, visits, carried, cuts, created, unsaid>>

\* A document nobody has under the id is answered with not found.
UpdateDocument(c) ==
  LET call == calls[c]
      t == call.row.table
  IN /\ call.pc = "update"
     /\ tables[t].there
     /\ tables' = [tables EXCEPT ![t].docs =
          {IF x.id = call.what THEN [x EXCEPT !.body = {}] ELSE x : x \in @}]
     /\ SetCall(c, NoCall)
     /\ UNCHANGED <<backend, stores, indexes, visits, carried, ids, cuts, history>>

DeleteDocument(c) ==
  LET call == calls[c]
      t == call.row.table
  IN /\ call.pc = "remove"
     /\ tables[t].there
     /\ tables' = [tables EXCEPT ![t].docs = WithoutAt(@, call.what)]
     /\ kept' = [kept EXCEPT !.docs = @ \ {<<call.store, call.what>>}]
     /\ SetCall(c, NoCall)
     /\ UNCHANGED <<backend, stores, indexes, visits, carried, ids, cuts, created, unsaid>>

\* The model has answered with a vector of the store's width.
Embedded(c) ==
  /\ calls[c].pc = "embed"
  /\ SetCall(c, [calls[c] EXCEPT !.pc = "index"])
  /\ UNCHANGED <<backend, backed, visits, carried, ids, cuts, history>>

IndexVector(c, distance) ==
  LET call == calls[c]
      s == call.store
      v == ids.vectors + 1
  IN /\ call.pc = "index"
     /\ HasVectorIndex
     /\ indexes[s].there
     /\ v <= MaxVectors
     /\ ids' = [ids EXCEPT !.vectors = v]
     /\ indexes' = [indexes EXCEPT ![s] = Index(@, v, distance, call.req)]
     /\ kept' = [kept EXCEPT !.vectors = @ \cup
          {[store |-> s, id |-> v, distance |-> distance,
            partition |-> call.req.partition, metadata |-> call.req.metadata]}]
     /\ SetCall(c, NoCall)
     /\ UNCHANGED <<backend, stores, tables, visits, carried, cuts, created, unsaid>>

DeleteVector(c) ==
  LET call == calls[c]
      s == call.store
  IN /\ call.pc = "unindex"
     /\ HasVectorIndex
     /\ indexes[s].there
     /\ indexes' = [indexes EXCEPT ![s] = DeleteRecord(@, call.what)]
     /\ kept' = [kept EXCEPT !.vectors =
          {k \in @ : k.store = s => k.id # call.what}]
     /\ SetCall(c, NoCall)
     /\ UNCHANGED <<backend, stores, tables, visits, carried, ids, cuts, created, unsaid>>

-----------------------------------------------------------------------------
(* A flow's write node: at most one run of a node at a time                *)

SetVisit(n, visit) == visits' = [visits EXCEPT ![n] = visit]

\* The node's data: the flow's, and under the node's key its last result.
ScopedData(n) == {"x"} \cup (IF n \in Keyed /\ carried[n] # 0 THEN {"result"} ELSE {})

PriorDocID(n) == IF n \in Keyed THEN carried[n] ELSE 0

\* What is stored leaves the node's own last result out.
StorableDoc(n, payload) == IF n \in Keyed THEN payload \ {"result"} ELSE payload

\* HandleDocStore resolves the store; the node's input, if it is an object, is
\* the document, else the data the flow is at.
NodeWrites(n) ==
  /\ visits[n].pc = "idle"
  /\ stores[NodeStore[n]].type = "document"
  /\ \E payload \in {{"y"}, ScopedData(n)} :
       SetVisit(n, [NoVisit EXCEPT !.pc = IF PriorDocID(n) # 0 THEN "update" ELSE "insert",
                      !.row = stores[NodeStore[n]], !.prior = PriorDocID(n),
                      !.doc = StorableDoc(n, payload)])
  /\ UNCHANGED <<backend, backed, calls, carried, ids, cuts, history>>

AfterMissingUpdate(visit) == "insert"

\* The document of the run before, if it is still there.
NodeUpdates(n) ==
  LET visit == visits[n]
      t == visit.row.table
      found == HasDoc(t, visit.prior)
  IN /\ visit.pc = "update"
     /\ tables[t].there
     /\ tables' = [tables EXCEPT ![t].docs =
          {IF x.id = visit.prior THEN [x EXCEPT !.body = visit.doc] ELSE x : x \in @}]
     /\ SetVisit(n, IF found THEN [visit EXCEPT !.pc = "reply", !.id = visit.prior]
                    ELSE [visit EXCEPT !.pc = AfterMissingUpdate(visit)])
     /\ UNCHANGED <<backend, stores, indexes, calls, carried, ids, cuts, history>>

NodeInserts(n) ==
  LET visit == visits[n]
      t == visit.row.table
      d == ids.docs + 1
  IN /\ visit.pc = "insert"
     /\ tables[t].there
     /\ d <= MaxDocs
     /\ ids' = [ids EXCEPT !.docs = d]
     /\ tables' = [tables EXCEPT ![t].docs = @ \cup {Doc(d, n, visit.doc)}]
     /\ SetVisit(n, [visit EXCEPT !.pc = "reply", !.id = d])
     /\ UNCHANGED <<backend, stores, indexes, calls, carried, cuts, history>>

NodeFails(n) ==
  /\ visits[n].pc \in {"update", "insert"}
  /\ ~tables[visits[n].row.table].there
  /\ SetVisit(n, NoVisit)
  /\ UNCHANGED <<backend, backed, calls, carried, ids, cuts, history>>

\* The reply is merged into the data the next run of the flow starts from ...
NodeReplies(n) ==
  /\ visits[n].pc = "reply"
  /\ carried' = [carried EXCEPT ![n] = visits[n].id]
  /\ SetVisit(n, NoVisit)
  /\ UNCHANGED <<backend, backed, calls, ids, cuts, history>>

\* ... unless the run never gets to store it.
ReplyIsLost(n) ==
  /\ visits[n].pc = "reply"
  /\ Cut
  /\ unsaid' = IF visits[n].id = carried[n] THEN unsaid ELSE [unsaid EXCEPT ![n] = @ + 1]
  /\ SetVisit(n, NoVisit)
  /\ UNCHANGED <<backend, backed, calls, carried, ids, created, kept>>

-----------------------------------------------------------------------------
\* A crash takes every operation in flight with it.
Crash ==
  /\ Cut
  /\ calls' = [c \in Clients |-> NoCall]
  /\ visits' = [n \in Node |-> NoVisit]
  /\ unsaid' = [n \in Node |-> IF visits[n].pc = "reply" /\ visits[n].id # carried[n]
                                 THEN unsaid[n] + 1 ELSE unsaid[n]]
  /\ UNCHANGED <<backend, backed, carried, ids, created, kept>>

CallBegins(c) ==
  \E s \in Store :
    \/ \E door \in {"web", "mcp"}, spec \in Specs : Create(c, s, door, spec)
    \/ BeginDeleteStore(c, s)
    \/ BeginWrite(c, s)
    \/ \E d \in 1..ids.docs : BeginUpdateDoc(c, s, d) \/ BeginRemove(c, s, d)
    \/ \E door \in {"flow", "web", "mcp"}, req \in Requests : BeginIndex(c, s, door, req)
    \/ \E v \in 1..ids.vectors : BeginUnindex(c, s, v)

CallGoesOn(c) ==
  \/ Provisioned(c)
  \/ ProvisionFails(c)
  \/ RollBack(c)
  \/ DeleteStoreRow(c)
  \/ DropBacking(c)
  \/ DropFails(c)
  \/ Fails(c)
  \/ WriteDocument(c)
  \/ UpdateDocument(c)
  \/ DeleteDocument(c)
  \/ Embedded(c)
  \/ \E distance \in Distances : IndexVector(c, distance)
  \/ DeleteVector(c)

NodeRuns(n) ==
  \/ NodeWrites(n)
  \/ NodeUpdates(n)
  \/ NodeInserts(n)
  \/ NodeFails(n)
  \/ NodeReplies(n)
  \/ ReplyIsLost(n)

MNext ==
  \/ \E c \in Clients : CallBegins(c) \/ CallGoesOn(c)
  \/ \E n \in Node : NodeRuns(n)
  \/ Crash

MSpec == MInit /\ [][MNext]_mvars

-----------------------------------------------------------------------------
(* Properties                                                              *)

MTypeOK ==
  /\ backend \in Backends
  /\ \A s \in Store :
       /\ stores[s].type \in {"none", "vector", "document"}
       /\ stores[s].type = "document" => stores[s].table \in DOMAIN tables
       /\ \A r \in indexes[s].records : r.id \in 1..ids.vectors /\ indexes[s].there
  /\ \A t \in DOMAIN tables : \A x \in Docs(t) : x.id \in 1..ids.docs /\ tables[t].there
  /\ \A n \in Node : carried[n] \in 0..ids.docs

\* A store whose create was answered has its index, or its table with every
\* document that was acknowledged and not removed, for as long as it has its row
\* ("so a store never lacks its table").
StoreIsBacked ==
  \A s \in created :
    Exists(s) => IF stores[s].type = "vector" THEN indexes[s].there
                 ELSE /\ tables[stores[s].table].there
                      /\ \A k \in kept.docs : k[1] = s => HasDoc(stores[s].table, k[2])

\* However often its flow runs, a node with a key keeps one document in the
\* store, without its own bookkeeping in it: one more only for each reply that
\* never reached the flow's data.
NodeKeepsOneDocument ==
  \A n \in Keyed, t \in DOMAIN tables :
    LET own == {x \in Docs(t) : x.by = n}
    IN /\ Cardinality(own) <= 1 + unsaid[n]
       /\ \A x \in own : "result" \notin x.body

\* A search through any door returns what the records, as they were handed in
\* and acknowledged, say it should; with a metadata filter it may miss some
\* when the partition holds more than the index will fetch.
SearchIsRight ==
  \A s \in created :
    Exists(s) /\ stores[s].type = "vector" =>
      LET Was(k) == IF indexes[s].partitioned THEN k ELSE [k EXCEPT !.partition = ""]
          recs == {Was(k) : k \in {j \in kept.vectors : j.store = s}}
      IN \A door \in {"flow", "web", "mcp"}, req \in Requests, k \in 0..MaxK + 1,
            minScore \in {0, 500} :
           LET q == QueryOf(door, req)
               scope == {r \in recs : q.partition # "" => r.partition = q.partition}
           IN q.filter = {} \/ Cardinality(scope) <= MaxK =>
                IsAnswer({r.id : r \in Search(indexes[s], k, q, minScore)},
                         recs, indexes[s].metric, k, q, minScore)

=============================================================================
