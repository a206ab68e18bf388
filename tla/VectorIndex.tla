----------------------------- MODULE VectorIndex ------------------------------
(***************************************************************************)
(* One vector store's index: what is written beside an embedding, and what *)
(* a search for one fixed text returns.  A record's vector is told apart   *)
(* by its distance to that text, in thousandths; metadata is the set of    *)
(* key/value pairs a record carries.                                       *)
(***************************************************************************)
EXTENDS Naturals, FiniteSets

CONSTANTS
  MaxK,      \* maxVectorSearchK: neighbours one query may fetch
  DefaultK   \* what a search that names no count asks for

ASSUME VectorOK == MaxK \in Nat /\ DefaultK \in 1..MaxK

TrimSpace(s) == CASE s = " " -> "" [] s = " p" -> "p" [] OTHER -> s

NoIndex == [there |-> FALSE, metric |-> "", partitioned |-> FALSE, records |-> {}]

\* Euclidean is L2; cosine is everything else, dot product and blank included.
NormalizedMetric(metric) == IF metric = "euclidean" THEN "L2" ELSE "cosine"

\* Provision: an index that is there already is left as it is.
Provision(index, metric) ==
  IF index.there THEN index
  ELSE [there |-> TRUE, metric |-> NormalizedMetric(metric),
        partitioned |-> TRUE, records |-> {}]

SimilarityScore(metric, distance) ==
  IF metric = "L2" THEN 1000000 \div (1000 + distance)
  ELSE IF distance > 1000 THEN 0 ELSE 1000 - distance

-----------------------------------------------------------------------------
(* What a request asks for.  A flow's request may leave both to the live   *)
(* data its scope selects; the data browser and the MCP tools may not.     *)

\* The node's own partition, else the scoped data's.
VecPartition(req) ==
  IF TrimSpace(req.partition) # "" THEN TrimSpace(req.partition)
  ELSE TrimSpace(req.scoped.partition)

\* The node's metadata rows are what a flow's search filters by ...
OpMetadata(req) == req.metadata

\* ... and what it stores, unless there are none.
VecWriteMetadata(req) ==
  IF OpMetadata(req) # {} THEN OpMetadata(req) ELSE req.scoped.metadata

FlowRecord(req) == [partition |-> VecPartition(req), metadata |-> VecWriteMetadata(req)]
FlowQuery(req) == [partition |-> VecPartition(req), filter |-> OpMetadata(req)]

WebRecord(req) == [partition |-> TrimSpace(req.partition), metadata |-> req.metadata]
WebQuery(req) == [partition |-> TrimSpace(req.partition), filter |-> req.metadata]

McpRecord(req) == [partition |-> TrimSpace(req.partition), metadata |-> req.metadata]
McpQuery(req) == [partition |-> TrimSpace(req.partition), filter |-> req.metadata]

RecordOf(door, req) ==
  CASE door = "flow" -> FlowRecord(req)
    [] door = "web" -> WebRecord(req)
    [] door = "mcp" -> McpRecord(req)
QueryOf(door, req) ==
  CASE door = "flow" -> FlowQuery(req)
    [] door = "web" -> WebQuery(req)
    [] door = "mcp" -> McpQuery(req)

-----------------------------------------------------------------------------
(* Index, DeleteRecord, Search                                             *)

\* An index made before there were partitions has no column to keep one in.
Index(index, id, distance, rec) ==
  [index EXCEPT !.records = @ \cup
     {[id |-> id, distance |-> distance, metadata |-> rec.metadata,
       partition |-> IF index.partitioned THEN TrimSpace(rec.partition) ELSE ""]}]

DeleteRecord(index, id) ==
  [index EXCEPT !.records = {r \in @ : r.id # id}]

\* Rows come back nearest first; of two as near, the older.
Before(r, s) == r.distance < s.distance \/ (r.distance = s.distance /\ r.id < s.id)
Nearest(recs, n) == {r \in recs : Cardinality({s \in recs : Before(s, r)}) < n}

ClampK(k) == IF k = 0 THEN DefaultK ELSE IF k > MaxK THEN MaxK ELSE k

FetchAsked(k, filter) == ClampK(k)

\* A filter is applied after the query, so more neighbours are fetched for it.
FetchK(k, filter) == IF filter = {} THEN ClampK(k) ELSE MaxK

MetadataMatches(r, filter) == filter \subseteq r.metadata

\* The rows are read up to the first below the threshold; those that match the
\* filter are kept, up to the count asked for.
Search(index, k, q, minScore) ==
  LET scope   == {r \in index.records : q.partition # "" => r.partition = q.partition}
      fetched == Nearest(scope, FetchK(k, q.filter))
      Passes(r) == minScore = 0 \/ SimilarityScore(index.metric, r.distance) >= minScore
      read    == {r \in fetched : Passes(r) /\ \A s \in fetched : Before(s, r) => Passes(s)}
  IN Nearest({r \in read : MetadataMatches(r, q.filter)}, ClampK(k))

-----------------------------------------------------------------------------
(* What a search is to return, of records as they were handed in: as many  *)
(* as asked for of those in the partition with the metadata and the score, *)
(* and none further than one left out.                                     *)

Wanted(recs, metric, q, minScore) ==
  {r \in recs : /\ q.partition # "" => r.partition = q.partition
                /\ q.filter \subseteq r.metadata
                /\ minScore > 0 => SimilarityScore(metric, r.distance) >= minScore}

IsAnswer(found, recs, metric, k, q, minScore) ==
  LET wanted == Wanted(recs, metric, q, minScore)
      enough == IF k = 0 THEN DefaultK ELSE k
      asked  == IF enough > MaxK THEN MaxK ELSE enough
  IN /\ found \subseteq {r.id : r \in wanted}
     /\ Cardinality(found) = IF Cardinality(wanted) < asked
                               THEN Cardinality(wanted) ELSE asked
     /\ \A r \in wanted, s \in wanted :
          r.id \in found /\ s.id \notin found => r.distance <= s.distance

=============================================================================
