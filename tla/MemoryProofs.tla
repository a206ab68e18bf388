---------------------------- MODULE MemoryProofs ----------------------------
(***************************************************************************)
(* Lemmas about the memory stores, for any number of stores, clients,      *)
(* nodes, documents and records: that a search finds what is nearest, and  *)
(* that the stores, the tables and the indexes behind them, and what their *)
(* callers were told stay in step.                                         *)
(***************************************************************************)
EXTENDS MemoryStores, FiniteSetTheorems, TLAPS

-----------------------------------------------------------------------------
(* Searching                                                               *)

\* Records a search can put in order: finitely many, told apart by their ids.
Ranked(recs) ==
  /\ IsFiniteSet(recs)
  /\ \A r \in recs : r.id \in Nat /\ r.distance \in Nat
  /\ \A r, s \in recs : r.id = s.id => r = s

Nearer(recs, r) == {s \in recs : Before(s, r)}

\* Of two records one is before the other, and what is before the one is before
\* what the one is before.
LEMMA BeforeOrders ==
  ASSUME NEW recs, Ranked(recs), NEW r \in recs, NEW s \in recs
  PROVE  /\ ~Before(r, r)
         /\ r # s => Before(r, s) \/ Before(s, r)
         /\ \A t \in recs : Before(t, r) /\ Before(r, s) => Before(t, s)
BY DEF Ranked, Before

\* A record's rank is how many records are before it.
LEMMA RankCounts ==
  ASSUME NEW recs, Ranked(recs), NEW r \in recs
  PROVE  /\ IsFiniteSet(Nearer(recs, r))
         /\ Cardinality(Nearer(recs, r)) \in Nat
         /\ Cardinality(recs) \in Nat
         /\ Cardinality(Nearer(recs, r)) < Cardinality(recs)
<1>1. IsFiniteSet(recs) BY DEF Ranked
<1>2. Nearer(recs, r) \subseteq recs \ {r} BY BeforeOrders DEF Nearer
<1>3. IsFiniteSet(recs \ {r}) /\ Cardinality(recs \ {r}) = Cardinality(recs) - 1
  BY <1>1, FS_RemoveElement
<1>4. /\ IsFiniteSet(Nearer(recs, r))
      /\ Cardinality(Nearer(recs, r)) <= Cardinality(recs \ {r})
  BY <1>2, <1>3, FS_Subset
<1> QED BY <1>1, <1>3, <1>4, FS_CardinalityType

LEMMA RankGrows ==
  ASSUME NEW recs, Ranked(recs), NEW r \in recs, NEW s \in recs, Before(r, s)
  PROVE  Cardinality(Nearer(recs, r)) < Cardinality(Nearer(recs, s))
<1>1. Nearer(recs, r) \subseteq Nearer(recs, s) BY BeforeOrders DEF Nearer
<1>2. r \in Nearer(recs, s) /\ r \notin Nearer(recs, r) BY BeforeOrders DEF Nearer
<1>3. /\ Cardinality(Nearer(recs, r)) <= Cardinality(Nearer(recs, s))
      /\ Cardinality(Nearer(recs, s)) = Cardinality(Nearer(recs, r))
           => Nearer(recs, s) = Nearer(recs, r)
  BY <1>1, RankCounts, FS_Subset
<1> QED BY <1>2, <1>3, RankCounts

\* Every number below the count is one record's rank.
LEMMA RanksFill ==
  ASSUME NEW recs, Ranked(recs)
  PROVE  LET f == [r \in recs |-> Cardinality(Nearer(recs, r)) + 1]
         IN f \in Bijection(recs, 1..Cardinality(recs))
<1> DEFINE f == [r \in recs |-> Cardinality(Nearer(recs, r)) + 1]
           T == 1..Cardinality(recs)
<1>1. IsFiniteSet(recs) /\ Cardinality(recs) \in Nat BY FS_CardinalityType DEF Ranked
<1>2. f \in [recs -> T] BY <1>1, RankCounts
<1>3. \A r, s \in recs : f[r] = f[s] => r = s
  <2> SUFFICES ASSUME NEW r \in recs, NEW s \in recs, r # s PROVE f[r] # f[s] OBVIOUS
  <2>1. Before(r, s) \/ Before(s, r) BY BeforeOrders
  <2> QED BY <2>1, RankGrows, RankCounts
<1>4. f \in Injection(recs, T) BY <1>2, <1>3, Zenon DEF Injection, IsInjective
<1>5. IsFiniteSet(T) /\ Cardinality(T) = Cardinality(recs) BY <1>1, FS_Interval
<1>6. f \in Surjection(recs, T) BY <1>4, <1>5, FS_Injection
<1> QED BY <1>4, <1>6, Zenon DEF Bijection

\* The n nearest are n, or all there are.
LEMMA NearestCounts ==
  ASSUME NEW recs, Ranked(recs), NEW n \in Nat
  PROVE  /\ IsFiniteSet(Nearest(recs, n))
         /\ Cardinality(Nearest(recs, n))
              = IF Cardinality(recs) < n THEN Cardinality(recs) ELSE n
<1> DEFINE f == [r \in recs |-> Cardinality(Nearer(recs, r)) + 1]
           c == Cardinality(recs)
           m == IF c < n THEN c ELSE n
           N == Nearest(recs, n)
           g == [r \in N |-> f[r]]
<1>1. IsFiniteSet(recs) /\ c \in Nat BY FS_CardinalityType DEF Ranked
<1>2. f \in Bijection(recs, 1..c) BY RanksFill
<1>3. N = {r \in recs : f[r] <= n}
  <2>1. \A r \in recs : Cardinality(Nearer(recs, r)) \in Nat BY RankCounts
  <2>2. N = {r \in recs : Cardinality(Nearer(recs, r)) < n} BY DEF Nearest, Nearer
  <2> QED BY <2>1, <2>2
<1>4. /\ f \in [recs -> 1..c]
      /\ \A r, s \in recs : f[r] = f[s] => r = s
      /\ \A k \in 1..c : \E r \in recs : f[r] = k
  <2> HIDE DEF f
  <2> QED BY <1>2 DEF Bijection, Injection, Surjection, IsInjective
<1> HIDE DEF f, N
<1>5. g \in [N -> 1..m] BY <1>1, <1>3, <1>4
<1>6. \A r, s \in N : g[r] = g[s] => r = s BY <1>3, <1>4
<1>7. \A k \in 1..m : \E r \in N : g[r] = k BY <1>1, <1>3, <1>4
<1>8. g \in Injection(N, 1..m)
  <2> HIDE DEF g
  <2> QED BY <1>5, <1>6, Zenon DEF Injection, IsInjective
<1>9. g \in Surjection(N, 1..m)
  <2> HIDE DEF g
  <2> QED BY <1>5, <1>7, Zenon DEF Surjection
<1>10. m \in Nat BY <1>1
<1>11. IsFiniteSet(1..m) /\ Cardinality(1..m) = m BY <1>10, FS_Interval
<1> HIDE DEF g, m
<1>12. IsFiniteSet(N) /\ Cardinality(N) = m BY <1>8, <1>9, <1>11, FS_Injection
<1> QED BY <1>12 DEF N, m

\* One left out is not nearer than one that is not.
LEMMA NearestIsNearer ==
  ASSUME NEW recs, Ranked(recs), NEW n \in Nat,
         NEW r \in Nearest(recs, n), NEW s \in recs \ Nearest(recs, n)
  PROVE  r.distance <= s.distance
<1>1. r \in recs /\ Cardinality(Nearer(recs, r)) < n BY DEF Nearest, Nearer
<1>2. ~(Cardinality(Nearer(recs, s)) < n) BY DEF Nearest, Nearer
<1>3. ~Before(s, r) BY <1>1, <1>2, RankGrows, RankCounts
<1> QED BY <1>1, <1>3 DEF Before, Ranked

\* If there are no more than n, the n nearest are all.
LEMMA NearestIsAll ==
  ASSUME NEW recs, Ranked(recs), NEW n \in Nat, Cardinality(recs) <= n
  PROVE  Nearest(recs, n) = recs
<1>1. \A r \in recs : Cardinality(Nearer(recs, r)) < n BY RankCounts
<1> QED BY <1>1 DEF Nearest, Nearer

\* With a record, those before it: the n nearest of the part are the part of the
\* n nearest.
LEMMA NearestOfPart ==
  ASSUME NEW recs, Ranked(recs), NEW n \in Nat, NEW part \in SUBSET recs,
         \A r \in part, s \in recs : Before(s, r) => s \in part
  PROVE  /\ Ranked(part)
         /\ Nearest(part, n) = part \cap Nearest(recs, n)
<1>1. \A r \in part : Nearer(part, r) = Nearer(recs, r) BY DEF Nearer
<1>2. Nearest(part, n) = {r \in part : Cardinality(Nearer(part, r)) < n} BY DEF Nearest, Nearer
<1>3. Nearest(recs, n) = {r \in recs : Cardinality(Nearer(recs, r)) < n} BY DEF Nearest, Nearer
<1>4. IsFiniteSet(part) BY FS_Subset DEF Ranked
<1> QED BY <1>1, <1>2, <1>3, <1>4 DEF Ranked

\* The score falls with the distance.
LEMMA ScoreFalls ==
  ASSUME NEW metric, NEW d \in Nat, NEW e \in Nat, d <= e
  PROVE  /\ SimilarityScore(metric, d) \in Nat
         /\ SimilarityScore(metric, e) <= SimilarityScore(metric, d)
<1>1. 1000000 \div (1000 + d) \in Nat /\ 1000000 \div (1000 + e) \in Nat BY SMT
<1>2. 1000000 \div (1000 + e) <= 1000000 \div (1000 + d) BY Z3
<1> QED BY <1>1, <1>2 DEF SimilarityScore

-----------------------------------------------------------------------------
(* Search, in those terms                                                  *)

Scope(recs, q) == {r \in recs : q.partition # "" => r.partition = q.partition}
Passing(metric, minScore, r) ==
  minScore = 0 \/ SimilarityScore(metric, r.distance) >= minScore
ReadTo(metric, minScore, fetched) ==
  {r \in fetched : Passing(metric, minScore, r)
                     /\ \A s \in fetched : Before(s, r) => Passing(metric, minScore, s)}

LEMMA SearchInSteps ==
  ASSUME NEW index, NEW k, NEW q, NEW minScore
  PROVE  Search(index, k, q, minScore) =
           Nearest({r \in ReadTo(index.metric, minScore,
                             Nearest(Scope(index.records, q), FetchK(k, q.filter))) :
                      MetadataMatches(r, q.filter)}, ClampK(k))
BY Zenon DEF Search, Scope, ReadTo, Passing

LEMMA WantedInSteps ==
  ASSUME NEW recs, NEW metric, NEW q, NEW minScore \in Nat
  PROVE  Wanted(recs, metric, q, minScore) =
           {r \in Scope(recs, q) : MetadataMatches(r, q.filter) /\ Passing(metric, minScore, r)}
<1>1. minScore > 0 <=> minScore # 0 OBVIOUS
<1>2. \A r \in recs : (minScore > 0 => SimilarityScore(metric, r.distance) >= minScore)
                        <=> Passing(metric, minScore, r)
  BY <1>1, Zenon DEF Passing
<1>3. Wanted(recs, metric, q, minScore) \subseteq Scope(recs, q)
  BY Zenon DEF Wanted, Scope
<1>4. \A r \in Scope(recs, q) : r \in Wanted(recs, metric, q, minScore)
         <=> MetadataMatches(r, q.filter) /\ Passing(metric, minScore, r)
  BY <1>2, Zenon DEF Wanted, Scope, MetadataMatches
<1> QED BY <1>3, <1>4

\* What is before a record that passes the threshold passes it too: the rows
\* read are those fetched that pass.
LEMMA ThresholdCuts ==
  ASSUME NEW fetched, Ranked(fetched), NEW metric, NEW minScore \in Nat
  PROVE  /\ ReadTo(metric, minScore, fetched)
              = {r \in fetched : Passing(metric, minScore, r)}
         /\ \A r, s \in fetched : Before(s, r) /\ Passing(metric, minScore, r)
              => Passing(metric, minScore, s)
<1>1. \A r, s \in fetched : Before(s, r) /\ Passing(metric, minScore, r)
        => Passing(metric, minScore, s)
  <2> SUFFICES ASSUME NEW r \in fetched, NEW s \in fetched, Before(s, r), minScore # 0,
                      SimilarityScore(metric, r.distance) >= minScore
               PROVE  SimilarityScore(metric, s.distance) >= minScore
    BY DEF Passing
  <2>1. r.distance \in Nat /\ s.distance \in Nat /\ s.distance <= r.distance
    BY DEF Ranked, Before
  <2>2. /\ SimilarityScore(metric, s.distance) \in Nat
        /\ SimilarityScore(metric, r.distance) \in Nat
        /\ SimilarityScore(metric, r.distance) <= SimilarityScore(metric, s.distance)
    BY <2>1, ScoreFalls
  <2> QED BY <2>2
<1> QED BY <1>1 DEF ReadTo

LEMMA ClampIsCount ==
  ASSUME NEW k \in Nat
  PROVE  ClampK(k) \in Nat /\ ClampK(k) >= 1 /\ ClampK(k) <= MaxK
           /\ DefaultK \in Nat /\ MaxK \in Nat
BY VectorOK DEF ClampK

LEMMA RankedPart ==
  ASSUME NEW recs, Ranked(recs), NEW part \in SUBSET recs
  PROVE  Ranked(part)
BY FS_Subset DEF Ranked

\* A search finds the nearest of the records wanted, if it reads far enough.
LEMMA SearchFindsNearest ==
  ASSUME NEW index, Ranked(index.records), NEW k \in Nat, NEW q, NEW minScore \in Nat,
         q.filter = {} \/ Cardinality(Scope(index.records, q)) <= MaxK
  PROVE  /\ Ranked(Wanted(index.records, index.metric, q, minScore))
         /\ Search(index, k, q, minScore) =
              Nearest(Wanted(index.records, index.metric, q, minScore), ClampK(k))
<1> DEFINE scope == Scope(index.records, q)
           n == ClampK(k)
           fetched == Nearest(scope, FetchK(k, q.filter))
           read == ReadTo(index.metric, minScore, fetched)
           wanted == Wanted(index.records, index.metric, q, minScore)
           passing == {r \in scope : Passing(index.metric, minScore, r)}
<1>1. scope \subseteq index.records BY Zenon DEF Scope
<1>2. Ranked(scope) BY <1>1, RankedPart
<1>3. wanted = {r \in scope : MetadataMatches(r, q.filter)
                                /\ Passing(index.metric, minScore, r)}
  BY WantedInSteps
<1>4. n \in Nat /\ n <= MaxK /\ MaxK \in Nat BY ClampIsCount
<1>5. fetched \subseteq scope BY DEF Nearest
<1>6. Ranked(fetched) BY <1>2, <1>5, RankedPart
<1>7. read = {r \in fetched : Passing(index.metric, minScore, r)} BY <1>6, ThresholdCuts
<1>8. \A r, s \in scope : Before(s, r) /\ Passing(index.metric, minScore, r)
        => Passing(index.metric, minScore, s)
  BY <1>2, ThresholdCuts
<1>9. Search(index, k, q, minScore) = Nearest({r \in read : MetadataMatches(r, q.filter)}, n)
  BY SearchInSteps
<1>10. wanted \subseteq scope BY <1>3
<1>11. Ranked(wanted) BY <1>2, <1>10, RankedPart
<1> HIDE DEF scope, n, fetched, read, wanted
<1>12. CASE q.filter = {}
  <2>1. \A r : MetadataMatches(r, q.filter) BY <1>12 DEF MetadataMatches
  <2>2. fetched = Nearest(scope, n) BY <1>12 DEF fetched, FetchK, n
  <2>3. \A r \in wanted, s \in scope : Before(s, r) => s \in wanted BY <1>3, <1>8, <2>1
  <2>4. Nearest(wanted, n) = wanted \cap fetched
    BY <1>2, <1>4, <1>10, <2>2, <2>3, NearestOfPart
  <2>5. read = Nearest(wanted, n) BY <1>3, <1>5, <1>7, <2>1, <2>4
  <2>6. {r \in read : MetadataMatches(r, q.filter)} = read BY <2>1
  <2>7. /\ IsFiniteSet(Nearest(wanted, n)) /\ Cardinality(wanted) \in Nat
        /\ Cardinality(Nearest(wanted, n)) <= n
    <3>1. IsFiniteSet(wanted) BY <1>11 DEF Ranked
    <3>2. Cardinality(wanted) \in Nat BY <3>1, FS_CardinalityType
    <3>3. /\ IsFiniteSet(Nearest(wanted, n))
          /\ Cardinality(Nearest(wanted, n))
               = IF Cardinality(wanted) < n THEN Cardinality(wanted) ELSE n
      BY <1>4, <1>11, NearestCounts
    <3> QED BY <1>4, <3>2, <3>3
  <2>8. Ranked(read) BY <1>6, <1>7, RankedPart
  <2>9. Nearest(read, n) = read BY <1>4, <2>5, <2>7, <2>8, NearestIsAll
  <2> QED BY <1>9, <1>11, <2>5, <2>6, <2>9 DEF wanted, n
<1>13. CASE Cardinality(scope) <= MaxK /\ q.filter # {}
  <2>1. fetched = Nearest(scope, MaxK) BY <1>13 DEF fetched, FetchK
  <2>2. fetched = scope BY <1>2, <1>4, <1>13, <2>1, NearestIsAll
  <2>3. {r \in read : MetadataMatches(r, q.filter)} = wanted BY <1>3, <1>7, <2>2
  <2> QED BY <1>9, <1>11, <2>3 DEF wanted, n
<1> QED BY <1>12, <1>13 DEF scope

\* What was handed in and what is stored, alike but for the store it went to.
ById(recs) == \A r, s \in recs : r.id = s.id => r = s
SameRecord(r, s) ==
  /\ r.id = s.id /\ r.distance = s.distance
  /\ r.partition = s.partition /\ r.metadata = s.metadata
Alike(recs, others) ==
  /\ \A r \in recs : \E s \in others : SameRecord(r, s)
  /\ \A s \in others : \E r \in recs : SameRecord(r, s)

LEMMA AlikeCounts ==
  ASSUME NEW recs, IsFiniteSet(recs), ById(recs), NEW others, ById(others), Alike(recs, others)
  PROVE  IsFiniteSet(others) /\ Cardinality(others) = Cardinality(recs)
<1> DEFINE f == [r \in recs |-> CHOOSE s \in others : SameRecord(r, s)]
<1>1. \A r \in recs : f[r] \in others /\ SameRecord(r, f[r]) BY DEF Alike
<1>2. f \in [recs -> others] BY <1>1
<1> HIDE DEF f
<1>3. \A r, s \in recs : f[r] = f[s] => r = s BY <1>1 DEF SameRecord, ById
<1>4. \A s \in others : \E r \in recs : f[r] = s BY <1>1 DEF SameRecord, ById, Alike
<1>5. f \in Bijection(recs, others)
  BY <1>2, <1>3, <1>4, Zenon DEF Bijection, Injection, Surjection, IsInjective
<1> QED BY <1>5, FS_Bijection, Zenon DEF ExistsBijection

LEMMA IdsCount ==
  ASSUME NEW recs, IsFiniteSet(recs), ById(recs)
  PROVE  Cardinality({r.id : r \in recs}) = Cardinality(recs)
<1> DEFINE f == [r \in recs |-> r.id]
           T == {r.id : r \in recs}
<1>1. f \in [recs -> T] OBVIOUS
<1>2. \A r, s \in recs : f[r] = f[s] => r = s BY DEF ById
<1>3. \A i \in T : \E r \in recs : f[r] = i OBVIOUS
<1>4. f \in Bijection(recs, T)
  <2> HIDE DEF f, T
  <2> QED BY <1>1, <1>2, <1>3, Zenon DEF Bijection, Injection, Surjection, IsInjective
<1> HIDE DEF f
<1> QED BY <1>4, FS_Bijection, Zenon DEF ExistsBijection

LEMMA AlikeParts ==
  ASSUME NEW recs, ById(recs), NEW others, ById(others), Alike(recs, others),
         NEW metric, NEW q, NEW minScore \in Nat
  PROVE  /\ Alike(Scope(recs, q), Scope(others, q))
         /\ Alike(Wanted(recs, metric, q, minScore), Wanted(others, metric, q, minScore))
         /\ Wanted(recs, metric, q, minScore) \subseteq recs
         /\ Wanted(others, metric, q, minScore) \subseteq others
<1>1. \A r \in recs, s \in others : SameRecord(r, s) =>
        /\ r \in Scope(recs, q) <=> s \in Scope(others, q)
        /\ Passing(metric, minScore, r) <=> Passing(metric, minScore, s)
        /\ MetadataMatches(r, q.filter) <=> MetadataMatches(s, q.filter)
  <2> TAKE r \in recs, s \in others
  <2>1. HAVE SameRecord(r, s)
  <2>2. r.partition = s.partition /\ r.distance = s.distance /\ r.metadata = s.metadata
    BY <2>1 DEF SameRecord
  <2>3. r \in Scope(recs, q) <=> s \in Scope(others, q) BY <2>2, Zenon DEF Scope
  <2>4. Passing(metric, minScore, r) <=> Passing(metric, minScore, s)
    BY <2>2, Zenon DEF Passing
  <2>5. MetadataMatches(r, q.filter) <=> MetadataMatches(s, q.filter)
    BY <2>2, Zenon DEF MetadataMatches
  <2> QED BY <2>3, <2>4, <2>5
<1>2. /\ Wanted(recs, metric, q, minScore) =
           {r \in Scope(recs, q) : MetadataMatches(r, q.filter) /\ Passing(metric, minScore, r)}
      /\ Wanted(others, metric, q, minScore) =
           {r \in Scope(others, q) : MetadataMatches(r, q.filter) /\ Passing(metric, minScore, r)}
  BY WantedInSteps
<1>3. Scope(recs, q) \subseteq recs /\ Scope(others, q) \subseteq others BY Zenon DEF Scope
<1> QED BY <1>1, <1>2, <1>3 DEF Alike

Found(index, k, q, minScore) == {r.id : r \in Search(index, k, q, minScore)}

\* Search, as long as it reads far enough: the answer.
LEMMA SearchAnswers ==
  ASSUME NEW index, Ranked(index.records), NEW recs, ById(recs), Alike(index.records, recs),
         NEW k \in Nat, NEW q, NEW minScore \in Nat,
         q.filter = {} \/ Cardinality(Scope(recs, q)) <= MaxK
  PROVE  IsAnswer(Found(index, k, q, minScore), recs, index.metric, k, q, minScore)
<1> DEFINE records == index.records
           W == Wanted(records, index.metric, q, minScore)
           wanted == Wanted(recs, index.metric, q, minScore)
           n == ClampK(k)
           near == Nearest(W, n)
           found == {r.id : r \in near}
<1>1. ById(records) /\ IsFiniteSet(records) BY DEF Ranked, ById
<1>2. /\ Alike(Scope(records, q), Scope(recs, q)) /\ Alike(W, wanted)
      /\ W \subseteq records /\ wanted \subseteq recs
  BY <1>1, AlikeParts
<1>3. Scope(records, q) \subseteq records /\ Scope(recs, q) \subseteq recs BY Zenon DEF Scope
<1>4. Cardinality(Scope(recs, q)) = Cardinality(Scope(records, q))
  <2>1. IsFiniteSet(Scope(records, q)) BY <1>1, <1>3, FS_Subset
  <2>2. ById(Scope(records, q)) /\ ById(Scope(recs, q)) BY <1>1, <1>3 DEF ById
  <2> QED BY <1>2, <2>1, <2>2, AlikeCounts
<1>5. Ranked(W) /\ Search(index, k, q, minScore) = near
  BY <1>4, SearchFindsNearest
<1>6. n \in Nat /\ n <= MaxK /\ MaxK \in Nat /\ DefaultK \in Nat BY ClampIsCount
<1>7. /\ IsFiniteSet(near)
      /\ Cardinality(near) = IF Cardinality(W) < n THEN Cardinality(W) ELSE n
  BY <1>5, <1>6, NearestCounts
<1>8. Cardinality(wanted) = Cardinality(W)
  <2>1. ById(W) /\ ById(wanted) /\ IsFiniteSet(W) BY <1>2, <1>5 DEF ById, Ranked
  <2> QED BY <1>2, <2>1, AlikeCounts
<1>9. near \subseteq W BY DEF Nearest
<1>10. \A x \in W, y \in W : x \in near /\ y \notin near => x.distance <= y.distance
  BY <1>5, <1>6, NearestIsNearer
<1>11. Cardinality(found) = Cardinality(near)
  <2>1. ById(near) BY <1>5, <1>9 DEF Ranked, ById
  <2> QED BY <1>7, <2>1, IdsCount
<1> HIDE DEF W, wanted, n, near
<1>12. found \subseteq {r.id : r \in wanted} BY <1>2, <1>9 DEF Alike, SameRecord
<1>13. \A r \in wanted, s \in wanted :
         r.id \in found /\ s.id \notin found => r.distance <= s.distance
  <2> TAKE r \in wanted, s \in wanted
  <2>1. HAVE r.id \in found /\ s.id \notin found
  <2>2. PICK x \in near : x.id = r.id BY <2>1
  <2>3. PICK y \in W : SameRecord(y, s) BY <1>2 DEF Alike
  <2>4. y \notin near BY <2>1, <2>3 DEF SameRecord
  <2>5. x.distance = r.distance
    <3>1. PICK b \in wanted : SameRecord(x, b) BY <1>2, <1>9, <2>2 DEF Alike
    <3>2. b = r BY <1>2, <2>2, <3>1 DEF SameRecord, ById
    <3> QED BY <3>1, <3>2 DEF SameRecord
  <2> QED BY <1>9, <1>10, <2>2, <2>3, <2>4, <2>5 DEF SameRecord
<1>14. n = IF (IF k = 0 THEN DefaultK ELSE k) > MaxK THEN MaxK
           ELSE IF k = 0 THEN DefaultK ELSE k
  BY VectorOK DEF n, ClampK
<1>15. Found(index, k, q, minScore) = found BY <1>5 DEF Found
<1> HIDE DEF found
<1>16. IsAnswer(found, recs, index.metric, k, q, minScore)
  BY <1>7, <1>8, <1>11, <1>12, <1>13, <1>14 DEF IsAnswer, wanted
<1> QED BY <1>15, <1>16

-----------------------------------------------------------------------------
(* The invariant                                                           *)

IdsFit ==
  /\ DOMAIN ids = {"stores", "docs", "vectors"}
  /\ ids.docs \in Nat /\ ids.vectors \in Nat
  /\ Old \subseteq ids.stores /\ ids.stores \subseteq Store
  /\ backend \in Backends
  /\ created \subseteq ids.stores
  /\ DOMAIN kept = {"docs", "vectors"}

\* Rows: a row is of an id that was handed out, and names its author's table.
RowsFit ==
  /\ DOMAIN stores = Store
  /\ \A s \in Store :
       /\ stores[s].type \in {"none", "vector", "document"}
       /\ stores[s].type = "document" => stores[s].table = TableOf[s] /\ s \notin Old
       /\ Exists(s) => s \in ids.stores

CallFields == {"pc", "store", "row", "what", "req"}
CallSteps == {"idle", "provision", "rollback", "forget", "drop", "write", "update",
              "remove", "embed", "index", "unindex"}

\* A call's copy is its store's row, as long as there is one; what it is about to
\* drop has none, and what it is still creating has not been answered.
CallFits(call, known, rows, made) ==
  /\ DOMAIN call = CallFields
  /\ call.pc \in CallSteps
  /\ call.pc # "idle" =>
       /\ call.store \in known
       /\ call.row.type \in {"vector", "document"}
       /\ call.row.type = "document" =>
            call.row.table = TableOf[call.store] /\ call.store \notin Old
       /\ rows[call.store].type # "none" => call.row = rows[call.store]
  /\ call.pc \in {"write", "update", "remove"} => call.row.type = "document"
  /\ call.pc \in {"embed", "index", "unindex"} => call.row.type = "vector"
  /\ call.pc \in {"embed", "index"} =>
       TrimSpace(call.req.partition) = call.req.partition
  /\ call.pc = "drop" => rows[call.store].type = "none"
  /\ call.pc \in {"provision", "rollback"} => call.store \notin made

Creating(call) == call.pc \in {"provision", "rollback"}
CallsFit ==
  /\ DOMAIN calls = Clients
  /\ \A c \in Clients : CallFits(calls[c], ids.stores, stores, created)
  /\ \A c, d \in Clients : c # d /\ Creating(calls[c]) /\ Creating(calls[d]) =>
       calls[c].store # calls[d].store

TableNames == Range(TableOf)
TableFits(table, last) ==
  /\ DOMAIN table = {"there", "docs"}
  /\ IsFiniteSet(table.docs)
  /\ ById(table.docs)
  /\ \A x \in table.docs :
       DOMAIN x = {"id", "by", "body"} /\ x.id \in 1..last /\ table.there
DocsFit ==
  /\ DOMAIN tables = TableNames
  /\ \A t \in TableNames : TableFits(tables[t], ids.docs)

\* A document store that has its row has the documents acknowledged, and its
\* table from the answer on.
Holds(table, d) == \E x \in table.docs : x.id = d
DocsBacked ==
  /\ kept.docs \subseteq ids.stores \X Nat
  /\ \A s \in Store : stores[s].type = "document" =>
       /\ s \in created => tables[TableOf[s]].there
       /\ \A k \in kept.docs : k[1] = s => Holds(tables[TableOf[s]], k[2])

IndexFits(index, last) ==
  /\ DOMAIN index = {"there", "metric", "partitioned", "records"}
  /\ Ranked(index.records)
  /\ \A r \in index.records : r.id \in 1..last /\ index.there

KeptFit(vectors, known, last) ==
  /\ \A k \in vectors :
       /\ DOMAIN k = {"store", "id", "distance", "partition", "metadata"}
       /\ k.store \in known /\ k.id \in 1..last
  /\ ById(vectors)

AsStored(index, k) == IF index.partitioned THEN k ELSE [k EXCEPT !.partition = ""]
HandedIn(index, s, vectors) ==
  {AsStored(index, k) : k \in {j \in vectors : j.store = s}}

\* An index holds what was handed in, until its store's row is gone.
VectorsFit ==
  /\ DOMAIN indexes = Store
  /\ KeptFit(kept.vectors, ids.stores, ids.vectors)
  /\ \A s \in Store :
       /\ IndexFits(indexes[s], ids.vectors)
       /\ Exists(s) \/ s \notin ids.stores =>
            Alike(indexes[s].records, HandedIn(indexes[s], s, kept.vectors))
       /\ stores[s].type = "vector" /\ s \in created => indexes[s].there

\* Of a node's documents all but the one it remembers and the one it is about to
\* answer with are from replies that were lost.
Own(n, table) == {x \in table.docs : x.by = n}
Orphans(n, table, prior, id) == {x.id : x \in Own(n, table)} \ {prior, id}
Forgotten(n, prior, tabs) ==
  \A t \in TableNames : \A x \in Own(n, tabs[t]) : x.id # prior

VisitFields == {"pc", "row", "prior", "doc", "id"}
VisitFits(n, visit, prior, last) ==
  /\ DOMAIN visit = VisitFields
  /\ visit.pc \in {"idle", "update", "insert", "reply"}
  /\ visit.pc # "idle" =>
       visit.row.type = "document" /\ visit.row.table = TableOf[NodeStore[n]]
  /\ visit.pc # "idle" /\ n \in Keyed => "result" \notin visit.doc
  /\ visit.pc = "update" => n \in Keyed /\ visit.prior = prior
  /\ visit.pc = "reply" => visit.id \in 1..last
  /\ visit.pc # "reply" => visit.id = 0

Outdated(visit, prior) ==
  visit.pc = "insert" \/ (visit.pc = "reply" /\ visit.id # prior)

NodeFits(n, visit, prior, lost, last, tabs) ==
  /\ prior \in 0..last
  /\ lost \in Nat
  /\ VisitFits(n, visit, prior, last)
  /\ \A t \in TableNames : \A x \in Own(n, tabs[t]) : t = TableOf[NodeStore[n]]
  /\ n \in Keyed =>
       /\ Outdated(visit, prior) => Forgotten(n, prior, tabs)
       /\ \A t \in TableNames :
            /\ \A x \in Own(n, tabs[t]) : "result" \notin x.body
            /\ IsFiniteSet(Orphans(n, tabs[t], prior, visit.id))
            /\ Cardinality(Orphans(n, tabs[t], prior, visit.id)) <= lost

NodesFit ==
  /\ DOMAIN visits = Node /\ DOMAIN carried = Node /\ DOMAIN unsaid = Node
  /\ \A n \in Node : NodeFits(n, visits[n], carried[n], unsaid[n], ids.docs, tables)

MemoryInv ==
  /\ IdsFit /\ RowsFit /\ CallsFit
  /\ DocsFit /\ DocsBacked /\ VectorsFit /\ NodesFit

-----------------------------------------------------------------------------
(* What is there before anything is: values with blanks in them.           *)

LEMMA Blanks ==
  /\ NoStore.type = "none"
  /\ DOMAIN NoCall = CallFields /\ NoCall.pc = "idle"
  /\ DOMAIN NoTable = {"there", "docs"} /\ NoTable.there = FALSE /\ NoTable.docs = {}
  /\ DOMAIN NoVisit = VisitFields /\ NoVisit.pc = "idle" /\ NoVisit.id = 0 
  /\ DOMAIN NoIndex = {"there", "metric", "partitioned", "records"}
  /\ NoIndex.there = FALSE /\ NoIndex.records = {}
<1>1. NoStore.type = "none" BY Zenon DEF NoStore
<1>2. NoCall.pc = "idle" BY Zenon DEF NoCall
<1>3. NoTable.there = FALSE /\ NoTable.docs = {} BY Zenon DEF NoTable
<1>4. NoVisit.pc = "idle" /\ NoVisit.id = 0 BY Zenon DEF NoVisit
<1>5. NoIndex.there = FALSE /\ NoIndex.records = {} BY Zenon DEF NoIndex
<1>6. DOMAIN NoCall = CallFields BY Zenon DEF NoCall, CallFields
<1>7. DOMAIN NoTable = {"there", "docs"} BY Zenon DEF NoTable
<1>8. DOMAIN NoVisit = VisitFields BY Zenon DEF NoVisit, VisitFields
<1>9. DOMAIN NoIndex = {"there", "metric", "partitioned", "records"} BY Zenon DEF NoIndex
<1> QED BY <1>1, <1>2, <1>3, <1>4, <1>5, <1>6, <1>7, <1>8, <1>9

LEMMA Trimmed == ASSUME NEW s PROVE TrimSpace(TrimSpace(s)) = TrimSpace(s)
<1>1. TrimSpace("") = "" BY Zenon DEF TrimSpace
<1>2. TrimSpace("p") = "p" BY Zenon DEF TrimSpace
<1>3. CASE s = " " BY <1>1, <1>3, Zenon DEF TrimSpace
<1>4. CASE s = " p" BY <1>2, <1>4, Zenon DEF TrimSpace
<1>5. CASE s # " " /\ s # " p"
  <2>1. TrimSpace(s) = s BY <1>5, Zenon DEF TrimSpace
  <2> QED BY <2>1
<1> QED BY <1>3, <1>4, <1>5

\* Every request's partition comes trimmed.
LEMMA RecordsComeTrimmed ==
  ASSUME NEW door \in {"flow", "web", "mcp"}, NEW req
  PROVE  TrimSpace(RecordOf(door, req).partition) = RecordOf(door, req).partition
<1>1. TrimSpace(VecPartition(req)) = VecPartition(req)
  BY Trimmed, Zenon DEF VecPartition
<1>2. FlowRecord(req).partition = VecPartition(req) BY Zenon DEF FlowRecord
<1>3. WebRecord(req).partition = TrimSpace(req.partition) BY Zenon DEF WebRecord
<1>4. McpRecord(req).partition = TrimSpace(req.partition) BY Zenon DEF McpRecord
<1>5. door = "flow" => RecordOf(door, req) = FlowRecord(req) BY Zenon DEF RecordOf
<1>6. door = "web" => RecordOf(door, req) = WebRecord(req) BY Zenon DEF RecordOf
<1>7. door = "mcp" => RecordOf(door, req) = McpRecord(req) BY Zenon DEF RecordOf
<1> QED BY <1>1, <1>2, <1>3, <1>4, <1>5, <1>6, <1>7, Trimmed

LEMMA NewRow ==
  ASSUME NEW door \in {"web", "mcp"}, NEW s, NEW spec, Admits(door, spec)
  PROVE  /\ RowOf(door, s, spec).type \in {"vector", "document"}
         /\ RowOf(door, s, spec).type = "document" => RowOf(door, s, spec).table = TableOf[s]
<1>1. CASE spec.type = "vector"
  <2>1. RowOf(door, s, spec).type = "vector" BY <1>1, Zenon DEF RowOf
  <2> QED BY <2>1
<1>2. CASE spec.type # "vector"
  <2>1. /\ RowOf(door, s, spec).type = "document"
        /\ RowOf(door, s, spec).table = TableOf[s]
    BY <1>2, Zenon DEF RowOf
  <2> QED BY <2>1
<1> QED BY <1>1, <1>2

-----------------------------------------------------------------------------
(* Calls                                                                   *)

\* Rows only go.
RowsGo(known, rows, after) ==
  \A s \in known : after[s].type # "none" => after[s] = rows[s]

LEMMA CallOutlives ==
  ASSUME NEW call, NEW known, NEW rows, NEW made, NEW known2, NEW rows2, NEW made2,
         CallFits(call, known, rows, made), known \subseteq known2,
         RowsGo(known, rows, rows2), Creating(call) => call.store \notin made2
  PROVE  CallFits(call, known2, rows2, made2)
<1> USE DEF CallFits, Creating, RowsGo
<1>1. call.pc # "idle" => call.store \in known OBVIOUS
<1>2. call.pc = "drop" => rows2[call.store].type = "none" 
  <2>1. call.pc = "drop" => call.pc # "idle" /\ rows[call.store].type = "none" OBVIOUS
  <2> QED BY <1>1, <2>1
<1>3. call.pc # "idle" /\ rows2[call.store].type # "none" => call.row = rows2[call.store]
  BY <1>1
<1> QED BY <1>1, <1>2, <1>3

\* What an operation does to the calls: one client's becomes what fits.
LEMMA CallSet ==
  ASSUME IdsFit, CallsFit, IdsFit', NEW c \in Clients, NEW call, SetCall(c, call),
         RowsGo(ids.stores, stores, stores'), ids.stores \subseteq ids.stores',
         CallFits(call, ids.stores', stores', created'),
         Creating(call) => \/ Creating(calls[c]) /\ call.store = calls[c].store
                           \/ call.store \notin ids.stores,
         \A d \in Clients : d # c /\ Creating(calls[d]) => calls[d].store \notin created'
  PROVE  CallsFit'
<1>1. DOMAIN calls' = Clients /\ calls'[c] = call
      /\ \A d \in Clients : d # c => calls'[d] = calls[d]
  BY DEF CallsFit, SetCall
<1>2. \A d \in Clients : CallFits(calls'[d], ids.stores', stores', created')
  <2> TAKE d \in Clients
  <2>1. CASE d = c BY <1>1, <2>1
  <2>2. CASE d # c
    <3>1. CallFits(calls[d], ids.stores, stores, created) BY DEF CallsFit
    <3>2. CallFits(calls[d], ids.stores', stores', created')
      BY <2>2, <3>1, CallOutlives
    <3> QED BY <1>1, <2>2, <3>2
  <2> QED BY <2>1, <2>2
<1>3. \A d \in Clients : Creating(calls[d]) => calls[d].store \in ids.stores
  BY DEF CallsFit, CallFits, Creating
<1>4. \A d, e \in Clients : d # e /\ Creating(calls'[d]) /\ Creating(calls'[e]) =>
        calls'[d].store # calls'[e].store
  BY <1>1, <1>3 DEF CallsFit
<1> QED BY <1>1, <1>2, <1>4 DEF CallsFit

LEMMA CallEnds ==
  ASSUME IdsFit, CallsFit, IdsFit', NEW c \in Clients, SetCall(c, NoCall),
         RowsGo(ids.stores, stores, stores'), ids.stores \subseteq ids.stores',
         \A d \in Clients : d # c /\ Creating(calls[d]) => calls[d].store \notin created'
  PROVE  CallsFit'
<1>1. CallFits(NoCall, ids.stores', stores', created') BY Blanks DEF CallFits, CallSteps
<1>2. ~Creating(NoCall) BY Blanks DEF Creating
<1> QED BY <1>1, <1>2, CallSet

-----------------------------------------------------------------------------
(* The rows and the calls, step by step                                    *)

Grow ==
  /\ ids.stores \subseteq ids'.stores
  /\ ids.docs <= ids'.docs /\ ids.vectors <= ids'.vectors
  /\ RowsGo(ids.stores, stores, stores')

LEMMA RowsAsTheyWere ==
  ASSUME IdsFit, RowsFit, UNCHANGED <<backend, stores, ids, created>>, DOMAIN kept' = DOMAIN kept
  PROVE  IdsFit' /\ RowsFit' /\ Grow
BY DEF IdsFit, RowsFit, Grow, Exists, RowsGo

LEMMA RowsStep ==
  ASSUME IdsFit, RowsFit, CallsFit, MNext
  PROVE  IdsFit' /\ RowsFit' /\ Grow
<1> DEFINE Goal == IdsFit' /\ RowsFit' /\ Grow
<1>1. ASSUME NEW c \in Clients, NEW s \in Store, NEW door \in {"web", "mcp"}, NEW spec,
             Create(c, s, door, spec)
      PROVE  Goal
  <2>1. /\ RowOf(door, s, spec).type \in {"vector", "document"}
        /\ RowOf(door, s, spec).type = "document" => RowOf(door, s, spec).table = TableOf[s]
    BY <1>1, NewRow DEF Create
  <2>2. /\ s \notin ids.stores
        /\ ids' = [ids EXCEPT !.stores = @ \cup {s}]
        /\ stores' = [stores EXCEPT ![s] = RowOf(door, s, spec)]
        /\ UNCHANGED <<backend, created, kept>>
    BY <1>1 DEF Create, history
  <2> QED BY <2>1, <2>2 DEF IdsFit, RowsFit, Grow, Exists, RowsGo
<1>2. ASSUME NEW c \in Clients, Provisioned(c) PROVE Goal
  <2>1. /\ UNCHANGED <<backend, stores, ids, kept>>
        /\ created' = created \cup {calls[c].store} /\ calls[c].pc = "provision"
    BY <1>2 DEF Provisioned
  <2>2. calls[c].store \in ids.stores BY <2>1 DEF CallsFit, CallFits
  <2> QED BY <2>1, <2>2 DEF IdsFit, RowsFit, Grow, Exists, RowsGo
<1>3. ASSUME NEW c \in Clients, RollBack(c) \/ DeleteStoreRow(c) PROVE Goal
  <2>1. /\ UNCHANGED <<backend, ids, created, kept>>
        /\ stores' = [stores EXCEPT ![calls[c].store] = NoStore]
    BY <1>3 DEF RollBack, DeleteStoreRow, history
  <2> QED BY <2>1, Blanks DEF IdsFit, RowsFit, Grow, Exists, RowsGo
<1>4. ASSUME NEW c \in Clients, WriteDocument(c) PROVE Goal
  <2>1. /\ UNCHANGED <<backend, stores, created>>
        /\ ids' = [ids EXCEPT !.docs = ids.docs + 1]
        /\ DOMAIN kept' = DOMAIN kept
    BY <1>4 DEF WriteDocument
  <2> QED BY <2>1 DEF IdsFit, RowsFit, Grow, Exists, RowsGo
<1>5. ASSUME NEW c \in Clients, NEW distance, IndexVector(c, distance) PROVE Goal
  <2>1. /\ UNCHANGED <<backend, stores, created>>
        /\ ids' = [ids EXCEPT !.vectors = ids.vectors + 1]
        /\ DOMAIN kept' = DOMAIN kept
    BY <1>5 DEF IndexVector
  <2> QED BY <2>1 DEF IdsFit, RowsFit, Grow, Exists, RowsGo
<1>6. ASSUME NEW n \in Node, NodeInserts(n) PROVE Goal
  <2>1. /\ UNCHANGED <<backend, stores, created, kept>>
        /\ ids' = [ids EXCEPT !.docs = ids.docs + 1]
    BY <1>6 DEF NodeInserts, history
  <2> QED BY <2>1 DEF IdsFit, RowsFit, Grow, Exists, RowsGo
<1>7. ASSUME NEW c \in Clients,
             \/ ProvisionFails(c) \/ DropBacking(c) \/ DropFails(c) \/ Fails(c)
             \/ UpdateDocument(c) \/ DeleteDocument(c) \/ Embedded(c) \/ DeleteVector(c)
      PROVE  Goal
  <2>1. UNCHANGED <<backend, stores, ids, created>> /\ DOMAIN kept' = DOMAIN kept
    BY <1>7 DEF ProvisionFails, DropBacking, DropFails, Fails, UpdateDocument,
                DeleteDocument, Embedded, DeleteVector, backed, history
  <2> QED BY <2>1, RowsAsTheyWere
<1>8. ASSUME NEW n \in Node,
             NodeWrites(n) \/ NodeUpdates(n) \/ NodeFails(n) \/ NodeReplies(n) \/ ReplyIsLost(n)
      PROVE  Goal
  <2>1. UNCHANGED <<backend, stores, ids, created>> /\ DOMAIN kept' = DOMAIN kept
    BY <1>8, Zenon DEF NodeWrites, NodeUpdates, NodeFails, NodeReplies, ReplyIsLost, backed, history
  <2> QED BY <2>1, RowsAsTheyWere
<1>9. ASSUME NEW c \in Clients, NEW s \in Store, BeginDeleteStore(c, s) PROVE Goal
  <2>1. UNCHANGED <<backend, stores, ids, created>> /\ DOMAIN kept' = DOMAIN kept
    BY <1>9 DEF BeginDeleteStore, backed, history
  <2> QED BY <2>1, RowsAsTheyWere
<1>10. ASSUME NEW c \in Clients, NEW s \in Store, NEW type, NEW call, Resolves(c, s, type, call)
       PROVE  Goal
  <2>1. UNCHANGED <<backend, stores, ids, created>> /\ DOMAIN kept' = DOMAIN kept
    BY <1>10 DEF Resolves, backed, history
  <2> QED BY <2>1, RowsAsTheyWere
<1>11. ASSUME Crash PROVE Goal
  <2>1. UNCHANGED <<backend, stores, ids, created>> /\ DOMAIN kept' = DOMAIN kept
    BY <1>11 DEF Crash, backed
  <2> QED BY <2>1, RowsAsTheyWere
<1> HIDE DEF Goal
<1>12. ASSUME NEW c \in Clients, CallBegins(c) PROVE Goal
  BY <1>1, <1>9, <1>10, <1>12, Zenon DEF CallBegins, BeginWrite, BeginUpdateDoc, BeginRemove,
    BeginIndex, BeginUnindex
<1>13. ASSUME NEW c \in Clients, CallGoesOn(c) PROVE Goal
  BY <1>2, <1>3, <1>4, <1>5, <1>7, <1>13, Zenon DEF CallGoesOn
<1>14. ASSUME NEW n \in Node, NodeRuns(n) PROVE Goal
  BY <1>6, <1>8, <1>14, Zenon DEF NodeRuns
<1> QED BY <1>11, <1>12, <1>13, <1>14, Zenon DEF MNext, Goal

\* A record operation begins with the row, if it is of the type.
Opens(call, type) ==
  /\ DOMAIN call = CallFields
  /\ call.pc \in {"write", "update", "remove", "embed", "unindex"}
  /\ call.pc \in {"write", "update", "remove"} <=> type = "document"
  /\ type \in {"document", "vector"}
  /\ call.pc = "embed" => TrimSpace(call.req.partition) = call.req.partition

LEMMA OpeningFits ==
  ASSUME IdsFit, RowsFit, CallsFit, IdsFit', Grow, NEW c \in Clients, NEW s \in Store, NEW type,
         NEW call, Opens(call, type), Resolves(c, s, type, call)
  PROVE  CallsFit'
<1> DEFINE opened == [[call EXCEPT !.store = s] EXCEPT !.row = stores[s]]
<1>1. /\ stores[s].type = type /\ UNCHANGED <<stores, ids, created>>
      /\ SetCall(c, opened)
  BY DEF Resolves, backed, history
<1>2. /\ DOMAIN opened = CallFields /\ opened.pc = call.pc /\ opened.req = call.req
      /\ opened.store = s /\ opened.row = stores[s]
  BY DEF Opens, CallFields
<1> HIDE DEF opened
<1>3. s \in ids.stores BY <1>1 DEF RowsFit, Exists, Opens
<1>4. CallFits(opened, ids.stores', stores', created')
  BY <1>1, <1>2, <1>3 DEF CallFits, Opens, CallSteps, RowsFit
<1>5. ~Creating(opened) BY <1>2 DEF Opens, Creating
<1>6. \A d \in Clients : d # c /\ Creating(calls[d]) => calls[d].store \notin created'
  BY <1>1 DEF CallsFit, CallFits, Creating
<1> QED BY <1>1, <1>4, <1>5, <1>6, CallSet DEF Grow

LEMMA BeginningsOpen ==
  ASSUME NEW c \in Clients, NEW s \in Store, NEW pc \in {"write", "update", "remove", "unindex"},
         NEW d
  PROVE  /\ Opens([[NoCall EXCEPT !.pc = pc] EXCEPT !.what = d],
                  IF pc = "unindex" THEN "vector" ELSE "document")
         /\ Opens([NoCall EXCEPT !.pc = "write"], "document")
BY Blanks DEF Opens, CallFields

LEMMA IndexingOpens ==
  ASSUME NEW door \in {"flow", "web", "mcp"}, NEW req
  PROVE  Opens([[NoCall EXCEPT !.pc = "embed"] EXCEPT !.req = RecordOf(door, req)], "vector")
BY Blanks, RecordsComeTrimmed DEF Opens, CallFields

\* A call goes on to its next statement with what it has.
LEMMA CallGoes ==
  ASSUME IdsFit, CallsFit, IdsFit', Grow, created' = created, NEW c \in Clients,
         NEW pc \in CallSteps, SetCall(c, [calls[c] EXCEPT !.pc = pc]), calls[c].pc # "idle",
         pc \in {"write", "update", "remove", "embed", "unindex", "provision"} => FALSE,
         pc = "index" => calls[c].pc = "embed",
         pc = "drop" => stores'[calls[c].store].type = "none",
         pc = "rollback" => calls[c].pc = "provision"
  PROVE  CallsFit'
<1> DEFINE call == [calls[c] EXCEPT !.pc = pc]
<1>1. CallFits(calls[c], ids.stores, stores, created) BY DEF CallsFit
<1>2. /\ DOMAIN call = CallFields /\ call.pc = pc /\ call.store = calls[c].store
      /\ call.row = calls[c].row /\ call.req = calls[c].req
  BY <1>1 DEF CallFits, CallFields
<1> HIDE DEF call
<1>3. CallFits(call, ids.stores', stores', created')
  <2>1. call.store \in ids.stores /\ ids.stores \subseteq ids.stores'
    BY <1>1, <1>2 DEF CallFits, Grow
  <2>2. stores'[call.store].type # "none" => stores'[call.store] = stores[call.store]
    BY <2>1 DEF Grow, RowsGo
  <2>3. call.pc \in {"provision", "rollback"} => call.store \notin created'
    BY <1>1, <1>2 DEF CallFits
  <2>4. call.row.type \in {"vector", "document"}
    BY <1>1, <1>2 DEF CallFits
  <2>5. call.pc \in {"embed", "index", "unindex"} => call.row.type = "vector"
    BY <1>1, <1>2 DEF CallFits
  <2>6. call.pc \in {"embed", "index"} => TrimSpace(call.req.partition) = call.req.partition
    BY <1>1, <1>2 DEF CallFits
  <2> QED BY <1>1, <1>2, <2>1, <2>2, <2>3, <2>4, <2>5, <2>6 DEF CallFits
<1>4. Creating(call) => Creating(calls[c]) BY <1>2 DEF Creating
<1>5. \A d \in Clients : d # c /\ Creating(calls[d]) => calls[d].store \notin created'
  BY DEF CallsFit, CallFits, Creating
<1>6. SetCall(c, call) BY DEF call
<1> QED BY <1>2, <1>3, <1>4, <1>5, <1>6, CallSet DEF Grow

LEMMA CallsAsTheyWere ==
  ASSUME IdsFit, CallsFit, Grow, UNCHANGED <<calls, created>>
  PROVE  CallsFit'
<1>1. \A c \in Clients : CallFits(calls[c], ids.stores, stores, created) BY DEF CallsFit
<1>2. \A c \in Clients : CallFits(calls[c], ids.stores', stores', created)
  <2> TAKE c \in Clients
  <2>1. Creating(calls[c]) => calls[c].store \notin created BY <1>1 DEF CallFits, Creating
  <2> QED BY <1>1, <2>1, CallOutlives DEF Grow
<1> QED BY <1>2 DEF CallsFit

LEMMA CallsStep ==
  ASSUME IdsFit, RowsFit, CallsFit, MNext
  PROVE  CallsFit'
<1>0. IdsFit' /\ RowsFit' /\ Grow BY RowsStep
<1>1. ASSUME NEW c \in Clients, NEW s \in Store, NEW door \in {"web", "mcp"}, NEW spec,
             Create(c, s, door, spec)
      PROVE  CallsFit'
  <2> DEFINE row == RowOf(door, s, spec)
             call == [[[NoCall EXCEPT !.pc = "provision"] EXCEPT !.store = s] EXCEPT !.row = row]
  <2>1. /\ row.type \in {"vector", "document"}
        /\ row.type = "document" => row.table = TableOf[s]
    BY <1>1, NewRow DEF Create
  <2> HIDE DEF row
  <2>2. /\ s \notin ids.stores
        /\ ids' = [ids EXCEPT !.stores = @ \cup {s}]
        /\ stores' = [stores EXCEPT ![s] = row]
        /\ SetCall(c, call) /\ UNCHANGED created
    BY <1>1 DEF Create, row, history
  <2>3. /\ DOMAIN call = CallFields /\ call.pc = "provision" /\ call.store = s
        /\ call.row = row
    BY Blanks DEF CallFields
  <2> HIDE DEF call
  <2>4. s \in ids.stores' /\ stores'[s] = row /\ s \notin Old /\ s \notin created
    BY <2>2 DEF IdsFit, RowsFit
  <2>5. CallFits(call, ids.stores', stores', created')
    BY <2>1, <2>2, <2>3, <2>4 DEF CallFits, CallSteps
  <2>6. \A d \in Clients : d # c /\ Creating(calls[d]) => calls[d].store \notin created'
    BY <2>2 DEF CallsFit, CallFits, Creating
  <2> QED BY <1>0, <2>2, <2>3, <2>5, <2>6, CallSet DEF Grow
<1>2. ASSUME NEW c \in Clients, Provisioned(c) PROVE CallsFit'
  <2>1. /\ created' = created \cup {calls[c].store} /\ calls[c].pc = "provision"
        /\ SetCall(c, NoCall)
    BY <1>2 DEF Provisioned
  <2>2. \A d \in Clients : d # c /\ Creating(calls[d]) => calls[d].store \notin created'
    BY <2>1 DEF CallsFit, CallFits, Creating
  <2> QED BY <1>0, <2>1, <2>2, CallEnds DEF Grow
<1>3. ASSUME NEW c \in Clients, DeleteStoreRow(c) PROVE CallsFit'
  <2>1. /\ stores' = [stores EXCEPT ![calls[c].store] = NoStore] /\ created' = created
        /\ calls[c].pc = "forget" /\ SetCall(c, GoesOn(calls[c]))
    BY <1>3 DEF DeleteStoreRow, history
  <2>2. calls[c].store \in Store BY <2>1 DEF CallsFit, CallFits, IdsFit
  <2>3. stores'[calls[c].store].type = "none" BY <2>1, <2>2, Blanks DEF RowsFit
  <2>4. DeleteStep("forget") = "drop" BY DEF DeleteStep
  <2>5. GoesOn(calls[c]) = [calls[c] EXCEPT !.pc = "drop"]
    BY <2>1, <2>4 DEF GoesOn
  <2> QED BY <1>0, <2>1, <2>3, <2>5, CallGoes DEF CallSteps
<1>4. ASSUME NEW c \in Clients,
             \/ RollBack(c) \/ DropBacking(c) \/ DropFails(c) \/ Fails(c)
             \/ WriteDocument(c) \/ UpdateDocument(c) \/ DeleteDocument(c) \/ DeleteVector(c)
             \/ \E distance \in Distances : IndexVector(c, distance)
      PROVE  CallsFit'
  <2>1. created' = created /\ SetCall(c, NoCall)
    <3>1. CASE DropBacking(c)
      <4>1. DeleteStep("drop") = "idle" BY DEF DeleteStep
      <4> QED BY <3>1, <4>1 DEF DropBacking, GoesOn, history
    <3>2. CASE ~DropBacking(c)
      BY <1>4, <3>2 DEF RollBack, DropFails, Fails, WriteDocument, UpdateDocument,
        DeleteDocument, DeleteVector, IndexVector, history
    <3> QED BY <3>1, <3>2
  <2>2. \A d \in Clients : d # c /\ Creating(calls[d]) => calls[d].store \notin created'
    BY <2>1 DEF CallsFit, CallFits, Creating
  <2> QED BY <1>0, <2>1, <2>2, CallEnds DEF Grow
<1>5. ASSUME NEW c \in Clients, ProvisionFails(c) PROVE CallsFit'
  <2>1. /\ calls[c].pc = "provision" /\ created' = created
        /\ SetCall(c, [calls[c] EXCEPT !.pc = "rollback"])
    BY <1>5 DEF ProvisionFails, AfterFailedProvision, history
  <2> QED BY <1>0, <2>1, CallGoes DEF CallSteps
<1>6. ASSUME NEW c \in Clients, Embedded(c) PROVE CallsFit'
  <2>1. /\ calls[c].pc = "embed" /\ created' = created
        /\ SetCall(c, [calls[c] EXCEPT !.pc = "index"])
    BY <1>6 DEF Embedded, history
  <2> QED BY <1>0, <2>1, CallGoes DEF CallSteps
<1>7. ASSUME NEW c \in Clients, NEW s \in Store, BeginDeleteStore(c, s) PROVE CallsFit'
  <2> DEFINE call == [[[NoCall EXCEPT !.pc = "forget"] EXCEPT !.store = s] EXCEPT !.row = stores[s]]
  <2>1. DeleteStep("begin") = "forget" BY DEF DeleteStep
  <2>2. /\ Exists(s) /\ SetCall(c, call) /\ UNCHANGED <<stores, ids, created>>
    BY <1>7, <2>1 DEF BeginDeleteStore, backed, history
  <2>3. /\ DOMAIN call = CallFields /\ call.pc = "forget" /\ call.store = s
        /\ call.row = stores[s]
    BY Blanks DEF CallFields
  <2> HIDE DEF call
  <2>4. CallFits(call, ids.stores', stores', created')
    BY <2>2, <2>3 DEF CallFits, CallSteps, RowsFit, Exists
  <2>5. \A d \in Clients : d # c /\ Creating(calls[d]) => calls[d].store \notin created'
    BY <2>2 DEF CallsFit, CallFits, Creating
  <2>6. ~Creating(call) BY <2>3 DEF Creating
  <2> QED BY <1>0, <2>2, <2>4, <2>5, <2>6, CallSet DEF Grow
<1>8. ASSUME NEW c \in Clients, NEW s \in Store,
             \/ BeginWrite(c, s)
             \/ \E d \in 1..ids.docs : BeginUpdateDoc(c, s, d) \/ BeginRemove(c, s, d)
             \/ \E door \in {"flow", "web", "mcp"}, req \in Requests : BeginIndex(c, s, door, req)
             \/ \E v \in 1..ids.vectors : BeginUnindex(c, s, v)
      PROVE  CallsFit'
  <2>1. PICK type, call : Opens(call, type) /\ Resolves(c, s, type, call)
    <3>1. CASE BeginWrite(c, s) BY <3>1, BeginningsOpen DEF BeginWrite
    <3>2. ASSUME NEW d, BeginUpdateDoc(c, s, d) \/ BeginRemove(c, s, d) \/ BeginUnindex(c, s, d)
          PROVE  \E type, call : Opens(call, type) /\ Resolves(c, s, type, call)
      BY <3>2, BeginningsOpen DEF BeginUpdateDoc, BeginRemove, BeginUnindex
    <3>3. ASSUME NEW door \in {"flow", "web", "mcp"}, NEW req, BeginIndex(c, s, door, req)
          PROVE  \E type, call : Opens(call, type) /\ Resolves(c, s, type, call)
      BY <3>3, IndexingOpens DEF BeginIndex
    <3> QED BY <1>8, <3>1, <3>2, <3>3, Zenon
  <2> QED BY <1>0, <2>1, OpeningFits
<1>9. ASSUME NEW n \in Node, NodeRuns(n) PROVE CallsFit'
  <2>1. UNCHANGED <<calls, created>>
    BY <1>9, Zenon DEF NodeRuns, NodeWrites, NodeUpdates, NodeInserts, NodeFails, NodeReplies,
      ReplyIsLost, history
  <2> QED BY <1>0, <2>1, CallsAsTheyWere
<1>10. ASSUME Crash PROVE CallsFit'
  <2>1. calls' = [c \in Clients |-> NoCall] /\ created' = created BY <1>10 DEF Crash
  <2>2. CallFits(NoCall, ids.stores', stores', created') BY Blanks DEF CallFits, CallSteps
  <2>3. ~Creating(NoCall) BY Blanks DEF Creating
  <2> QED BY <2>1, <2>2, <2>3 DEF CallsFit
<1>11. ASSUME NEW c \in Clients, CallBegins(c) PROVE CallsFit'
  BY <1>1, <1>7, <1>8, <1>11, Zenon DEF CallBegins
<1>12. ASSUME NEW c \in Clients, CallGoesOn(c) PROVE CallsFit'
  BY <1>2, <1>3, <1>4, <1>5, <1>6, <1>12, Zenon DEF CallGoesOn
<1> QED BY <1>9, <1>10, <1>11, <1>12, Zenon DEF MNext

-----------------------------------------------------------------------------
(* Document tables                                                         *)

WithBody(docs, d, body) == {IF x.id = d THEN [x EXCEPT !.body = body] ELSE x : x \in docs}

\* What a step may do to a document table: nothing, or make it, drop it, add a
\* document under a new id, change one's body, take one out.
Wrote(before, after, last, d, by, body) ==
  before.there /\ d = last + 1
    /\ after = [before EXCEPT !.docs = before.docs \cup {Doc(d, by, body)}]
Rewrote(before, after, d, body) ==
  before.there /\ after = [before EXCEPT !.docs = WithBody(before.docs, d, body)]
TookOut(before, after, d) ==
  before.there /\ after = [before EXCEPT !.docs = WithoutAt(before.docs, d)]
MadeTable(before, after) == after = [before EXCEPT !.there = TRUE]

LEMMA WithBodyKeeps ==
  ASSUME NEW docs, NEW d, NEW body, IsFiniteSet(docs), ById(docs),
         \A x \in docs : DOMAIN x = {"id", "by", "body"}
  PROVE  /\ IsFiniteSet(WithBody(docs, d, body))
         /\ \A y \in WithBody(docs, d, body) : \E x \in docs :
              /\ y.id = x.id /\ y.by = x.by /\ DOMAIN y = DOMAIN x
              /\ y = x \/ (y.body = body /\ x.id = d)
         /\ \A x \in docs : \E y \in WithBody(docs, d, body) :
              y.id = x.id /\ y.by = x.by
         /\ ById(WithBody(docs, d, body))
<1> DEFINE g(x) == IF x.id = d THEN [x EXCEPT !.body = body] ELSE x
           f == [x \in docs |-> g(x)]
           T == WithBody(docs, d, body)
<1>1. \A x \in docs : /\ g(x).id = x.id /\ g(x).by = x.by /\ DOMAIN g(x) = DOMAIN x
                      /\ g(x) = x \/ (g(x).body = body /\ x.id = d)
  OBVIOUS
<1>2. \A y : y \in T <=> \E x \in docs : y = g(x) BY DEF WithBody
<1>3. \A x \in docs : f[x] = g(x) OBVIOUS
<1>4. f \in [docs -> T] BY <1>2
<1> HIDE DEF g, f, T
<1>5. f \in Surjection(docs, T) BY <1>2, <1>3, <1>4 DEF Surjection
<1>6. IsFiniteSet(T) BY <1>5, FS_Surjection
<1>7. \A x, y \in docs : x.id = y.id => x = y BY DEF ById
<1>8. \A x, y \in T : x.id = y.id => x = y BY <1>1, <1>2, <1>7
<1> QED BY <1>1, <1>2, <1>6, <1>8 DEF T, ById

LEMMA TablesLast ==
  ASSUME NEW table, NEW last \in Nat, NEW more \in Nat, last <= more, TableFits(table, last)
  PROVE  TableFits(table, more)
BY DEF TableFits

LEMMA TableWrites ==
  ASSUME NEW table, NEW after, NEW last \in Nat, NEW d, NEW by, NEW body,
         TableFits(table, last), Wrote(table, after, last, d, by, body)
  PROVE  /\ TableFits(after, last + 1)
         /\ \A e : Holds(table, e) => Holds(after, e)
         /\ Holds(after, d) /\ after.there
         /\ \A n : n # by => Own(n, after) = Own(n, table)
         /\ \A n : n = by => Own(n, after) = Own(n, table) \cup {Doc(d, by, body)}
<1> DEFINE x == Doc(d, by, body)
<1>1. x.id = d /\ x.by = by /\ DOMAIN x = {"id", "by", "body"} BY DEF Doc
<1> HIDE DEF x
<1>2. /\ after.docs = table.docs \cup {x} /\ after.there = table.there
      /\ DOMAIN after = {"there", "docs"} /\ table.there /\ d = last + 1
  BY DEF Wrote, TableFits, x
<1>3. IsFiniteSet(after.docs) BY <1>2, FS_AddElement DEF TableFits
<1>4. \A y \in table.docs : y.id # d BY <1>2 DEF TableFits
<1>5. ById(after.docs) BY <1>1, <1>2, <1>4 DEF ById, TableFits
<1>6. TableFits(after, last + 1) BY <1>1, <1>2, <1>3, <1>5 DEF TableFits
<1> QED BY <1>1, <1>2, <1>6 DEF Holds, Own, x

LEMMA OwnWritten ==
  ASSUME NEW table, NEW after, NEW last, NEW more, NEW d, NEW by, NEW body,
         TableFits(table, more), Wrote(table, after, last, d, by, body)
  PROVE  /\ \A n : n # by => Own(n, after) = Own(n, table)
         /\ Own(by, after) = Own(by, table) \cup {Doc(d, by, body)}
<1> DEFINE x == Doc(d, by, body)
<1>1. x.by = by BY DEF Doc
<1> HIDE DEF x
<1>2. after.docs = table.docs \cup {x} BY DEF Wrote, TableFits, x
<1> QED BY <1>1, <1>2 DEF Own, x

LEMMA OwnRewritten ==
  ASSUME NEW table, NEW after, NEW last, NEW d, NEW body,
         TableFits(table, last), Rewrote(table, after, d, body), NEW n, NEW y \in Own(n, after)
  PROVE  \E x \in Own(n, table) : y.id = x.id /\ (y = x \/ y.body = body)
<1>1. after.docs = WithBody(table.docs, d, body) BY DEF Rewrote, TableFits
<1>2. \A z \in after.docs : \E x \in table.docs :
           /\ z.id = x.id /\ z.by = x.by
           /\ z = x \/ (z.body = body /\ x.id = d)
  BY <1>1, WithBodyKeeps DEF TableFits
<1> QED BY <1>2 DEF Own

LEMMA TableRewrites ==
  ASSUME NEW table, NEW after, NEW last \in Nat, NEW d, NEW body,
         TableFits(table, last), Rewrote(table, after, d, body)
  PROVE  /\ TableFits(after, last)
         /\ \A e : Holds(table, e) => Holds(after, e)
         /\ after.there
         /\ \A n, y : y \in Own(n, after) => \E x \in Own(n, table) :
              y.id = x.id /\ (y = x \/ y.body = body)
<1>1. /\ after.docs = WithBody(table.docs, d, body) /\ after.there = table.there
      /\ DOMAIN after = {"there", "docs"} /\ table.there
  BY DEF Rewrote, TableFits
<1>2. /\ IsFiniteSet(after.docs)
      /\ \A y \in after.docs : \E x \in table.docs :
           /\ y.id = x.id /\ y.by = x.by /\ DOMAIN y = DOMAIN x
           /\ y = x \/ (y.body = body /\ x.id = d)
      /\ \A x \in table.docs : \E y \in after.docs : y.id = x.id /\ y.by = x.by
      /\ ById(after.docs)
  BY <1>1, WithBodyKeeps DEF TableFits
<1>3. TableFits(after, last) BY <1>1, <1>2 DEF TableFits
<1> QED BY <1>1, <1>2, <1>3 DEF Holds, Own

LEMMA TableTakesOut ==
  ASSUME NEW table, NEW after, NEW last \in Nat, NEW d,
         TableFits(table, last), TookOut(table, after, d)
  PROVE  /\ TableFits(after, last)
         /\ \A e : Holds(table, e) /\ e # d => Holds(after, e)
         /\ after.there
         /\ \A n : Own(n, after) \subseteq Own(n, table)
<1>1. /\ after.docs = WithoutAt(table.docs, d) /\ after.there = table.there
      /\ DOMAIN after = {"there", "docs"} /\ table.there
  BY DEF TookOut, TableFits
<1>2. after.docs \subseteq table.docs /\ \A x \in table.docs : x.id # d => x \in after.docs
  BY <1>1 DEF WithoutAt
<1>3. IsFiniteSet(after.docs) BY <1>2, FS_Subset DEF TableFits
<1>4. TableFits(after, last) BY <1>1, <1>2, <1>3 DEF TableFits, ById
<1> QED BY <1>1, <1>2, <1>4 DEF Holds, Own

LEMMA TableIsMade ==
  ASSUME NEW table, NEW after, NEW last \in Nat, TableFits(table, last), MadeTable(table, after)
  PROVE  /\ TableFits(after, last) /\ after.docs = table.docs /\ after.there
         /\ \A e : Holds(table, e) => Holds(after, e)
         /\ \A n : Own(n, after) = Own(n, table)
BY DEF TableFits, MadeTable, Holds, Own

LEMMA TableIsDropped ==
  ASSUME NEW last \in Nat
  PROVE  TableFits(NoTable, last) /\ \A n : Own(n, NoTable) = {}
BY Blanks, FS_EmptySet DEF TableFits, Own, ById

\* Two stores may be given one table; then a delete of the one takes the other's.
OneTableEach == \A s, t \in Store \ Old : TableOf[s] = TableOf[t] => s = t

LEMMA TablesAsTheyWere ==
  ASSUME IdsFit, IdsFit', Grow, DocsFit, UNCHANGED tables
  PROVE  DocsFit'
BY TablesLast DEF IdsFit, Grow, DocsFit

LEMMA OneTableMoves ==
  ASSUME IdsFit, IdsFit', Grow, DocsFit, NEW t \in TableNames, NEW after,
         tables' = [tables EXCEPT ![t] = after], TableFits(after, ids'.docs)
  PROVE  DocsFit'
<1>1. \A u \in TableNames : TableFits(tables[u], ids'.docs)
  BY TablesLast DEF IdsFit, Grow, DocsFit
<1> QED BY <1>1 DEF DocsFit

LEMMA BackingCarries ==
  ASSUME IdsFit, RowsFit, RowsFit', IdsFit', Grow, DocsBacked,
         kept'.docs \subseteq ids.stores \X Nat,
         \A s \in Store : stores'[s].type = "document" /\ s \in created' =>
           s \in created \/ tables'[TableOf[s]].there,
         \A s \in ids.stores : stores'[s].type = "document" =>
           /\ tables[TableOf[s]].there => tables'[TableOf[s]].there
           /\ \A k \in kept'.docs : k[1] = s =>
                \/ k \in kept.docs
                     /\ (Holds(tables[TableOf[s]], k[2]) => Holds(tables'[TableOf[s]], k[2]))
                \/ Holds(tables'[TableOf[s]], k[2])
  PROVE  DocsBacked'
<1>1. kept'.docs \subseteq ids'.stores \X Nat BY DEF Grow
<1>2. ASSUME NEW s \in Store, stores'[s].type = "document"
      PROVE  /\ s \in created' => tables'[TableOf[s]].there
             /\ \A k \in kept'.docs : k[1] = s => Holds(tables'[TableOf[s]], k[2])
  <2>1. CASE s \in ids.stores
    <3>1. stores[s].type = "document" BY <1>2, <2>1 DEF Grow, RowsGo
    <3>2. s \in created' => tables'[TableOf[s]].there BY <1>2, <2>1, <3>1 DEF DocsBacked
    <3>3. \A k \in kept'.docs : k[1] = s => Holds(tables'[TableOf[s]], k[2])
      BY <1>2, <2>1, <3>1 DEF DocsBacked
    <3> QED BY <3>2, <3>3
  <2>2. CASE s \notin ids.stores
    <3>1. \A k \in kept'.docs : k[1] # s BY <2>2
    <3>2. s \notin created BY <2>2 DEF IdsFit
    <3> QED BY <1>2, <3>1, <3>2
  <2> QED BY <2>1, <2>2
<1> QED BY <1>1, <1>2 DEF DocsBacked

LEMMA DocsAsTheyWere ==
  ASSUME IdsFit, RowsFit, IdsFit', RowsFit', Grow, DocsFit, DocsBacked,
         UNCHANGED tables, kept'.docs = kept.docs, created' = created
  PROVE  DocsFit' /\ DocsBacked'
<1>1. DocsFit' BY TablesAsTheyWere
<1>2. kept'.docs \subseteq ids.stores \X Nat BY DEF DocsBacked
<1>3. DocsBacked' BY <1>2, BackingCarries
<1> QED BY <1>1, <1>3

\* One store's table is not another's.
LEMMA TablesApart ==
  ASSUME OneTableEach, RowsFit', IdsFit, NEW s \in ids.stores, NEW r \in Store,
         stores'[s].type = "document", r \notin Old, TableOf[s] = TableOf[r]
  PROVE  s = r
BY DEF OneTableEach, RowsFit, IdsFit

\* The table of a call that has one.
LEMMA CallsTable ==
  ASSUME IdsFit, CallsFit, NEW c \in Clients, calls[c].pc # "idle",
         calls[c].row.type = "document"
  PROVE  /\ calls[c].row.table = TableOf[calls[c].store]
         /\ calls[c].store \in ids.stores /\ calls[c].store \in Store /\ calls[c].store \notin Old
         /\ calls[c].row.table \in TableNames
         /\ stores[calls[c].store].type # "none" => calls[c].row = stores[calls[c].store]
<1>1. CallFits(calls[c], ids.stores, stores, created) BY DEF CallsFit
<1>2. calls[c].store \in Store BY <1>1 DEF CallFits, IdsFit
<1>3. DOMAIN TableOf = Store BY MemoryOK
<1> QED BY <1>1, <1>2, <1>3 DEF CallFits, TableNames, Range

LEMMA NodesTable ==
  ASSUME NEW n \in Node
  PROVE  TableOf[NodeStore[n]] \in TableNames
BY MemoryOK DEF TableNames, Range

\* A table where stores go on keeps what they have, if the step on it does.
LEMMA TableCarries ==
  ASSUME IdsFit, RowsFit, IdsFit', RowsFit', Grow, DocsFit, DocsBacked,
         NEW t \in TableNames, NEW after, tables' = [tables EXCEPT ![t] = after],
         TableFits(after, ids'.docs), created' = created,
         kept'.docs \subseteq kept.docs,
         tables[t].there => after.there,
         \A k \in kept'.docs : TableOf[k[1]] = t /\ stores'[k[1]].type = "document"
           /\ Holds(tables[t], k[2]) => Holds(after, k[2])
  PROVE  DocsFit' /\ DocsBacked'
<1>1. DocsFit' BY OneTableMoves
<1>2. kept'.docs \subseteq ids.stores \X Nat BY DEF DocsBacked
<1>3. \A u \in TableNames : tables'[u] = IF u = t THEN after ELSE tables[u] BY DEF DocsFit
<1>4. \A s \in ids.stores : TableOf[s] \in TableNames
  BY MemoryOK DEF TableNames, Range, IdsFit
<1>5. \A s \in ids.stores : stores'[s].type = "document" =>
        /\ tables[TableOf[s]].there => tables'[TableOf[s]].there
        /\ \A k \in kept'.docs : k[1] = s =>
             k \in kept.docs
               /\ (Holds(tables[TableOf[s]], k[2]) => Holds(tables'[TableOf[s]], k[2]))
  BY <1>3, <1>4
<1>6. DocsBacked' BY <1>2, <1>5, BackingCarries
<1> QED BY <1>1, <1>6

LEMMA DocsStep ==
  ASSUME OneTableEach, IdsFit, RowsFit, CallsFit, DocsFit, DocsBacked, NodesFit, MNext
  PROVE  DocsFit' /\ DocsBacked'
<1> DEFINE Goal == DocsFit' /\ DocsBacked'
<1>0. IdsFit' /\ RowsFit' /\ Grow BY RowsStep
<1>1. ASSUME NEW c \in Clients, Provisioned(c) PROVE Goal
  <2> DEFINE s == calls[c].store
             row == calls[c].row
  <2>1. /\ calls[c].pc = "provision" /\ created' = created \cup {s}
        /\ UNCHANGED <<stores, ids, kept>>
        /\ row.type = "vector" => tables' = tables
        /\ row.type # "vector" =>
             tables' = [tables EXCEPT ![row.table] = [tables[row.table] EXCEPT !.there = TRUE]]
    BY <1>1 DEF Provisioned, TableMade
  <2>2. /\ s \in ids.stores /\ s \in Store
        /\ row.type \in {"vector", "document"}
        /\ stores[s].type # "none" => row = stores[s]
    BY <2>1 DEF CallsFit, CallFits, Exists, IdsFit
  <2>3. kept'.docs \subseteq ids.stores \X Nat BY <2>1 DEF DocsBacked
  <2>4. CASE row.type = "vector"
    <3>1. DocsFit' BY <1>0, <2>1, <2>4, TablesAsTheyWere
    <3>2. stores'[s].type # "document" BY <2>1, <2>2, <2>4
    <3>3. DocsBacked' BY <1>0, <2>1, <2>3, <2>4, <3>2, BackingCarries
    <3> QED BY <3>1, <3>3
  <2>5. CASE row.type = "document"
    <3>1. /\ row.table = TableOf[s] /\ row.table \in TableNames
      BY <2>1, <2>5, CallsTable
    <3> DEFINE t == TableOf[s]
               after == [tables[t] EXCEPT !.there = TRUE]
    <3>2. tables' = [tables EXCEPT ![t] = after] BY <2>1, <2>5, <3>1
    <3>3. MadeTable(tables[t], after) BY DEF MadeTable
    <3>4. TableFits(tables[t], ids.docs) /\ ids.docs \in Nat BY <3>1 DEF DocsFit, IdsFit
    <3> HIDE DEF after
    <3>5. /\ TableFits(after, ids'.docs) /\ after.there
          /\ \A e : Holds(tables[t], e) => Holds(after, e)
      BY <2>1, <3>3, <3>4, TableIsMade
    <3>6. DocsFit' BY <1>0, <3>1, <3>2, <3>5, OneTableMoves
    <3>7. \A u \in TableNames : tables'[u] = IF u = t THEN after ELSE tables[u]
      BY <3>2 DEF DocsFit
    <3>8. \A r \in Store : TableOf[r] \in TableNames
      BY MemoryOK DEF TableNames, Range
    <3>9. DocsBacked' BY <1>0, <2>1, <2>3, <3>5, <3>7, <3>8, BackingCarries DEF IdsFit
    <3> QED BY <3>6, <3>9
  <2> QED BY <2>2, <2>4, <2>5
<1>2. ASSUME NEW c \in Clients, DropBacking(c) PROVE Goal
  <2> DEFINE row == calls[c].row
  <2>1. /\ calls[c].pc = "drop" /\ UNCHANGED <<stores, ids, created, kept>>
        /\ row.type = "document" => tables' = [tables EXCEPT ![row.table] = NoTable]
        /\ row.type # "document" => tables' = tables
    BY <1>2 DEF DropBacking, history
  <2>2. CASE row.type # "document" BY <1>0, <2>1, <2>2, DocsAsTheyWere
  <2>3. CASE row.type = "document"
    <3>1. /\ row.table = TableOf[calls[c].store] /\ row.table \in TableNames
          /\ calls[c].store \in Store \ Old
      BY <2>1, <2>3, CallsTable
    <3>2. stores[calls[c].store].type = "none" BY <2>1 DEF CallsFit, CallFits
    <3>3. TableFits(NoTable, ids'.docs) BY <1>0, TableIsDropped DEF IdsFit
    <3>4. DocsFit' BY <1>0, <2>1, <2>3, <3>1, <3>3, OneTableMoves
    <3>5. \A s \in ids.stores : stores'[s].type = "document" => TableOf[s] # row.table
      BY <1>0, <2>1, <3>1, <3>2, TablesApart DEF IdsFit
    <3>6. \A u \in TableNames : u # row.table => tables'[u] = tables[u]
      BY <2>1, <2>3 DEF DocsFit
    <3>7. \A r \in Store : TableOf[r] \in TableNames
      BY MemoryOK DEF TableNames, Range
    <3>8. kept'.docs \subseteq ids.stores \X Nat BY <2>1 DEF DocsBacked
    <3>9. DocsBacked' BY <1>0, <2>1, <3>5, <3>6, <3>7, <3>8, BackingCarries DEF IdsFit
    <3> QED BY <3>4, <3>9
  <2> QED BY <2>2, <2>3
<1>3. ASSUME NEW c \in Clients, WriteDocument(c) PROVE Goal
  <2> DEFINE s == calls[c].store
             t == calls[c].row.table
             d == ids.docs + 1
             after == [tables[t] EXCEPT !.docs = tables[t].docs \cup {Doc(d, c, {})}]
  <2>1. /\ calls[c].pc = "write" /\ tables[t].there /\ UNCHANGED <<stores, created>>
        /\ ids' = [ids EXCEPT !.docs = d] /\ tables' = [tables EXCEPT ![t] = after]
        /\ kept' = [kept EXCEPT !.docs = kept.docs \cup {<<s, d>>}]
    BY <1>3 DEF WriteDocument
  <2>2. calls[c].row.type = "document" BY <2>1 DEF CallsFit, CallFits
  <2>3. t = TableOf[s] /\ t \in TableNames /\ s \in ids.stores
    BY <2>1, <2>2, CallsTable
  <2>4. ids.docs \in Nat /\ ids'.docs = d /\ kept'.docs = kept.docs \cup {<<s, d>>}
    BY <2>1 DEF IdsFit
  <2>5. TableFits(tables[t], ids.docs) /\ Wrote(tables[t], after, ids.docs, d, c, {})
    BY <2>1, <2>3 DEF DocsFit, Wrote
  <2> HIDE DEF after
  <2>6. /\ TableFits(after, ids'.docs) /\ after.there /\ Holds(after, d)
        /\ \A e : Holds(tables[t], e) => Holds(after, e)
    BY <2>4, <2>5, TableWrites
  <2>7. DocsFit' BY <1>0, <2>1, <2>3, <2>6, OneTableMoves
  <2>8. \A u \in TableNames : tables'[u] = IF u = t THEN after ELSE tables[u]
    BY <2>1 DEF DocsFit
  <2>9. \A r \in Store : TableOf[r] \in TableNames
    BY MemoryOK DEF TableNames, Range
  <2>10. kept'.docs \subseteq ids.stores \X Nat BY <2>3, <2>4 DEF DocsBacked
  <2>11. \A r \in ids.stores :
           /\ tables[TableOf[r]].there => tables'[TableOf[r]].there
           /\ \A k \in kept'.docs : k[1] = r =>
                \/ k \in kept.docs
                     /\ (Holds(tables[TableOf[r]], k[2]) => Holds(tables'[TableOf[r]], k[2]))
                \/ Holds(tables'[TableOf[r]], k[2])
    <3> TAKE r \in ids.stores
    <3>1. TableOf[r] \in TableNames BY <2>9 DEF IdsFit
    <3>2. \A k \in kept'.docs : k \in kept.docs \/ (k[1] = s /\ k[2] = d) BY <2>4
    <3> QED BY <2>3, <2>6, <2>8, <3>1, <3>2
  <2>12. DocsBacked' BY <1>0, <2>1, <2>10, <2>11, BackingCarries
  <2> QED BY <2>7, <2>12
<1>4. ASSUME NEW c \in Clients, UpdateDocument(c) PROVE Goal
  <2> DEFINE t == calls[c].row.table
             after == [tables[t] EXCEPT !.docs = WithBody(tables[t].docs, calls[c].what, {})]
  <2>1. /\ calls[c].pc = "update" /\ tables[t].there
        /\ UNCHANGED <<stores, ids, created, kept>>
        /\ tables' = [tables EXCEPT ![t] = after]
    BY <1>4 DEF UpdateDocument, WithBody, history
  <2>2. calls[c].row.type = "document" BY <2>1 DEF CallsFit, CallFits
  <2>3. t \in TableNames BY <2>1, <2>2, CallsTable
  <2>4. TableFits(tables[t], ids.docs) /\ Rewrote(tables[t], after, calls[c].what, {})
    BY <2>1, <2>3 DEF DocsFit, Rewrote
  <2> HIDE DEF after
  <2>5. /\ TableFits(after, ids'.docs) /\ after.there
        /\ \A e : Holds(tables[t], e) => Holds(after, e)
    BY <2>1, <2>4, TableRewrites DEF IdsFit
  <2> QED BY <1>0, <2>1, <2>3, <2>5, TableCarries, ZenonT(60)
<1>5. ASSUME NEW c \in Clients, DeleteDocument(c) PROVE Goal
  <2> DEFINE s == calls[c].store
             d == calls[c].what
             t == calls[c].row.table
             after == [tables[t] EXCEPT !.docs = WithoutAt(tables[t].docs, d)]
  <2>1. /\ calls[c].pc = "remove" /\ tables[t].there
        /\ UNCHANGED <<stores, ids, created>>
        /\ tables' = [tables EXCEPT ![t] = after]
        /\ kept' = [kept EXCEPT !.docs = kept.docs \ {<<s, d>>}]
    BY <1>5 DEF DeleteDocument
  <2>2. calls[c].row.type = "document" BY <2>1 DEF CallsFit, CallFits
  <2>3. t = TableOf[s] /\ t \in TableNames /\ s \in Store \ Old
    BY <2>1, <2>2, CallsTable
  <2>4. TableFits(tables[t], ids.docs) /\ TookOut(tables[t], after, d)
    BY <2>1, <2>3 DEF DocsFit, TookOut
  <2> HIDE DEF after
  <2>5. /\ TableFits(after, ids'.docs) /\ after.there
        /\ \A e : Holds(tables[t], e) /\ e # d => Holds(after, e)
    BY <2>1, <2>4, TableTakesOut DEF IdsFit
  <2>6. kept'.docs = kept.docs \ {<<s, d>>} BY <2>1 DEF IdsFit
  <2>7. \A k \in kept'.docs : TableOf[k[1]] = t /\ stores'[k[1]].type = "document" => k[2] # d
    <3> TAKE k \in kept'.docs
    <3>1. HAVE TableOf[k[1]] = t /\ stores'[k[1]].type = "document"
    <3>2. k \in ids.stores \X Nat BY <2>6 DEF DocsBacked
    <3>3. k = <<k[1], k[2]>> /\ k[1] \in ids.stores BY <3>2
    <3>4. k[1] = s BY <1>0, <2>3, <3>1, <3>3, TablesApart
    <3> QED BY <2>6, <3>3, <3>4
  <2>8. \A k \in kept'.docs : TableOf[k[1]] = t /\ stores'[k[1]].type = "document"
          /\ Holds(tables[t], k[2]) => Holds(after, k[2])
    BY <2>5, <2>7
  <2>9. kept'.docs \subseteq kept.docs BY <2>6
  <2> HIDE DEF t
  <2> QED BY <1>0, <2>1, <2>3, <2>5, <2>8, <2>9, TableCarries
<1>6. ASSUME NEW n \in Node, NodeUpdates(n) PROVE Goal
  <2> DEFINE t == visits[n].row.table
             after == [tables[t] EXCEPT !.docs =
                         WithBody(tables[t].docs, visits[n].prior, visits[n].doc)]
  <2>1. /\ visits[n].pc = "update" /\ tables[t].there
        /\ UNCHANGED <<stores, ids, created, kept>>
        /\ tables' = [tables EXCEPT ![t] = after]
    BY <1>6 DEF NodeUpdates, WithBody, history
  <2>2. t = TableOf[NodeStore[n]] BY <2>1 DEF NodesFit, NodeFits, VisitFits
  <2>3. t \in TableNames BY <2>2, NodesTable
  <2>4. TableFits(tables[t], ids.docs) /\ Rewrote(tables[t], after, visits[n].prior, visits[n].doc)
    BY <2>1, <2>3 DEF DocsFit, Rewrote
  <2> HIDE DEF after
  <2>5. /\ TableFits(after, ids'.docs) /\ after.there
        /\ \A e : Holds(tables[t], e) => Holds(after, e)
    BY <2>1, <2>4, TableRewrites DEF IdsFit
  <2> QED BY <1>0, <2>1, <2>3, <2>5, TableCarries, ZenonT(60)
<1>7. ASSUME NEW n \in Node, NodeInserts(n) PROVE Goal
  <2> DEFINE t == visits[n].row.table
             d == ids.docs + 1
             body == visits[n].doc
             after == [tables[t] EXCEPT !.docs = tables[t].docs \cup {Doc(d, n, body)}]
  <2>1. /\ visits[n].pc = "insert" /\ tables[t].there /\ UNCHANGED <<stores, created, kept>>
        /\ ids' = [ids EXCEPT !.docs = d] /\ tables' = [tables EXCEPT ![t] = after]
    BY <1>7 DEF NodeInserts, history
  <2>2. t = TableOf[NodeStore[n]] BY <2>1 DEF NodesFit, NodeFits, VisitFits
  <2>3. t \in TableNames BY <2>2, NodesTable
  <2>4. ids.docs \in Nat /\ ids'.docs = d BY <2>1 DEF IdsFit
  <2>5. TableFits(tables[t], ids.docs) /\ Wrote(tables[t], after, ids.docs, d, n, body)
    BY <2>1, <2>3 DEF DocsFit, Wrote
  <2> HIDE DEF after
  <2>6. /\ TableFits(after, ids'.docs) /\ after.there
        /\ \A e : Holds(tables[t], e) => Holds(after, e)
    <3> HIDE DEF t, d, body
    <3>1. TableFits(after, ids.docs + 1) /\ after.there BY <2>4, <2>5, TableWrites
    <3>2. \A e : Holds(tables[t], e) => Holds(after, e) BY <2>4, <2>5, TableWrites
    <3> QED BY <2>4, <3>1, <3>2 DEF d
  <2> QED BY <1>0, <2>1, <2>3, <2>6, TableCarries, ZenonT(60)
<1>8. ASSUME NEW c \in Clients, CallBegins(c) PROVE Goal
  <2>1. UNCHANGED <<tables, created, kept>>
    BY <1>8, Zenon DEF CallBegins, Create, BeginDeleteStore, BeginWrite, BeginUpdateDoc, BeginRemove,
      BeginIndex, BeginUnindex, Resolves, backed, history
  <2> QED BY <1>0, <2>1, DocsAsTheyWere
<1>9. ASSUME NEW c \in Clients,
             \/ ProvisionFails(c) \/ RollBack(c) \/ DeleteStoreRow(c) \/ DropFails(c) \/ Fails(c)
             \/ Embedded(c)
      PROVE  Goal
  <2>1. UNCHANGED <<tables, created, kept>>
    BY <1>9, Zenon DEF ProvisionFails, RollBack, DeleteStoreRow, DropFails, Fails, Embedded,
      backed, history
  <2> QED BY <1>0, <2>1, DocsAsTheyWere
<1>10. ASSUME NEW c \in Clients, DeleteVector(c) \/ \E distance \in Distances : IndexVector(c, distance)
       PROVE  Goal
  <2>1. UNCHANGED <<tables, created>> /\ kept'.docs = kept.docs
    BY <1>10 DEF DeleteVector, IndexVector, IdsFit
  <2> QED BY <1>0, <2>1, DocsAsTheyWere
<1>11. ASSUME NEW n \in Node, NodeWrites(n) \/ NodeFails(n) \/ NodeReplies(n) \/ ReplyIsLost(n)
       PROVE  Goal
  <2>1. UNCHANGED <<tables, created, kept>>
    BY <1>11, Zenon DEF NodeWrites, NodeFails, NodeReplies, ReplyIsLost, backed, history
  <2> QED BY <1>0, <2>1, DocsAsTheyWere
<1>12. ASSUME Crash PROVE Goal
  <2>1. UNCHANGED <<tables, created, kept>> BY <1>12 DEF Crash, backed
  <2> QED BY <1>0, <2>1, DocsAsTheyWere
<1> HIDE DEF Goal
<1>13. ASSUME NEW c \in Clients, CallGoesOn(c) PROVE Goal
  BY <1>1, <1>2, <1>3, <1>4, <1>5, <1>9, <1>10, <1>13, Zenon DEF CallGoesOn
<1>14. ASSUME NEW n \in Node, NodeRuns(n) PROVE Goal
  BY <1>6, <1>7, <1>11, <1>14, Zenon DEF NodeRuns
<1> QED BY <1>8, <1>12, <1>13, <1>14, Zenon DEF MNext, Goal

-----------------------------------------------------------------------------
(* Vector indexes                                                          *)

Blank == ""
StoredAt(index, partition) == IF index.partitioned THEN TrimSpace(partition) ELSE Blank
NewRecord(index, id, distance, rec) ==
  [id |-> id, distance |-> distance, metadata |-> rec.metadata,
   partition |-> StoredAt(index, rec.partition)]

LEMMA IndexAdds ==
  ASSUME NEW index, NEW id, NEW distance, NEW rec
  PROVE  Index(index, id, distance, rec) =
           [index EXCEPT !.records = @ \cup {NewRecord(index, id, distance, rec)}]
BY Zenon DEF Index, NewRecord, StoredAt, Blank

LEMMA HandedInFields ==
  ASSUME NEW index, NEW k, DOMAIN k = {"store", "id", "distance", "partition", "metadata"}
  PROVE  /\ AsStored(index, k).id = k.id
         /\ AsStored(index, k).distance = k.distance
         /\ AsStored(index, k).metadata = k.metadata
         /\ TrimSpace(k.partition) = k.partition =>
              AsStored(index, k).partition = StoredAt(index, k.partition)
         /\ AsStored(index, k).store = k.store
<1>1. AsStored(index, k) = IF index.partitioned THEN k ELSE [k EXCEPT !.partition = Blank]
  BY Zenon DEF AsStored, Blank
<1>2. StoredAt(index, k.partition) = IF index.partitioned THEN TrimSpace(k.partition) ELSE Blank
  BY Zenon DEF StoredAt
<1> QED BY <1>1, <1>2

\* What was handed in is known by its id, and depends on the index only by
\* whether that keeps partitions.
LEMMA HandedInIs ==
  ASSUME NEW index, NEW other, NEW s, NEW vectors, NEW known, NEW last,
         KeptFit(vectors, known, last), index.partitioned = other.partitioned
  PROVE  /\ ById(HandedIn(index, s, vectors))
         /\ HandedIn(index, s, vectors) = HandedIn(other, s, vectors)
<1>1. \A k : AsStored(index, k) = AsStored(other, k) BY Zenon DEF AsStored
<1>2. \A k \in vectors : AsStored(index, k).id = k.id BY HandedInFields DEF KeptFit
<1>3. ById(HandedIn(index, s, vectors)) BY <1>2 DEF HandedIn, ById, KeptFit
<1> QED BY <1>1, <1>3 DEF HandedIn

LEMMA Provisions ==
  ASSUME NEW index, NEW metric, NEW last, IndexFits(index, last), NEW s, NEW vectors
  PROVE  LET after == Provision(index, metric)
         IN /\ IndexFits(after, last) /\ after.there
            /\ Alike(index.records, HandedIn(index, s, vectors)) =>
                 Alike(after.records, HandedIn(after, s, vectors))
<1> DEFINE after == Provision(index, metric)
<1>1. CASE index.there
  <2>1. after = index BY <1>1, Zenon DEF Provision
  <2> QED BY <1>1, <2>1
<1>2. CASE ~index.there
  <2> DEFINE m == NormalizedMetric(metric)
  <2>1. after = [there |-> TRUE, metric |-> m, partitioned |-> TRUE, records |-> {}]
    BY <1>2, Zenon DEF Provision
  <2> HIDE DEF m
  <2>2. /\ after.there /\ after.records = {}
        /\ DOMAIN after = {"there", "metric", "partitioned", "records"}
    BY <2>1
  <2> HIDE DEF after
  <2>3. index.records = {} BY <1>2 DEF IndexFits
  <2>4. Ranked({}) BY FS_EmptySet DEF Ranked
  <2>5. IndexFits(after, last) BY <2>2, <2>4 DEF IndexFits
  <2>6. ASSUME Alike(index.records, HandedIn(index, s, vectors))
        PROVE  HandedIn(after, s, vectors) = {}
    <3>1. HandedIn(index, s, vectors) = {} BY <2>3, <2>6 DEF Alike
    <3> QED BY <3>1 DEF HandedIn
  <2>7. Alike({}, {}) BY DEF Alike
  <2> QED BY <2>2, <2>5, <2>6, <2>7 DEF after
<1> QED BY <1>1, <1>2

KeptVector(s, v, distance, rec) ==
  [store |-> s, id |-> v, distance |-> distance,
   partition |-> rec.partition, metadata |-> rec.metadata]
KeptRest(vectors, s, v) == {k \in vectors : k.store = s => k.id # v}

\* What happened to the index happened to what was handed in, and to that of no
\* other store.
Follows(index, after, s, vectors, then) ==
  /\ after.there
  /\ Alike(index.records, HandedIn(index, s, vectors)) =>
       Alike(after.records, HandedIn(after, s, then))
  /\ \A other, r : r # s => HandedIn(other, r, then) = HandedIn(other, r, vectors)

LEMMA Indexes ==
  ASSUME NEW index, NEW last \in Nat, IndexFits(index, last), index.there,
         NEW known, NEW s \in known, NEW distance \in Nat, NEW rec,
         TrimSpace(rec.partition) = rec.partition,
         NEW vectors, KeptFit(vectors, known, last),
         NEW v, v = last + 1
  PROVE  /\ IndexFits(Index(index, v, distance, rec), v)
         /\ KeptFit(vectors \cup {KeptVector(s, v, distance, rec)}, known, v)
         /\ Follows(index, Index(index, v, distance, rec), s, vectors,
                    vectors \cup {KeptVector(s, v, distance, rec)})
<1> DEFINE x == NewRecord(index, v, distance, rec)
           after == Index(index, v, distance, rec)
           k == KeptVector(s, v, distance, rec)
<1>1. after = [index EXCEPT !.records = index.records \cup {x}] BY IndexAdds
<1>2. /\ x.id = v /\ x.distance = distance /\ x.metadata = rec.metadata
      /\ x.partition = StoredAt(index, rec.partition)
  BY DEF NewRecord
<1>3. /\ k.store = s /\ k.id = v /\ k.distance = distance /\ k.partition = rec.partition
      /\ k.metadata = rec.metadata
      /\ DOMAIN k = {"store", "id", "distance", "partition", "metadata"}
  BY DEF KeptVector
<1> HIDE DEF x, after, k
<1>4. /\ after.records = index.records \cup {x} /\ after.there
      /\ after.partitioned = index.partitioned
      /\ DOMAIN after = {"there", "metric", "partitioned", "records"}
  BY <1>1 DEF IndexFits
<1>5. Ranked(after.records)
  <2>1. IsFiniteSet(after.records) BY <1>4, FS_AddElement DEF IndexFits, Ranked
  <2>2. \A r \in index.records : r.id # v BY DEF IndexFits
  <2> QED BY <1>2, <1>4, <2>1, <2>2 DEF IndexFits, Ranked
<1>6. IndexFits(after, v) BY <1>2, <1>4, <1>5 DEF IndexFits
<1>7. KeptFit(vectors \cup {k}, known, v)
  <2>1. \A j \in vectors : j.id # v BY DEF KeptFit
  <2> QED BY <1>3, <2>1 DEF KeptFit, ById
<1>8. HandedIn(after, s, vectors \cup {k}) = HandedIn(index, s, vectors) \cup {AsStored(index, k)}
  <2>1. \A j : AsStored(after, j) = AsStored(index, j) BY <1>4, Zenon DEF AsStored
  <2> QED BY <1>3, <2>1 DEF HandedIn
<1>9. SameRecord(x, AsStored(index, k))
  BY <1>2, <1>3, HandedInFields DEF SameRecord
<1>10. Alike(index.records, HandedIn(index, s, vectors)) =>
         Alike(after.records, HandedIn(after, s, vectors \cup {k}))
  BY <1>4, <1>8, <1>9 DEF Alike
<1>11. \A other, r : r # s =>
         HandedIn(other, r, vectors \cup {k}) = HandedIn(other, r, vectors)
  BY <1>3 DEF HandedIn
<1>12. Follows(index, after, s, vectors, vectors \cup {k}) BY <1>4, <1>10, <1>11 DEF Follows
<1> QED BY <1>6, <1>7, <1>12 DEF after, k

LEMMA Unindexes ==
  ASSUME NEW index, NEW last, IndexFits(index, last), index.there, NEW s, NEW v,
         NEW vectors, NEW known, KeptFit(vectors, known, last)
  PROVE  /\ IndexFits(DeleteRecord(index, v), last)
         /\ KeptFit(KeptRest(vectors, s, v), known, last)
         /\ Follows(index, DeleteRecord(index, v), s, vectors, KeptRest(vectors, s, v))
<1> DEFINE after == DeleteRecord(index, v)
           rest == KeptRest(vectors, s, v)
<1>1. /\ after.records = {r \in index.records : r.id # v} /\ after.there
      /\ after.partitioned = index.partitioned
      /\ DOMAIN after = {"there", "metric", "partitioned", "records"}
  BY DEF DeleteRecord, IndexFits
<1>2. rest \subseteq vectors /\ \A k \in rest : k.store = s => k.id # v
  BY DEF KeptRest
<1>3. \A k \in vectors : k.store # s \/ k.id # v => k \in rest BY DEF KeptRest
<1> HIDE DEF after, rest
<1>4. Ranked(after.records) BY <1>1, RankedPart DEF IndexFits
<1>5. IndexFits(after, last) BY <1>1, <1>4 DEF IndexFits
<1>6. KeptFit(rest, known, last) BY <1>2 DEF KeptFit, ById
<1>7. \A j : AsStored(after, j) = AsStored(index, j) BY <1>1, Zenon DEF AsStored
<1>8. \A k \in vectors : AsStored(index, k).id = k.id BY HandedInFields DEF KeptFit
<1>9. HandedIn(after, s, rest) = {y \in HandedIn(index, s, vectors) : y.id # v}
  BY <1>2, <1>3, <1>7, <1>8 DEF HandedIn
<1>10. Alike(index.records, HandedIn(index, s, vectors)) =>
         Alike(after.records, HandedIn(after, s, rest))
  BY <1>1, <1>9 DEF Alike, SameRecord
<1>11. \A other, r : r # s => HandedIn(other, r, rest) = HandedIn(other, r, vectors)
  BY <1>2, <1>3 DEF HandedIn
<1>12. Follows(index, after, s, vectors, rest) BY <1>1, <1>10, <1>11 DEF Follows
<1> QED BY <1>5, <1>6, <1>12 DEF after, rest

\* An id handed out keeps the row it had, or has none from then on.
LEMMA NotBroughtBack ==
  ASSUME Grow, NEW s \in Store, stores'[s].type # "none" \/ s \notin ids'.stores
  PROVE  stores[s].type # "none" \/ s \notin ids.stores
<1>1. CASE s \in ids.stores
  <2>1. stores'[s].type # "none" BY <1>1 DEF Grow
  <2>2. stores'[s] = stores[s] BY <1>1, <2>1 DEF Grow, RowsGo
  <2> QED BY <2>1, <2>2
<1> QED BY <1>1

LEMMA OneIndexMoves ==
  ASSUME IdsFit, IdsFit', RowsFit, RowsFit', Grow, VectorsFit, NEW s \in Store, NEW after,
         indexes' = [indexes EXCEPT ![s] = after],
         IndexFits(after, ids'.vectors),
         KeptFit(kept'.vectors, ids'.stores, ids'.vectors),
         (stores'[s].type # "none" \/ s \notin ids'.stores)
           /\ Alike(indexes[s].records, HandedIn(indexes[s], s, kept.vectors)) =>
                Alike(after.records, HandedIn(after, s, kept'.vectors)),
         \A r \in Store : r # s =>
           HandedIn(indexes[r], r, kept'.vectors) = HandedIn(indexes[r], r, kept.vectors),
         stores'[s].type = "vector" /\ s \in created' => after.there,
         \A r \in Store : r # s /\ r \in created' => r \in created
  PROVE  VectorsFit'
<1>1. DOMAIN indexes' = Store /\ \A r \in Store : indexes'[r] = IF r = s THEN after ELSE indexes[r]
  BY DEF VectorsFit
<1>2. ASSUME NEW r \in Store
      PROVE  /\ IndexFits(indexes'[r], ids'.vectors)
             /\ Exists(r)' \/ r \notin ids'.stores =>
                  Alike(indexes'[r].records, HandedIn(indexes'[r], r, kept'.vectors))
             /\ stores'[r].type = "vector" /\ r \in created' => indexes'[r].there
  <2>1. Exists(r)' <=> stores'[r].type # "none" BY DEF Exists
  <2>2. Exists(r) <=> stores[r].type # "none" BY DEF Exists
  <2>3. Exists(r)' \/ r \notin ids'.stores => Exists(r) \/ r \notin ids.stores
    BY <2>1, <2>2, NotBroughtBack
  <2>4. Exists(r) \/ r \notin ids.stores =>
          Alike(indexes[r].records, HandedIn(indexes[r], r, kept.vectors))
    BY DEF VectorsFit
  <2>5. CASE r = s BY <1>1, <2>1, <2>3, <2>4, <2>5
  <2>6. CASE r # s
    <3>1. IndexFits(indexes[r], ids.vectors) BY DEF VectorsFit
    <3>2. IndexFits(indexes[r], ids'.vectors) BY <3>1 DEF IndexFits, Grow, IdsFit
    <3>3. ASSUME stores'[r].type = "vector", r \in created' PROVE indexes[r].there
      <4>1. CASE r \in ids.stores
        <5>1. stores[r].type = "vector" BY <3>3, <4>1 DEF Grow, RowsGo
        <5>2. r \in created BY <2>6, <3>3, <4>1
        <5> QED BY <5>1, <5>2 DEF VectorsFit
      <4>2. CASE r \notin ids.stores
        <5>1. r \notin created BY <4>2 DEF IdsFit
        <5> QED BY <2>6, <3>3, <4>2, <5>1
      <4> QED BY <4>1, <4>2
    <3> QED BY <1>1, <2>3, <2>4, <2>6, <3>2, <3>3
  <2> QED BY <2>5, <2>6
<1> QED BY <1>1, <1>2 DEF VectorsFit

LEMMA VectorsAsTheyWere ==
  ASSUME IdsFit, IdsFit', RowsFit, RowsFit', Grow, VectorsFit, UNCHANGED indexes,
         kept'.vectors = kept.vectors,
         \A r \in Store : r \in created' /\ stores'[r].type = "vector" => r \in created
  PROVE  VectorsFit'
<1>1. KeptFit(kept'.vectors, ids'.stores, ids'.vectors)
  BY DEF VectorsFit, KeptFit, Grow, IdsFit
<1>2. ASSUME NEW r \in Store
      PROVE  /\ IndexFits(indexes[r], ids'.vectors)
             /\ Exists(r)' \/ r \notin ids'.stores =>
                  Alike(indexes[r].records, HandedIn(indexes[r], r, kept.vectors))
             /\ stores'[r].type = "vector" /\ r \in created' => indexes[r].there
  <2>1. Exists(r)' <=> stores'[r].type # "none" BY DEF Exists
  <2>2. Exists(r) <=> stores[r].type # "none" BY DEF Exists
  <2>3. Exists(r)' \/ r \notin ids'.stores => Exists(r) \/ r \notin ids.stores
    BY <2>1, <2>2, NotBroughtBack
  <2>4. Exists(r) \/ r \notin ids.stores =>
          Alike(indexes[r].records, HandedIn(indexes[r], r, kept.vectors))
    BY DEF VectorsFit
  <2>5. IndexFits(indexes[r], ids.vectors) BY DEF VectorsFit
  <2>6. IndexFits(indexes[r], ids'.vectors) BY <2>5 DEF IndexFits, Grow, IdsFit
  <2>7. ASSUME stores'[r].type = "vector", r \in created' PROVE indexes[r].there
    <3>1. r \in created BY <2>7
    <3>2. r \in ids.stores BY <3>1 DEF IdsFit
    <3>3. stores[r].type = "vector" BY <2>7, <3>2 DEF Grow, RowsGo
    <3> QED BY <3>1, <3>3 DEF VectorsFit
  <2> QED BY <2>3, <2>4, <2>6, <2>7
<1> QED BY <1>1, <1>2 DEF VectorsFit

LEMMA VectorsStep ==
  ASSUME IdsFit, RowsFit, CallsFit, VectorsFit, MNext
  PROVE  VectorsFit'
<1>0. IdsFit' /\ RowsFit' /\ Grow BY RowsStep
<1>1. ASSUME NEW c \in Clients, Provisioned(c) PROVE VectorsFit'
  <2> DEFINE s == calls[c].store
             row == calls[c].row
             after == Provision(indexes[s], row.metric)
  <2>1. /\ calls[c].pc = "provision" /\ created' = created \cup {s}
        /\ UNCHANGED <<stores, ids, kept>>
        /\ row.type = "vector" => indexes' = [indexes EXCEPT ![s] = after]
        /\ row.type # "vector" => indexes' = indexes
    BY <1>1 DEF Provisioned
  <2>2. /\ s \in ids.stores /\ s \in Store
        /\ stores[s].type # "none" => row = stores[s]
    BY <2>1 DEF CallsFit, CallFits, IdsFit
  <2>3. CASE row.type # "vector"
    <3>1. stores'[s].type # "vector" BY <2>1, <2>2, <2>3
    <3>2. \A r \in Store : r \in created' /\ stores'[r].type = "vector" => r \in created
      BY <2>1, <3>1
    <3> QED BY <1>0, <2>1, <2>3, <3>2, VectorsAsTheyWere
  <2>4. CASE row.type = "vector"
    <3>1. IndexFits(indexes[s], ids.vectors) BY <2>2 DEF VectorsFit
    <3>2. /\ IndexFits(after, ids.vectors) /\ after.there
          /\ Alike(indexes[s].records, HandedIn(indexes[s], s, kept.vectors)) =>
               Alike(after.records, HandedIn(after, s, kept.vectors))
      BY <3>1, Provisions
    <3> HIDE DEF after
    <3>3. KeptFit(kept.vectors, ids.stores, ids.vectors) BY DEF VectorsFit
    <3> HIDE DEF s
    <3> QED BY <1>0, <2>1, <2>2, <2>4, <3>2, <3>3, OneIndexMoves
  <2> QED BY <2>3, <2>4
<1>2. ASSUME NEW c \in Clients, DropBacking(c) PROVE VectorsFit'
  <2> DEFINE s == calls[c].store
             row == calls[c].row
  <2>1. /\ calls[c].pc = "drop" /\ UNCHANGED <<stores, ids, created, kept>>
        /\ indexes' = indexes \/ indexes' = [indexes EXCEPT ![s] = NoIndex]
    BY <1>2 DEF DropBacking, history
  <2>2. s \in ids.stores /\ s \in Store /\ stores[s].type = "none"
    BY <2>1 DEF CallsFit, CallFits, IdsFit
  <2>3. CASE indexes' = indexes BY <1>0, <2>1, <2>3, VectorsAsTheyWere
  <2>4. CASE indexes' = [indexes EXCEPT ![s] = NoIndex]
    <3>1. IndexFits(NoIndex, ids.vectors) BY Blanks, FS_EmptySet DEF IndexFits, Ranked
    <3>2. KeptFit(kept.vectors, ids.stores, ids.vectors) BY DEF VectorsFit
    <3> HIDE DEF s
    <3> QED BY <1>0, <2>1, <2>2, <2>4, <3>1, <3>2, OneIndexMoves
  <2> QED BY <2>1, <2>3, <2>4
<1>3. ASSUME NEW c \in Clients, NEW distance \in Distances, IndexVector(c, distance)
      PROVE  VectorsFit'
  <2> DEFINE s == calls[c].store
             rec == calls[c].req
             v == ids.vectors + 1
             after == Index(indexes[s], v, distance, rec)
             k == KeptVector(s, v, distance, rec)
  <2>1. /\ calls[c].pc = "index" /\ indexes[s].there /\ UNCHANGED <<stores, created>>
        /\ ids' = [ids EXCEPT !.vectors = v]
        /\ indexes' = [indexes EXCEPT ![s] = after]
        /\ kept' = [kept EXCEPT !.vectors = kept.vectors \cup {k}]
    BY <1>3 DEF IndexVector, KeptVector
  <2>2. /\ s \in ids.stores /\ s \in Store
        /\ TrimSpace(rec.partition) = rec.partition
    BY <2>1 DEF CallsFit, CallFits, IdsFit
  <2>3. distance \in Nat /\ ids.vectors \in Nat BY MemoryOK DEF IdsFit
  <2>4. /\ ids'.vectors = ids.vectors + 1 /\ ids'.stores = ids.stores
        /\ kept'.vectors = kept.vectors \cup {k}
    BY <2>1 DEF IdsFit
  <2>5. /\ IndexFits(indexes[s], ids.vectors)
        /\ KeptFit(kept.vectors, ids.stores, ids.vectors)
    BY <2>2 DEF VectorsFit
  <2>7. after = Index(indexes[s], v, distance, rec) OBVIOUS
  <2>8. k = KeptVector(s, v, distance, rec) OBVIOUS
  <2>9. v = ids.vectors + 1 OBVIOUS
  <2> HIDE DEF after, k, s, rec, v
  <2>6. /\ IndexFits(after, v)
        /\ KeptFit(kept.vectors \cup {k}, ids.stores, v)
        /\ Follows(indexes[s], after, s, kept.vectors, kept.vectors \cup {k})
    BY <2>1, <2>2, <2>3, <2>5, <2>7, <2>8, <2>9, Indexes
  <2>10. after.there /\ ids'.vectors = v BY <2>4, <2>6, <2>9 DEF Follows
  <2>11. Alike(indexes[s].records, HandedIn(indexes[s], s, kept.vectors)) =>
           Alike(after.records, HandedIn(after, s, kept'.vectors))
    BY <2>4, <2>6 DEF Follows
  <2>12. \A r \in Store : r # s =>
           HandedIn(indexes[r], r, kept'.vectors) = HandedIn(indexes[r], r, kept.vectors)
    BY <2>4, <2>6 DEF Follows
  <2> QED BY <1>0, <2>1, <2>2, <2>4, <2>6, <2>10, <2>11, <2>12, OneIndexMoves
<1>4. ASSUME NEW c \in Clients, DeleteVector(c) PROVE VectorsFit'
  <2> DEFINE s == calls[c].store
             v == calls[c].what
             after == DeleteRecord(indexes[s], v)
             rest == KeptRest(kept.vectors, s, v)
  <2>1. /\ calls[c].pc = "unindex" /\ indexes[s].there /\ UNCHANGED <<stores, ids, created>>
        /\ indexes' = [indexes EXCEPT ![s] = after]
        /\ kept' = [kept EXCEPT !.vectors = rest]
    BY <1>4 DEF DeleteVector, KeptRest
  <2>2. s \in ids.stores /\ s \in Store BY <2>1 DEF CallsFit, CallFits, IdsFit
  <2>3. kept'.vectors = rest BY <2>1 DEF IdsFit
  <2>4. /\ IndexFits(indexes[s], ids.vectors)
        /\ KeptFit(kept.vectors, ids.stores, ids.vectors)
    BY <2>2 DEF VectorsFit
  <2>6. after = DeleteRecord(indexes[s], v) OBVIOUS
  <2>7. rest = KeptRest(kept.vectors, s, v) OBVIOUS
  <2> HIDE DEF after, rest, s, v
  <2>5. /\ IndexFits(after, ids.vectors)
        /\ KeptFit(rest, ids.stores, ids.vectors)
        /\ Follows(indexes[s], after, s, kept.vectors, rest)
    BY <2>1, <2>4, <2>6, <2>7, Unindexes
  <2>8. after.there BY <2>5 DEF Follows
  <2>9. Alike(indexes[s].records, HandedIn(indexes[s], s, kept.vectors)) =>
          Alike(after.records, HandedIn(after, s, kept'.vectors))
    BY <2>3, <2>5 DEF Follows
  <2>10. \A r \in Store : r # s =>
           HandedIn(indexes[r], r, kept'.vectors) = HandedIn(indexes[r], r, kept.vectors)
    BY <2>3, <2>5 DEF Follows
  <2> QED BY <1>0, <2>1, <2>2, <2>3, <2>5, <2>8, <2>9, <2>10, OneIndexMoves
<1>5. ASSUME NEW c \in Clients, CallBegins(c) PROVE VectorsFit'
  <2>1. UNCHANGED <<indexes, created, kept>>
    BY <1>5, Zenon DEF CallBegins, Create, BeginDeleteStore, BeginWrite, BeginUpdateDoc, BeginRemove,
      BeginIndex, BeginUnindex, Resolves, backed, history
  <2> QED BY <1>0, <2>1, VectorsAsTheyWere
<1>6. ASSUME NEW c \in Clients,
             \/ ProvisionFails(c) \/ RollBack(c) \/ DeleteStoreRow(c) \/ DropFails(c) \/ Fails(c)
             \/ Embedded(c)
      PROVE  VectorsFit'
  <2>1. UNCHANGED <<indexes, created, kept>>
    BY <1>6, Zenon DEF ProvisionFails, RollBack, DeleteStoreRow, DropFails, Fails, Embedded,
      backed, history
  <2> QED BY <1>0, <2>1, VectorsAsTheyWere
<1>7. ASSUME NEW c \in Clients, WriteDocument(c) \/ UpdateDocument(c) \/ DeleteDocument(c)
      PROVE  VectorsFit'
  <2>1. UNCHANGED <<indexes, created>> /\ kept'.vectors = kept.vectors
    BY <1>7 DEF WriteDocument, UpdateDocument, DeleteDocument, IdsFit, history
  <2> QED BY <1>0, <2>1, VectorsAsTheyWere
<1>8. ASSUME NEW n \in Node, NodeRuns(n) PROVE VectorsFit'
  <2>1. UNCHANGED <<indexes, created, kept>>
    BY <1>8, Zenon DEF NodeRuns, NodeWrites, NodeUpdates, NodeInserts, NodeFails, NodeReplies,
      ReplyIsLost, backed, history
  <2> QED BY <1>0, <2>1, VectorsAsTheyWere
<1>9. ASSUME Crash PROVE VectorsFit'
  <2>1. UNCHANGED <<indexes, created, kept>> BY <1>9 DEF Crash, backed
  <2> QED BY <1>0, <2>1, VectorsAsTheyWere
<1>10. ASSUME NEW c \in Clients, CallGoesOn(c) PROVE VectorsFit'
  BY <1>1, <1>2, <1>3, <1>4, <1>6, <1>7, <1>10, Zenon DEF CallGoesOn
<1> QED BY <1>5, <1>8, <1>9, <1>10, Zenon DEF MNext

-----------------------------------------------------------------------------
(* The writing nodes                                                       *)

\* What a node has in the tables is what it had, or less of it.
OwnLasts(n, tabs, then) ==
  \A t \in TableNames : \A y \in Own(n, then[t]) : \E x \in Own(n, tabs[t]) :
    /\ x.id = y.id
    /\ n \in Keyed => "result" \notin y.body \/ y.body = x.body

LEMMA NodeOutlives ==
  ASSUME NEW n, NEW visit, NEW prior, NEW lost, NEW last \in Nat, NEW more \in Nat, last <= more,
         NEW tabs, NEW then, NodeFits(n, visit, prior, lost, last, tabs), OwnLasts(n, tabs, then)
  PROVE  NodeFits(n, visit, prior, lost, more, then)
<1>1. prior \in 0..more /\ lost \in Nat BY DEF NodeFits
<1>2. VisitFits(n, visit, prior, more) BY DEF NodeFits, VisitFits
<1>3. \A t \in TableNames : \A x \in Own(n, then[t]) : t = TableOf[NodeStore[n]]
  BY DEF NodeFits, OwnLasts
<1>4. ASSUME n \in Keyed
      PROVE  /\ Outdated(visit, prior) => Forgotten(n, prior, then)
             /\ \A t \in TableNames :
                  /\ \A x \in Own(n, then[t]) : "result" \notin x.body
                  /\ IsFiniteSet(Orphans(n, then[t], prior, visit.id))
                  /\ Cardinality(Orphans(n, then[t], prior, visit.id)) <= lost
  <2>1. Outdated(visit, prior) => Forgotten(n, prior, then)
    BY <1>4 DEF NodeFits, OwnLasts, Forgotten
  <2>2. ASSUME NEW t \in TableNames
        PROVE  /\ \A x \in Own(n, then[t]) : "result" \notin x.body
               /\ IsFiniteSet(Orphans(n, then[t], prior, visit.id))
               /\ Cardinality(Orphans(n, then[t], prior, visit.id)) <= lost
    <3>1. \A x \in Own(n, then[t]) : "result" \notin x.body
      BY <1>4 DEF NodeFits, OwnLasts
    <3>2. Orphans(n, then[t], prior, visit.id) \subseteq Orphans(n, tabs[t], prior, visit.id)
      BY DEF Orphans, OwnLasts
    <3>3. /\ IsFiniteSet(Orphans(n, tabs[t], prior, visit.id))
          /\ Cardinality(Orphans(n, tabs[t], prior, visit.id)) <= lost
      BY <1>4 DEF NodeFits
    <3>4. /\ IsFiniteSet(Orphans(n, then[t], prior, visit.id))
          /\ Cardinality(Orphans(n, then[t], prior, visit.id)) <=
               Cardinality(Orphans(n, tabs[t], prior, visit.id))
      BY <3>2, <3>3, FS_Subset
    <3>5. /\ Cardinality(Orphans(n, then[t], prior, visit.id)) \in Nat
          /\ Cardinality(Orphans(n, tabs[t], prior, visit.id)) \in Nat
      BY <3>3, <3>4, FS_CardinalityType
    <3> QED BY <1>1, <3>1, <3>3, <3>4, <3>5
  <2> QED BY <2>1, <2>2
<1> QED BY <1>1, <1>2, <1>3, <1>4 DEF NodeFits

\* The write ends without its reply: one more lost, if it was of another document.
LEMMA NodeSettles ==
  ASSUME NEW n, NEW visit, NEW prior, NEW lost, NEW last \in Nat, NEW tabs,
         NodeFits(n, visit, prior, lost, last, tabs),
         \A t \in TableNames : TableFits(tabs[t], last),
         NEW more, more = IF visit.pc = "reply" /\ visit.id # prior THEN lost + 1 ELSE lost
  PROVE  NodeFits(n, NoVisit, prior, more, last, tabs)
<1>1. /\ prior \in 0..last /\ lost \in Nat /\ more \in Nat /\ lost <= more
  BY DEF NodeFits
<1>2. NoVisit.pc = "idle" /\ NoVisit.id = 0 /\ DOMAIN NoVisit = VisitFields BY Blanks
<1>3. VisitFits(n, NoVisit, prior, last) BY <1>2 DEF VisitFits
<1>4. \A t \in TableNames : \A x \in Own(n, tabs[t]) : t = TableOf[NodeStore[n]] BY DEF NodeFits
<1>5. ~Outdated(NoVisit, prior) BY <1>2 DEF Outdated
<1>6. ASSUME n \in Keyed, NEW t \in TableNames
      PROVE  /\ \A x \in Own(n, tabs[t]) : "result" \notin x.body
             /\ IsFiniteSet(Orphans(n, tabs[t], prior, NoVisit.id))
             /\ Cardinality(Orphans(n, tabs[t], prior, NoVisit.id)) <= more
  <2> DEFINE was == Orphans(n, tabs[t], prior, visit.id)
             is == Orphans(n, tabs[t], prior, 0)
  <2>1. \A x \in Own(n, tabs[t]) : "result" \notin x.body BY <1>6 DEF NodeFits
  <2>2. IsFiniteSet(was) /\ Cardinality(was) <= lost BY <1>6 DEF NodeFits
  <2>3. \A x \in Own(n, tabs[t]) : x.id \in 1..last BY DEF TableFits, Own
  <2>4. visit.pc # "reply" => visit.id = 0 BY DEF NodeFits, VisitFits
  <2>5. IsFiniteSet(is) /\ Cardinality(is) <= more
    <3>1. CASE visit.pc = "reply" /\ visit.id # prior
      <4>1. is \subseteq was \cup {visit.id} BY <2>3 DEF Orphans
      <4>2. IsFiniteSet(was \cup {visit.id}) /\ Cardinality(was \cup {visit.id}) <= Cardinality(was) + 1
        <5> HIDE DEF was
        <5>1. Cardinality(was) \in Nat BY <2>2, FS_CardinalityType
        <5>2. /\ IsFiniteSet(was \cup {visit.id})
              /\ Cardinality(was \cup {visit.id}) =
                   IF visit.id \in was THEN Cardinality(was) ELSE Cardinality(was) + 1
          BY <2>2, FS_AddElement
        <5> QED BY <5>1, <5>2
      <4>3. IsFiniteSet(is) /\ Cardinality(is) <= Cardinality(was \cup {visit.id})
        BY <4>1, <4>2, FS_Subset
      <4>4. /\ Cardinality(is) \in Nat /\ Cardinality(was) \in Nat
            /\ Cardinality(was \cup {visit.id}) \in Nat
        BY <2>2, <4>2, <4>3, FS_CardinalityType
      <4> HIDE DEF is, was
      <4> QED BY <1>1, <2>2, <3>1, <4>2, <4>3, <4>4
    <3>2. CASE ~(visit.pc = "reply" /\ visit.id # prior)
      <4>1. is \subseteq was BY <2>3, <2>4, <3>2 DEF Orphans
      <4>2. IsFiniteSet(is) /\ Cardinality(is) <= Cardinality(was)
        BY <2>2, <4>1, FS_Subset
      <4>3. Cardinality(is) \in Nat /\ Cardinality(was) \in Nat
        BY <2>2, <4>2, FS_CardinalityType
      <4> HIDE DEF is, was
      <4> QED BY <1>1, <2>2, <3>2, <4>2, <4>3
    <3> QED BY <3>1, <3>2
  <2> QED BY <1>2, <2>1, <2>5
<1> QED BY <1>1, <1>3, <1>4, <1>5, <1>6 DEF NodeFits

\* The reply goes into the flow's data.
LEMMA NodeRemembers ==
  ASSUME NEW n, NEW visit, NEW prior, NEW lost, NEW last \in Nat, NEW tabs,
         NodeFits(n, visit, prior, lost, last, tabs),
         \A t \in TableNames : TableFits(tabs[t], last), visit.pc = "reply"
  PROVE  NodeFits(n, NoVisit, visit.id, lost, last, tabs)
<1>1. /\ prior \in 0..last /\ lost \in Nat /\ visit.id \in 0..last
  BY DEF NodeFits, VisitFits
<1>2. NoVisit.pc = "idle" /\ NoVisit.id = 0 /\ DOMAIN NoVisit = VisitFields BY Blanks
<1>3. VisitFits(n, NoVisit, visit.id, last) BY <1>2 DEF VisitFits
<1>4. \A t \in TableNames : \A x \in Own(n, tabs[t]) : t = TableOf[NodeStore[n]] BY DEF NodeFits
<1>5. ~Outdated(NoVisit, visit.id) BY <1>2 DEF Outdated
<1>6. ASSUME n \in Keyed, NEW t \in TableNames
      PROVE  /\ \A x \in Own(n, tabs[t]) : "result" \notin x.body
             /\ IsFiniteSet(Orphans(n, tabs[t], visit.id, NoVisit.id))
             /\ Cardinality(Orphans(n, tabs[t], visit.id, NoVisit.id)) <= lost
  <2> DEFINE was == Orphans(n, tabs[t], prior, visit.id)
             is == Orphans(n, tabs[t], visit.id, 0)
  <2>1. \A x \in Own(n, tabs[t]) : "result" \notin x.body BY <1>6 DEF NodeFits
  <2>2. IsFiniteSet(was) /\ Cardinality(was) <= lost BY <1>6 DEF NodeFits
  <2>3. visit.id # prior => \A x \in Own(n, tabs[t]) : x.id # prior
    BY <1>6 DEF NodeFits, Outdated, Forgotten
  <2>4. is \subseteq was BY <2>3 DEF Orphans
  <2>5. IsFiniteSet(is) /\ Cardinality(is) <= Cardinality(was) BY <2>2, <2>4, FS_Subset
  <2>6. Cardinality(is) \in Nat /\ Cardinality(was) \in Nat BY <2>2, <2>5, FS_CardinalityType
  <2> HIDE DEF is, was
  <2>7. Cardinality(is) <= lost BY <1>1, <2>2, <2>5, <2>6
  <2> QED BY <1>2, <2>1, <2>5, <2>7 DEF is
<1> QED BY <1>1, <1>3, <1>4, <1>5, <1>6 DEF NodeFits

\* The write begins.
LEMMA NodeOpens ==
  ASSUME NEW n, NEW visit, NEW prior, NEW lost, NEW last \in Nat, NEW tabs,
         NodeFits(n, visit, prior, lost, last, tabs), visit.pc = "idle",
         \A t \in TableNames : TableFits(tabs[t], last),
         NEW begun, DOMAIN begun = VisitFields, begun.pc \in {"update", "insert"}, begun.id = 0,
         begun.row.type = "document" /\ begun.row.table = TableOf[NodeStore[n]],
         n \in Keyed => "result" \notin begun.doc,
         begun.pc = "update" => n \in Keyed /\ begun.prior = prior,
         begun.pc = "insert" => n \notin Keyed \/ prior = 0
  PROVE  NodeFits(n, begun, prior, lost, last, tabs)
<1>1. VisitFits(n, begun, prior, last) BY DEF VisitFits
<1>2. visit.id = 0 BY DEF NodeFits, VisitFits
<1>3. ASSUME n \in Keyed, Outdated(begun, prior) PROVE Forgotten(n, prior, tabs)
  <2>1. prior = 0 BY <1>3 DEF Outdated
  <2> QED BY <2>1 DEF Forgotten, TableFits, Own
<1> QED BY <1>1, <1>2, <1>3 DEF NodeFits

\* The document is there, and has been changed.
LEMMA NodeFinds ==
  ASSUME NEW n \in Node, NEW visit, NEW prior, NEW lost, NEW last \in Nat, NEW tabs, NEW then,
         NodeFits(n, visit, prior, lost, last, tabs), visit.pc = "update",
         OwnLasts(n, tabs, then),
         \A t \in TableNames : TableFits(tabs[t], last) /\ TableFits(then[t], last),
         NEW next, next = [visit EXCEPT !.pc = "reply", !.id = visit.prior],
         Holds(tabs[visit.row.table], visit.prior)
  PROVE  NodeFits(n, next, prior, lost, last, then)
<1>1. NodeFits(n, visit, prior, lost, last, then) BY NodeOutlives
<1>2. VisitFits(n, visit, prior, last) BY DEF NodeFits
<1>3. /\ DOMAIN next = VisitFields /\ next.pc = "reply" /\ next.id = prior
      /\ next.row = visit.row /\ next.doc = visit.doc /\ visit.id = 0 /\ n \in Keyed
  BY <1>2 DEF VisitFits, VisitFields
<1>4. prior \in 1..last BY <1>2, NodesTable DEF VisitFits, Holds, TableFits
<1>5. VisitFits(n, next, prior, last) BY <1>2, <1>3, <1>4 DEF VisitFits
<1>6. ~Outdated(next, prior) BY <1>3 DEF Outdated
<1>7. ASSUME NEW t \in TableNames
      PROVE  Orphans(n, then[t], prior, prior) = Orphans(n, then[t], prior, 0)
  BY DEF Orphans, TableFits, Own
<1> QED BY <1>1, <1>3, <1>5, <1>6, <1>7 DEF NodeFits

\* The document is gone, and another is to be made.
LEMMA NodeMisses ==
  ASSUME NEW n \in Node, NEW visit, NEW prior, NEW lost, NEW last \in Nat, NEW tabs, NEW then,
         NodeFits(n, visit, prior, lost, last, tabs), visit.pc = "update",
         OwnLasts(n, tabs, then),
         NEW next, next = [visit EXCEPT !.pc = "insert"],
         ~Holds(tabs[visit.row.table], visit.prior)
  PROVE  NodeFits(n, next, prior, lost, last, then)
<1>1. NodeFits(n, visit, prior, lost, last, then) BY NodeOutlives
<1>2. VisitFits(n, visit, prior, last) BY DEF NodeFits
<1>3. /\ DOMAIN next = VisitFields /\ next.pc = "insert" /\ next.id = visit.id
      /\ next.row = visit.row /\ next.doc = visit.doc /\ next.prior = visit.prior /\ n \in Keyed
  BY <1>2 DEF VisitFits, VisitFields
<1>4. VisitFits(n, next, prior, last) BY <1>2, <1>3 DEF VisitFits
<1>5. Forgotten(n, prior, tabs)
  <2>1. visit.row.table = TableOf[NodeStore[n]] /\ visit.prior = prior BY <1>2 DEF VisitFits
  <2> QED BY <2>1 DEF Forgotten, NodeFits, Holds, Own
<1>6. Forgotten(n, prior, then) BY <1>5 DEF Forgotten, OwnLasts
<1> QED BY <1>1, <1>3, <1>4, <1>6 DEF NodeFits

OwnGains(n, tabs, then, at, x) ==
  \A t \in TableNames :
    Own(n, then[t]) = IF t = at THEN Own(n, tabs[t]) \cup {x} ELSE Own(n, tabs[t])

\* It is made.
LEMMA NodeMakes ==
  ASSUME NEW n \in Node, NEW visit, NEW prior, NEW lost, NEW last \in Nat, NEW tabs, NEW then,
         NodeFits(n, visit, prior, lost, last, tabs), visit.pc = "insert",
         \A t \in TableNames : TableFits(tabs[t], last),
         NEW d, d = last + 1,
         NEW x, x.id = d, x.body = visit.doc, OwnGains(n, tabs, then, visit.row.table, x)
  PROVE  NodeFits(n, [visit EXCEPT !.pc = "reply", !.id = d], prior, lost, d, then)
<1> DEFINE next == [visit EXCEPT !.pc = "reply", !.id = d]
<1>0. \A t \in TableNames :
        Own(n, then[t]) = IF t = visit.row.table THEN Own(n, tabs[t]) \cup {x} ELSE Own(n, tabs[t])
  BY DEF OwnGains
<1>1. VisitFits(n, visit, prior, last) /\ prior \in 0..last /\ lost \in Nat BY DEF NodeFits
<1>2. /\ DOMAIN next = VisitFields /\ next.pc = "reply" /\ next.id = d
      /\ next.row = visit.row /\ next.doc = visit.doc /\ visit.id = 0
      /\ visit.row.table = TableOf[NodeStore[n]]
  BY <1>1 DEF VisitFits, VisitFields
<1> HIDE DEF next
<1>3. VisitFits(n, next, prior, d) BY <1>1, <1>2 DEF VisitFits
<1>4. \A t \in TableNames : \A y \in Own(n, then[t]) : t = TableOf[NodeStore[n]]
  BY <1>0, <1>2 DEF NodeFits
<1>5. ASSUME n \in Keyed
      PROVE  /\ Forgotten(n, prior, then)
             /\ \A t \in TableNames :
                  /\ \A y \in Own(n, then[t]) : "result" \notin y.body
                  /\ IsFiniteSet(Orphans(n, then[t], prior, d))
                  /\ Cardinality(Orphans(n, then[t], prior, d)) <= lost
  <2>1. Forgotten(n, prior, tabs) BY <1>5 DEF NodeFits, Outdated
  <2>2. d # prior BY <1>1
  <2>3. Forgotten(n, prior, then) BY <1>0, <2>1, <2>2 DEF Forgotten
  <2>4. ASSUME NEW t \in TableNames
        PROVE  /\ \A y \in Own(n, then[t]) : "result" \notin y.body
               /\ Orphans(n, then[t], prior, d) = Orphans(n, tabs[t], prior, visit.id)
    <3>1. \A y \in Own(n, tabs[t]) : "result" \notin y.body /\ y.id \in 1..last
      BY <1>5 DEF NodeFits, TableFits, Own
    <3>2. "result" \notin x.body BY <1>1, <1>5 DEF VisitFits
    <3>3. Orphans(n, then[t], prior, d) = Orphans(n, tabs[t], prior, visit.id)
      <4> DEFINE old == Own(n, tabs[t])
      <4>1. \A y \in old : y.id # d /\ y.id # 0 BY <3>1
      <4>2. Own(n, then[t]) = old \/ Own(n, then[t]) = old \cup {x} BY <1>0
      <4> HIDE DEF old
      <4>3. {y.id : y \in old} \ {prior, d} = {y.id : y \in old} \ {prior, 0} BY <4>1
      <4>4. {y.id : y \in old \cup {x}} \ {prior, d} = {y.id : y \in old} \ {prior, 0} BY <4>1
      <4> QED BY <1>2, <4>2, <4>3, <4>4 DEF Orphans, old
    <3> QED BY <1>0, <3>1, <3>2, <3>3
  <2> QED BY <1>5, <2>3, <2>4 DEF NodeFits
<1> QED BY <1>1, <1>2, <1>3, <1>4, <1>5 DEF NodeFits, next

LEMMA OwnLastsAt ==
  ASSUME DocsFit, NEW t \in TableNames, NEW after, tables' = [tables EXCEPT ![t] = after], NEW n,
         \A y \in Own(n, after) : \E x \in Own(n, tables[t]) :
           x.id = y.id /\ (n \in Keyed => "result" \notin y.body \/ y.body = x.body)
  PROVE  OwnLasts(n, tables, tables')
BY DEF OwnLasts, DocsFit

LEMMA OwnStays ==
  ASSUME NEW n, tables' = tables
  PROVE  OwnLasts(n, tables, tables')
BY DEF OwnLasts

\* What the clients do leaves each node what it has, or less.
LEMMA ClientsLeaveOwn ==
  ASSUME IdsFit, CallsFit, DocsFit, NEW c \in Clients, CallBegins(c) \/ CallGoesOn(c),
         NEW n \in Node
  PROVE  OwnLasts(n, tables, tables')
<1>1. ASSUME Provisioned(c) PROVE OwnLasts(n, tables, tables')
  <2> DEFINE t == calls[c].row.table
             after == [tables[t] EXCEPT !.there = TRUE]
  <2>1. /\ calls[c].pc = "provision"
        /\ calls[c].row.type = "vector" => tables' = tables
        /\ calls[c].row.type # "vector" => tables' = [tables EXCEPT ![t] = after]
    BY <1>1 DEF Provisioned, TableMade
  <2>2. calls[c].row.type \in {"vector", "document"} BY <2>1 DEF CallsFit, CallFits
  <2>3. CASE calls[c].row.type = "vector" BY <2>1, <2>3, OwnStays
  <2>4. CASE calls[c].row.type = "document"
    <3>1. t \in TableNames BY <2>1, <2>4, CallsTable
    <3>2. TableFits(tables[t], ids.docs) /\ MadeTable(tables[t], after)
      BY <3>1 DEF DocsFit, MadeTable
    <3> HIDE DEF after
    <3>3. Own(n, after) = Own(n, tables[t]) BY <3>2, TableIsMade DEF IdsFit
    <3> HIDE DEF t
    <3> QED BY <2>1, <2>4, <3>1, <3>3, OwnLastsAt
  <2> QED BY <2>2, <2>3, <2>4
<1>2. ASSUME DropBacking(c) PROVE OwnLasts(n, tables, tables')
  <2> DEFINE t == calls[c].row.table
  <2>1. /\ calls[c].pc = "drop"
        /\ calls[c].row.type = "document" => tables' = [tables EXCEPT ![t] = NoTable]
        /\ calls[c].row.type # "document" => tables' = tables
    BY <1>2 DEF DropBacking
  <2>2. CASE calls[c].row.type # "document" BY <2>1, <2>2, OwnStays
  <2>3. CASE calls[c].row.type = "document"
    <3>1. t \in TableNames BY <2>1, <2>3, CallsTable
    <3>2. Own(n, NoTable) = {} BY TableIsDropped DEF IdsFit
    <3> HIDE DEF t
    <3> QED BY <2>1, <2>3, <3>1, <3>2, OwnLastsAt
  <2> QED BY <2>2, <2>3
<1>3. ASSUME WriteDocument(c) PROVE OwnLasts(n, tables, tables')
  <2> DEFINE t == calls[c].row.table
             d == ids.docs + 1
             after == [tables[t] EXCEPT !.docs = tables[t].docs \cup {Doc(d, c, {})}]
  <2>1. /\ calls[c].pc = "write" /\ tables[t].there
        /\ tables' = [tables EXCEPT ![t] = after]
    BY <1>3 DEF WriteDocument
  <2>2. calls[c].row.type = "document" BY <2>1 DEF CallsFit, CallFits
  <2>3. t \in TableNames BY <2>1, <2>2, CallsTable
  <2>4. TableFits(tables[t], ids.docs) /\ Wrote(tables[t], after, ids.docs, d, c, {})
    BY <2>1, <2>3 DEF DocsFit, Wrote
  <2>5. n # c BY MemoryOK
  <2> HIDE DEF after, d
  <2>6. Own(n, after) = Own(n, tables[t]) BY <2>4, <2>5, OwnWritten
  <2> HIDE DEF t
  <2> QED BY <2>1, <2>3, <2>6, OwnLastsAt
<1>4. ASSUME UpdateDocument(c) PROVE OwnLasts(n, tables, tables')
  <2> DEFINE t == calls[c].row.table
             after == [tables[t] EXCEPT !.docs = WithBody(tables[t].docs, calls[c].what, {})]
  <2>1. /\ calls[c].pc = "update" /\ tables[t].there /\ tables' = [tables EXCEPT ![t] = after]
    BY <1>4 DEF UpdateDocument, WithBody
  <2>2. calls[c].row.type = "document" BY <2>1 DEF CallsFit, CallFits
  <2>3. t \in TableNames BY <2>1, <2>2, CallsTable
  <2>4. TableFits(tables[t], ids.docs) /\ Rewrote(tables[t], after, calls[c].what, {})
    BY <2>1, <2>3 DEF DocsFit, Rewrote
  <2> HIDE DEF after
  <2>5. \A y \in Own(n, after) : \E x \in Own(n, tables[t]) :
          y.id = x.id /\ (y = x \/ y.body = {})
    BY <2>4, OwnRewritten
  <2> HIDE DEF t
  <2> QED BY <2>1, <2>3, <2>5, OwnLastsAt
<1>5. ASSUME DeleteDocument(c) PROVE OwnLasts(n, tables, tables')
  <2> DEFINE t == calls[c].row.table
             after == [tables[t] EXCEPT !.docs = WithoutAt(tables[t].docs, calls[c].what)]
  <2>1. /\ calls[c].pc = "remove" /\ tables[t].there /\ tables' = [tables EXCEPT ![t] = after]
    BY <1>5 DEF DeleteDocument
  <2>2. calls[c].row.type = "document" BY <2>1 DEF CallsFit, CallFits
  <2>3. t \in TableNames BY <2>1, <2>2, CallsTable
  <2>4. TableFits(tables[t], ids.docs) /\ TookOut(tables[t], after, calls[c].what)
    BY <2>1, <2>3 DEF DocsFit, TookOut
  <2> HIDE DEF after
  <2>5. Own(n, after) \subseteq Own(n, tables[t])
    BY <2>4, TableTakesOut DEF IdsFit
  <2> HIDE DEF t
  <2> QED BY <2>1, <2>3, <2>5, OwnLastsAt
<1>6. ASSUME CallBegins(c) PROVE OwnLasts(n, tables, tables')
  <2>1. tables' = tables
    BY <1>6, Zenon DEF CallBegins, Create, BeginDeleteStore, BeginWrite, BeginUpdateDoc, BeginRemove,
      BeginIndex, BeginUnindex, Resolves, backed, history
  <2> QED BY <2>1, OwnStays
<1>7. ASSUME \/ ProvisionFails(c) \/ RollBack(c) \/ DeleteStoreRow(c) \/ DropFails(c) \/ Fails(c)
             \/ Embedded(c) \/ DeleteVector(c) \/ \E distance \in Distances : IndexVector(c, distance)
      PROVE  OwnLasts(n, tables, tables')
  <2>1. tables' = tables
    BY <1>7, Zenon DEF ProvisionFails, RollBack, DeleteStoreRow, DropFails, Fails, Embedded,
      DeleteVector, IndexVector, backed, history
  <2> QED BY <2>1, OwnStays
<1> QED BY <1>1, <1>2, <1>3, <1>4, <1>5, <1>6, <1>7, Zenon DEF CallGoesOn

LEMMA NodesStep ==
  ASSUME IdsFit, RowsFit, CallsFit, DocsFit, DocsFit', NodesFit, MNext
  PROVE  NodesFit'
<1>0. IdsFit' /\ RowsFit' /\ Grow BY RowsStep
<1> DEFINE Fits(n) == NodeFits(n, visits'[n], carried'[n], unsaid'[n], ids'.docs, tables')
<1>1. /\ ids.docs \in Nat /\ ids'.docs \in Nat /\ ids.docs <= ids'.docs
      /\ \A n \in Node : NodeFits(n, visits[n], carried[n], unsaid[n], ids.docs, tables)
      /\ \A t \in TableNames : TableFits(tables[t], ids.docs) /\ TableFits(tables'[t], ids'.docs)
  BY <1>0 DEF IdsFit, Grow, NodesFit, DocsFit
<1>2. ASSUME NEW n \in Node, OwnLasts(n, tables, tables'),
             visits'[n] = visits[n], carried'[n] = carried[n], unsaid'[n] = unsaid[n]
      PROVE  Fits(n)
  BY <1>1, <1>2, NodeOutlives
<1>3. ASSUME NEW c \in Clients, CallBegins(c) \/ CallGoesOn(c) PROVE NodesFit'
  <2>1. UNCHANGED <<visits, carried, unsaid>>
    BY <1>3, Zenon DEF CallBegins, Create, BeginDeleteStore, BeginWrite, BeginUpdateDoc, BeginRemove,
      BeginIndex, BeginUnindex, Resolves, CallGoesOn, Provisioned, DropBacking, WriteDocument,
      UpdateDocument, DeleteDocument, ProvisionFails, RollBack, DeleteStoreRow, DropFails, Fails,
      Embedded, DeleteVector, IndexVector, history
  <2>2. \A n \in Node : Fits(n) BY <1>2, <1>3, <2>1, ClientsLeaveOwn
  <2> QED BY <2>1, <2>2 DEF NodesFit
<1>4. ASSUME NEW m \in Node, NEW visit, NEW prior, NEW lost,
             visits' = [visits EXCEPT ![m] = visit],
             carried' = [carried EXCEPT ![m] = prior] \/ (carried' = carried /\ prior = carried[m]),
             unsaid' = [unsaid EXCEPT ![m] = lost] \/ (unsaid' = unsaid /\ lost = unsaid[m]),
             \A n \in Node : n # m => OwnLasts(n, tables, tables'),
             NodeFits(m, visit, prior, lost, ids'.docs, tables')
      PROVE  NodesFit'
  <2>1. /\ DOMAIN visits' = Node /\ DOMAIN carried' = Node /\ DOMAIN unsaid' = Node
        /\ visits'[m] = visit /\ carried'[m] = prior /\ unsaid'[m] = lost
        /\ \A n \in Node : n # m =>
             visits'[n] = visits[n] /\ carried'[n] = carried[n] /\ unsaid'[n] = unsaid[n]
    BY <1>4 DEF NodesFit
  <2>2. \A n \in Node : Fits(n) BY <1>2, <1>4, <2>1
  <2> QED BY <2>1, <2>2 DEF NodesFit
<1>7. ASSUME NEW m \in Node, NodeWrites(m) PROVE NodesFit'
  <2>1. PICK payload \in {{"y"}, ScopedData(m)} :
          visits' = [visits EXCEPT ![m] =
            [NoVisit EXCEPT !.pc = IF PriorDocID(m) # 0 THEN "update" ELSE "insert",
                            !.row = stores[NodeStore[m]], !.prior = PriorDocID(m),
                            !.doc = StorableDoc(m, payload)]]
    BY <1>7 DEF NodeWrites, SetVisit
  <2> DEFINE pc == IF PriorDocID(m) # 0 THEN "update" ELSE "insert"
             begun == [NoVisit EXCEPT !.pc = pc,
                            !.row = stores[NodeStore[m]], !.prior = PriorDocID(m),
                            !.doc = StorableDoc(m, payload)]
  <2>2. /\ visits[m].pc = "idle" /\ UNCHANGED <<tables, carried, unsaid, ids>>
        /\ stores[NodeStore[m]].type = "document" /\ NodeStore[m] \in Store
    BY <1>7, MemoryOK DEF NodeWrites, backed, history
  <2>3. /\ DOMAIN begun = VisitFields /\ begun.id = 0 /\ begun.row = stores[NodeStore[m]]
        /\ begun.prior = PriorDocID(m) /\ begun.doc = StorableDoc(m, payload)
        /\ begun.pc = pc
    BY Blanks DEF VisitFields
  <2>4. visits' = [visits EXCEPT ![m] = begun] BY <2>1
  <2> HIDE DEF begun
  <2>5. begun.row.type = "document" /\ begun.row.table = TableOf[NodeStore[m]]
    BY <2>2, <2>3 DEF RowsFit
  <2>6. m \in Keyed => "result" \notin begun.doc BY <2>3 DEF StorableDoc
  <2>7. begun.pc = "update" => m \in Keyed /\ begun.prior = carried[m] BY <2>3 DEF PriorDocID
  <2>8. begun.pc = "insert" => m \notin Keyed \/ carried[m] = 0 BY <2>3 DEF PriorDocID
  <2>9. begun.pc \in {"update", "insert"} BY <2>3
  <2>10. NodeFits(m, begun, carried[m], unsaid[m], ids.docs, tables)
    BY <1>1, <2>2, <2>3, <2>5, <2>6, <2>7, <2>8, <2>9, NodeOpens
  <2> QED BY <1>4, <2>2, <2>4, <2>10, OwnStays
<1>8. ASSUME NEW m \in Node, NodeUpdates(m) PROVE NodesFit'
  <2> DEFINE t == visits[m].row.table
             after == [tables[t] EXCEPT !.docs =
                         WithBody(tables[t].docs, visits[m].prior, visits[m].doc)]
             found == Holds(tables[t], visits[m].prior)
             next == IF found THEN [visits[m] EXCEPT !.pc = "reply", !.id = visits[m].prior]
                     ELSE [visits[m] EXCEPT !.pc = "insert"]
  <2>1. /\ visits[m].pc = "update" /\ tables[t].there
        /\ UNCHANGED <<stores, ids, carried, unsaid>>
        /\ tables' = [tables EXCEPT ![t] = after]
        /\ visits' = [visits EXCEPT ![m] = next]
    BY <1>8 DEF NodeUpdates, WithBody, history, SetVisit, HasDoc, Docs, Holds, AfterMissingUpdate
  <2>2. VisitFits(m, visits[m], carried[m], ids.docs) BY <1>1 DEF NodeFits
  <2>3. t \in TableNames /\ m \in Keyed /\ "result" \notin visits[m].doc
    BY <2>1, <2>2, NodesTable DEF VisitFits
  <2>4. TableFits(tables[t], ids.docs) /\ Rewrote(tables[t], after, visits[m].prior, visits[m].doc)
    BY <2>1, <2>3 DEF DocsFit, Rewrote
  <2> HIDE DEF after
  <2>5. \A n, y : y \in Own(n, after) => \E x \in Own(n, tables[t]) :
              y.id = x.id /\ (y = x \/ y.body = visits[m].doc)
    BY <2>4, OwnRewritten
  <2>6. \A n \in Node : OwnLasts(n, tables, tables')
    <3> TAKE n \in Node
    <3>1. \A y \in Own(n, after) : \E x \in Own(n, tables[t]) :
            x.id = y.id /\ (n \in Keyed => "result" \notin y.body \/ y.body = x.body)
      BY <2>3, <2>5
    <3> HIDE DEF t
    <3> QED BY <2>1, <2>3, <3>1, OwnLastsAt
  <2>7. NodeFits(m, next, carried[m], unsaid[m], ids.docs, tables')
    <3>1. CASE found
      BY <1>1, <2>1, <2>6, <3>1, NodeFinds
    <3>2. CASE ~found
      BY <1>1, <2>1, <2>6, <3>2, NodeMisses
    <3> QED BY <3>1, <3>2
  <2> HIDE DEF next
  <2> QED BY <1>4, <2>1, <2>6, <2>7
<1>9. ASSUME NEW m \in Node, NodeInserts(m) PROVE NodesFit'
  <2> DEFINE t == visits[m].row.table
             d == ids.docs + 1
             x == Doc(d, m, visits[m].doc)
             after == [tables[t] EXCEPT !.docs = tables[t].docs \cup {x}]
             next == [visits[m] EXCEPT !.pc = "reply", !.id = d]
  <2>1. /\ visits[m].pc = "insert" /\ tables[t].there /\ UNCHANGED <<stores, carried, unsaid>>
        /\ ids' = [ids EXCEPT !.docs = d] /\ tables' = [tables EXCEPT ![t] = after]
        /\ visits' = [visits EXCEPT ![m] = next]
    BY <1>9 DEF NodeInserts, history, SetVisit
  <2>2. VisitFits(m, visits[m], carried[m], ids.docs) BY <1>1 DEF NodeFits
  <2>3. t \in TableNames
    BY <2>1, <2>2, NodesTable DEF VisitFits
  <2>4. TableFits(tables[t], ids.docs) /\ Wrote(tables[t], after, ids.docs, d, m, visits[m].doc)
    BY <2>1, <2>3 DEF DocsFit, Wrote
  <2>5. x.id = d /\ x.body = visits[m].doc BY DEF Doc
  <2>6. d = ids.docs + 1 /\ ids'.docs = d BY <2>1 DEF IdsFit
  <2>7. x = Doc(d, m, visits[m].doc) OBVIOUS
  <2>8. next = [visits[m] EXCEPT !.pc = "reply", !.id = d] OBVIOUS
  <2> HIDE DEF after, d, x, next
  <2>9. /\ \A n : n # m => Own(n, after) = Own(n, tables[t])
        /\ Own(m, after) = Own(m, tables[t]) \cup {x}
    BY <2>4, <2>7, OwnWritten
  <2>10. \A n \in Node : n # m => OwnLasts(n, tables, tables')
    <3> HIDE DEF t
    <3> QED BY <2>1, <2>3, <2>9, OwnLastsAt
  <2>11. \A u \in TableNames :
           Own(m, tables'[u]) = IF u = t THEN Own(m, tables[u]) \cup {x} ELSE Own(m, tables[u])
    BY <2>1, <2>3, <2>9 DEF DocsFit
  <2>12. NodeFits(m, next, carried[m], unsaid[m], d, tables')
    <3>1. /\ NodeFits(m, visits[m], carried[m], unsaid[m], ids.docs, tables)
          /\ ids.docs \in Nat /\ visits[m].pc = "insert"
          /\ \A u \in TableNames : TableFits(tables[u], ids.docs)
      BY <1>1, <2>1
    <3> DEFINE visit == visits[m]
    <3>2. next = [visit EXCEPT !.pc = "reply", !.id = d] BY <2>8
    <3>3. /\ x.body = visit.doc
          /\ OwnGains(m, tables, tables', visit.row.table, x)
      BY <2>5, <2>11 DEF OwnGains
    <3>4. NodeFits(m, visit, carried[m], unsaid[m], ids.docs, tables) /\ visit.pc = "insert"
      BY <3>1
    <3> HIDE DEF visit, t
    <3> QED BY <2>5, <2>6, <3>1, <3>2, <3>3, <3>4, NodeMakes
  <2> QED BY <1>4, <2>1, <2>6, <2>10, <2>12
<1>10. ASSUME NEW m \in Node, NodeFails(m) PROVE NodesFit'
  <2>1. /\ visits[m].pc # "reply" /\ UNCHANGED <<tables, carried, unsaid, ids>>
        /\ visits' = [visits EXCEPT ![m] = NoVisit]
    BY <1>10 DEF NodeFails, SetVisit, backed, history
  <2>2. NodeFits(m, NoVisit, carried[m], unsaid[m], ids.docs, tables)
    BY <1>1, <2>1, NodeSettles
  <2> QED BY <1>4, <2>1, <2>2, OwnStays
<1>11. ASSUME NEW m \in Node, NodeReplies(m) PROVE NodesFit'
  <2>1. /\ visits[m].pc = "reply" /\ UNCHANGED <<tables, unsaid, ids>>
        /\ carried' = [carried EXCEPT ![m] = visits[m].id]
        /\ visits' = [visits EXCEPT ![m] = NoVisit]
    BY <1>11 DEF NodeReplies, SetVisit, backed, history
  <2>2. NodeFits(m, NoVisit, visits[m].id, unsaid[m], ids.docs, tables)
    BY <1>1, <2>1, NodeRemembers
  <2>3. NodeFits(m, NoVisit, visits[m].id, unsaid[m], ids'.docs, tables')
    BY <2>1, <2>2
  <2>4. \A n \in Node : OwnLasts(n, tables, tables') BY <2>1, OwnStays
  <2> QED BY <1>4, <2>1, <2>3, <2>4
<1>12. ASSUME NEW m \in Node, ReplyIsLost(m) PROVE NodesFit'
  <2> DEFINE lost == IF visits[m].pc = "reply" /\ visits[m].id # carried[m]
                       THEN unsaid[m] + 1 ELSE unsaid[m]
  <2>1. /\ visits[m].pc = "reply" /\ UNCHANGED <<tables, carried, ids>>
        /\ visits' = [visits EXCEPT ![m] = NoVisit]
        /\ unsaid' = IF visits[m].id = carried[m] THEN unsaid
                     ELSE [unsaid EXCEPT ![m] = unsaid[m] + 1]
    BY <1>12 DEF ReplyIsLost, SetVisit, backed
  <2>2. unsaid' = [unsaid EXCEPT ![m] = lost] \/ (unsaid' = unsaid /\ lost = unsaid[m])
    <3>1. CASE visits[m].id = carried[m] BY <2>1, <3>1
    <3>2. CASE visits[m].id # carried[m]
      <4>1. lost = unsaid[m] + 1 BY <2>1, <3>2
      <4>2. unsaid' = [unsaid EXCEPT ![m] = unsaid[m] + 1] BY <2>1, <3>2
      <4> QED BY <4>1, <4>2
    <3> QED BY <3>1, <3>2
  <2>3. NodeFits(m, NoVisit, carried[m], lost, ids.docs, tables)
    BY <1>1, NodeSettles
  <2> HIDE DEF lost
  <2> QED BY <1>4, <2>1, <2>2, <2>3, OwnStays
<1>13. ASSUME Crash PROVE NodesFit'
  <2> DEFINE lost(n) == IF visits[n].pc = "reply" /\ visits[n].id # carried[n]
                          THEN unsaid[n] + 1 ELSE unsaid[n]
  <2>1. /\ UNCHANGED <<tables, carried, ids>>
        /\ visits' = [n \in Node |-> NoVisit]
        /\ unsaid' = [n \in Node |-> lost(n)]
    BY <1>13 DEF Crash, backed
  <2>2. \A n \in Node : NodeFits(n, NoVisit, carried[n], lost(n), ids.docs, tables)
    BY <1>1, NodeSettles
  <2> QED BY <2>1, <2>2 DEF NodesFit
<1>14. ASSUME NEW m \in Node, NodeRuns(m) PROVE NodesFit'
  BY <1>7, <1>8, <1>9, <1>10, <1>11, <1>12, <1>14, Zenon DEF NodeRuns
<1> QED BY <1>3, <1>13, <1>14, Zenon DEF MNext

-----------------------------------------------------------------------------
(* The beginning                                                           *)

OldRow == [type |-> "vector", table |-> "", metric |-> "cosine"]
OldIndex == [NoIndex EXCEPT !.there = TRUE, !.metric = "cosine"]

LEMMA OldOnes ==
  /\ OldRow.type = "vector"
  /\ DOMAIN OldIndex = {"there", "metric", "partitioned", "records"}
  /\ OldIndex.there = TRUE /\ OldIndex.records = {}
<1>1. OldRow.type = "vector" BY Zenon DEF OldRow
<1> QED BY <1>1, Blanks DEF OldIndex

LEMMA MemoryInitial ==
  ASSUME MInit
  PROVE  MemoryInv
<1>1. PICK b \in Starts :
        /\ stores = [s \in Store |-> IF s \in b.old THEN OldRow ELSE NoStore]
        /\ indexes = [s \in Store |-> IF s \in b.old THEN OldIndex ELSE NoIndex]
        /\ ids = [stores |-> Store \ b.fresh, docs |-> 0, vectors |-> 0]
        /\ created = b.old
  BY Zenon DEF MInit, OldRow, OldIndex
<1>2. /\ backend \in Backends
      /\ tables = [t \in TableNames |-> NoTable]
      /\ calls = [c \in Clients |-> NoCall]
      /\ visits = [n \in Node |-> NoVisit]
      /\ carried = [n \in Node |-> 0]
      /\ kept = [docs |-> {}, vectors |-> {}]
      /\ unsaid = [n \in Node |-> 0]
  BY Zenon DEF MInit, TableNames
<1>3. b.old \subseteq Old /\ b.fresh \subseteq Store \ Old /\ Old \subseteq Store
  BY MemoryOK
<1>4. /\ DOMAIN ids = {"stores", "docs", "vectors"} /\ ids.stores = Store \ b.fresh
      /\ ids.docs = 0 /\ ids.vectors = 0
  BY <1>1
<1>5. DOMAIN kept = {"docs", "vectors"} /\ kept.docs = {} /\ kept.vectors = {} BY <1>2
<1>6. IdsFit BY <1>1, <1>2, <1>3, <1>4, <1>5 DEF IdsFit
<1>7. \A s \in Store : /\ s \in b.old => stores[s].type = "vector"
                       /\ s \notin b.old => stores[s].type = "none"
  BY <1>1, Blanks, OldOnes
<1>8. RowsFit BY <1>1, <1>3, <1>4, <1>7 DEF RowsFit, Exists
<1>9. CallsFit
  <2>1. CallFits(NoCall, ids.stores, stores, created) BY Blanks DEF CallFits, CallSteps
  <2>2. ~Creating(NoCall) BY Blanks DEF Creating
  <2> QED BY <1>2, <2>1, <2>2 DEF CallsFit
<1>10. DocsFit
  <2>1. TableFits(NoTable, ids.docs) BY <1>4, TableIsDropped
  <2> QED BY <1>2, <2>1 DEF DocsFit
<1>11. DocsBacked BY <1>5, <1>7 DEF DocsBacked
<1>12. VectorsFit
  <2>1. KeptFit(kept.vectors, ids.stores, ids.vectors) BY <1>5 DEF KeptFit, ById
  <2>2. Ranked({}) BY FS_EmptySet DEF Ranked
  <2>3. IndexFits(OldIndex, ids.vectors) /\ IndexFits(NoIndex, ids.vectors)
    BY <2>2, Blanks, OldOnes DEF IndexFits
  <2>4. \A s \in Store : HandedIn(indexes[s], s, kept.vectors) = {} BY <1>5 DEF HandedIn
  <2>5. Alike({}, {}) BY DEF Alike
  <2>6. \A s \in Store : indexes[s].records = {} BY <1>1, Blanks, OldOnes
  <2>7. \A s \in Store : IndexFits(indexes[s], ids.vectors) BY <1>1, <2>3
  <2>8. \A s \in Store : s \in created => indexes[s].there BY <1>1, OldOnes
  <2> QED BY <1>1, <2>1, <2>4, <2>5, <2>6, <2>7, <2>8 DEF VectorsFit
<1>13. NodesFit
  <2>1. \A t \in TableNames : tables[t] = NoTable BY <1>2
  <2>2. \A n : Own(n, NoTable) = {} BY Blanks DEF Own
  <2>3. \A n : VisitFits(n, NoVisit, 0, 0) /\ ~Outdated(NoVisit, 0)
    BY Blanks DEF VisitFits, Outdated
  <2>4. \A n : Orphans(n, NoTable, 0, NoVisit.id) = {} BY <2>2 DEF Orphans
  <2>5. \A n \in Node : NodeFits(n, NoVisit, 0, 0, 0, tables)
    BY <2>1, <2>2, <2>3, <2>4, FS_EmptySet DEF NodeFits
  <2> QED BY <1>2, <1>4, <2>5 DEF NodesFit
<1> QED BY <1>6, <1>8, <1>9, <1>10, <1>11, <1>12, <1>13 DEF MemoryInv

LEMMA MemoryStep ==
  ASSUME OneTableEach, MemoryInv, [MNext]_mvars
  PROVE  MemoryInv'
<1>1. CASE MNext
  <2>1. IdsFit' /\ RowsFit' BY <1>1, RowsStep DEF MemoryInv
  <2>2. CallsFit' BY <1>1, CallsStep DEF MemoryInv
  <2>3. DocsFit' /\ DocsBacked' BY <1>1, DocsStep DEF MemoryInv
  <2>4. VectorsFit' BY <1>1, VectorsStep DEF MemoryInv
  <2>5. NodesFit' BY <1>1, <2>3, NodesStep DEF MemoryInv
  <2> QED BY <2>1, <2>2, <2>3, <2>4, <2>5 DEF MemoryInv
<1>2. CASE UNCHANGED mvars
  BY <1>2 DEF mvars, MemoryInv, IdsFit, RowsFit, CallsFit, DocsFit, DocsBacked, VectorsFit, NodesFit,
    Exists
<1> QED BY <1>1, <1>2

-----------------------------------------------------------------------------
(* What it says                                                            *)

LEMMA MemoryTyped ==
  ASSUME MemoryInv
  PROVE  MTypeOK
<1> USE DEF MemoryInv
<1>1. \A s \in Store :
       /\ stores[s].type \in {"none", "vector", "document"}
       /\ stores[s].type = "document" => stores[s].table \in DOMAIN tables
  BY MemoryOK DEF RowsFit, DocsFit, TableNames, Range
<1>2. \A s \in Store : \A r \in indexes[s].records : r.id \in 1..ids.vectors /\ indexes[s].there
  BY DEF VectorsFit, IndexFits
<1>3. \A t \in DOMAIN tables : \A x \in Docs(t) : x.id \in 1..ids.docs /\ tables[t].there
  BY DEF DocsFit, TableFits, Docs
<1>4. \A n \in Node : carried[n] \in 0..ids.docs BY DEF NodesFit, NodeFits
<1> QED BY <1>1, <1>2, <1>3, <1>4 DEF MTypeOK, IdsFit

LEMMA MemoryBacked ==
  ASSUME MemoryInv
  PROVE  StoreIsBacked
<1> SUFFICES ASSUME NEW s \in created, Exists(s)
             PROVE  IF stores[s].type = "vector" THEN indexes[s].there
                    ELSE /\ tables[stores[s].table].there
                         /\ \A k \in kept.docs : k[1] = s => HasDoc(stores[s].table, k[2])
  BY DEF StoreIsBacked
<1>1. s \in Store BY DEF MemoryInv, IdsFit
<1>2. CASE stores[s].type = "vector" BY <1>1, <1>2 DEF MemoryInv, VectorsFit
<1>3. CASE stores[s].type # "vector"
  <2>1. stores[s].type = "document" /\ stores[s].table = TableOf[s]
    BY <1>1, <1>3 DEF MemoryInv, RowsFit, Exists
  <2> QED BY <1>1, <2>1 DEF MemoryInv, DocsBacked, Holds, HasDoc, Docs
<1> QED BY <1>2, <1>3

LEMMA MemoryKeepsOne ==
  ASSUME MemoryInv
  PROVE  NodeKeepsOneDocument
<1> SUFFICES ASSUME NEW n \in Keyed, NEW t \in TableNames
             PROVE  /\ Cardinality(Own(n, tables[t])) <= 1 + unsaid[n]
                    /\ \A x \in Own(n, tables[t]) : "result" \notin x.body
  BY DEF NodeKeepsOneDocument, MemoryInv, DocsFit, Own, Docs
<1> DEFINE own == Own(n, tables[t])
           named == {x.id : x \in own}
           visit == visits[n]
           prior == carried[n]
           rest == Orphans(n, tables[t], prior, visit.id)
<1>1. n \in Node BY MemoryOK
<1>2. NodeFits(n, visit, prior, unsaid[n], ids.docs, tables)
  BY <1>1 DEF MemoryInv, NodesFit
<1>3. /\ IsFiniteSet(rest) /\ Cardinality(rest) <= unsaid[n] /\ unsaid[n] \in Nat
      /\ \A x \in own : "result" \notin x.body
      /\ Outdated(visit, prior) => \A x \in own : x.id # prior
  BY <1>2 DEF NodeFits, Forgotten
<1>4. \A x \in own : x.id # 0 BY DEF MemoryInv, DocsFit, TableFits, Own
<1>5. IsFiniteSet(own) /\ ById(own)
  <2>1. TableFits(tables[t], ids.docs) BY DEF MemoryInv, DocsFit
  <2>2. own \subseteq tables[t].docs BY DEF Own
  <2> QED BY <2>1, <2>2, FS_Subset DEF TableFits, ById
<1>6. PICK a : named \subseteq rest \cup {a}
  <2>1. CASE visit.pc = "reply" /\ visit.id # prior
    <3>1. \A x \in own : x.id # prior BY <1>3, <2>1 DEF Outdated
    <3>2. named \subseteq rest \cup {visit.id} BY <3>1 DEF Orphans
    <3> QED BY <3>2
  <2>2. CASE ~(visit.pc = "reply" /\ visit.id # prior)
    <3>1. visit.id = prior \/ visit.id = 0 BY <1>2, <2>2 DEF NodeFits, VisitFits
    <3>2. named \subseteq rest \cup {prior} BY <1>4, <3>1 DEF Orphans
    <3> QED BY <3>2
  <2> QED BY <2>1, <2>2
<1>7. Cardinality(named) = Cardinality(own) BY <1>5, IdsCount
<1> HIDE DEF own, named, rest
<1>8. IsFiniteSet(rest \cup {a}) /\ Cardinality(rest \cup {a}) <= Cardinality(rest) + 1
  <2>1. Cardinality(rest) \in Nat BY <1>3, FS_CardinalityType
  <2>2. /\ IsFiniteSet(rest \cup {a})
        /\ Cardinality(rest \cup {a}) = IF a \in rest THEN Cardinality(rest) ELSE Cardinality(rest) + 1
    BY <1>3, FS_AddElement
  <2> QED BY <2>1, <2>2
<1>9. IsFiniteSet(named) /\ Cardinality(named) <= Cardinality(rest \cup {a})
  BY <1>6, <1>8, FS_Subset
<1>10. Cardinality(rest) \in Nat /\ Cardinality(rest \cup {a}) \in Nat /\ Cardinality(named) \in Nat
  BY <1>3, <1>8, <1>9, FS_CardinalityType
<1>11. Cardinality(own) <= 1 + unsaid[n] BY <1>3, <1>7, <1>8, <1>9, <1>10
<1> QED BY <1>3, <1>11 DEF own

\* SearchIsRight, with its parts named.
SearchAnswered(s, door, req, k, minScore) ==
  LET q == QueryOf(door, req)
      recs == HandedIn(indexes[s], s, kept.vectors)
  IN q.filter = {} \/ Cardinality(Scope(recs, q)) <= MaxK =>
       IsAnswer(Found(indexes[s], k, q, minScore), recs, indexes[s].metric, k, q, minScore)

LEMMA SearchNamed ==
  ASSUME \A s \in created : Exists(s) /\ stores[s].type = "vector" =>
           \A door \in {"flow", "web", "mcp"}, req \in Requests, k \in 0..MaxK + 1,
              minScore \in {0, 500} : SearchAnswered(s, door, req, k, minScore)
  PROVE  SearchIsRight
BY Zenon DEF SearchIsRight, SearchAnswered, HandedIn, AsStored, Scope, Found

LEMMA MemorySearches ==
  ASSUME MemoryInv
  PROVE  SearchIsRight
<1>1. ASSUME NEW s \in created, Exists(s), NEW door, NEW req, NEW k \in 0..MaxK + 1,
             NEW minScore \in {0, 500}
      PROVE  SearchAnswered(s, door, req, k, minScore)
  <2> DEFINE index == indexes[s]
             recs == HandedIn(index, s, kept.vectors)
             q == QueryOf(door, req)
  <2>1. s \in Store BY DEF MemoryInv, IdsFit
  <2>2. IndexFits(index, ids.vectors) /\ KeptFit(kept.vectors, ids.stores, ids.vectors)
        /\ Alike(index.records, recs)
    BY <1>1, <2>1 DEF MemoryInv, VectorsFit
  <2>3. Ranked(index.records) BY <2>2 DEF IndexFits
  <2>4. ById(recs) BY <2>2, HandedInIs
  <2>5. k \in Nat /\ minScore \in Nat BY VectorOK
  <2> HIDE DEF index, recs, q
  <2>6. q.filter = {} \/ Cardinality(Scope(recs, q)) <= MaxK =>
          IsAnswer(Found(index, k, q, minScore), recs, index.metric, k, q, minScore)
    BY <2>2, <2>3, <2>4, <2>5, SearchAnswers
  <2> QED BY <2>6, Zenon DEF SearchAnswered, index, recs, q
<1> QED BY <1>1, SearchNamed

LEMMA MemoryShown ==
  ASSUME MemoryInv
  PROVE  MTypeOK /\ StoreIsBacked /\ NodeKeepsOneDocument /\ SearchIsRight
BY MemoryTyped, MemoryBacked, MemoryKeepsOne, MemorySearches

=============================================================================
