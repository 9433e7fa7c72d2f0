----------------------- MODULE RetrievalSelectionProofs -----------------------
(***************************************************************************)
(* What a retrieval answers, for every set of memories, every limit, every *)
(* budget and whatever the tokenizer counts: the four invariants of        *)
(* RetrievalSelection, from one inductive invariant.                       *)
(***************************************************************************)
EXTENDS RetrievalSelection, FiniteSetTheorems, TLAPS

-----------------------------------------------------------------------------
(* Sorting: a finite set has a sequence in the order of a strict total     *)
(* order, and whatever sequence Sorted chooses holds the set exactly once. *)

IsStrictOrder(R, S) ==
    /\ \A m \in S : <<m, m>> \notin R
    /\ \A m, n, o \in S : <<m, n>> \in R /\ <<n, o>> \in R => <<m, o>> \in R
    /\ \A m, n \in S : m # n => <<m, n>> \in R \/ <<n, m>> \in R

\* Each element has a place of its own: the number of those before it.
LEMMA Ranking ==
    ASSUME NEW S, IsFiniteSet(S), NEW R, IsStrictOrder(R, S)
    PROVE  \E s \in [1..Cardinality(S) -> S] :
               \A i, j \in DOMAIN s : i < j => <<s[i], s[j]>> \in R
<1> DEFINE n == Cardinality(S)
           below == [v \in S |-> {w \in S : <<w, v>> \in R}]
           rank == [v \in S |-> Cardinality(below[v]) + 1]
<1>1. n \in Nat
  BY FS_CardinalityType
<1>2. ASSUME NEW v \in S
      PROVE  /\ below[v] \in SUBSET S /\ IsFiniteSet(below[v])
             /\ Cardinality(below[v]) \in Nat /\ Cardinality(below[v]) < n
  <2>1. below[v] \in SUBSET S /\ below[v] # S
    BY DEF IsStrictOrder
  <2>2. IsFiniteSet(below[v]) /\ Cardinality(below[v]) <= n /\ n # Cardinality(below[v])
    BY <2>1, FS_Subset
  <2>3. Cardinality(below[v]) \in Nat
    BY <2>2, FS_CardinalityType
  <2> HIDE DEF below, n
  <2> QED
    BY <1>1, <2>1, <2>2, <2>3
<1>3. ASSUME NEW v \in S, NEW w \in S, <<v, w>> \in R
      PROVE  Cardinality(below[v]) < Cardinality(below[w])
  <2>1. below[v] \in SUBSET below[w] /\ below[v] # below[w]
    BY <1>3 DEF IsStrictOrder
  <2> HIDE DEF below
  <2>2. /\ Cardinality(below[v]) <= Cardinality(below[w])
        /\ Cardinality(below[w]) # Cardinality(below[v])
    BY <1>2, <2>1, FS_Subset
  <2> QED
    BY <1>2, <2>2
<1> HIDE DEF below
<1>4. rank \in [S -> 1..n]
  BY <1>1, <1>2
<1>5. \A v, w \in S : <<v, w>> \in R => rank[v] < rank[w]
  BY <1>2, <1>3
<1> HIDE DEF rank
<1>6. rank \in Injection(S, 1..n)
  <2> SUFFICES ASSUME NEW v \in S, NEW w \in S, v # w PROVE rank[v] # rank[w]
    BY <1>4 DEF Injection, IsInjective
  <2>1. <<v, w>> \in R \/ <<w, v>> \in R
    BY DEF IsStrictOrder
  <2>2. rank[v] \in Int /\ rank[w] \in Int
    BY <1>1, <1>4
  <2> QED
    BY <1>5, <2>1, <2>2
<1>7. rank \in Surjection(S, 1..n)
  <2>1. IsFiniteSet(1..n) /\ Cardinality(1..n) = n
    BY <1>1, FS_Interval
  <2> QED
    BY <1>6, <2>1, FS_Injection
<1> DEFINE s == [k \in 1..n |-> CHOOSE v \in S : rank[v] = k]
<1>8. \A k \in 1..n : s[k] \in S /\ rank[s[k]] = k
  BY <1>7 DEF Surjection
<1>9. s \in [1..n -> S]
  BY <1>8
<1> HIDE DEF s
<1>10. ASSUME NEW i \in 1..n, NEW j \in 1..n, i < j PROVE <<s[i], s[j]>> \in R
  <2>1. s[i] \in S /\ s[j] \in S /\ rank[s[i]] = i /\ rank[s[j]] = j
    BY <1>8
  <2>2. i \in Int /\ j \in Int
    BY <1>1
  <2>3. s[i] # s[j] /\ ~ (<<s[j], s[i]>> \in R)
    BY <1>5, <1>10, <2>1, <2>2
  <2> QED
    BY <2>1, <2>3 DEF IsStrictOrder
<1> QED
  BY <1>9, <1>10

\* A sequence in such an order repeats nothing, so that it holds the whole set.
LEMMA HoldsTheSet ==
    ASSUME NEW S, IsFiniteSet(S), NEW R, IsStrictOrder(R, S),
           NEW s \in [1..Cardinality(S) -> S],
           \A i, j \in DOMAIN s : i < j => <<s[i], s[j]>> \in R
    PROVE  s \in Seq(S) /\ Len(s) = Cardinality(S) /\ ToSet(s) = S
<1> DEFINE n == Cardinality(S)
<1>1. n \in Nat
  BY FS_CardinalityType
<1> HIDE DEF n
<1>2. s \in [1..n -> S] /\ \A i, j \in 1..n : i < j => <<s[i], s[j]>> \in R
  BY DEF n
<1>3. s \in Seq(S) /\ Len(s) = n /\ DOMAIN s = 1..n
  BY <1>1, <1>2
<1>4. s \in Injection(1..n, S)
  <2> SUFFICES ASSUME NEW i \in 1..n, NEW j \in 1..n, i # j PROVE s[i] # s[j]
    BY <1>2 DEF Injection, IsInjective
  <2>1. i < j \/ j < i
    BY <1>1
  <2>2. <<s[i], s[j]>> \in R \/ <<s[j], s[i]>> \in R
    BY <1>2, <2>1
  <2> QED
    BY <1>2, <2>2 DEF IsStrictOrder
<1>5. s \in Surjection(1..n, S)
  <2>1. IsFiniteSet(1..n) /\ Cardinality(1..n) = n
    BY <1>1, FS_Interval
  <2> QED
    BY <1>4, <2>1, FS_Injection DEF n
<1>6. ToSet(s) = S
  BY <1>2, <1>3, <1>5 DEF Surjection, ToSet
<1> QED
  BY <1>3, <1>6 DEF n

Preceding(R, S, v) == {w \in S : <<w, v>> \in R}

\* Its elements are at places that the set alone decides: as many as are before
\* an element in the order are before it in the sequence.
LEMMA PlaceOfElement ==
    ASSUME NEW S, IsFiniteSet(S), NEW R, IsStrictOrder(R, S),
           NEW s \in [1..Cardinality(S) -> S],
           \A i, j \in DOMAIN s : i < j => <<s[i], s[j]>> \in R,
           NEW k \in 1..Cardinality(S)
    PROVE  Cardinality(Preceding(R, S, s[k])) = k - 1
<1> DEFINE n == Cardinality(S)
           before == Preceding(R, S, s[k])
           f == [i \in 1..(k - 1) |-> s[i]]
<1>1. n \in Nat
  BY FS_CardinalityType
<1>2. ToSet(s) = S
  BY HoldsTheSet
<1> HIDE DEF n
<1>3. s \in [1..n -> S] /\ k \in 1..n /\ \A i, j \in 1..n : i < j => <<s[i], s[j]>> \in R
  BY DEF n
<1>4. \A v, w \in S : ~ (<<v, w>> \in R /\ <<w, v>> \in R)
  BY DEF IsStrictOrder
<1> USE DEF Preceding
<1>5. \A i \in 1..n : s[i] \in before <=> i < k
  <2> TAKE i \in 1..n
  <2>1. i \in Int /\ k \in Int
    BY <1>1, <1>3
  <2>2. s[i] \in S /\ s[k] \in S
    BY <1>3
  <2>3. CASE i < k
    BY <1>3, <2>1, <2>3, <2>2
  <2>4. CASE i = k
    BY <2>4, <2>2 DEF IsStrictOrder
  <2>5. CASE k < i
    <3>1. <<s[k], s[i]>> \in R
      BY <1>3, <2>5
    <3> QED
      BY <1>4, <2>1, <2>5, <2>2, <3>1
  <2> QED
    BY <2>1, <2>3, <2>4, <2>5
<1>6. \A w \in before : \E i \in 1..n : w = s[i]
  BY <1>2, <1>3 DEF ToSet
<1> HIDE DEF before, Preceding
<1>7. 1..(k - 1) \in SUBSET (1..n) /\ k \in Int
  BY <1>1, <1>3
<1>8. f \in [1..(k - 1) -> before]
  BY <1>1, <1>5, <1>7
<1>9. f \in Injection(1..(k - 1), before)
  <2> SUFFICES ASSUME NEW i \in 1..(k - 1), NEW j \in 1..(k - 1), i # j PROVE f[i] # f[j]
    BY <1>8 DEF Injection, IsInjective
  <2>1. i \in 1..n /\ j \in 1..n /\ (i < j \/ j < i)
    BY <1>7
  <2>2. <<s[i], s[j]>> \in R \/ <<s[j], s[i]>> \in R
    BY <1>3, <2>1
  <2>3. s[i] \in S /\ s[i] # s[j]
    BY <1>3, <2>1, <2>2 DEF IsStrictOrder
  <2> QED
    BY <2>3
<1>10. \A w \in before : \E i \in 1..(k - 1) : f[i] = w
  <2> TAKE w \in before
  <2>1. PICK i \in 1..n : w = s[i]
    BY <1>6
  <2>2. i \in 1..(k - 1)
    BY <1>1, <1>5, <1>7, <2>1
  <2> QED
    BY <2>1, <2>2
<1>11. f \in Surjection(1..(k - 1), before)
  BY <1>8, <1>10 DEF Surjection
<1>12. before \in SUBSET S /\ IsFiniteSet(before)
  BY FS_Subset DEF before, Preceding
<1> HIDE DEF f
<1>13. Cardinality(1..(k - 1)) = Cardinality(before)
  BY <1>9, <1>11, <1>12, FS_Injection
<1>14. Cardinality(1..(k - 1)) = k - 1
  <2>1. Cardinality(1..(k - 1)) = IF 1 > k - 1 THEN 0 ELSE (k - 1) - 1 + 1
    BY <1>7, FS_Interval
  <2> QED
    BY <1>1, <1>3, <2>1
<1> QED
  BY <1>13, <1>14 DEF before

\* So there is one sequence only.
LEMMA OneSequence ==
    ASSUME NEW S, IsFiniteSet(S), NEW R, IsStrictOrder(R, S),
           NEW s \in [1..Cardinality(S) -> S],
           \A i, j \in DOMAIN s : i < j => <<s[i], s[j]>> \in R,
           NEW t \in [1..Cardinality(S) -> S],
           \A i, j \in DOMAIN t : i < j => <<t[i], t[j]>> \in R
    PROVE  s = t
<1> DEFINE n == Cardinality(S)
<1>1. n \in Nat
  BY FS_CardinalityType
<1>2. ASSUME NEW k \in 1..n PROVE Cardinality(Preceding(R, S, s[k])) = k - 1
  BY PlaceOfElement
<1>3. ASSUME NEW k \in 1..n PROVE Cardinality(Preceding(R, S, t[k])) = k - 1
  BY PlaceOfElement
<1>4. ToSet(s) = S
  BY HoldsTheSet
<1> HIDE DEF n
<1>5. s \in [1..n -> S] /\ t \in [1..n -> S]
  BY DEF n
<1>6. ASSUME NEW k \in 1..n PROVE s[k] = t[k]
  <2>1. PICK i \in 1..n : t[k] = s[i]
    BY <1>5, <1>4 DEF ToSet
  <2>2. i - 1 = k - 1
    BY <1>2, <1>3, <2>1
  <2>3. i = k
    BY <1>1, <2>2
  <2> QED
    BY <2>1, <2>3
<1>7. s = [k \in 1..n |-> s[k]] /\ t = [k \in 1..n |-> t[k]]
  BY <1>5
<1> QED
  BY <1>6, <1>7, Zenon

-----------------------------------------------------------------------------
(* The two orders of a retrieval.                                          *)

InputTypeOK ==
    /\ score \in [MemoryIds -> Scores]
    /\ validFrom \in [MemoryIds -> Instants \cup {Null}]
    /\ createdAt \in [MemoryIds -> Instants]
    /\ authority \in [MemoryIds -> DOMAIN Authority]
    /\ tokenBudget \in TokenBudgets

AuthorityRank(m) == Authority[authority[m]]

LEMMA KeyTypes ==
    ASSUME InputTypeOK, NEW m \in MemoryIds
    PROVE  /\ m \in Int /\ score[m] \in Int /\ RecencyTime(m) \in Int
           /\ AuthorityRank(m) \in Int
<1>1. m \in Int /\ score[m] \in Int /\ RecencyTime(m) \in Int
  BY MemoryAssumption DEF InputTypeOK, RecencyTime
<1>2. AuthorityRank(m) \in Int
  BY DEF InputTypeOK, AuthorityRank, Authority
<1> QED
  BY <1>1, <1>2

\* The order of the keys, component by component.
LEMMA BeforeByComponent ==
    ASSUME InputTypeOK, NEW m \in MemoryIds, NEW n \in MemoryIds
    PROVE  Before(m, n) <=>
               \/ score[m] > score[n]
               \/ score[m] = score[n] /\ RecencyTime(m) > RecencyTime(n)
               \/ /\ score[m] = score[n] /\ RecencyTime(m) = RecencyTime(n)
                  /\ AuthorityRank(m) > AuthorityRank(n)
               \/ /\ score[m] = score[n] /\ RecencyTime(m) = RecencyTime(n)
                  /\ AuthorityRank(m) = AuthorityRank(n)
                  /\ m < n
<1>1. /\ m \in Int /\ score[m] \in Int /\ RecencyTime(m) \in Int /\ AuthorityRank(m) \in Int
      /\ n \in Int /\ score[n] \in Int /\ RecencyTime(n) \in Int /\ AuthorityRank(n) \in Int
  BY KeyTypes
<1>2. /\ SortKey(m)[1] = score[m] /\ SortKey(m)[2] = RecencyTime(m)
      /\ SortKey(m)[3] = AuthorityRank(m) /\ SortKey(m)[4] = -m
      /\ SortKey(n)[1] = score[n] /\ SortKey(n)[2] = RecencyTime(n)
      /\ SortKey(n)[3] = AuthorityRank(n) /\ SortKey(n)[4] = -n
  BY DEF SortKey, AuthorityRank
<1> DEFINE k == SortKey(m)
           l == SortKey(n)
           first(i) == k[i] > l[i] /\ \A j \in 1..(i - 1) : k[j] = l[j]
<1> HIDE DEF k, l
<1>3. /\ first(1) <=> k[1] > l[1]
      /\ first(2) <=> k[1] = l[1] /\ k[2] > l[2]
      /\ first(3) <=> k[1] = l[1] /\ k[2] = l[2] /\ k[3] > l[3]
      /\ first(4) <=> k[1] = l[1] /\ k[2] = l[2] /\ k[3] = l[3] /\ k[4] > l[4]
  OBVIOUS
<1> HIDE DEF first
<1>4. Before(m, n) <=> \E i \in 1..4 : first(i)
  BY DEF Before, first, k, l
<1>5. Before(m, n) <=> first(1) \/ first(2) \/ first(3) \/ first(4)
  BY <1>4
<1> QED
  BY <1>1, <1>2, <1>3, <1>5 DEF k, l

Pairs == MemoryIds \X MemoryIds
BeforePairs == {p \in Pairs : Before(p[1], p[2])}
BetterHitPairs == {p \in Pairs : BetterHit(p[1], p[2])}

\* The ranking and the order of the hits are strict orders of the memories.
LEMMA BeforeIsStrict ==
    ASSUME InputTypeOK, NEW S \in SUBSET MemoryIds
    PROVE  /\ IsStrictOrder(BeforePairs, S)
           /\ \A m, n \in S : <<m, n>> \in BeforePairs <=> Before(m, n)
<1>1. \A m, n \in MemoryIds : <<m, n>> \in BeforePairs <=> Before(m, n)
  BY DEF Pairs, BeforePairs
<1>2. \A m \in MemoryIds : ~ Before(m, m)
  BY KeyTypes, BeforeByComponent
<1>3. ASSUME NEW m \in MemoryIds, NEW n \in MemoryIds, NEW o \in MemoryIds,
             Before(m, n), Before(n, o)
      PROVE  Before(m, o)
  <2>1. /\ m \in Int /\ score[m] \in Int /\ RecencyTime(m) \in Int /\ AuthorityRank(m) \in Int
        /\ n \in Int /\ score[n] \in Int /\ RecencyTime(n) \in Int /\ AuthorityRank(n) \in Int
        /\ o \in Int /\ score[o] \in Int /\ RecencyTime(o) \in Int /\ AuthorityRank(o) \in Int
    BY KeyTypes
  <2> QED
    BY <1>3, <2>1, BeforeByComponent
<1>4. \A m, n \in MemoryIds : m # n => Before(m, n) \/ Before(n, m)
  BY KeyTypes, BeforeByComponent
<1> QED
  BY <1>1, <1>2, <1>3, <1>4 DEF IsStrictOrder

LEMMA BetterHitIsStrict ==
    ASSUME InputTypeOK, NEW S \in SUBSET MemoryIds
    PROVE  /\ IsStrictOrder(BetterHitPairs, S)
           /\ \A m, n \in S : <<m, n>> \in BetterHitPairs <=> BetterHit(m, n)
<1>1. \A m, n \in MemoryIds : <<m, n>> \in BetterHitPairs <=> BetterHit(m, n)
  BY DEF Pairs, BetterHitPairs
<1>2. \A m \in MemoryIds : m \in Int /\ score[m] \in Int
  BY KeyTypes
<1>3. /\ \A m \in MemoryIds : ~ BetterHit(m, m)
      /\ \A m, n, o \in MemoryIds : BetterHit(m, n) /\ BetterHit(n, o) => BetterHit(m, o)
      /\ \A m, n \in MemoryIds : m # n => BetterHit(m, n) \/ BetterHit(n, m)
  BY <1>2 DEF BetterHit
<1> QED
  BY <1>1, <1>3 DEF IsStrictOrder

\* rank_candidates returns every candidate once, in the order of its key.
LEMMA RankedInOrder ==
    ASSUME InputTypeOK, NEW S \in SUBSET MemoryIds
    PROVE  LET s == RankCandidates(S)
           IN  /\ s \in Seq(S) /\ Len(s) = Cardinality(S) /\ ToSet(s) = S
               /\ \A i, j \in DOMAIN s : i < j => Before(s[i], s[j])
<1> DEFINE s == RankCandidates(S)
<1>1. IsFiniteSet(S)
  BY MemoryAssumption, FS_Subset
<1>2. PICK r \in [1..Cardinality(S) -> S] :
          \A i, j \in DOMAIN r : i < j => <<r[i], r[j]>> \in BeforePairs
  BY <1>1, BeforeIsStrict, Ranking
<1>3. \A i, j \in DOMAIN r : i < j => Before(r[i], r[j])
  BY <1>2, BeforeIsStrict
<1>4. /\ s \in [1..Cardinality(S) -> S]
      /\ \A i, j \in DOMAIN s : i < j => Before(s[i], s[j])
  BY <1>3 DEF RankCandidates, Sorted
<1> HIDE DEF s
<1>5. \A i, j \in DOMAIN s : i < j => <<s[i], s[j]>> \in BeforePairs
  BY <1>4, BeforeIsStrict
<1> QED
  BY <1>1, <1>4, <1>5, BeforeIsStrict, HoldsTheSet DEF s

\* "Deterministic ordering" (domain/ranking.py): of a set of candidates there is
\* exactly one sequence in the order of the key, whatever order they came in,
\* and the ranking is that one.
THEOREM RankingIsDeterministic ==
    ASSUME InputTypeOK, NEW S \in SUBSET MemoryIds,
           NEW t \in Seq(S), Len(t) = Cardinality(S),
           \A i, j \in DOMAIN t : i < j => Before(t[i], t[j])
    PROVE  t = RankCandidates(S)
<1> DEFINE s == RankCandidates(S)
<1>1. IsFiniteSet(S)
  BY MemoryAssumption, FS_Subset
<1>2. /\ s \in Seq(S) /\ Len(s) = Cardinality(S)
      /\ \A i, j \in DOMAIN s : i < j => Before(s[i], s[j])
  BY RankedInOrder
<1> HIDE DEF s
<1>3. s \in [1..Cardinality(S) -> S] /\ t \in [1..Cardinality(S) -> S]
  BY <1>2
<1>4. /\ \A i, j \in DOMAIN s : i < j => <<s[i], s[j]>> \in BeforePairs
      /\ \A i, j \in DOMAIN t : i < j => <<t[i], t[j]>> \in BeforePairs
  BY <1>2, <1>3, BeforeIsStrict
<1>5. IsStrictOrder(BeforePairs, S)
  BY BeforeIsStrict
<1> QED
  BY <1>1, <1>3, <1>4, <1>5, OneSequence DEF s

\* Likewise the hits of a search, and those below the threshold.
LEMMA HitsInOrder ==
    ASSUME InputTypeOK, NEW S \in SUBSET MemoryIds
    PROVE  LET s == Sorted(S, BetterHit)
           IN  s \in Seq(S) /\ Len(s) = Cardinality(S) /\ ToSet(s) = S
<1> DEFINE s == Sorted(S, BetterHit)
<1>1. IsFiniteSet(S)
  BY MemoryAssumption, FS_Subset
<1>2. PICK r \in [1..Cardinality(S) -> S] :
          \A i, j \in DOMAIN r : i < j => <<r[i], r[j]>> \in BetterHitPairs
  BY <1>1, BetterHitIsStrict, Ranking
<1>3. \A i, j \in DOMAIN r : i < j => BetterHit(r[i], r[j])
  BY <1>2, BetterHitIsStrict
<1>4. /\ s \in [1..Cardinality(S) -> S]
      /\ \A i, j \in DOMAIN s : i < j => BetterHit(s[i], s[j])
  BY <1>3 DEF Sorted
<1> HIDE DEF s
<1>5. \A i, j \in DOMAIN s : i < j => <<s[i], s[j]>> \in BetterHitPairs
  BY <1>4, BetterHitIsStrict
<1> QED
  BY <1>1, <1>4, <1>5, BetterHitIsStrict, HoldsTheSet DEF s

-----------------------------------------------------------------------------
(* The inductive invariant.                                                *)

Reasons == {"below_relevance_threshold", "budget_exceeded"}
Outcomes == {"no_relevant_memory", "budget_excluded", "memories_selected"}
Relevant == {m \in ToSet(hits) : IsRelevant(m)}
OutOfBudget == ExcludedFor("budget_exceeded")

TypeOK ==
    /\ InputTypeOK
    /\ step \in {"search", "select", "fill", "done"}
    /\ hits \in Seq(MemoryIds)
    /\ ranked \in Seq(MemoryIds)
    /\ context \in Seq(MemoryIds)
    /\ tokensUsed \in Nat
    /\ exclusions \in Seq(MemoryIds \X Reasons)
    /\ outcome \in Outcomes \cup {Null}
    /\ counted \in [DOMAIN counted -> Nat]

\* Before the selection there is nothing but the hits.
NothingYet ==
    step \in {"search", "select"} =>
        ranked = <<>> /\ context = <<>> /\ exclusions = <<>> /\ tokensUsed = 0

\* No memory outside the hits scores better than one of them, and there are
\* hits where there are memories.
HitsAreTheBest ==
    step # "search" =>
        /\ Len(hits) = Cardinality(ToSet(hits))
        /\ \A m \in ToSet(hits), n \in MemoryIds \ ToSet(hits) : score[m] >= score[n]
        /\ MemoryIds # {} => ToSet(hits) # {}

\* Each hit is below the threshold, or in the context, or counted and left
\* out, or still waiting, and they add up.
HitsAreDivided ==
    step \in {"fill", "done"} =>
        /\ ExcludedFor("below_relevance_threshold") = ToSet(hits) \ Relevant
        /\ Relevant = ToSet(context) \cup OutOfBudget \cup ToSet(ranked)
        /\ Len(context) + Len(exclusions) + Len(ranked) = Len(hits)

\* The memories that wait are in the order of the ranking, and behind every
\* one that was tried; so is the context.
RankingIsKept ==
    /\ \A i, j \in DOMAIN ranked : i < j => Before(ranked[i], ranked[j])
    /\ \A i, j \in DOMAIN context : i < j => Before(context[i], context[j])
    /\ \A m \in ToSet(context) \cup OutOfBudget, n \in ToSet(ranked) : Before(m, n)

CountIsOfContext ==
    /\ TokensAreExact
    /\ context # <<>> => context \in DOMAIN counted

CountedBehind(m, k) ==
    /\ \A i \in DOMAIN context : i <= k <=> Before(context[i], m)
    /\ Append(SubSeq(context, 1, k), m) \in DOMAIN counted
    /\ counted[Append(SubSeq(context, 1, k), m)] > tokenBudget

ExclusionsWereCounted == \A m \in OutOfBudget : \E k \in 0..Len(context) : CountedBehind(m, k)

OutcomeIsTrue ==
    /\ step = "fill" => Relevant # {}
    /\ step = "done" =>
          /\ ranked = <<>>
          /\ outcome = IF Relevant = {} THEN "no_relevant_memory"
                       ELSE IF context = <<>> THEN "budget_excluded" ELSE "memories_selected"

IInv ==
    /\ TypeOK
    /\ NothingYet
    /\ HitsAreTheBest
    /\ HitsAreDivided
    /\ RankingIsKept
    /\ CountIsOfContext
    /\ ExclusionsWereCounted
    /\ OutcomeIsTrue

-----------------------------------------------------------------------------
(* Sequences.                                                              *)

LEMMA AppendFacts ==
    ASSUME NEW M, NEW s \in Seq(M), NEW x \in M
    PROVE  /\ Append(s, x) \in Seq(M) /\ Len(Append(s, x)) = Len(s) + 1
           /\ DOMAIN Append(s, x) = 1..(Len(s) + 1) /\ DOMAIN s = 1..Len(s) /\ Len(s) \in Nat
           /\ \A i \in DOMAIN s : Append(s, x)[i] = s[i]
           /\ Append(s, x)[Len(s) + 1] = x
           /\ ToSet(Append(s, x)) = ToSet(s) \cup {x}
<1>1. /\ Append(s, x) \in Seq(M) /\ Len(Append(s, x)) = Len(s) + 1
      /\ DOMAIN Append(s, x) = 1..(Len(s) + 1) /\ DOMAIN s = 1..Len(s) /\ Len(s) \in Nat
      /\ \A i \in DOMAIN s : Append(s, x)[i] = s[i]
      /\ Append(s, x)[Len(s) + 1] = x
  OBVIOUS
<1>2. ToSet(Append(s, x)) = ToSet(s) \cup {x}
  BY <1>1 DEF ToSet
<1> QED
  BY <1>1, <1>2

LEMMA HeadTailFacts ==
    ASSUME NEW M, NEW s \in Seq(M), s # <<>>
    PROVE  /\ Head(s) \in M /\ Head(s) = s[1] /\ 1 \in DOMAIN s
           /\ Tail(s) \in Seq(M) /\ Len(Tail(s)) = Len(s) - 1
           /\ DOMAIN Tail(s) = 1..(Len(s) - 1) /\ DOMAIN s = 1..Len(s) /\ Len(s) \in Nat
           /\ \A i \in DOMAIN Tail(s) : i + 1 \in DOMAIN s /\ Tail(s)[i] = s[i + 1]
           /\ ToSet(s) = {Head(s)} \cup ToSet(Tail(s))
<1>1. /\ Head(s) \in M /\ Head(s) = s[1] /\ 1 \in DOMAIN s
      /\ Tail(s) \in Seq(M) /\ Len(Tail(s)) = Len(s) - 1
      /\ DOMAIN Tail(s) = 1..(Len(s) - 1) /\ DOMAIN s = 1..Len(s) /\ Len(s) \in Nat
      /\ \A i \in DOMAIN Tail(s) : i + 1 \in DOMAIN s /\ Tail(s)[i] = s[i + 1]
  OBVIOUS
<1>2. \A i \in DOMAIN s : i = 1 \/ (i - 1 \in DOMAIN Tail(s) /\ s[i] = Tail(s)[i - 1])
  BY <1>1
<1>3. ToSet(s) = {Head(s)} \cup ToSet(Tail(s))
  BY <1>1, <1>2 DEF ToSet
<1> QED
  BY <1>1, <1>3

\* Contexts that end with different memories are different contexts, and a
\* context is not the longer one that was tried.
LEMMA OtherContext ==
    ASSUME NEW M, NEW s \in Seq(M), NEW t \in Seq(M), NEW x \in M, NEW y \in M
    PROVE  /\ Append(s, x) = Append(t, y) => x = y
           /\ Append(s, x) # s
<1>1. /\ Len(Append(s, x)) = Len(s) + 1 /\ Append(s, x)[Len(s) + 1] = x /\ Len(s) \in Nat
      /\ Len(Append(t, y)) = Len(t) + 1 /\ Append(t, y)[Len(t) + 1] = y /\ Len(t) \in Nat
  OBVIOUS
<1> QED
  BY <1>1

\* The first memories of a context do not change when it grows.
LEMMA Prefix ==
    ASSUME NEW M, NEW s \in Seq(M), NEW x \in M, NEW k \in 0..Len(s)
    PROVE  /\ SubSeq(s, 1, k) \in Seq(M)
           /\ SubSeq(Append(s, x), 1, k) = SubSeq(s, 1, k)
           /\ SubSeq(s, 1, Len(s)) = s
<1>1. Len(s) \in Nat /\ k \in Nat
  OBVIOUS
<1>2. SubSeq(s, 1, k) = [i \in 1..k |-> s[i]] /\ SubSeq(s, 1, k) \in Seq(M)
  BY <1>1
<1>3. SubSeq(Append(s, x), 1, k) = [i \in 1..k |-> Append(s, x)[i]]
  BY <1>1
<1>4. \A i \in 1..k : Append(s, x)[i] = s[i]
  BY <1>1
<1>5. SubSeq(s, 1, Len(s)) = s
  BY <1>1
<1> QED
  BY <1>2, <1>3, <1>4, <1>5

-----------------------------------------------------------------------------
(* The steps.                                                              *)

LEMMA InitInvariant == Init => IInv
<1> SUFFICES ASSUME Init PROVE IInv
  OBVIOUS
<1> USE DEF Init
<1>1. TypeOK
  BY DEF TypeOK, InputTypeOK
<1>2. OutOfBudget = {} /\ ToSet(ranked) = {} /\ ToSet(context) = {}
  BY DEF OutOfBudget, ExcludedFor, ToSet
<1>3. RankingIsKept /\ ExclusionsWereCounted
  BY <1>2 DEF RankingIsKept, ExclusionsWereCounted
<1>4. CountIsOfContext
  BY RequestAssumption DEF CountIsOfContext, TokensAreExact
<1> QED
  BY <1>1, <1>3, <1>4 DEF IInv, NothingYet, HitsAreTheBest, HitsAreDivided, OutcomeIsTrue

\* A search returns the best memories, as many as it may, and changes nothing
\* else.
LEMMA SearchKeepsInvariant == IInv /\ Search => IInv'
<1> SUFFICES ASSUME IInv, Search PROVE IInv'
  OBVIOUS
<1>0. PICK limit \in Limits : \E found \in kSubset(NumberOfHits(limit), MemoryIds) :
          /\ \A m \in found, n \in MemoryIds \ found : score[m] >= score[n]
          /\ hits' = Sorted(found, BetterHit)
  BY DEF Search
<1>1. PICK found \in kSubset(NumberOfHits(limit), MemoryIds) :
          /\ \A m \in found, n \in MemoryIds \ found : score[m] >= score[n]
          /\ hits' = Sorted(found, BetterHit)
  BY <1>0
<1>2. found \in SUBSET MemoryIds /\ Cardinality(found) = NumberOfHits(limit)
  BY DEF kSubset
<1>3. InputTypeOK /\ TypeOK
  BY DEF IInv, TypeOK
<1>4. hits' \in Seq(MemoryIds) /\ Len(hits') = Cardinality(found) /\ ToSet(hits') = found
  BY <1>1, <1>2, <1>3, HitsInOrder
<1>5. MemoryIds # {} => found # {}
  <2>1. Cardinality(MemoryIds) \in Nat /\ (Cardinality(MemoryIds) = 0 <=> MemoryIds = {})
    BY MemoryAssumption, FS_CardinalityType, FS_EmptySet
  <2>2. limit \in Nat /\ limit # 0
    BY RequestAssumption
  <2>3. MemoryIds # {} => Cardinality(found) # 0
    BY <1>2, <2>1, <2>2 DEF NumberOfHits
  <2> QED
    BY <2>3, FS_EmptySet
<1>6. step = "search" /\ step' = "select" /\ UNCHANGED <<inputs, ranked, context, tokensUsed,
                                                         exclusions, outcome, counted>>
  BY DEF Search
<1>7. ranked = <<>> /\ context = <<>> /\ exclusions = <<>> /\ tokensUsed = 0
  BY <1>6 DEF IInv, NothingYet
<1>8. TypeOK'
  BY <1>3, <1>4, <1>6 DEF TypeOK, InputTypeOK, inputs
<1>9. HitsAreTheBest'
  BY <1>1, <1>4, <1>5, <1>6 DEF HitsAreTheBest, inputs
<1>10. OutOfBudget' = {} /\ ToSet(ranked') = {} /\ ToSet(context') = {}
  BY <1>6, <1>7 DEF OutOfBudget, ExcludedFor, ToSet
<1>11. RankingIsKept' /\ ExclusionsWereCounted'
  BY <1>6, <1>7, <1>10 DEF RankingIsKept, ExclusionsWereCounted
<1>12. CountIsOfContext' /\ NothingYet'
  BY <1>3, <1>6, <1>7, RequestAssumption
  DEF inputs, InputTypeOK, CountIsOfContext, TokensAreExact, NothingYet
<1> QED
  BY <1>6, <1>8, <1>9, <1>11, <1>12 DEF IInv, HitsAreDivided, OutcomeIsTrue

\* What an exclusion list says of each reason.
LEMMA ExcludedFacts ==
    ASSUME NEW s \in Seq(MemoryIds), NEW reason \in Reasons
    PROVE  /\ Excluded(s, reason) \in Seq(MemoryIds \X Reasons)
           /\ Len(Excluded(s, reason)) = Len(s)
           /\ \A r, m : <<m, r>> \in ToSet(Excluded(s, reason)) <=> r = reason /\ m \in ToSet(s)
<1> DEFINE e == Excluded(s, reason)
<1>1. DOMAIN s = 1..Len(s) /\ Len(s) \in Nat /\ \A i \in DOMAIN s : s[i] \in MemoryIds
  OBVIOUS
<1>2. e = [i \in 1..Len(s) |-> <<s[i], reason>>]
  BY <1>1 DEF Excluded
<1>3. e \in Seq(MemoryIds \X Reasons) /\ Len(e) = Len(s) /\ DOMAIN e = 1..Len(s)
  BY <1>1, <1>2
<1>4. \A i \in DOMAIN s : e[i] = <<s[i], reason>>
  BY <1>1, <1>2
<1> HIDE DEF e
<1>5. \A r, m : <<m, r>> \in ToSet(e) <=> r = reason /\ m \in ToSet(s)
  BY <1>1, <1>3, <1>4 DEF ToSet
<1> QED
  BY <1>3, <1>5 DEF e

\* The relevant hits are ranked, the others excluded, each once.
LEMMA SelectRelevantKeepsInvariant == IInv /\ SelectRelevant => IInv'
<1> SUFFICES ASSUME IInv, SelectRelevant PROVE IInv'
  OBVIOUS
<1> DEFINE below == Sorted(ToSet(hits) \ Relevant, BetterHit)
<1>1. /\ step = "select"
      /\ ranked' = RankCandidates(Relevant)
      /\ exclusions' = Excluded(below, "below_relevance_threshold")
      /\ IF Relevant = {} THEN step' = "done" /\ outcome' = "no_relevant_memory"
                          ELSE step' = "fill" /\ UNCHANGED outcome
      /\ UNCHANGED <<inputs, hits, context, tokensUsed, counted>>
  BY DEF SelectRelevant, Relevant
<1>2. TypeOK /\ InputTypeOK
  BY DEF IInv, TypeOK
<1>3. ToSet(hits) \in SUBSET MemoryIds /\ Relevant \in SUBSET ToSet(hits)
  <2>1. DOMAIN hits = 1..Len(hits) /\ \A i \in DOMAIN hits : hits[i] \in MemoryIds
    BY <1>2 DEF TypeOK
  <2> QED
    BY <2>1 DEF ToSet, Relevant
<1>4. /\ ranked' \in Seq(MemoryIds) /\ Len(ranked') = Cardinality(Relevant)
      /\ ToSet(ranked') = Relevant
      /\ \A i, j \in DOMAIN ranked' : i < j => Before(ranked'[i], ranked'[j])
  BY <1>1, <1>2, <1>3, RankedInOrder
<1>5. /\ below \in Seq(MemoryIds) /\ Len(below) = Cardinality(ToSet(hits) \ Relevant)
      /\ ToSet(below) = ToSet(hits) \ Relevant
  BY <1>2, <1>3, HitsInOrder
<1> HIDE DEF below
<1>6. /\ exclusions' \in Seq(MemoryIds \X Reasons) /\ Len(exclusions') = Len(below)
      /\ \A r, m : <<m, r>> \in ToSet(exclusions') <=>
                       r = "below_relevance_threshold" /\ m \in ToSet(below)
  BY <1>1, <1>5, ExcludedFacts DEF Reasons
<1>7. /\ context = <<>> /\ context' = <<>> /\ tokensUsed = 0 /\ tokensUsed' = 0
      /\ ToSet(context') = {}
  BY <1>1 DEF IInv, NothingYet, ToSet
<1>8. /\ ExcludedFor("below_relevance_threshold")' = ToSet(hits) \ Relevant
      /\ OutOfBudget' = {}
  BY <1>3, <1>5, <1>6 DEF OutOfBudget, ExcludedFor
<1>9. Relevant' = Relevant /\ ToSet(hits') = ToSet(hits)
  BY <1>1 DEF Relevant, IsRelevant, inputs
<1>10. /\ Len(hits) = Cardinality(ToSet(hits))
       /\ HitsAreTheBest
  BY <1>1 DEF IInv, HitsAreTheBest
<1>11. Cardinality(Relevant) + Cardinality(ToSet(hits) \ Relevant) = Cardinality(ToSet(hits))
  <2>1. IsFiniteSet(ToSet(hits)) /\ IsFiniteSet(Relevant)
    BY <1>3, MemoryAssumption, FS_Subset
  <2>2. Cardinality(ToSet(hits) \ Relevant)
            = Cardinality(ToSet(hits)) - Cardinality(ToSet(hits) \cap Relevant)
    BY <2>1, FS_Difference
  <2>3. ToSet(hits) \cap Relevant = Relevant
    BY <1>3
  <2>4. Cardinality(ToSet(hits)) \in Nat /\ Cardinality(Relevant) \in Nat
    BY <2>1, FS_CardinalityType
  <2> QED
    BY <2>2, <2>3, <2>4
<1>12. HitsAreDivided'
  <2>1. Len(context') = 0
    BY <1>7
  <2>2. Len(context') + Len(exclusions') + Len(ranked') = Len(hits')
    <3>1. Cardinality(Relevant) \in Nat /\ Cardinality(ToSet(hits) \ Relevant) \in Nat
      BY <1>3, MemoryAssumption, FS_Subset, FS_CardinalityType
    <3> QED
      BY <1>1, <1>4, <1>5, <1>6, <1>10, <1>11, <2>1, <3>1
  <2> QED
    BY <1>4, <1>7, <1>8, <1>9, <2>2 DEF HitsAreDivided
<1>13. RankingIsKept'
  <2>1. (\A i, j \in DOMAIN ranked : i < j => Before(ranked[i], ranked[j]))'
    BY <1>1, <1>4 DEF inputs, Before, SortKey, RecencyTime
  <2>2. (\A i, j \in DOMAIN context : i < j => Before(context[i], context[j]))'
    BY <1>7
  <2>3. (\A m \in ToSet(context) \cup OutOfBudget, n \in ToSet(ranked) : Before(m, n))'
    BY <1>7, <1>8
  <2> QED
    BY <2>1, <2>2, <2>3 DEF RankingIsKept
<1>14. TypeOK'
  <2>1. outcome' \in Outcomes \cup {Null} /\ step' \in {"search", "select", "fill", "done"}
    BY <1>1, <1>2 DEF TypeOK, Outcomes
  <2> QED
    BY <1>1, <1>2, <1>4, <1>6, <2>1 DEF TypeOK, InputTypeOK, inputs
<1>15. NothingYet' /\ HitsAreTheBest'
  BY <1>1, <1>9, <1>10 DEF NothingYet, HitsAreTheBest, inputs
<1>16. CountIsOfContext'
  BY <1>1, <1>2, <1>7, RequestAssumption DEF inputs, InputTypeOK, CountIsOfContext, TokensAreExact
<1>17. ExclusionsWereCounted'
  BY <1>8 DEF ExclusionsWereCounted
<1>18. OutcomeIsTrue'
  <2>1. CASE Relevant = {}
    <3>1. ranked' = <<>>
      <4>1. Len(ranked') = 0
        BY <1>4, <2>1, FS_EmptySet
      <4> QED
        BY <1>4, <4>1
    <3> QED
      BY <1>1, <1>9, <2>1, <3>1 DEF OutcomeIsTrue
  <2>2. CASE Relevant # {}
    BY <1>1, <1>9, <2>2 DEF OutcomeIsTrue
  <2> QED
    BY <2>1, <2>2
<1> QED
  BY <1>12, <1>13, <1>14, <1>15, <1>16, <1>17, <1>18 DEF IInv

\* What a turn of the loop does, whether the block fits or not.
LEMMA TurnOfTheLoop ==
    ASSUME IInv, IncludeOrExclude
    PROVE  LET h == Head(ranked)
               prospective == Append(context, h)
           IN  /\ step = "fill" /\ step' = "fill" /\ outcome' = outcome
               /\ UNCHANGED <<inputs, hits>>
               /\ h \in MemoryIds /\ h \in ToSet(ranked) /\ h \in Relevant
               /\ ranked' = Tail(ranked) /\ ranked' \in Seq(MemoryIds)
               /\ ToSet(ranked) = {h} \cup ToSet(ranked')
               /\ Len(ranked') = Len(ranked) - 1
               /\ \A i \in DOMAIN ranked' : i + 1 \in DOMAIN ranked /\ ranked'[i] = ranked[i + 1]
               /\ \A n \in ToSet(ranked') : n \in MemoryIds /\ Before(h, n)
               /\ prospective \in Seq(MemoryIds)
               /\ DOMAIN counted' = DOMAIN counted \cup {prospective}
               /\ counted' \in [DOMAIN counted' -> Nat]
               /\ \A c \in DOMAIN counted : c # prospective => counted'[c] = counted[c]
               /\ \/ /\ counted'[prospective] <= tokenBudget
                     /\ context' = prospective /\ tokensUsed' = counted'[prospective]
                     /\ exclusions' = exclusions
                  \/ /\ counted'[prospective] > tokenBudget
                     /\ exclusions' = Append(exclusions, <<h, "budget_exceeded">>)
                     /\ UNCHANGED <<context, tokensUsed>>
<1> DEFINE h == Head(ranked)
           prospective == Append(context, h)
<1>1. step = "fill" /\ ranked # <<>> /\ UNCHANGED <<inputs, step, hits, outcome>>
  BY DEF IncludeOrExclude
<1>2. PICK tokens \in Counts :
          /\ counted' = [c \in DOMAIN counted \cup {prospective} |->
                            IF c = prospective THEN tokens ELSE counted[c]]
          /\ IF Fits(tokens) THEN Include(prospective, tokens) ELSE Exclude(tokens)
  BY DEF IncludeOrExclude
<1>3. TypeOK /\ RankingIsKept /\ HitsAreDivided
  BY DEF IInv
<1>4. ranked \in Seq(MemoryIds) /\ context \in Seq(MemoryIds) /\ counted \in [DOMAIN counted -> Nat]
  BY <1>3 DEF TypeOK
<1>5. /\ h \in MemoryIds /\ h = ranked[1] /\ 1 \in DOMAIN ranked
      /\ Tail(ranked) \in Seq(MemoryIds) /\ Len(Tail(ranked)) = Len(ranked) - 1
      /\ DOMAIN Tail(ranked) = 1..(Len(ranked) - 1) /\ Len(ranked) \in Nat
      /\ \A i \in DOMAIN Tail(ranked) :
            i + 1 \in DOMAIN ranked /\ Tail(ranked)[i] = ranked[i + 1]
      /\ ToSet(ranked) = {h} \cup ToSet(Tail(ranked))
  BY <1>1, <1>4, HeadTailFacts
<1>6. prospective \in Seq(MemoryIds)
  BY <1>4, <1>5
<1>7. tokens \in Nat /\ tokenBudget \in Nat
  BY <1>3, MemoryAssumption, RequestAssumption DEF TypeOK, InputTypeOK
<1> HIDE DEF prospective
<1>8. /\ DOMAIN counted' = DOMAIN counted \cup {prospective}
      /\ counted' \in [DOMAIN counted' -> Nat]
      /\ \A c \in DOMAIN counted : c # prospective => counted'[c] = counted[c]
      /\ counted'[prospective] = tokens
  BY <1>2, <1>4, <1>7
<1>9. /\ ranked' = Tail(ranked)
      /\ \/ /\ tokens <= tokenBudget
            /\ context' = prospective /\ tokensUsed' = tokens /\ exclusions' = exclusions
         \/ /\ tokens > tokenBudget
            /\ exclusions' = Append(exclusions, <<h, "budget_exceeded">>)
            /\ UNCHANGED <<context, tokensUsed>>
  BY <1>2, <1>7 DEF Fits, Include, Exclude
<1>10. h \in Relevant
  BY <1>1, <1>3, <1>5 DEF HitsAreDivided
<1>11. \A n \in ToSet(Tail(ranked)) : n \in MemoryIds /\ Before(h, n)
  <2> TAKE n \in ToSet(Tail(ranked))
  <2>1. PICK i \in DOMAIN Tail(ranked) : n = Tail(ranked)[i]
    BY DEF ToSet
  <2>2. i + 1 \in DOMAIN ranked /\ n = ranked[i + 1] /\ 1 < i + 1
    BY <1>5, <2>1
  <2>3. Before(ranked[1], ranked[i + 1])
    BY <1>3, <1>5, <2>2 DEF RankingIsKept
  <2>4. n \in MemoryIds
    BY <1>4, <2>2
  <2> QED
    BY <1>5, <2>2, <2>3, <2>4
<1> HIDE DEF h
<1> QED
  BY <1>1, <1>5, <1>6, <1>8, <1>9, <1>10, <1>11 DEF prospective, h

\* The order of two memories does not change, for their keys do not.
LEMMA RankingStays ==
    ASSUME UNCHANGED inputs,
           \A i, j \in DOMAIN ranked' : i < j => Before(ranked'[i], ranked'[j]),
           \A i, j \in DOMAIN context' : i < j => Before(context'[i], context'[j]),
           \A m \in ToSet(context') \cup OutOfBudget', n \in ToSet(ranked') : Before(m, n)
    PROVE  RankingIsKept'
BY DEF RankingIsKept, Before, SortKey, RecencyTime, inputs

LEMMA CountedStays ==
    ASSUME UNCHANGED inputs, NEW m, NEW k,
           \A i \in DOMAIN context' : i <= k <=> Before(context'[i], m),
           Append(SubSeq(context', 1, k), m) \in DOMAIN counted',
           counted'[Append(SubSeq(context', 1, k), m)] > tokenBudget
    PROVE  CountedBehind(m, k)'
BY DEF CountedBehind, Before, SortKey, RecencyTime, inputs

\* What both outcomes of a turn have in common: the memory that was tried is
\* behind all that were, and before all that wait.
LEMMA TriedInOrder ==
    ASSUME IInv, IncludeOrExclude
    PROVE  LET h == Head(ranked)
               tried == ToSet(context) \cup OutOfBudget
           IN  /\ tried \in SUBSET MemoryIds /\ h \notin tried
               /\ \A m \in tried : Before(m, h) /\ ~ Before(h, m)
               /\ \A m \in tried \cup {h}, n \in ToSet(ranked') : Before(m, n)
               /\ \A i, j \in DOMAIN ranked' : i < j => Before(ranked'[i], ranked'[j])
<1> DEFINE h == Head(ranked)
           tried == ToSet(context) \cup OutOfBudget
<1>1. /\ h \in MemoryIds /\ h \in ToSet(ranked) /\ ToSet(ranked) = {h} \cup ToSet(ranked')
      /\ ranked' \in Seq(MemoryIds)
      /\ \A i \in DOMAIN ranked' : i + 1 \in DOMAIN ranked /\ ranked'[i] = ranked[i + 1]
      /\ \A n \in ToSet(ranked') : n \in MemoryIds /\ Before(h, n)
  BY TurnOfTheLoop
<1> HIDE DEF h
<1>2. TypeOK /\ InputTypeOK /\ RankingIsKept
  BY DEF IInv, TypeOK
<1>3. tried \in SUBSET MemoryIds
  <2>1. DOMAIN context = 1..Len(context) /\ \A i \in DOMAIN context : context[i] \in MemoryIds
    BY <1>2 DEF TypeOK
  <2> QED
    BY <2>1 DEF ToSet, OutOfBudget, ExcludedFor
<1>4. \A m \in tried, n \in ToSet(ranked) : Before(m, n)
  BY <1>2 DEF RankingIsKept
<1> HIDE DEF tried
<1>5. \A m \in tried : Before(m, h) /\ ~ Before(h, m)
  <2> TAKE m \in tried
  <2>1. m \in MemoryIds /\ Before(m, h)
    BY <1>1, <1>3, <1>4
  <2> QED
    BY <1>1, <1>2, <2>1, BeforeByComponent, KeyTypes
<1>6. h \notin tried
  BY <1>5
<1>7. \A i, j \in DOMAIN ranked' : i < j => Before(ranked'[i], ranked'[j])
  <2>1. \A i, j \in DOMAIN ranked : i < j => Before(ranked[i], ranked[j])
    BY <1>2 DEF RankingIsKept
  <2> QED
    BY <1>1, <2>1
<1> QED
  BY <1>1, <1>3, <1>4, <1>5, <1>6, <1>7 DEF h, tried

\* A block that fits goes behind the context, and the memories left out stay
\* counted behind the same better ones.
LEMMA IncludedKeepsInvariant ==
    ASSUME IInv, IncludeOrExclude, exclusions' = exclusions,
           context' = Append(context, Head(ranked)),
           tokensUsed' = counted'[context'], counted'[context'] <= tokenBudget
    PROVE  IInv'
<1> DEFINE h == Head(ranked)
           tried == ToSet(context) \cup OutOfBudget
<1>1. /\ step = "fill" /\ step' = "fill" /\ outcome' = outcome
      /\ UNCHANGED <<inputs, hits>>
      /\ h \in MemoryIds /\ h \in Relevant
      /\ ranked' \in Seq(MemoryIds) /\ ToSet(ranked) = {h} \cup ToSet(ranked')
      /\ Len(ranked') = Len(ranked) - 1
      /\ DOMAIN counted' = DOMAIN counted \cup {context'}
      /\ counted' \in [DOMAIN counted' -> Nat]
      /\ \A c \in DOMAIN counted : c # context' => counted'[c] = counted[c]
  BY TurnOfTheLoop
<1>2. /\ tried \in SUBSET MemoryIds /\ h \notin tried
      /\ \A m \in tried : Before(m, h) /\ ~ Before(h, m)
      /\ \A m \in tried \cup {h}, n \in ToSet(ranked') : Before(m, n)
      /\ \A i, j \in DOMAIN ranked' : i < j => Before(ranked'[i], ranked'[j])
  BY TriedInOrder
<1> HIDE DEF h
<1>3. context' = Append(context, h)
  BY DEF h
<1>4. TypeOK /\ NothingYet /\ HitsAreTheBest /\ HitsAreDivided /\ RankingIsKept
      /\ ExclusionsWereCounted /\ OutcomeIsTrue
  BY DEF IInv
<1>5. context \in Seq(MemoryIds) /\ exclusions \in Seq(MemoryIds \X Reasons)
      /\ ranked \in Seq(MemoryIds) /\ hits \in Seq(MemoryIds)
  BY <1>4 DEF TypeOK
<1>6. /\ context' \in Seq(MemoryIds) /\ Len(context') = Len(context) + 1
      /\ DOMAIN context' = 1..(Len(context) + 1) /\ DOMAIN context = 1..Len(context)
      /\ Len(context) \in Nat
      /\ \A i \in DOMAIN context : context'[i] = context[i]
      /\ context'[Len(context) + 1] = h
      /\ ToSet(context') = ToSet(context) \cup {h}
  BY <1>1, <1>3, <1>5, AppendFacts
<1>7. /\ OutOfBudget' = OutOfBudget
      /\ ExcludedFor("below_relevance_threshold")' = ExcludedFor("below_relevance_threshold")
  BY DEF OutOfBudget, ExcludedFor
<1>8. Relevant' = Relevant /\ ToSet(hits') = ToSet(hits)
  BY <1>1 DEF Relevant, IsRelevant, inputs
<1>9. TypeOK'
  <2>1. tokensUsed' \in Nat
    BY <1>1
  <2> QED
    BY <1>1, <1>4, <1>6, <2>1 DEF TypeOK, InputTypeOK, inputs
<1>10. NothingYet' /\ HitsAreTheBest'
  BY <1>1, <1>4, <1>8 DEF NothingYet, HitsAreTheBest, inputs
<1>11. HitsAreDivided'
  <2>1. Len(context') + Len(exclusions') + Len(ranked') = Len(hits')
    <3>1. Len(context) + Len(exclusions) + Len(ranked) = Len(hits)
      BY <1>1, <1>4 DEF HitsAreDivided
    <3>2. Len(exclusions) \in Nat /\ Len(ranked) \in Nat /\ Len(hits) \in Nat
      BY <1>5
    <3>3. exclusions' = exclusions /\ hits' = hits /\ Len(ranked') = Len(ranked) - 1
      BY <1>1
    <3>4. Len(context') = Len(context) + 1 /\ Len(context) \in Nat
      BY <1>6
    <3> QED
      BY <3>1, <3>2, <3>3, <3>4
  <2> QED
    BY <1>1, <1>4, <1>6, <1>7, <1>8, <2>1 DEF HitsAreDivided
<1>12. RankingIsKept'
  <2>1. \A i, j \in DOMAIN context' : i < j => Before(context'[i], context'[j])
    <3> TAKE i, j \in DOMAIN context'
    <3> HAVE i < j
    <3>1. i \in DOMAIN context /\ context'[i] = context[i] /\ context[i] \in tried
      BY <1>6 DEF ToSet
    <3>2. CASE j \in DOMAIN context
      BY <1>4, <1>6, <3>1, <3>2 DEF RankingIsKept
    <3>3. CASE j = Len(context) + 1
      BY <1>2, <1>6, <3>1, <3>3
    <3> QED
      BY <1>6, <3>2, <3>3
  <2>2. \A m \in ToSet(context') \cup OutOfBudget', n \in ToSet(ranked') : Before(m, n)
    BY <1>2, <1>6, <1>7
  <2> QED
    BY <1>1, <1>2, <2>1, <2>2, RankingStays
<1>13. CountIsOfContext'
  <2>1. context' # <<>>
    BY <1>6
  <2> QED
    BY <1>1, <2>1 DEF inputs, CountIsOfContext, TokensAreExact
<1>14. ExclusionsWereCounted'
  <2> SUFFICES ASSUME NEW m \in OutOfBudget
               PROVE  \E k \in 0..Len(context') : CountedBehind(m, k)'
    BY <1>7 DEF ExclusionsWereCounted
  <2>1. PICK k \in 0..Len(context) : CountedBehind(m, k)
    BY <1>4 DEF ExclusionsWereCounted
  <2>2. m \in MemoryIds /\ m # h /\ m \in tried
    BY <1>2
  <2>3. /\ SubSeq(context, 1, k) \in Seq(MemoryIds)
        /\ SubSeq(context', 1, k) = SubSeq(context, 1, k)
    BY <1>1, <1>3, <1>5, Prefix
  <2>4. Append(SubSeq(context, 1, k), m) # context'
    BY <1>1, <1>3, <1>5, <2>2, <2>3, OtherContext
  <2>5. \A i \in DOMAIN context' : i <= k <=> Before(context'[i], m)
    <3> TAKE i \in DOMAIN context'
    <3>1. CASE i \in DOMAIN context
      BY <1>6, <2>1, <3>1 DEF CountedBehind
    <3>2. CASE i = Len(context) + 1
      <4>1. ~ (i <= k) /\ ~ Before(h, m)
        BY <1>2, <1>6, <2>2, <3>2
      <4> QED
        BY <1>6, <3>2, <4>1
    <3> QED
      BY <1>6, <3>1, <3>2
  <2>6. /\ Append(SubSeq(context', 1, k), m) \in DOMAIN counted'
        /\ counted'[Append(SubSeq(context', 1, k), m)] > tokenBudget
    BY <1>1, <2>1, <2>3, <2>4 DEF CountedBehind
  <2>7. k \in 0..Len(context')
    BY <1>6
  <2> QED
    BY <1>1, <2>5, <2>6, <2>7, CountedStays
<1>15. OutcomeIsTrue'
  BY <1>1, <1>4, <1>8 DEF OutcomeIsTrue
<1> QED
  BY <1>9, <1>10, <1>11, <1>12, <1>13, <1>14, <1>15 DEF IInv

\* A block that does not fit is left out behind the whole context so far.
LEMMA LeftOutKeepsInvariant ==
    ASSUME IInv, IncludeOrExclude, UNCHANGED <<context, tokensUsed>>,
           exclusions' = Append(exclusions, <<Head(ranked), "budget_exceeded">>),
           counted'[Append(context, Head(ranked))] > tokenBudget
    PROVE  IInv'
<1> DEFINE h == Head(ranked)
           tried == ToSet(context) \cup OutOfBudget
           prospective == Append(context, h)
<1>1. /\ step = "fill" /\ step' = "fill" /\ outcome' = outcome
      /\ UNCHANGED <<inputs, hits>>
      /\ h \in MemoryIds /\ h \in Relevant
      /\ ranked' \in Seq(MemoryIds) /\ ToSet(ranked) = {h} \cup ToSet(ranked')
      /\ Len(ranked') = Len(ranked) - 1
      /\ DOMAIN counted' = DOMAIN counted \cup {prospective}
      /\ counted' \in [DOMAIN counted' -> Nat]
      /\ \A c \in DOMAIN counted : c # prospective => counted'[c] = counted[c]
  BY TurnOfTheLoop
<1>2. /\ tried \in SUBSET MemoryIds /\ h \notin tried
      /\ \A m \in tried : Before(m, h) /\ ~ Before(h, m)
      /\ \A m \in tried \cup {h}, n \in ToSet(ranked') : Before(m, n)
      /\ \A i, j \in DOMAIN ranked' : i < j => Before(ranked'[i], ranked'[j])
  BY TriedInOrder
<1>3. counted'[prospective] > tokenBudget
  OBVIOUS
<1> HIDE DEF h
<1>4. /\ TypeOK /\ NothingYet /\ HitsAreTheBest /\ HitsAreDivided /\ RankingIsKept
      /\ CountIsOfContext /\ ExclusionsWereCounted /\ OutcomeIsTrue
  BY DEF IInv
<1>5. /\ context \in Seq(MemoryIds) /\ exclusions \in Seq(MemoryIds \X Reasons)
      /\ ranked \in Seq(MemoryIds) /\ hits \in Seq(MemoryIds)
      /\ context' = context /\ tokensUsed' = tokensUsed
  BY <1>4 DEF TypeOK
<1>6. /\ exclusions' \in Seq(MemoryIds \X Reasons) /\ Len(exclusions') = Len(exclusions) + 1
      /\ Len(exclusions) \in Nat
      /\ ToSet(exclusions') = ToSet(exclusions) \cup {<<h, "budget_exceeded">>}
  <2> DEFINE x == <<h, "budget_exceeded">>
  <2>1. x \in MemoryIds \X Reasons /\ exclusions' = Append(exclusions, x)
    BY <1>1 DEF Reasons, h
  <2> HIDE DEF x
  <2> DEFINE entries == MemoryIds \X Reasons
  <2>2. exclusions \in Seq(entries) /\ x \in entries
    BY <1>5, <2>1
  <2> HIDE DEF entries
  <2>3. /\ Append(exclusions, x) \in Seq(entries)
        /\ Len(Append(exclusions, x)) = Len(exclusions) + 1 /\ Len(exclusions) \in Nat
        /\ ToSet(Append(exclusions, x)) = ToSet(exclusions) \cup {x}
    BY <2>2, AppendFacts
  <2>4. /\ exclusions' \in Seq(MemoryIds \X Reasons) /\ Len(exclusions') = Len(exclusions) + 1
        /\ Len(exclusions) \in Nat
        /\ ToSet(exclusions') = ToSet(exclusions) \cup {x}
    BY <2>1, <2>3 DEF entries
  <2> QED
    BY <2>4 DEF x
<1>7. /\ OutOfBudget' = OutOfBudget \cup {h}
      /\ ExcludedFor("below_relevance_threshold")' = ExcludedFor("below_relevance_threshold")
  BY <1>1, <1>6 DEF OutOfBudget, ExcludedFor
<1>8. Relevant' = Relevant /\ ToSet(hits') = ToSet(hits)
  BY <1>1 DEF Relevant, IsRelevant, inputs
<1>9. TypeOK'
  BY <1>1, <1>4, <1>5, <1>6 DEF TypeOK, InputTypeOK, inputs
<1>10. NothingYet' /\ HitsAreTheBest'
  BY <1>1, <1>4, <1>8 DEF NothingYet, HitsAreTheBest, inputs
<1>11. HitsAreDivided'
  <2>1. Len(context') + Len(exclusions') + Len(ranked') = Len(hits')
    <3>1. Len(context) + Len(exclusions) + Len(ranked) = Len(hits)
      BY <1>1, <1>4 DEF HitsAreDivided
    <3>2. Len(context) \in Nat /\ Len(ranked) \in Nat /\ Len(hits) \in Nat
      BY <1>5
    <3> QED
      BY <1>1, <1>5, <1>6, <3>1, <3>2
  <2> QED
    BY <1>1, <1>4, <1>5, <1>7, <1>8, <2>1 DEF HitsAreDivided
<1>12. RankingIsKept'
  <2>1. \A i, j \in DOMAIN context' : i < j => Before(context'[i], context'[j])
    BY <1>4, <1>5 DEF RankingIsKept
  <2>2. \A m \in ToSet(context') \cup OutOfBudget', n \in ToSet(ranked') : Before(m, n)
    BY <1>2, <1>5, <1>7
  <2> QED
    BY <1>1, <1>2, <2>1, <2>2, RankingStays
<1>13. CountIsOfContext'
  <2>1. prospective # context
    BY <1>1, <1>5, OtherContext
  <2> HIDE DEF prospective
  <2> QED
    BY <1>1, <1>4, <1>5, <2>1 DEF inputs, CountIsOfContext, TokensAreExact
<1>14. ExclusionsWereCounted'
  <2> SUFFICES ASSUME NEW m \in OutOfBudget \cup {h}
               PROVE  \E k \in 0..Len(context') : CountedBehind(m, k)'
    BY <1>7 DEF ExclusionsWereCounted
  <2>1. DOMAIN context = 1..Len(context) /\ Len(context) \in Nat
    BY <1>5
  <2>2. CASE m = h
    <3> DEFINE k == Len(context)
    <3>1. \A i \in DOMAIN context' : i <= k <=> Before(context'[i], m)
      BY <1>2, <1>5, <2>1, <2>2 DEF ToSet
    <3>2. SubSeq(context', 1, k) = context
      BY <1>1, <1>5, <2>1, Prefix
    <3>3. /\ Append(SubSeq(context', 1, k), m) \in DOMAIN counted'
          /\ counted'[Append(SubSeq(context', 1, k), m)] > tokenBudget
      BY <1>1, <1>3, <2>2, <3>2
    <3>4. CountedBehind(m, k)'
      BY <1>1, <3>1, <3>3, CountedStays
    <3> QED
      BY <1>5, <2>1, <3>4
  <2>3. CASE m \in OutOfBudget
    <3>1. PICK k \in 0..Len(context) : CountedBehind(m, k)
      BY <1>4, <2>3 DEF ExclusionsWereCounted
    <3>2. m \in MemoryIds /\ m # h
      BY <1>2, <2>3
    <3>3. SubSeq(context, 1, k) \in Seq(MemoryIds)
      BY <1>1, <1>5, Prefix
    <3>4. Append(SubSeq(context, 1, k), m) # prospective
      BY <1>1, <1>5, <3>2, <3>3, OtherContext
    <3>5. \A i \in DOMAIN context' : i <= k <=> Before(context'[i], m)
      BY <1>5, <3>1 DEF CountedBehind
    <3> HIDE DEF prospective
    <3>6. /\ Append(SubSeq(context', 1, k), m) \in DOMAIN counted'
          /\ counted'[Append(SubSeq(context', 1, k), m)] > tokenBudget
      BY <1>1, <1>5, <3>1, <3>4 DEF CountedBehind
    <3>7. CountedBehind(m, k)'
      BY <1>1, <3>5, <3>6, CountedStays
    <3> QED
      BY <1>5, <3>7
  <2> QED
    BY <2>2, <2>3
<1>15. OutcomeIsTrue'
  BY <1>1, <1>4, <1>8 DEF OutcomeIsTrue
<1> QED
  BY <1>9, <1>10, <1>11, <1>12, <1>13, <1>14, <1>15 DEF IInv

\* The loop ends when nothing waits, and the outcome tells what it left.
LEMMA FinishKeepsInvariant == IInv /\ Finish => IInv'
<1> SUFFICES ASSUME IInv, Finish PROVE IInv'
  OBVIOUS
<1>1. /\ step = "fill" /\ ranked = <<>> /\ step' = "done"
      /\ outcome' = IF context = <<>> THEN "budget_excluded" ELSE "memories_selected"
      /\ UNCHANGED <<inputs, hits, ranked, context, tokensUsed, exclusions, counted>>
  BY DEF Finish
<1>2. /\ TypeOK /\ HitsAreTheBest /\ HitsAreDivided /\ RankingIsKept
      /\ CountIsOfContext /\ ExclusionsWereCounted /\ OutcomeIsTrue
  BY DEF IInv
<1>3. /\ Relevant' = Relevant /\ OutOfBudget' = OutOfBudget
      /\ ExcludedFor("below_relevance_threshold")' = ExcludedFor("below_relevance_threshold")
  BY <1>1 DEF Relevant, IsRelevant, OutOfBudget, ExcludedFor, inputs
<1>4. TypeOK' /\ NothingYet'
  BY <1>1, <1>2 DEF TypeOK, NothingYet, InputTypeOK, Outcomes, inputs
<1>5. HitsAreTheBest' /\ HitsAreDivided'
  BY <1>1, <1>2, <1>3 DEF HitsAreTheBest, HitsAreDivided, inputs
<1>6. RankingIsKept'
  BY <1>1, <1>2, <1>3, RankingStays DEF RankingIsKept
<1>7. CountIsOfContext' /\ OutcomeIsTrue'
  BY <1>1, <1>2, <1>3 DEF inputs, CountIsOfContext, TokensAreExact, OutcomeIsTrue
<1>8. ExclusionsWereCounted'
  BY <1>1, <1>2, <1>3 DEF ExclusionsWereCounted, CountedBehind, Before, SortKey, RecencyTime,
                          inputs
<1> QED
  BY <1>4, <1>5, <1>6, <1>7, <1>8 DEF IInv

LEMMA NextKeepsInvariant == IInv /\ [Next]_vars => IInv'
<1> SUFFICES ASSUME IInv, [Next]_vars PROVE IInv'
  OBVIOUS
<1>1. CASE Search
  BY <1>1, SearchKeepsInvariant
<1>2. CASE SelectRelevant
  BY <1>2, SelectRelevantKeepsInvariant
<1>3. CASE IncludeOrExclude
  <2> DEFINE prospective == Append(context, Head(ranked))
  <2>1. \/ /\ counted'[prospective] <= tokenBudget
           /\ context' = prospective /\ tokensUsed' = counted'[prospective]
           /\ exclusions' = exclusions
        \/ /\ counted'[prospective] > tokenBudget
           /\ exclusions' = Append(exclusions, <<Head(ranked), "budget_exceeded">>)
           /\ UNCHANGED <<context, tokensUsed>>
    BY <1>3, TurnOfTheLoop
  <2>2. CASE counted'[prospective] <= tokenBudget /\ context' = prospective
             /\ tokensUsed' = counted'[prospective] /\ exclusions' = exclusions
    BY <1>3, <2>2, IncludedKeepsInvariant
  <2>3. CASE counted'[prospective] > tokenBudget /\ UNCHANGED <<context, tokensUsed>>
             /\ exclusions' = Append(exclusions, <<Head(ranked), "budget_exceeded">>)
    BY <1>3, <2>3, LeftOutKeepsInvariant
  <2> QED
    BY <2>1, <2>2, <2>3
<1>4. CASE Finish
  BY <1>4, FinishKeepsInvariant
<1>5. CASE UNCHANGED vars
  <2>1. /\ Relevant' = Relevant /\ OutOfBudget' = OutOfBudget
        /\ ExcludedFor("below_relevance_threshold")' = ExcludedFor("below_relevance_threshold")
    BY <1>5 DEF vars, inputs, Relevant, IsRelevant, OutOfBudget, ExcludedFor
  <2>2. TypeOK' /\ NothingYet'
    BY <1>5 DEF IInv, TypeOK, NothingYet, InputTypeOK, vars, inputs
  <2>3. HitsAreTheBest' /\ HitsAreDivided'
    BY <1>5, <2>1 DEF IInv, HitsAreTheBest, HitsAreDivided, vars, inputs
  <2>4. RankingIsKept'
    BY <1>5, <2>1, RankingStays DEF IInv, RankingIsKept, vars
  <2>5. CountIsOfContext' /\ OutcomeIsTrue'
    BY <1>5, <2>1 DEF IInv, inputs, CountIsOfContext, TokensAreExact, OutcomeIsTrue, vars
  <2>6. ExclusionsWereCounted'
    BY <1>5, <2>1 DEF IInv, ExclusionsWereCounted, CountedBehind, Before, SortKey, RecencyTime,
                      vars, inputs
  <2> QED
    BY <2>2, <2>3, <2>4, <2>5, <2>6 DEF IInv
<1> QED
  BY <1>1, <1>2, <1>3, <1>4, <1>5 DEF Next

\* The inductive invariant holds of every retrieval.
THEOREM SelectionInvariant == Spec => []IInv
<1>1. Init => IInv
  BY InitInvariant
<1>2. IInv /\ [Next]_vars => IInv'
  BY NextKeepsInvariant
<1> QED
  BY <1>1, <1>2, PTL DEF Spec

-----------------------------------------------------------------------------
(* What a retrieval answers.                                               *)

\* Every hit of the search is in the answer exactly once, selected or excluded
\* with a reason, and the outcome tells which of the empty answers an empty
\* answer is (service.py _retrieve, domain/context.py select_context).
THEOREM HitsAreAccountedFor == Spec => []EveryHitAccountedFor
<1>1. IInv => EveryHitAccountedFor
  <2> SUFFICES ASSUME IInv, Done PROVE EveryHitAccountedFor
    BY DEF EveryHitAccountedFor
  <2>1. /\ step = "done" /\ TypeOK /\ HitsAreDivided /\ HitsAreTheBest
        /\ ranked = <<>> /\ OutcomeIsTrue
    BY DEF Done, IInv, OutcomeIsTrue
  <2>2. ToSet(ranked) = {} /\ Len(ranked) = 0
    BY <2>1 DEF ToSet
  <2>3. Len(context) + Len(exclusions) = Len(hits)
    <3>1. Len(context) \in Nat /\ Len(exclusions) \in Nat
      BY <2>1 DEF TypeOK
    <3> QED
      BY <2>1, <2>2, <3>1 DEF HitsAreDivided
  <2>4. ToSet(hits) = ToSet(context) \cup ExcludedFor("below_relevance_threshold")
                          \cup ExcludedFor("budget_exceeded")
    BY <2>1, <2>2 DEF HitsAreDivided, OutOfBudget, Relevant
  <2>5. ToSet(hits) \in SUBSET MemoryIds
    <3>1. DOMAIN hits = 1..Len(hits) /\ \A i \in DOMAIN hits : hits[i] \in MemoryIds
      BY <2>1 DEF TypeOK
    <3> QED
      BY <3>1 DEF ToSet
  <2>6. Relevant # {} <=> \E m \in MemoryIds : score[m] >= Threshold
    <3>1. ASSUME NEW m \in MemoryIds, score[m] >= Threshold PROVE Relevant # {}
      <4>1. CASE m \in ToSet(hits)
        BY <3>1, <4>1 DEF Relevant, IsRelevant
      <4>2. CASE m \notin ToSet(hits)
        <5>1. PICK n \in ToSet(hits) : score[n] >= score[m]
          BY <2>1, <4>2 DEF HitsAreTheBest
        <5>2. score[m] \in Int /\ score[n] \in Int /\ Threshold \in Int
          BY <2>1, <2>5, MemoryAssumption, KeyTypes DEF TypeOK
        <5> QED
          BY <3>1, <5>1, <5>2 DEF Relevant, IsRelevant
      <4> QED
        BY <4>1, <4>2
    <3>2. ASSUME NEW m \in Relevant PROVE m \in MemoryIds /\ score[m] >= Threshold
      BY <2>5 DEF Relevant, IsRelevant
    <3> QED
      BY <3>1, <3>2
  <2>7. context # <<>> => Relevant # {}
    <3> SUFFICES ASSUME context # <<>> PROVE Relevant # {}
      OBVIOUS
    <3>1. context[1] \in ToSet(context)
      BY <2>1 DEF TypeOK, ToSet
    <3> QED
      BY <2>1, <3>1 DEF HitsAreDivided
  <2>8. outcome = IF context # <<>> THEN "memories_selected"
                  ELSE IF \E m \in MemoryIds : score[m] >= Threshold THEN "budget_excluded"
                  ELSE "no_relevant_memory"
    BY <2>1, <2>6, <2>7 DEF OutcomeIsTrue
  <2> QED
    BY <2>3, <2>4, <2>8 DEF EveryHitAccountedFor
<1> QED
  BY <1>1, SelectionInvariant, PTL

\* The token count of an answer is the tokenizer's count of exactly the context
\* that is returned, within the budget (domain/context.py select_context).
THEOREM TokenCountIsExact == Spec => []TokensAreExact
<1>1. IInv => TokensAreExact
  BY DEF IInv, CountIsOfContext
<1> QED
  BY <1>1, SelectionInvariant, PTL

\* No better memory is left out unless it did not fit, and the context is in
\* the documented order (domain/ranking.py rank_candidates).
THEOREM ContextIsTheBest == Spec => []NothingBetterLeftOut
<1>1. IInv => NothingBetterLeftOut
  <2> SUFFICES ASSUME IInv, Done PROVE NothingBetterLeftOut
    BY DEF NothingBetterLeftOut
  <2>1. /\ step = "done" /\ TypeOK /\ InputTypeOK /\ HitsAreDivided /\ HitsAreTheBest
        /\ RankingIsKept /\ ranked = <<>>
    BY DEF Done, IInv, OutcomeIsTrue, TypeOK
  <2>2. ToSet(ranked) = {}
    BY <2>1 DEF ToSet
  <2>3. \A i \in DOMAIN context : context[i] \in MemoryIds
    BY <2>1 DEF TypeOK
  <2>4. \A m \in MemoryIds : score[m] \in Int /\ Threshold \in Int
    BY <2>1, MemoryAssumption, KeyTypes
  <2>5. ASSUME NEW m \in ToSet(context), NEW n \in MemoryIds, score[n] > score[m]
        PROVE  n \in ToSet(context) \cup ExcludedFor("budget_exceeded")
    <3>1. m \in Relevant /\ m \in MemoryIds
      BY <2>1, <2>3 DEF HitsAreDivided, ToSet
    <3>2. m \in ToSet(hits) /\ score[m] >= Threshold
      BY <3>1 DEF Relevant, IsRelevant
    <3>3. n \in ToSet(hits)
      BY <2>1, <2>4, <2>5, <3>1, <3>2 DEF HitsAreTheBest
    <3>4. n \in Relevant
      BY <2>4, <2>5, <3>1, <3>2, <3>3 DEF Relevant, IsRelevant
    <3> QED
      BY <2>1, <2>2, <3>4 DEF HitsAreDivided, OutOfBudget
  <2>6. ASSUME NEW i \in DOMAIN context, NEW j \in DOMAIN context, i < j
        PROVE  LET m == context[i]
                   n == context[j]
               IN /\ score[m] >= score[n]
                  /\ score[m] = score[n] => RecencyTime(m) >= RecencyTime(n)
                  /\ score[m] = score[n] /\ RecencyTime(m) = RecencyTime(n) =>
                        authority[m] = "explicit_user" \/ authority[n] = "inferred"
    <3> DEFINE m == context[i]
               n == context[j]
    <3>1. m \in MemoryIds /\ n \in MemoryIds /\ Before(m, n)
      BY <2>1, <2>3, <2>6 DEF RankingIsKept
    <3> HIDE DEF m, n
    <3>2. /\ score[m] \in Int /\ RecencyTime(m) \in Int /\ AuthorityRank(m) \in Int
          /\ score[n] \in Int /\ RecencyTime(n) \in Int /\ AuthorityRank(n) \in Int
      BY <2>1, <3>1, KeyTypes
    <3>3. /\ score[m] >= score[n]
          /\ score[m] = score[n] => RecencyTime(m) >= RecencyTime(n)
          /\ score[m] = score[n] /\ RecencyTime(m) = RecencyTime(n) =>
                AuthorityRank(m) >= AuthorityRank(n)
      BY <2>1, <3>1, <3>2, BeforeByComponent
    <3>4. AuthorityRank(m) >= AuthorityRank(n) =>
              authority[m] = "explicit_user" \/ authority[n] = "inferred"
      <4>1. /\ authority[m] \in {"inferred", "explicit_user"}
            /\ authority[n] \in {"inferred", "explicit_user"}
        BY <2>1, <3>1 DEF InputTypeOK, Authority
      <4> QED
        BY <4>1 DEF AuthorityRank, Authority
    <3> QED
      BY <3>3, <3>4 DEF m, n
  <2> QED
    BY <2>5, <2>6 DEF NothingBetterLeftOut
<1> QED
  BY <1>1, SelectionInvariant, PTL

\* A memory excluded for the budget was counted behind every better selected
\* memory, and only those, and the count was over the budget
\* (domain/context.py select_context).
THEOREM BudgetExclusionsHold == Spec => []BudgetExclusionsAreReal
<1>1. IInv => BudgetExclusionsAreReal
  BY DEF IInv, ExclusionsWereCounted, CountedBehind, OutOfBudget, BudgetExclusionsAreReal
<1> QED
  BY <1>1, SelectionInvariant, PTL

=============================================================================
