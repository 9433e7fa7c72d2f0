----------------------- MODULE FaissVectorIndexProofs -----------------------
(***************************************************************************)
(* The two-file adapter keeps what it acknowledged, and implements the     *)
(* index its callers rely on, for any ids, instances and faults.           *)
(***************************************************************************)
EXTENDS FaissVectorIndex, FiniteSetTheorems, TLAPS

-----------------------------------------------------------------------------
(* Contents.                                                               *)

LEMMA EmptyContent ==
    IsContent(<<>>)
BY DEF IsContent, IsInjective

LEMMA ContentIds ==
    ASSUME NEW c, IsContent(c)
    PROVE  ToSet(c) \in SUBSET Ids
BY DEF IsContent, ToSet

\* Removing an id removes it and nothing else.
LEMMA WithoutContent ==
    ASSUME NEW c, IsContent(c), NEW v \in Ids
    PROVE  IsContent(Without(c, v)) /\ ToSet(Without(c, v)) = ToSet(c) \ {v}
<1>1. CASE v \notin ToSet(c)
  BY <1>1 DEF Without
<1>2. CASE v \in ToSet(c)
  <2>1. PICK p \in DOMAIN c : p = (CHOOSE k \in DOMAIN c : c[k] = v) /\ c[p] = v
    BY <1>2 DEF ToSet
  <2>2. c \in Seq(Ids) /\ Len(c) \in Nat /\ DOMAIN c = 1..Len(c)
    BY DEF IsContent
  <2> DEFINE n == Len(c)
             front == SubSeq(c, 1, p - 1)
             rest == SubSeq(c, p + 1, n)
             d == front \o rest
  <2>3. Without(c, v) = d
    BY <1>2, <2>1 DEF Without, RemoveAt
  <2>4. n \in Nat /\ p \in 1..n /\ \A k \in 1..n : c[k] \in Ids
    BY <2>1, <2>2
  <2>5. /\ front \in Seq(Ids) /\ Len(front) = p - 1
        /\ \A k \in 1..(p - 1) : front[k] = c[k]
    BY <2>2, <2>4
  <2>6. /\ rest \in Seq(Ids) /\ Len(rest) = n - p
        /\ \A k \in 1..(n - p) : rest[k] = c[p + k]
    <3>1. rest = [k \in 1..(n - p) |-> c[p + k]]
      BY <2>2, <2>4 DEF n
    <3>2. n - p \in Nat /\ \A k \in 1..(n - p) : c[p + k] \in Ids
      BY <2>4
    <3> HIDE DEF rest, n
    <3> QED
      BY <3>1, <3>2
  <2> HIDE DEF n, front, rest
  <2>7. d \in Seq(Ids) /\ Len(d) = n - 1 /\ DOMAIN d = 1..(n - 1)
    BY <2>4, <2>5, <2>6
  <2>8. \A k \in 1..(n - 1) : d[k] = IF k < p THEN c[k] ELSE c[k + 1]
    BY <2>4, <2>5, <2>6
  <2>9. DOMAIN c = 1..n
    BY <2>2 DEF n
  <2> HIDE DEF d
  <2>10. \A j, k \in 1..n : c[j] = c[k] => j = k
    BY <2>9 DEF IsContent, IsInjective
  <2>11. IsInjective(d)
    <3> SUFFICES ASSUME NEW j \in 1..(n - 1), NEW k \in 1..(n - 1), d[j] = d[k]
                 PROVE  j = k
      BY <2>7 DEF IsInjective
    <3> QED
      BY <2>4, <2>8, <2>10
  <2>12. ASSUME NEW k \in 1..(n - 1) PROVE d[k] \in ToSet(c) \ {v}
    <3>1. d[k] = IF k < p THEN c[k] ELSE c[k + 1]
      BY <2>8
    <3>2. k \in 1..n /\ k + 1 \in 1..n
      BY <2>4
    <3>3. d[k] \in ToSet(c)
      BY <2>9, <3>1, <3>2 DEF ToSet
    <3>4. d[k] # v
      BY <2>1, <2>4, <2>10, <3>1, <3>2
    <3> QED
      BY <3>3, <3>4
  <2>13. ASSUME NEW w \in ToSet(c), w # v PROVE w \in ToSet(d)
    <3>1. PICK k \in 1..n : c[k] = w
      BY <2>9, <2>13 DEF ToSet
    <3>2. CASE k < p
      <4>1. k \in 1..(n - 1) /\ d[k] = w
        BY <2>4, <2>8, <3>1, <3>2
      <4> QED
        BY <2>7, <4>1 DEF ToSet
    <3>3. CASE k > p
      <4>1. k - 1 \in 1..(n - 1)
        BY <2>4, <3>1, <3>3
      <4>2. d[k - 1] = w
        BY <2>4, <2>8, <3>1, <3>3, <4>1
      <4> QED
        BY <2>7, <4>1, <4>2 DEF ToSet
    <3>4. k # p
      BY <2>1, <2>13, <3>1
    <3> QED
      BY <2>4, <3>1, <3>2, <3>3, <3>4
  <2>14. ToSet(d) = ToSet(c) \ {v}
    BY <2>7, <2>12, <2>13 DEF ToSet
  <2> QED
    BY <2>3, <2>7, <2>11, <2>14 DEF IsContent
<1> QED
  BY <1>1, <1>2

\* Adding an id adds it and nothing else, once.
LEMMA WithLastContent ==
    ASSUME NEW c, IsContent(c), NEW v \in Ids
    PROVE  IsContent(WithLast(c, v)) /\ ToSet(WithLast(c, v)) = ToSet(c) \cup {v}
<1> DEFINE d == Without(c, v)
<1>1. d \in Seq(Ids) /\ IsInjective(d) /\ ToSet(d) = ToSet(c) \ {v}
  BY WithoutContent DEF IsContent
<1>2. WithLast(c, v) = Append(d, v)
  BY DEF WithLast
<1> HIDE DEF d
<1>3. /\ Append(d, v) \in Seq(Ids) /\ Len(Append(d, v)) = Len(d) + 1 /\ Len(d) \in Nat
      /\ DOMAIN Append(d, v) = 1..Len(d) + 1 /\ DOMAIN d = 1..Len(d)
      /\ \A k \in 1..Len(d) : Append(d, v)[k] = d[k]
      /\ Append(d, v)[Len(d) + 1] = v
  BY <1>1
<1>4. \A k \in 1..Len(d) : d[k] # v
  BY <1>1, <1>3 DEF ToSet
<1>5. IsInjective(Append(d, v))
  BY <1>1, <1>3, <1>4 DEF IsInjective
<1>6. ToSet(Append(d, v)) = ToSet(d) \cup {v}
  <2>1. ToSet(Append(d, v)) \subseteq ToSet(d) \cup {v}
    BY <1>3 DEF ToSet
  <2>2. ToSet(d) \cup {v} \subseteq ToSet(Append(d, v))
    <3>1. \A k \in 1..Len(d) : k \in 1..Len(d) + 1
      BY <1>3
    <3>2. Len(d) + 1 \in 1..Len(d) + 1
      BY <1>3
    <3> QED
      BY <1>3, <3>1, <3>2 DEF ToSet
  <2> QED
    BY <2>1, <2>2
<1> QED
  BY <1>1, <1>2, <1>3, <1>5, <1>6 DEF IsContent

\* The ids of an inventory, in their order, are a content: each position holds
\* an id, for as many ids as there are have different numbers of smaller ones.
LEMMA InOrderContent ==
    ASSUME NEW ids \in SUBSET Ids
    PROVE  IsContent(InOrder(ids)) /\ ToSet(InOrder(ids)) = ids
<1> DEFINE n == Cardinality(ids)
           below == [v \in ids |-> {w \in ids : w < v}]
           rank == [v \in ids |-> Cardinality(below[v]) + 1]
           c == InOrder(ids)
<1>1. IsFiniteSet(ids) /\ n \in Nat /\ \A v \in ids : v \in Nat
  BY IdsAssumption, FS_Subset, FS_CardinalityType
<1>2. ASSUME NEW v \in ids
      PROVE  /\ below[v] \in SUBSET ids /\ IsFiniteSet(below[v])
             /\ Cardinality(below[v]) \in Nat /\ Cardinality(below[v]) < n
  <2>1. below[v] \in SUBSET ids /\ below[v] # ids
    BY <1>1
  <2>2. IsFiniteSet(below[v]) /\ Cardinality(below[v]) <= n /\ n # Cardinality(below[v])
    BY <1>1, <2>1, FS_Subset
  <2>3. Cardinality(below[v]) \in Nat
    BY <2>2, FS_CardinalityType
  <2> HIDE DEF below, n
  <2> QED
    BY <1>1, <2>1, <2>2, <2>3
<1>3. ASSUME NEW v \in ids, NEW w \in ids, v < w
      PROVE  Cardinality(below[v]) < Cardinality(below[w])
  <2>1. below[v] \in SUBSET below[w]
    BY <1>1, <1>3
  <2>2. below[v] # below[w]
    BY <1>1, <1>3
  <2> HIDE DEF below
  <2>3. /\ Cardinality(below[v]) <= Cardinality(below[w])
        /\ Cardinality(below[w]) # Cardinality(below[v])
    BY <1>2, <2>1, <2>2, FS_Subset
  <2> QED
    BY <1>2, <2>3
<1> HIDE DEF below
<1>4. rank \in [ids -> 1..n] /\ \A v \in ids : Cardinality(below[v]) = rank[v] - 1
  <2>1. \A v \in ids : Cardinality(below[v]) + 1 \in 1..n
    BY <1>1, <1>2
  <2> QED
    BY <1>2, <2>1
<1>5. \A v, w \in ids : rank[v] = rank[w] => v = w
  <2> SUFFICES ASSUME NEW v \in ids, NEW w \in ids, v # w PROVE rank[v] # rank[w]
    OBVIOUS
  <2>1. v < w \/ w < v
    BY <1>1
  <2>2. /\ Cardinality(below[v]) # Cardinality(below[w])
        /\ Cardinality(below[v]) \in Nat /\ Cardinality(below[w]) \in Nat
    BY <1>2, <1>3, <2>1
  <2> QED
    BY <2>2
<1> HIDE DEF rank
<1>6. rank \in Injection(ids, 1..n)
  BY <1>4, <1>5 DEF Injection, IsInjective
<1>7. rank \in Surjection(ids, 1..n)
  <2>1. IsFiniteSet(1..n) /\ Cardinality(1..n) = n
    BY <1>1, FS_Interval
  <2> QED
    BY <1>6, <2>1, FS_Injection
<1>8. ASSUME NEW k \in 1..n
      PROVE  c[k] \in ids /\ rank[c[k]] = k
  <2>1. PICK v \in ids : rank[v] = k
    BY <1>7 DEF Surjection
  <2>2. Cardinality({w \in ids : w < v}) = k - 1
    BY <1>4, <2>1 DEF below
  <2>3. c[k] \in ids /\ Cardinality({w \in ids : w < c[k]}) = k - 1
    BY <2>2 DEF InOrder
  <2>4. rank[c[k]] - 1 = k - 1 /\ rank[c[k]] \in 1..n
    BY <1>4, <2>3 DEF below
  <2> QED
    BY <1>1, <2>3, <2>4
<1>9. c \in Seq(ids) /\ DOMAIN c = 1..n
  <2> DEFINE at(k) == CHOOSE v \in ids : Cardinality({w \in ids : w < v}) = k - 1
  <2>1. c = [k \in 1..n |-> at(k)]
    BY DEF InOrder
  <2> HIDE DEF at, c, n
  <2>2. c \in [1..n -> ids]
    BY <1>8, <2>1
  <2> QED
    BY <1>1, <2>2
<1> HIDE DEF c
<1>10. IsInjective(c)
  BY <1>8, <1>9 DEF IsInjective
<1>11. ASSUME NEW v \in ids PROVE v \in ToSet(c)
  <2>1. rank[v] \in 1..n
    BY <1>4
  <2>2. c[rank[v]] = v
    BY <1>5, <1>8, <2>1
  <2> QED
    BY <1>9, <2>1, <2>2 DEF ToSet
<1>12. ToSet(c) \subseteq ids /\ c \in Seq(Ids)
  BY <1>8, <1>9 DEF ToSet
<1> QED
  BY <1>10, <1>11, <1>12 DEF IsContent, c
-----------------------------------------------------------------------------
(* What is known of the files, the call and the acknowledgements.          *)

\* A content says of no id the opposite of what was acknowledged.
Stands(content) == \A v \in Ids :
    /\ Acknowledged(v) => v \in ToSet(content)
    /\ standing[v] = "absent" => v \notin ToSet(content)

\* How far the call has come with the files.
CallInvariant ==
    /\ working # Idle /\ working.step = "half replaced" => finalIndex = working.content
    /\ working # Idle /\ working.step = "replaced" =>
          finalIndex = working.content /\ finalMeta = working.content

\* The pair that verifies, the content that is being published and the memory
\* of an instance agree with what was acknowledged; nothing is, without a pair.
StandingInvariant ==
    /\ Verifies => Stands(finalIndex)
    /\ working # Idle => Stands(working.content)
    /\ \A i \in Instances : loaded[i] # Closed =>
          \A v \in Ids : standing[v] = i => v \in ToSet(loaded[i])
    /\ NoPair => \A v \in Ids : standing[v] = "unknown"

FaissInvariant == FaissTypeOK /\ CallInvariant /\ StandingInvariant

\* A pair that verifies is a content.
LEMMA VerifiedContent ==
    ASSUME FaissTypeOK, Verifies
    PROVE  IsContent(finalIndex) /\ finalIndex \in Seq(Ids)
BY DEF FaissTypeOK, Verifies, IsContent

\* A call begins with a content that differs from what was acknowledged in
\* the ids it was asked for only.
LEMMA CallBegins ==
    ASSUME FaissInvariant, NEW who \in Instances \cup {Recovery}, NEW c, IsContent(c),
           NEW asked \in SUBSET Ids, Begin(who, c, asked),
           \A v \in Ids \ asked : /\ Acknowledged(v) => v \in ToSet(c)
                                  /\ standing[v] = "absent" => v \notin ToSet(c)
    PROVE  FaissInvariant'
<1>1. /\ working' = [by |-> who, content |-> c, step |-> "candidate", temporaries |-> {}]
      /\ UNCHANGED <<finalIndex, finalMeta, loaded, cleaning, faults>>
      /\ standing' = [v \in Ids |-> IF v \in asked /\ (v \in ToSet(c)) # Acknowledged(v)
                                    THEN "unknown" ELSE standing[v]]
  BY DEF Begin, filesVars
<1>2. working' \in Calls /\ working'.content = c /\ working'.step = "candidate"
  BY <1>1 DEF Calls, Steps, IsContent
<1>3. \A v \in Ids : standing'[v] = standing[v] \/ standing'[v] = "unknown"
  BY <1>1
<1>4. standing' \in [Ids -> Instances \cup {"recovered", "absent", "unknown"}]
  BY <1>1 DEF FaissInvariant, FaissTypeOK
<1>5. FaissTypeOK'
  BY <1>1, <1>2, <1>4 DEF FaissInvariant, FaissTypeOK
<1>6. CallInvariant'
  BY <1>2 DEF CallInvariant
<1>7. \A v \in Ids : /\ Acknowledged(v)' => Acknowledged(v) /\ standing'[v] = standing[v]
                     /\ standing'[v] = "absent" => standing[v] = "absent"
  BY <1>3, MarksAssumption DEF Acknowledged
<1>8. ASSUME NEW v \in Ids
      PROVE  /\ Acknowledged(v)' => v \in ToSet(c)
             /\ standing'[v] = "absent" => v \notin ToSet(c)
  BY <1>1, <1>7, MarksAssumption DEF Acknowledged
<1>9. StandingInvariant'
  <2>1. Verifies' => Stands(finalIndex)'
    BY <1>1, <1>7 DEF FaissInvariant, StandingInvariant, Verifies, Stands
  <2>2. Stands(working.content)'
    BY <1>2, <1>8 DEF Stands
  <2>3. \A i \in Instances : loaded'[i] # Closed =>
          \A v \in Ids : standing'[v] = i => v \in ToSet(loaded'[i])
    BY <1>1, <1>3, MarksAssumption DEF FaissInvariant, StandingInvariant
  <2>4. NoPair' => \A v \in Ids : standing'[v] = "unknown"
    BY <1>1, <1>3 DEF FaissInvariant, StandingInvariant, NoPair
  <2> QED
    BY <2>1, <2>2, <2>3, <2>4 DEF StandingInvariant
<1> QED
  BY <1>5, <1>6, <1>9 DEF FaissInvariant

\* What the calls build, of the pair or of the memory of their instance.
LEMMA AddContent ==
    ASSUME FaissInvariant, NEW i \in Instances, NEW v \in Ids, BeginAdd(i, v)
    PROVE  \E c : /\ IsContent(c) /\ Begin(i, WithLast(c, v), {v})
                  /\ \/ Verifies /\ c = finalIndex
                     \/ NoPair /\ c = loaded[i] /\ loaded[i] # Closed
                  /\ \A w \in Ids : /\ Acknowledged(w) => w \in ToSet(c)
                                    /\ standing[w] = "absent" => w \notin ToSet(c)
<1>1. CASE Verifies /\ Begin(i, WithLast(finalIndex, v), {v})
  <2>1. IsContent(finalIndex) /\ Stands(finalIndex)
    BY <1>1, VerifiedContent DEF FaissInvariant, StandingInvariant
  <2> QED
    BY <1>1, <2>1 DEF Stands
<1>2. CASE NoPair /\ Begin(i, WithLast(loaded[i], v), {v})
  <2>1. IsContent(loaded[i]) /\ loaded[i] # Closed
    BY <1>2 DEF BeginAdd, Serving, FaissInvariant, FaissTypeOK
  <2>2. \A w \in Ids : ~ Acknowledged(w) /\ standing[w] # "absent"
    BY <1>2, MarksAssumption DEF FaissInvariant, StandingInvariant, Acknowledged
  <2> QED
    BY <1>2, <2>1, <2>2
<1> QED
  BY <1>1, <1>2 DEF BeginAdd

LEMMA AddBegins ==
    ASSUME FaissInvariant, NEW i \in Instances, NEW v \in Ids, BeginAdd(i, v)
    PROVE  FaissInvariant'
<1>1. PICK c : /\ IsContent(c) /\ Begin(i, WithLast(c, v), {v})
               /\ \A w \in Ids : /\ Acknowledged(w) => w \in ToSet(c)
                                 /\ standing[w] = "absent" => w \notin ToSet(c)
  BY AddContent
<1>2. IsContent(WithLast(c, v)) /\ ToSet(WithLast(c, v)) = ToSet(c) \cup {v}
  BY <1>1, WithLastContent
<1> QED
  BY <1>1, <1>2, CallBegins

LEMMA RemoveBegins ==
    ASSUME FaissInvariant, NEW i \in Instances, NEW v \in Ids, BeginRemove(i, v)
    PROVE  FaissInvariant'
<1>1. Verifies /\ Begin(i, Without(finalIndex, v), {v}) /\ IsContent(finalIndex)
  BY VerifiedContent DEF BeginRemove, FaissInvariant
<1>2. Stands(finalIndex)
  BY <1>1 DEF FaissInvariant, StandingInvariant
<1>3. /\ IsContent(Without(finalIndex, v))
      /\ ToSet(Without(finalIndex, v)) = ToSet(finalIndex) \ {v}
  BY <1>1, WithoutContent
<1> QED
  BY <1>1, <1>2, <1>3, CallBegins DEF Stands

LEMMA ReconcileBegins ==
    ASSUME FaissInvariant, NEW ids \in SUBSET Ids, BeginReconcile(ids)
    PROVE  FaissInvariant'
<1>1. Begin(Recovery, InOrder(ids), Ids)
  BY DEF BeginReconcile
<1> QED
  BY <1>1, InOrderContent, CallBegins

LEMMA AbsentIsAcknowledged ==
    ASSUME FaissInvariant, NEW i \in Instances, NEW v \in Ids, RemoveAbsent(i, v)
    PROVE  FaissInvariant'
<1>1. /\ Verifies /\ v \notin ToSet(finalIndex) /\ working = Idle
      /\ loaded' = [loaded EXCEPT ![i] = finalIndex]
      /\ standing' = [standing EXCEPT ![v] = "absent"]
      /\ UNCHANGED <<finalIndex, finalMeta, cleaning, working, faults>>
      /\ IsContent(finalIndex) /\ Stands(finalIndex)
  BY VerifiedContent DEF RemoveAbsent, filesVars, FaissInvariant, StandingInvariant
<1>2. \A w \in Ids : standing'[w] = IF w = v THEN "absent" ELSE standing[w]
  BY <1>1 DEF FaissInvariant, FaissTypeOK
<1>3. \A j \in Instances : loaded'[j] = IF j = i THEN finalIndex ELSE loaded[j]
  BY <1>1 DEF FaissInvariant, FaissTypeOK
<1>4. FaissTypeOK'
  BY <1>1, <1>3 DEF FaissInvariant, FaissTypeOK
<1>5. CallInvariant'
  BY <1>1 DEF CallInvariant
<1>6. Stands(finalIndex)'
  BY <1>1, <1>2, MarksAssumption DEF Stands, Acknowledged
<1>7. \A j \in Instances : loaded'[j] # Closed =>
        \A w \in Ids : standing'[w] = j => w \in ToSet(loaded'[j])
  BY <1>1, <1>2, <1>3, MarksAssumption DEF FaissInvariant, StandingInvariant, Stands, Acknowledged
<1>8. StandingInvariant'
  BY <1>1, <1>6, <1>7 DEF StandingInvariant, NoPair, Verifies
<1> QED
  BY <1>4, <1>5, <1>8 DEF FaissInvariant
\* A step that leaves the acknowledgements, the content being published and
\* the memories alone, but for those it loads or loses, has the pair to look at.
LEMMA StandingKept ==
    ASSUME FaissInvariant, UNCHANGED standing,
           Verifies' => \/ Verifies /\ finalIndex' = finalIndex
                        \/ working # Idle /\ finalIndex' = working.content,
           NoPair' => NoPair,
           working' # Idle => working # Idle /\ working'.content = working.content,
           \A i \in Instances : \/ loaded'[i] = loaded[i]
                                \/ loaded'[i] = Closed
                                \/ Verifies /\ loaded'[i] = finalIndex
    PROVE  StandingInvariant'
<1>1. Verifies' => Stands(finalIndex)'
  BY DEF FaissInvariant, StandingInvariant, Stands, Acknowledged
<1>2. working' # Idle => Stands(working.content)'
  BY DEF FaissInvariant, StandingInvariant, Stands, Acknowledged
<1>3. ASSUME NEW i \in Instances, loaded'[i] # Closed, NEW v \in Ids, standing'[v] = i
      PROVE  v \in ToSet(loaded'[i])
  BY <1>3 DEF FaissInvariant, StandingInvariant, Stands, Acknowledged
<1>4. NoPair' => \A v \in Ids : standing'[v] = "unknown"
  BY DEF FaissInvariant, StandingInvariant
<1> QED
  BY <1>1, <1>2, <1>3, <1>4 DEF StandingInvariant

\* The steps of a call that write and move files.
LEMMA FilesMove ==
    ASSUME FaissInvariant, WriteTemporaries \/ ReplaceIndex \/ ReplaceMetadata
    PROVE  FaissInvariant'
<1>1. /\ working # Idle /\ working \in Calls /\ IsContent(working.content)
      /\ working.content \in Seq(Ids)
  BY DEF WriteTemporaries, ReplaceIndex, ReplaceMetadata, Move,
         FaissInvariant, FaissTypeOK, IsContent
<1>2. UNCHANGED <<loaded, cleaning, faults, standing>>
  BY DEF WriteTemporaries, ReplaceIndex, ReplaceMetadata, Move
<1>3. CASE WriteTemporaries
  <2>1. /\ working' = [working EXCEPT !.step = "written", !.temporaries = Temporaries]
        /\ UNCHANGED <<finalIndex, finalMeta>>
    BY <1>3 DEF WriteTemporaries, filesVars
  <2>2. /\ working' \in Calls /\ working'.content = working.content
        /\ working'.step = "written"
    BY <1>1, <2>1 DEF Calls, Steps
  <2>3. FaissTypeOK' /\ CallInvariant'
    BY <1>1, <1>2, <2>1, <2>2 DEF FaissInvariant, FaissTypeOK, CallInvariant
  <2>4. StandingInvariant'
    BY <1>1, <1>2, <2>1, <2>2, StandingKept DEF Verifies, NoPair
  <2> QED
    BY <2>3, <2>4 DEF FaissInvariant
<1>4. CASE ReplaceIndex
  <2>1. /\ working' = [working EXCEPT !.step = "half replaced", !.temporaries = @ \ {"index"}]
        /\ finalIndex' = working.content /\ finalMeta' = finalMeta
    BY <1>4 DEF ReplaceIndex, Move
  <2>2. /\ working' \in Calls /\ working'.content = working.content
        /\ working'.step = "half replaced"
    BY <1>1, <2>1 DEF Calls, Steps
  <2>3. FaissTypeOK' /\ CallInvariant'
    BY <1>1, <1>2, <2>1, <2>2 DEF FaissInvariant, FaissTypeOK, CallInvariant
  <2>4. finalIndex' # Missing
    BY <1>1, <2>1, MarksAssumption
  <2>5. StandingInvariant'
    BY <1>1, <1>2, <2>1, <2>2, <2>4, StandingKept DEF NoPair
  <2> QED
    BY <2>3, <2>5 DEF FaissInvariant
<1>5. CASE ReplaceMetadata
  <2>1. /\ working' = [working EXCEPT !.step = "replaced", !.temporaries = @ \ {"metadata"}]
        /\ finalMeta' = working.content /\ finalIndex' = finalIndex
        /\ finalIndex = working.content
    BY <1>5 DEF ReplaceMetadata, Move, FaissInvariant, CallInvariant
  <2>2. /\ working' \in Calls /\ working'.content = working.content
        /\ working'.step = "replaced"
    BY <1>1, <2>1 DEF Calls, Steps
  <2>3. FaissTypeOK' /\ CallInvariant'
    BY <1>1, <1>2, <2>1, <2>2 DEF FaissInvariant, FaissTypeOK, CallInvariant
  <2>4. finalMeta' # Missing
    BY <1>1, <2>1, MarksAssumption
  <2>5. StandingInvariant'
    BY <1>1, <1>2, <2>1, <2>2, <2>4, StandingKept DEF NoPair
  <2> QED
    BY <2>3, <2>5 DEF FaissInvariant
<1> QED
  BY <1>3, <1>4, <1>5

\* A call that ends well has said of the ids it was asked for what it published.
LEMMA CallFinishes ==
    ASSUME FaissInvariant, Finish
    PROVE  FaissInvariant'
<1>1. /\ working # Idle /\ working \in Calls /\ Verifies
      /\ finalIndex = working.content /\ IsContent(finalIndex)
      /\ Stands(finalIndex)
      /\ loaded' = [i \in Instances |-> IF i = working.by THEN finalIndex ELSE loaded[i]]
      /\ working' = Idle
      /\ UNCHANGED <<finalIndex, finalMeta, cleaning, faults>>
  BY DEF Finish, filesVars, FaissInvariant, FaissTypeOK, CallInvariant, StandingInvariant
<1>2. working.by \in Instances \cup {Recovery}
  BY <1>1 DEF Calls
<1>3. \A v \in Ids :
        standing'[v] = IF standing[v] # "unknown" THEN standing[v]
                       ELSE IF v \notin ToSet(finalIndex) THEN "absent"
                       ELSE IF working.by = Recovery THEN "recovered" ELSE working.by
  BY <1>1 DEF Finish, Said
<1>4. \A i \in Instances : loaded'[i] = IF i = working.by THEN finalIndex ELSE loaded[i]
  BY <1>1
<1>5. standing' \in [Ids -> Instances \cup {"recovered", "absent", "unknown"}]
  <2>1. \A v \in Ids : standing'[v] \in Instances \cup {"recovered", "absent", "unknown"}
    BY <1>2, <1>3 DEF FaissInvariant, FaissTypeOK
  <2>2. standing' = [v \in Ids |-> IF standing[v] = "unknown" THEN Said(v) ELSE standing[v]]
    BY DEF Finish
  <2> QED
    BY <2>1, <2>2
<1>6. FaissTypeOK'
  BY <1>1, <1>4, <1>5 DEF FaissInvariant, FaissTypeOK
<1>7. CallInvariant'
  BY <1>1 DEF CallInvariant
<1>8. Stands(finalIndex)'
  BY <1>1, <1>2, <1>3, MarksAssumption DEF Stands, Acknowledged
<1>9. ASSUME NEW i \in Instances, loaded'[i] # Closed, NEW v \in Ids, standing'[v] = i
      PROVE  v \in ToSet(loaded'[i])
  <2>1. CASE i = working.by
    BY <1>1, <1>4, <1>8, <1>9, <2>1 DEF Stands, Acknowledged
  <2>2. CASE i # working.by
    <3>1. standing[v] = i
      BY <1>3, <1>9, <2>2, MarksAssumption
    <3> QED
      BY <1>4, <1>9, <2>2, <3>1 DEF FaissInvariant, StandingInvariant
  <2> QED
    BY <2>1, <2>2
<1>10. ~ NoPair'
  BY <1>1, MarksAssumption DEF NoPair, Verifies, IsContent
<1>11. StandingInvariant'
  BY <1>1, <1>8, <1>9, <1>10 DEF StandingInvariant
<1> QED
  BY <1>6, <1>7, <1>11 DEF FaissInvariant
\* A call that fails, and a crash, leave the files and what was said of them.
LEMMA CallIsLost ==
    ASSUME FaissInvariant, Fail \/ FailMissingTemporary \/ Crash
    PROVE  FaissInvariant'
<1>1. /\ working' = Idle /\ UNCHANGED <<finalIndex, finalMeta, standing>>
      /\ cleaning' = cleaning \/ cleaning' = {}
      /\ DOMAIN loaded' = Instances
      /\ \A i \in Instances : loaded'[i] = loaded[i] \/ loaded'[i] = Closed
  BY DEF Fail, FailMissingTemporary, Crash, filesVars, FaissInvariant, FaissTypeOK
<1>2. faults' \in 0..MaxFaults
  <2>1. \/ faults' = faults
        \/ faults < MaxFaults /\ faults' = faults + 1
    BY DEF Fail, FailMissingTemporary, Crash, Fault
  <2>2. faults \in 0..MaxFaults
    BY DEF FaissInvariant, FaissTypeOK
  <2> QED
    BY <2>1, <2>2, BoundAssumption
<1>3. FaissTypeOK' /\ CallInvariant'
  BY <1>1, <1>2 DEF FaissInvariant, FaissTypeOK, CallInvariant
<1>4. StandingInvariant'
  BY <1>1, StandingKept DEF Verifies, NoPair
<1> QED
  BY <1>3, <1>4 DEF FaissInvariant

\* A constructor reads the pair and deletes temporaries.
LEMMA InstanceOpens ==
    ASSUME FaissInvariant, NEW i \in Instances, OpenVerify(i) \/ OpenCleanUp(i)
    PROVE  FaissInvariant'
<1>1. CASE OpenVerify(i)
  <2>1. /\ Verifies /\ IsContent(finalIndex)
        /\ loaded' = [loaded EXCEPT ![i] = finalIndex]
        /\ cleaning' = cleaning \cup {i}
        /\ UNCHANGED <<finalIndex, finalMeta, working, faults, standing>>
    BY <1>1, VerifiedContent DEF OpenVerify, filesVars, FaissInvariant
  <2>2. /\ DOMAIN loaded' = Instances
        /\ \A j \in Instances : loaded'[j] = IF j = i THEN finalIndex ELSE loaded[j]
    BY <2>1 DEF FaissInvariant, FaissTypeOK
  <2>3. FaissTypeOK' /\ CallInvariant'
    BY <2>1, <2>2 DEF FaissInvariant, FaissTypeOK, CallInvariant
  <2>4. StandingInvariant'
    BY <2>1, <2>2, StandingKept DEF Verifies, NoPair
  <2> QED
    BY <2>3, <2>4 DEF FaissInvariant
<1>2. CASE OpenCleanUp(i)
  <2>1. /\ cleaning' = cleaning \ {i}
        /\ working' = IF working = Idle THEN Idle ELSE [working EXCEPT !.temporaries = {}]
        /\ UNCHANGED <<finalIndex, finalMeta, loaded, faults, standing>>
    BY <1>2 DEF OpenCleanUp, filesVars
  <2>2. working' # Idle =>
          /\ working # Idle /\ working' \in Calls
          /\ working'.content = working.content /\ working'.step = working.step
    BY <2>1 DEF FaissInvariant, FaissTypeOK, Calls
  <2>3. FaissTypeOK'
    BY <2>1, <2>2 DEF FaissInvariant, FaissTypeOK
  <2>4. CallInvariant'
    BY <2>1, <2>2 DEF FaissInvariant, CallInvariant
  <2>5. StandingInvariant'
    BY <2>1, <2>2, StandingKept DEF Verifies, NoPair
  <2> QED
    BY <2>3, <2>4, <2>5 DEF FaissInvariant
<1> QED
  BY <1>1, <1>2

\* Damage never makes a pair that verifies.
LEMMA FilesAreDamaged ==
    ASSUME FaissInvariant, Damage
    PROVE  FaissInvariant'
<1>1. /\ working = Idle /\ UNCHANGED <<loaded, cleaning, working>>
      /\ \/ finalIndex' \in {Missing, Corrupt} /\ finalMeta' = finalMeta
         \/ finalMeta' \in {Missing, Corrupt} /\ finalIndex' = finalIndex
      /\ standing' = IF NoPair' THEN [v \in Ids |-> "unknown"] ELSE standing
      /\ faults' = faults + 1 /\ faults < MaxFaults
  BY DEF Damage, Fault
<1>2. ~ Verifies'
  BY <1>1 DEF Verifies
<1>3. faults' \in 0..MaxFaults
  BY <1>1, BoundAssumption DEF FaissInvariant, FaissTypeOK
<1>4. standing' \in [Ids -> Instances \cup {"recovered", "absent", "unknown"}]
  BY <1>1 DEF FaissInvariant, FaissTypeOK
<1>5. FaissTypeOK' /\ CallInvariant'
  BY <1>1, <1>3, <1>4 DEF FaissInvariant, FaissTypeOK, CallInvariant
<1>6. CASE NoPair'
  <2>1. \A v \in Ids : standing'[v] = "unknown"
    BY <1>1, <1>6
  <2>2. \A i \in Instances : i # "unknown"
    BY MarksAssumption
  <2>3. StandingInvariant'
    BY <1>1, <1>2, <2>1, <2>2 DEF StandingInvariant
  <2> QED
    BY <1>5, <2>3 DEF FaissInvariant
<1>7. CASE ~ NoPair'
  <2>1. StandingInvariant'
    BY <1>1, <1>2, <1>7, StandingKept
  <2> QED
    BY <1>5, <2>1 DEF FaissInvariant
<1> QED
  BY <1>6, <1>7

LEMMA FaissInvariantStarts ==
    ASSUME Init
    PROVE  FaissInvariant
<1>1. FaissTypeOK
  BY BoundAssumption DEF Init, FaissTypeOK
<1>2. CallInvariant
  BY DEF Init, CallInvariant
<1>3. StandingInvariant
  BY MarksAssumption DEF Init, StandingInvariant, Verifies
<1> QED
  BY <1>1, <1>2, <1>3 DEF FaissInvariant

LEMMA FaissInvariantHolds ==
    ASSUME FaissInvariant, [Next]_faissVars
    PROVE  FaissInvariant'
<1>1. CASE Next
  <2>1. ASSUME NEW i \in Instances, OpenVerify(i) \/ OpenCleanUp(i) PROVE FaissInvariant'
    BY <2>1, InstanceOpens
  <2>2. ASSUME NEW i \in Instances, NEW v \in Ids,
               BeginAdd(i, v) \/ BeginRemove(i, v) \/ RemoveAbsent(i, v)
        PROVE  FaissInvariant'
    BY <2>2, AddBegins, RemoveBegins, AbsentIsAcknowledged
  <2>3. ASSUME NEW ids \in SUBSET Ids, BeginReconcile(ids) PROVE FaissInvariant'
    BY <2>3, ReconcileBegins
  <2> QED
    BY <1>1, <2>1, <2>2, <2>3, FilesMove, CallFinishes, CallIsLost, FilesAreDamaged DEF Next
<1>2. CASE UNCHANGED faissVars
  <2>1. UNCHANGED <<finalIndex, finalMeta, loaded, cleaning, working, faults, standing>>
    BY <1>2 DEF faissVars
  <2>2. FaissTypeOK' /\ CallInvariant'
    BY <2>1 DEF FaissInvariant, FaissTypeOK, CallInvariant
  <2>3. StandingInvariant'
    BY <2>1, StandingKept DEF Verifies, NoPair
  <2> QED
    BY <2>2, <2>3 DEF FaissInvariant
<1> QED
  BY <1>1, <1>2

-----------------------------------------------------------------------------
(* What holds in every behaviour.                                          *)

\* The files, the memories and the call are what they should be: an index
\* never holds an id twice, through every add, remove and reconciliation.
THEOREM FaissTyped == Spec => []FaissTypeOK
<1>1. Spec => []FaissInvariant
  BY FaissInvariantStarts, FaissInvariantHolds, PTL DEF Spec
<1>2. FaissInvariant => FaissTypeOK
  BY DEF FaissInvariant
<1> QED
  BY <1>1, <1>2, PTL

\* What was acknowledged is in the generation that verifies, whichever
\* instance made the call and whatever failed, crashed or was cleaned up.
THEOREM AcknowledgedStand == Spec => []AcknowledgedIdsStand
<1>1. Spec => []FaissInvariant
  BY FaissInvariantStarts, FaissInvariantHolds, PTL DEF Spec
<1>2. FaissInvariant => AcknowledgedIdsStand
  BY DEF FaissInvariant, StandingInvariant, Stands, Acknowledged, AcknowledgedIdsStand
<1> QED
  BY <1>1, <1>2, PTL

\* An instance serves what it acknowledged itself, however stale it is.
THEOREM OwnServed == Spec => []OwnAcknowledgementsServed
<1>1. Spec => []FaissInvariant
  BY FaissInvariantStarts, FaissInvariantHolds, PTL DEF Spec
<1>2. FaissInvariant => OwnAcknowledgementsServed
  BY DEF FaissInvariant, StandingInvariant, OwnAcknowledgementsServed, Serving
<1> QED
  BY <1>1, <1>2, PTL
-----------------------------------------------------------------------------
(* The adapter implements the index its callers rely on.                   *)

\* What the pair stands for.
LEMMA PairMeaning ==
    ASSUME FaissTypeOK
    PROVE  /\ Verifies => /\ durableIds = ToSet(finalIndex)
                          /\ durableIds \in SUBSET Ids
           /\ NoPair => durableIds = Absent
           /\ ~ Verifies /\ ~ NoPair => durableIds = Torn
           /\ Abstract!HasGeneration <=> Verifies
<1>1. Verifies => ~ NoPair
  BY DEF Verifies, NoPair
<1>2. Verifies => ToSet(finalIndex) \in SUBSET Ids
  BY VerifiedContent, ContentIds
<1>3. durableIds = IF NoPair THEN Absent ELSE IF Verifies THEN ToSet(finalIndex) ELSE Torn
  BY DEF durableIds
<1>4. Abstract!HasGeneration <=> durableIds \notin {Absent, Torn}
  BY DEF Abstract!HasGeneration
<1> QED
  BY <1>1, <1>2, <1>3, <1>4, MarksAssumption

\* What the memories and the call stand for.
LEMMA MemoryMeaning ==
    ASSUME FaissTypeOK, NEW i \in Instances
    PROVE  /\ loadedIds[i] = Closed <=> loaded[i] = Closed
           /\ loaded[i] # Closed => loadedIds[i] = ToSet(loaded[i])
<1>1. loaded[i] # Closed => ToSet(loaded[i]) \in SUBSET Ids
  BY ContentIds DEF FaissTypeOK
<1> QED
  BY <1>1, MarksAssumption DEF loadedIds

LEMMA CallMeaning ==
    ASSUME FaissTypeOK
    PROVE  /\ publication = Idle <=> working = Idle
           /\ working # Idle =>
                /\ publication = [by |-> working.by, goal |-> ToSet(working.content),
                                  replaced |-> replacedFiles]
                /\ publication.goal = ToSet(working.content)
                /\ publication.by = working.by
                /\ publication.replaced = replacedFiles
<1> DEFINE call == [by |-> working.by, goal |-> ToSet(working.content),
                    replaced |-> replacedFiles]
<1>1. replacedFiles \in 0..2
  BY DEF replacedFiles
<1>2. ASSUME working # Idle
      PROVE  call \in [by : Instances \cup {Recovery}, goal : SUBSET Ids, replaced : 0..2]
  BY <1>1, <1>2, ContentIds DEF FaissTypeOK, Calls
<1>3. working # Idle => call # Idle
  BY <1>2, MarksAssumption
<1>4. publication = IF working = Idle THEN Idle ELSE call
  BY DEF publication
<1> QED
  BY <1>3, <1>4

\* A step that leaves the pair leaves what it stands for, and so on.
LEMMA SamePair == ASSUME UNCHANGED <<finalIndex, finalMeta>> PROVE durableIds' = durableIds
BY DEF durableIds, NoPair, Verifies

LEMMA SameMemories == ASSUME UNCHANGED loaded PROVE loadedIds' = loadedIds
BY DEF loadedIds

\* The start of a call.
LEMMA BeginMeaning ==
    ASSUME FaissTypeOK, NEW who \in Instances \cup {Recovery}, NEW c, IsContent(c),
           NEW asked \in SUBSET Ids, Begin(who, c, asked)
    PROVE  Abstract!Begin(who, ToSet(c))
<1>1. /\ working = Idle
      /\ working' = [by |-> who, content |-> c, step |-> "candidate", temporaries |-> {}]
      /\ UNCHANGED <<finalIndex, finalMeta, loaded>>
  BY DEF Begin, filesVars
<1>2. working' \in Calls
  BY <1>1 DEF Calls, Steps, IsContent
<1>3. working' # Idle /\ publication = Idle
  BY <1>1, <1>2, MarksAssumption DEF publication
<1>4. publication' = [by |-> who, goal |-> ToSet(c), replaced |-> 0]
  BY <1>1, <1>3 DEF publication, replacedFiles
<1>5. durableIds' = durableIds /\ loadedIds' = loadedIds
  BY <1>1, SamePair, SameMemories
<1> QED
  BY <1>3, <1>4, <1>5 DEF Abstract!Begin, Abstract!Publication
LEMMA AddMeaning ==
    ASSUME FaissInvariant, NEW i \in Instances, NEW v \in Ids, BeginAdd(i, v)
    PROVE  Abstract!BeginAdd(i, v)
<1>1. FaissTypeOK /\ loaded[i] # Closed
  BY DEF FaissInvariant, BeginAdd, Serving
<1>2. PICK c : /\ IsContent(c) /\ Begin(i, WithLast(c, v), {v})
               /\ \/ Verifies /\ c = finalIndex
                  \/ NoPair /\ c = loaded[i] /\ loaded[i] # Closed
  BY AddContent
<1>3. Abstract!Begin(i, ToSet(c) \cup {v})
  <2>1. IsContent(WithLast(c, v)) /\ ToSet(WithLast(c, v)) = ToSet(c) \cup {v}
    BY <1>2, WithLastContent
  <2> QED
    BY <1>1, <1>2, <2>1, BeginMeaning
<1>4. loadedIds[i] # Closed
  BY <1>1, MemoryMeaning
<1>5. CASE Verifies /\ c = finalIndex
  BY <1>1, <1>3, <1>4, <1>5, PairMeaning DEF Abstract!BeginAdd
<1>6. CASE NoPair /\ c = loaded[i]
  BY <1>1, <1>3, <1>4, <1>6, PairMeaning, MemoryMeaning DEF Abstract!BeginAdd
<1> QED
  BY <1>2, <1>5, <1>6

LEMMA RemoveMeaning ==
    ASSUME FaissInvariant, NEW i \in Instances, NEW v \in Ids, BeginRemove(i, v)
    PROVE  Abstract!BeginRemove(i, v)
<1>1. /\ FaissTypeOK /\ loaded[i] # Closed /\ Verifies /\ v \in ToSet(finalIndex)
      /\ Begin(i, Without(finalIndex, v), {v})
  BY DEF FaissInvariant, BeginRemove, Serving
<1>2. /\ IsContent(Without(finalIndex, v))
      /\ ToSet(Without(finalIndex, v)) = ToSet(finalIndex) \ {v}
  BY <1>1, VerifiedContent, WithoutContent
<1>3. Abstract!Begin(i, ToSet(finalIndex) \ {v})
  BY <1>1, <1>2, BeginMeaning
<1> QED
  BY <1>1, <1>3, PairMeaning, MemoryMeaning DEF Abstract!BeginRemove

LEMMA RemoveAbsentMeaning ==
    ASSUME FaissInvariant, NEW i \in Instances, NEW v \in Ids, RemoveAbsent(i, v)
    PROVE  Abstract!RemoveAbsent(i, v)
<1>1. /\ FaissTypeOK /\ loaded[i] # Closed /\ working = Idle
      /\ Verifies /\ v \notin ToSet(finalIndex)
      /\ loaded' = [loaded EXCEPT ![i] = finalIndex]
      /\ UNCHANGED <<finalIndex, finalMeta, working>>
  BY DEF FaissInvariant, RemoveAbsent, Serving, filesVars
<1>2. /\ durableIds = ToSet(finalIndex) /\ Abstract!HasGeneration
      /\ finalIndex # Closed
  BY <1>1, PairMeaning, VerifiedContent, MarksAssumption
<1>3. loadedIds' = [loadedIds EXCEPT ![i] = durableIds]
  <2>1. \A j \in Instances : loaded'[j] = IF j = i THEN finalIndex ELSE loaded[j]
    BY <1>1 DEF FaissTypeOK
  <2>2. \A j \in Instances :
          (IF loaded'[j] = Closed THEN Closed ELSE ToSet(loaded'[j]))
            = IF j = i THEN durableIds
              ELSE IF loaded[j] = Closed THEN Closed ELSE ToSet(loaded[j])
    BY <1>2, <2>1
  <2> QED
    BY <2>2 DEF loadedIds
<1>4. durableIds' = durableIds
  BY <1>1, SamePair
<1>5. publication' = publication /\ publication = Idle /\ loadedIds[i] # Closed
  BY <1>1, CallMeaning, MemoryMeaning DEF publication, replacedFiles
<1> QED
  BY <1>1, <1>2, <1>3, <1>4, <1>5 DEF Abstract!RemoveAbsent

LEMMA ReconcileMeaning ==
    ASSUME FaissInvariant, NEW ids \in SUBSET Ids, BeginReconcile(ids)
    PROVE  Abstract!BeginReconcile(ids)
<1>1. FaissTypeOK /\ Begin(Recovery, InOrder(ids), Ids)
  BY DEF FaissInvariant, BeginReconcile
<1>2. Abstract!Begin(Recovery, ids)
  BY <1>1, InOrderContent, BeginMeaning
<1>3. durableIds # ids
  BY <1>1, PairMeaning, MarksAssumption DEF BeginReconcile
<1> QED
  BY <1>2, <1>3 DEF Abstract!BeginReconcile

\* The first replacement tears the pair, unless the metadata was of the same
\* content before; the second makes it whole.
LEMMA ReplaceMeaning ==
    ASSUME FaissInvariant, ReplaceIndex \/ ReplaceMetadata
    PROVE  Abstract!ReplaceFile
<1>1. /\ FaissTypeOK /\ working # Idle /\ IsContent(working.content)
      /\ working.content \in Seq(Ids) /\ working \in Calls /\ loaded' = loaded
  BY DEF ReplaceIndex, ReplaceMetadata, Move, FaissInvariant, FaissTypeOK, IsContent
<1>2. FaissTypeOK'
  BY FilesMove DEF FaissInvariant
<1>3. publication # Idle /\ loadedIds' = loadedIds
  BY <1>1, CallMeaning, SameMemories
<1>4. CASE ReplaceIndex
  <2>1. /\ working' = [working EXCEPT !.step = "half replaced", !.temporaries = @ \ {"index"}]
        /\ working.step = "written"
        /\ finalIndex' = working.content
    BY <1>4 DEF ReplaceIndex, Move
  <2>2. working' \in Calls
    BY <1>1, <2>1 DEF Calls, Steps
  <2>3. working' # Idle /\ working'.by = working.by /\ working'.content = working.content
    BY <1>1, <2>1, <2>2, MarksAssumption DEF Calls
  <2>4. replacedFiles = 0 /\ replacedFiles' = 1
    BY <1>1, <2>1 DEF replacedFiles, Calls
  <2>5. publication' = [publication EXCEPT !.replaced = @ + 1]
    BY <1>1, <2>3, <2>4 DEF publication
  <2>6. durableIds' \in {Torn, ToSet(working.content)}
    <3>1. ~ NoPair'
      BY <1>1, <2>1, MarksAssumption DEF NoPair
    <3> QED
      BY <2>1, <3>1 DEF durableIds
  <2>7. publication.replaced = 0 /\ publication.goal = ToSet(working.content)
    BY <1>1, <2>4, CallMeaning
  <2> QED
    BY <1>3, <2>5, <2>6, <2>7 DEF Abstract!ReplaceFile
<1>5. CASE ReplaceMetadata
  <2>1. /\ working' = [working EXCEPT !.step = "replaced", !.temporaries = @ \ {"metadata"}]
        /\ working.step = "half replaced"
        /\ finalIndex' = working.content /\ finalMeta' = working.content
    BY <1>5 DEF ReplaceMetadata, Move, FaissInvariant, CallInvariant
  <2>2. working' \in Calls
    BY <1>1, <2>1 DEF Calls, Steps
  <2>3. working' # Idle /\ working'.by = working.by /\ working'.content = working.content
    BY <1>1, <2>1, <2>2, MarksAssumption DEF Calls
  <2>4. replacedFiles = 1 /\ replacedFiles' = 2
    BY <1>1, <2>1 DEF replacedFiles, Calls
  <2>5. publication' = [publication EXCEPT !.replaced = @ + 1]
    BY <1>1, <2>3, <2>4 DEF publication
  <2>6. durableIds' = ToSet(working.content)
    <3>1. ~ NoPair' /\ Verifies'
      BY <1>1, <2>1, MarksAssumption DEF NoPair, Verifies
    <3> QED
      BY <2>1, <3>1 DEF durableIds
  <2>7. publication.replaced = 1 /\ publication.goal = ToSet(working.content)
    BY <1>1, <2>4, CallMeaning
  <2> QED
    BY <1>3, <2>5, <2>6, <2>7 DEF Abstract!ReplaceFile
<1> QED
  BY <1>4, <1>5

LEMMA FinishMeaning ==
    ASSUME FaissInvariant, Finish
    PROVE  Abstract!Acknowledge
<1>1. /\ FaissTypeOK /\ working # Idle /\ working.step = "replaced" /\ Verifies
      /\ loaded' = [i \in Instances |-> IF i = working.by THEN finalIndex ELSE loaded[i]]
      /\ working' = Idle
      /\ UNCHANGED <<finalIndex, finalMeta>>
  BY DEF Finish, filesVars, FaissInvariant
<1>2. durableIds = ToSet(finalIndex) /\ finalIndex # Closed
  BY <1>1, PairMeaning, VerifiedContent, MarksAssumption
<1>3. /\ publication # Idle /\ publication.replaced = 2 /\ publication.by = working.by
  BY <1>1, CallMeaning DEF replacedFiles
<1>4. publication' = Idle /\ durableIds' = durableIds
  BY <1>1, SamePair DEF publication
<1>5. loadedIds' = [i \in Instances |-> IF i = publication.by THEN durableIds ELSE loadedIds[i]]
  <2>1. \A i \in Instances :
          (IF loaded'[i] = Closed THEN Closed ELSE ToSet(loaded'[i]))
            = IF i = publication.by THEN durableIds ELSE loadedIds[i]
    BY <1>1, <1>2, <1>3 DEF loadedIds
  <2> QED
    BY <2>1 DEF loadedIds
<1> QED
  BY <1>3, <1>4, <1>5 DEF Abstract!Acknowledge

LEMMA OpenMeaning ==
    ASSUME FaissInvariant, NEW i \in Instances, OpenVerify(i)
    PROVE  Abstract!Open(i)
<1>1. /\ FaissTypeOK /\ loaded[i] = Closed /\ Verifies
      /\ loaded' = [loaded EXCEPT ![i] = finalIndex]
      /\ UNCHANGED <<finalIndex, finalMeta, working>>
  BY DEF FaissInvariant, OpenVerify, filesVars
<1>2. /\ durableIds = ToSet(finalIndex) /\ Abstract!HasGeneration
      /\ finalIndex # Closed
  BY <1>1, PairMeaning, VerifiedContent, MarksAssumption
<1>3. loadedIds' = [loadedIds EXCEPT ![i] = durableIds]
  <2>1. \A j \in Instances : loaded'[j] = IF j = i THEN finalIndex ELSE loaded[j]
    BY <1>1 DEF FaissTypeOK
  <2>2. \A j \in Instances :
          (IF loaded'[j] = Closed THEN Closed ELSE ToSet(loaded'[j]))
            = IF j = i THEN durableIds
              ELSE IF loaded[j] = Closed THEN Closed ELSE ToSet(loaded[j])
    BY <1>2, <2>1
  <2> QED
    BY <2>2 DEF loadedIds
<1>4. durableIds' = durableIds /\ publication' = publication
  BY <1>1, SamePair DEF publication, replacedFiles
<1> QED
  BY <1>1, <1>2, <1>3, <1>4, MemoryMeaning DEF Abstract!Open

LEMMA FailMeaning ==
    ASSUME FaissInvariant, Fail \/ FailMissingTemporary
    PROVE  Abstract!Abandon
<1>1. /\ FaissTypeOK /\ working # Idle /\ working' = Idle
      /\ UNCHANGED <<finalIndex, finalMeta, loaded>>
  BY DEF Fail, FailMissingTemporary, filesVars, FaissInvariant
<1>2. publication # Idle /\ publication' = Idle
  BY <1>1, CallMeaning DEF publication
<1> QED
  BY <1>1, <1>2, SamePair, SameMemories DEF Abstract!Abandon

LEMMA CrashMeaning ==
    ASSUME Crash
    PROVE  Abstract!Crash
<1>1. /\ loaded' = [i \in Instances |-> Closed] /\ working' = Idle
      /\ UNCHANGED <<finalIndex, finalMeta>>
  BY DEF Crash, filesVars
<1>2. loadedIds' = [i \in Instances |-> Closed] /\ publication' = Idle
  BY <1>1 DEF loadedIds, publication
<1> QED
  BY <1>1, <1>2, SamePair DEF Abstract!Crash

LEMMA DamageMeaning ==
    ASSUME FaissInvariant, Damage
    PROVE  Abstract!Damage
<1>1. /\ FaissTypeOK /\ working = Idle /\ UNCHANGED <<loaded, working>>
      /\ \/ finalIndex' \in {Missing, Corrupt} /\ finalMeta' = finalMeta
         \/ finalMeta' \in {Missing, Corrupt} /\ finalIndex' = finalIndex
  BY DEF Damage, FaissInvariant
<1>2. ~ Verifies'
  BY <1>1 DEF Verifies
<1>3. durableIds' \in {Absent, Torn}
  BY <1>2 DEF durableIds
<1>4. publication = Idle /\ publication' = publication
  BY <1>1 DEF publication, replacedFiles
<1> QED
  BY <1>1, <1>3, <1>4, SameMemories DEF Abstract!Damage

\* Writing temporaries, and deleting them, is not seen.
LEMMA TemporariesUnseen ==
    ASSUME FaissInvariant,
           \/ WriteTemporaries
           \/ \E i \in Instances : OpenCleanUp(i)
           \/ UNCHANGED faissVars
    PROVE  UNCHANGED <<durableIds, loadedIds, publication>>
<1>1. UNCHANGED <<finalIndex, finalMeta, loaded>>
  BY DEF WriteTemporaries, OpenCleanUp, filesVars, faissVars
<1>2. publication' = publication
  <2>1. CASE UNCHANGED faissVars
    BY <2>1 DEF faissVars, publication, replacedFiles
  <2>2. CASE working = Idle /\ \E i \in Instances : OpenCleanUp(i)
    BY <2>2 DEF OpenCleanUp, publication
  <2>3. CASE working # Idle /\ (WriteTemporaries \/ \E i \in Instances : OpenCleanUp(i))
    <3>1. /\ working \in Calls
          /\ \/ working' = [working EXCEPT !.step = "written", !.temporaries = Temporaries]
                /\ working.step = "candidate"
             \/ working' = [working EXCEPT !.temporaries = {}]
      BY <2>3 DEF WriteTemporaries, OpenCleanUp, FaissInvariant, FaissTypeOK
    <3>2. working' \in Calls /\ working'.by = working.by /\ working'.content = working.content
      BY <3>1 DEF Calls, Steps, Temporaries
    <3>3. replacedFiles' = replacedFiles
      BY <3>1 DEF replacedFiles, Calls
    <3> QED
      BY <2>3, <3>2, <3>3, MarksAssumption DEF publication
  <2> QED
    BY <2>1, <2>2, <2>3 DEF WriteTemporaries
<1> QED
  BY <1>1, <1>2, SamePair, SameMemories
LEMMA StepMeaning ==
    ASSUME FaissInvariant, [Next]_faissVars
    PROVE  Abstract!Next \/ UNCHANGED <<durableIds, loadedIds, publication>>
<1>1. CASE Next
  <2>1. ASSUME NEW i \in Instances, NEW v \in Ids,
               BeginAdd(i, v) \/ BeginRemove(i, v) \/ RemoveAbsent(i, v)
        PROVE  Abstract!Next
    BY <2>1, AddMeaning, RemoveMeaning, RemoveAbsentMeaning DEF Abstract!Next
  <2>2. ASSUME NEW i \in Instances, OpenVerify(i) PROVE Abstract!Next
    BY <2>2, OpenMeaning DEF Abstract!Next
  <2>3. ASSUME NEW ids \in SUBSET Ids, BeginReconcile(ids) PROVE Abstract!Next
    BY <2>3, ReconcileMeaning DEF Abstract!Next, Abstract!Generations
  <2>4. ReplaceIndex \/ ReplaceMetadata \/ Finish \/ Fail \/ FailMissingTemporary
          \/ Crash \/ Damage => Abstract!Next
    BY ReplaceMeaning, FinishMeaning, FailMeaning, CrashMeaning, DamageMeaning
       DEF Abstract!Next
  <2> QED
    BY <1>1, <2>1, <2>2, <2>3, <2>4, TemporariesUnseen DEF Next
<1>2. CASE UNCHANGED faissVars
  BY <1>2, TemporariesUnseen
<1> QED
  BY <1>1, <1>2

\* The adapter implements the index its callers rely on: they see whole
\* generations, or a torn pair nobody accepts, whatever fails between the two
\* replacements and whichever constructor runs beside the call.
THEOREM FaissImplementsIndex == Spec => ImplementsVectorIndex
<1>1. Spec => []FaissInvariant
  BY FaissInvariantStarts, FaissInvariantHolds, PTL DEF Spec
<1>2. Init => Abstract!Init
  <2> SUFFICES ASSUME Init PROVE Abstract!Init
    OBVIOUS
  <2>1. durableIds = Absent
    BY DEF Init, durableIds, NoPair
  <2>2. loadedIds = [i \in Instances |-> Closed] /\ publication = Idle
    BY DEF Init, loadedIds, publication
  <2> QED
    BY <2>1, <2>2 DEF Abstract!Init
<1>3. FaissInvariant /\ [Next]_faissVars => [Abstract!Next]_(Abstract!indexVars)
  BY StepMeaning DEF Abstract!indexVars
<1> QED
  BY <1>1, <1>2, <1>3, PTL DEF Spec, ImplementsVectorIndex, Abstract!Spec

=============================================================================
