----------------------- MODULE MemoryRepositoryProofs -----------------------
(***************************************************************************)
(* For any set of memories, owners, slots and instants: the startup audit  *)
(* of MemoryRepository accepts every reachable store, and every            *)
(* transaction is a step of the owner's view of a memory (MemoryLifecycle) *)
(* or is not seen at all.                                                  *)
(***************************************************************************)
EXTENDS MemoryRepository, TLAPS

\* The ids a row claims depend on its two id columns only.
LEMMA ClaimedIdsOf ==
    ASSUME NEW m, NEW v
    PROVE  v \in ClaimedIds(m) <=> v # Null /\ (v = mapping[m] \/ v = cleanupId[m])
BY DEF ClaimedIds

\* The back-filled store of migration 0003 satisfies the invariant.
LEMMA InitInvariant == Init => StoreInvariant
<1> SUFFICES ASSUME Init PROVE StoreInvariant
  OBVIOUS
<1> USE AttributesAssumption, NullAssumption, LegacyAssumption
<1>1. TypeOK
  BY DEF Init, TypeOK, BackfillForgetting, VectorIds, LifecycleStatus, IndexingState
<1>2. UnstoredRowsBlank
  BY DEF Init, UnstoredRowsBlank, BackfillForgetting, Live
<1>3. ClaimedIdsIssued
  BY ClaimedIdsOf DEF Init, ClaimedIdsIssued, BackfillForgetting
<1>4. IdentityAudit
  <2>1. \A m \in stored : RowAudit(m)
    BY DEF Init, RowAudit, BackfillForgetting, Live
  <2>2. DistinctVectorOwners
    BY DEF Init, DistinctVectorOwners, ClaimedIds, BackfillForgetting
  <2> QED BY <2>1, <2>2 DEF IdentityAudit
<1>5. RelationshipAudit
  <2>1. \A m \in stored : LinkAudit(m)
    BY DEF Init, LinkAudit
  <2>2. NoSupersessionCycle
    BY DEF Init, NoSupersessionCycle
  <2> QED BY <2>1, <2>2 DEF RelationshipAudit
<1> QED BY <1>1, <1>2, <1>3, <1>4, <1>5 DEF StoreInvariant

-----------------------------------------------------------------------------
(* Frames: what a transaction that leaves most columns alone preserves.    *)

\* A step that adds no link and no row, takes no index away and leaves
\* "superseded" alone cannot upset the relationship audit.
LEMMA LinksFrame ==
    ASSUME RelationshipAudit,
           UNCHANGED <<stored, supersedes, supersededBy>>,
           \A m \in stored : indexing[m] = "indexed" => indexing'[m] = "indexed",
           \A m \in stored : lifecycle'[m] = "superseded" <=> lifecycle[m] = "superseded"
    PROVE  RelationshipAudit'
<1>1. ASSUME NEW m \in stored PROVE LinkAudit(m)'
  <2>1. LinkAudit(m)
    BY DEF RelationshipAudit
  <2> QED BY <2>1 DEF LinkAudit
<1>2. NoSupersessionCycle'
  BY DEF RelationshipAudit, NoSupersessionCycle
<1> QED BY <1>1, <1>2 DEF RelationshipAudit

\* A step that touches no id, tombstone or forgetting row preserves the
\* identity audit if what it indexes has a mapping.
LEMMA IdentityFrame ==
    ASSUME IdentityAudit,
           UNCHANGED <<stored, deletedAt, mapping, cleanup, cleanupId, requestedAt>>,
           \A m \in stored : indexing'[m] = "indexed" => indexing[m] = "indexed" \/ mapping[m] # Null
    PROVE  IdentityAudit'
<1>1. ASSUME NEW m \in stored PROVE RowAudit(m)'
  <2>1. RowAudit(m)
    BY DEF IdentityAudit
  <2> QED BY <2>1 DEF RowAudit, Live
<1>2. DistinctVectorOwners'
  BY DEF IdentityAudit, DistinctVectorOwners, ClaimedIds
<1> QED BY <1>1, <1>2 DEF IdentityAudit

\* The blank rows and the ids they claim, when none of their columns change.
LEMMA BlankFrame ==
    ASSUME UnstoredRowsBlank, ClaimedIdsIssued,
           UNCHANGED <<stored, mapping, nextVectorId, cleanupId>>,
           \A m \in MemoryIds \ stored :
              /\ lifecycle'[m] = lifecycle[m]
              /\ indexing'[m] = indexing[m]
              /\ supersedes'[m] = supersedes[m]
              /\ supersededBy'[m] = supersededBy[m]
              /\ deletedAt'[m] = deletedAt[m]
              /\ cleanup'[m] = cleanup[m]
              /\ requestedAt'[m] = requestedAt[m]
    PROVE  UnstoredRowsBlank' /\ ClaimedIdsIssued'
<1>1. UnstoredRowsBlank'
  BY DEF UnstoredRowsBlank, Live
<1>2. ClaimedIdsIssued'
  BY DEF ClaimedIdsIssued, ClaimedIds
<1> QED BY <1>1, <1>2

-----------------------------------------------------------------------------
(* One lemma per transaction.                                              *)

\* A new row brings a fresh id and no link.
LEMMA PersistPendingInvariant ==
    ASSUME StoreInvariant, NEW x \in MemoryIds, PersistPending(x)
    PROVE  StoreInvariant'
<1> USE NullAssumption
<1>0. TypeOK /\ UnstoredRowsBlank /\ ClaimedIdsIssued /\ IdentityAudit /\ RelationshipAudit
  BY DEF StoreInvariant
<1>1. TypeOK'
  BY <1>0 DEF TypeOK, PersistPending, VectorIds, forgettingVars
<1>2. UnstoredRowsBlank'
  BY <1>0 DEF UnstoredRowsBlank, PersistPending, Live, forgettingVars, TypeOK
<1>3. /\ \A m \in MemoryIds : m # x => mapping'[m] = mapping[m]
      /\ mapping'[x] = nextVectorId /\ cleanupId'[x] = Null
      /\ cleanupId' = cleanupId /\ nextVectorId' = nextVectorId + 1 /\ nextVectorId \in Nat
      /\ stored' = stored \cup {x} /\ x \notin stored
  BY <1>0 DEF PersistPending, TypeOK, forgettingVars, UnstoredRowsBlank, VectorIds
<1>4. ClaimedIdsIssued'
  <2> SUFFICES ASSUME NEW m \in MemoryIds, NEW v \in ClaimedIds(m)'
               PROVE  v < nextVectorId'
    BY DEF ClaimedIdsIssued
  <2>1. v \in Nat /\ (v = mapping'[m] \/ v = cleanupId'[m]) /\ v # Null
    BY <1>1 DEF ClaimedIds, TypeOK, VectorIds
  <2>2. CASE v = mapping'[x]
    BY <2>2, <1>3
  <2>3. CASE v # mapping'[x]
    <3>1. v \in ClaimedIds(m)
      BY <2>1, <2>3, <1>3 DEF ClaimedIds
    <3> QED BY <3>1, <2>1, <1>0, <1>3 DEF ClaimedIdsIssued
  <2> QED BY <2>2, <2>3
<1>5. IdentityAudit'
  <2>1. ASSUME NEW m \in stored' PROVE RowAudit(m)'
    <3>1. CASE m = x
      BY <3>1, <1>0, <1>3 DEF RowAudit, PersistPending, UnstoredRowsBlank, Live, forgettingVars
    <3>2. CASE m # x
      <4>1. m \in stored /\ RowAudit(m) /\ m \in MemoryIds
        BY <3>2, <1>0, <1>3 DEF IdentityAudit, TypeOK
      <4> QED BY <4>1, <3>2, <1>3 DEF RowAudit, PersistPending, Live, forgettingVars
    <3> QED BY <3>1, <3>2
  <2>2. ASSUME NEW m \in stored', NEW n \in stored', m # n
        PROVE  (ClaimedIds(m) \cap ClaimedIds(n) = {})'
    <3>1. m \in MemoryIds /\ n \in MemoryIds
      BY <1>1 DEF TypeOK
    <3>2. ASSUME NEW p \in stored, p # x PROVE nextVectorId \notin ClaimedIds(p)
      BY <3>2, <1>0, <1>3 DEF ClaimedIdsIssued, TypeOK
    <3>3. ClaimedIds(x)' = {nextVectorId}
      BY <1>3, <1>0 DEF ClaimedIds, TypeOK, VectorIds
    <3>4. ASSUME NEW p \in stored', p # x PROVE ClaimedIds(p)' = ClaimedIds(p) /\ p \in stored
      BY <3>4, <1>3, <1>1 DEF ClaimedIds, TypeOK
    <3>5. CASE m = x
      BY <3>2, <3>3, <3>4, <3>5, <2>2
    <3>6. CASE n = x
      BY <3>2, <3>3, <3>4, <3>6, <2>2
    <3>7. CASE m # x /\ n # x
      BY <3>4, <3>7, <2>2, <1>0 DEF IdentityAudit, DistinctVectorOwners
    <3> QED BY <3>5, <3>6, <3>7
  <2> QED BY <2>1, <2>2 DEF IdentityAudit, DistinctVectorOwners
<1>6. RelationshipAudit'
  <2>0. UNCHANGED <<lifecycle, indexing, supersedes, supersededBy>> /\ stored' = stored \cup {x}
    BY DEF PersistPending
  <2>1. ASSUME NEW m \in stored' PROVE LinkAudit(m)'
    <3>1. CASE m = x
      <4>1. supersedes[x] = {} /\ supersededBy[x] = Null /\ lifecycle[x] = "active"
        BY <1>0, <1>3 DEF UnstoredRowsBlank
      <4> QED BY <4>1, <2>0, <3>1 DEF LinkAudit
    <3>2. CASE m # x
      <4>1. LinkAudit(m)
        BY <3>2, <2>0, <1>0 DEF RelationshipAudit
      <4> QED BY <4>1, <2>0 DEF LinkAudit
    <3> QED BY <3>1, <3>2
  <2>2. ASSUME NEW S \in SUBSET stored', S # {}
        PROVE  \E m \in S : supersedes'[m] \cap S = {}
    <3>1. CASE x \in S
      BY <3>1, <2>0, <1>0, <1>3 DEF UnstoredRowsBlank
    <3>2. CASE x \notin S
      BY <3>2, <2>2, <2>0, <1>0 DEF RelationshipAudit, NoSupersessionCycle
    <3> QED BY <3>1, <3>2
  <2> QED BY <2>1, <2>2 DEF RelationshipAudit, NoSupersessionCycle
<1> QED BY <1>1, <1>2, <1>4, <1>5, <1>6 DEF StoreInvariant

\* An indexing-state change of a mapped row: mark_indexed, mark_pending and
\* mark_failed.  None starts from "indexed", and all require a mapping.
LEMMA TransitionInvariant ==
    ASSUME StoreInvariant, NEW u \in Users, NEW x \in MemoryIds,
           NEW from \in {"pending", "failed"}, NEW to \in IndexingState,
           HasIndexingWork(x), Transition(u, x, from, to)
    PROVE  StoreInvariant'
<1>0. TypeOK /\ UnstoredRowsBlank /\ ClaimedIdsIssued /\ IdentityAudit /\ RelationshipAudit
  BY DEF StoreInvariant
<1>1. TypeOK'
  BY <1>0 DEF TypeOK, Transition, mappingVars, forgettingVars
<1>2. /\ UNCHANGED <<stored, lifecycle, supersedes, supersededBy, deletedAt, mapping,
                     nextVectorId, cleanup, cleanupId, requestedAt>>
      /\ indexing' = [indexing EXCEPT ![x] = to] /\ indexing[x] # "indexed"
      /\ x \in stored /\ mapping[x] # Null
  BY DEF Transition, mappingVars, forgettingVars, HasIndexingWork
<1>3. \A m \in MemoryIds : m # x => indexing'[m] = indexing[m]
  BY <1>2, <1>0 DEF TypeOK
<1>4. UnstoredRowsBlank' /\ ClaimedIdsIssued'
  BY <1>0, <1>2, <1>3, BlankFrame
<1>5. IdentityAudit'
  <2>1. \A m \in stored : indexing'[m] = "indexed" => indexing[m] = "indexed" \/ mapping[m] # Null
    BY <1>2, <1>3, <1>0 DEF TypeOK
  <2> QED BY <2>1, <1>0, <1>2, IdentityFrame
<1>6. RelationshipAudit'
  <2>1. \A m \in stored : indexing[m] = "indexed" => indexing'[m] = "indexed"
    BY <1>2, <1>3, <1>0 DEF TypeOK
  <2> QED BY <2>1, <1>0, <1>2, LinksFrame
<1> QED BY <1>1, <1>4, <1>5, <1>6 DEF StoreInvariant

\* Expiration moves active rows only, and "expired" is no link.
LEMMA ExpireInvariant ==
    ASSUME StoreInvariant, NEW u \in Users, NEW now \in Instants,
           ExpireCurrentMemories(u, now)
    PROVE  StoreInvariant'
<1>0. TypeOK /\ UnstoredRowsBlank /\ ClaimedIdsIssued /\ IdentityAudit /\ RelationshipAudit
  BY DEF StoreInvariant
<1>1. TypeOK'
  BY <1>0 DEF TypeOK, ExpireCurrentMemories, mappingVars, forgettingVars, LifecycleStatus
<1>2. /\ UNCHANGED <<stored, indexing, supersedes, supersededBy, deletedAt, mapping,
                     nextVectorId, cleanup, cleanupId, requestedAt>>
      /\ \A m \in MemoryIds : lifecycle'[m] = IF m \in Expiring(u, now) THEN "expired" ELSE lifecycle[m]
  BY DEF ExpireCurrentMemories, mappingVars, forgettingVars
<1>3. \A m \in Expiring(u, now) : m \in stored /\ lifecycle[m] = "active"
  BY DEF Expiring
<1>4. UnstoredRowsBlank' /\ ClaimedIdsIssued'
  BY <1>0, <1>2, <1>3, BlankFrame
<1>5. IdentityAudit'
  BY <1>0, <1>2, IdentityFrame
<1>6. RelationshipAudit'
  <2>1. \A m \in stored : lifecycle'[m] = "superseded" <=> lifecycle[m] = "superseded"
    BY <1>2, <1>3, <1>0 DEF TypeOK
  <2> QED BY <2>1, <1>0, <1>2, LinksFrame
<1> QED BY <1>1, <1>4, <1>5, <1>6 DEF StoreInvariant

\* A tombstone and its forgetting row appear together, with the live id.
LEMMA BeginForgettingInvariant ==
    ASSUME StoreInvariant, NEW u \in Users, NEW x \in MemoryIds, NEW now \in Instants,
           BeginForgetting(u, x, now)
    PROVE  StoreInvariant'
<1> USE NullAssumption
<1>0. TypeOK /\ UnstoredRowsBlank /\ ClaimedIdsIssued /\ IdentityAudit /\ RelationshipAudit
  BY DEF StoreInvariant
<1> DEFINE at == IF Live(x) THEN now ELSE deletedAt[x]
<1>1. /\ UNCHANGED <<stored, lifecycle, indexing, supersedes, supersededBy, mapping, nextVectorId>>
      /\ x \in stored /\ cleanup[x] = Null
      /\ deletedAt' = [deletedAt EXCEPT ![x] = at]
      /\ requestedAt' = [requestedAt EXCEPT ![x] = at]
      /\ cleanup' = [cleanup EXCEPT ![x] = "cleanup_pending"]
      /\ cleanupId' = [cleanupId EXCEPT ![x] = mapping[x]]
  BY DEF BeginForgetting, Owned, mappingVars
<1>2. at \in Instants /\ at # Null
  BY <1>0, AttributesAssumption DEF TypeOK, Live
<1> HIDE DEF at
<1>3. TypeOK'
  BY <1>0, <1>1, <1>2 DEF TypeOK
<1>4. UnstoredRowsBlank'
  BY <1>0, <1>1 DEF UnstoredRowsBlank, Live, TypeOK
<1>5. ASSUME NEW m \in MemoryIds PROVE ClaimedIds(m)' \subseteq ClaimedIds(m)
  BY <1>0, <1>1 DEF ClaimedIds, TypeOK
<1>6. ClaimedIdsIssued'
  BY <1>5, <1>1, <1>0 DEF ClaimedIdsIssued
<1>7. IdentityAudit'
  <2>1. ASSUME NEW m \in stored' PROVE RowAudit(m)'
    <3>1. m \in stored /\ m \in MemoryIds /\ RowAudit(m)
      BY <1>0, <1>1 DEF IdentityAudit, TypeOK
    <3>2. CASE m = x
      BY <3>1, <3>2, <1>0, <1>1, <1>2 DEF RowAudit, Live, TypeOK
    <3>3. CASE m # x
      BY <3>1, <3>3, <1>0, <1>1 DEF RowAudit, Live, TypeOK
    <3> QED BY <3>2, <3>3
  <2>2. DistinctVectorOwners'
    BY <1>5, <1>1, <1>0 DEF IdentityAudit, DistinctVectorOwners, TypeOK
  <2> QED BY <2>1, <2>2 DEF IdentityAudit
<1>8. RelationshipAudit'
  BY <1>0, <1>1, LinksFrame
<1> QED BY <1>3, <1>4, <1>6, <1>7, <1>8 DEF StoreInvariant

\* Adoption copies a live mapping that no other row can claim.
LEMMA AdoptInvariant ==
    ASSUME StoreInvariant, NEW u \in Users, NEW x \in MemoryIds, NEW v \in VectorIds,
           AdoptForgettingVectorId(u, x, v)
    PROVE  StoreInvariant'
<1> USE NullAssumption
<1>0. TypeOK /\ UnstoredRowsBlank /\ ClaimedIdsIssued /\ IdentityAudit /\ RelationshipAudit
  BY DEF StoreInvariant
<1>1. /\ UNCHANGED <<stored, lifecycle, indexing, supersedes, supersededBy, deletedAt,
                     mapping, nextVectorId, cleanup, requestedAt>>
      /\ x \in stored /\ cleanup[x] = "cleanup_pending" /\ mapping[x] = v
      /\ cleanupId' = [cleanupId EXCEPT ![x] = v]
  BY DEF AdoptForgettingVectorId, Owned, memoryVars, mappingVars
<1>2. TypeOK'
  BY <1>0, <1>1 DEF TypeOK
<1>3. UnstoredRowsBlank'
  BY <1>0, <1>1 DEF UnstoredRowsBlank, Live, TypeOK
<1>4. ASSUME NEW m \in MemoryIds PROVE ClaimedIds(m)' \subseteq ClaimedIds(m)
  BY <1>0, <1>1 DEF ClaimedIds, TypeOK
<1>5. ClaimedIdsIssued'
  BY <1>4, <1>1, <1>0 DEF ClaimedIdsIssued
<1>6. IdentityAudit'
  <2>1. ASSUME NEW m \in stored' PROVE RowAudit(m)'
    <3>1. m \in stored /\ m \in MemoryIds /\ RowAudit(m)
      BY <1>0, <1>1 DEF IdentityAudit, TypeOK
    <3> QED BY <3>1, <1>0, <1>1 DEF RowAudit, Live, TypeOK
  <2>2. DistinctVectorOwners'
    BY <1>4, <1>1, <1>0 DEF IdentityAudit, DistinctVectorOwners, TypeOK
  <2> QED BY <2>1, <2>2 DEF IdentityAudit
<1>7. RelationshipAudit'
  BY <1>0, <1>1, LinksFrame
<1> QED BY <1>2, <1>3, <1>5, <1>6, <1>7 DEF StoreInvariant

\* Completion drops the mapping and keeps the id in the forgetting row.
LEMMA AcknowledgeForgettingInvariant ==
    ASSUME StoreInvariant, NEW u \in Users, NEW x \in MemoryIds, NEW v \in VectorIds,
           AcknowledgeForgettingComplete(u, x, v)
    PROVE  StoreInvariant'
<1> USE NullAssumption
<1>0. TypeOK /\ UnstoredRowsBlank /\ ClaimedIdsIssued /\ IdentityAudit /\ RelationshipAudit
  BY DEF StoreInvariant
<1>1. /\ UNCHANGED <<stored, lifecycle, indexing, supersedes, supersededBy, deletedAt,
                     nextVectorId, cleanupId, requestedAt>>
      /\ x \in stored /\ ~Live(x) /\ cleanupId[x] = v /\ v # Null /\ cleanup[x] # Null
      /\ cleanup' = [cleanup EXCEPT ![x] = "complete"]
      /\ mapping' = [mapping EXCEPT ![x] = Null]
  BY DEF AcknowledgeForgettingComplete, Owned, memoryVars, VectorIds
<1>2. TypeOK'
  BY <1>0, <1>1 DEF TypeOK
<1>3. UnstoredRowsBlank'
  BY <1>0, <1>1 DEF UnstoredRowsBlank, Live, TypeOK
<1>4. ASSUME NEW m \in MemoryIds PROVE ClaimedIds(m)' \subseteq ClaimedIds(m)
  BY <1>0, <1>1 DEF ClaimedIds, TypeOK
<1>5. ClaimedIdsIssued'
  BY <1>4, <1>1, <1>0 DEF ClaimedIdsIssued
<1>6. IdentityAudit'
  <2>1. ASSUME NEW m \in stored' PROVE RowAudit(m)'
    <3>1. m \in stored /\ m \in MemoryIds /\ RowAudit(m)
      BY <1>0, <1>1 DEF IdentityAudit, TypeOK
    <3> QED BY <3>1, <1>0, <1>1 DEF RowAudit, Live, TypeOK
  <2>2. DistinctVectorOwners'
    BY <1>4, <1>1, <1>0 DEF IdentityAudit, DistinctVectorOwners, TypeOK
  <2> QED BY <2>1, <2>2 DEF IdentityAudit
<1>7. RelationshipAudit'
  BY <1>0, <1>1, LinksFrame
<1> QED BY <1>2, <1>3, <1>5, <1>6, <1>7 DEF StoreInvariant

\* A restored mapping is a fresh id of a tombstoned row.
LEMMA RestoreMappingInvariant ==
    ASSUME StoreInvariant, NEW x \in MemoryIds, RestoreMapping(x)
    PROVE  StoreInvariant'
<1> USE NullAssumption
<1>0. TypeOK /\ UnstoredRowsBlank /\ ClaimedIdsIssued /\ IdentityAudit /\ RelationshipAudit
  BY DEF StoreInvariant
<1>1. /\ UNCHANGED <<stored, lifecycle, indexing, supersedes, supersededBy, deletedAt,
                     cleanup, cleanupId, requestedAt>>
      /\ x \in stored /\ cleanup[x] = "cleanup_pending" /\ cleanupId[x] = Null
      /\ mapping' = [mapping EXCEPT ![x] = nextVectorId]
      /\ nextVectorId' = nextVectorId + 1
  BY DEF RestoreMapping, memoryVars, forgettingVars
<1>2. TypeOK'
  BY <1>0, <1>1 DEF TypeOK, VectorIds
<1>3. UnstoredRowsBlank'
  BY <1>0, <1>1 DEF UnstoredRowsBlank, Live, TypeOK
<1>4. ASSUME NEW m \in MemoryIds, m # x PROVE ClaimedIds(m)' = ClaimedIds(m)
  BY <1>4, <1>0, <1>1 DEF ClaimedIds, TypeOK
<1>5. ClaimedIds(x)' = {nextVectorId}
  BY <1>0, <1>1 DEF ClaimedIds, TypeOK, VectorIds
<1>6. ClaimedIdsIssued'
  <2> SUFFICES ASSUME NEW m \in MemoryIds, NEW w \in ClaimedIds(m)'
               PROVE  w < nextVectorId'
    BY DEF ClaimedIdsIssued
  <2>1. nextVectorId \in Nat /\ nextVectorId' = nextVectorId + 1
    BY <1>0, <1>1 DEF TypeOK, VectorIds
  <2>2. w \in Nat
    BY <1>2 DEF ClaimedIds, TypeOK, VectorIds
  <2>3. CASE m = x
    BY <2>1, <2>3, <1>5
  <2>4. CASE m # x
    BY <2>1, <2>2, <2>4, <1>4, <1>0 DEF ClaimedIdsIssued
  <2> QED BY <2>3, <2>4
<1>7. IdentityAudit'
  <2>1. ASSUME NEW m \in stored' PROVE RowAudit(m)'
    <3>1. m \in stored /\ m \in MemoryIds /\ RowAudit(m)
      BY <1>0, <1>1 DEF IdentityAudit, TypeOK
    <3> QED BY <3>1, <1>0, <1>1 DEF RowAudit, Live, TypeOK
  <2>2. ASSUME NEW m \in stored', NEW n \in stored', m # n
        PROVE  (ClaimedIds(m) \cap ClaimedIds(n) = {})'
    <3>1. m \in MemoryIds /\ n \in MemoryIds /\ m \in stored /\ n \in stored
      BY <1>2, <1>1 DEF TypeOK
    <3>2. ASSUME NEW p \in MemoryIds PROVE nextVectorId \notin ClaimedIds(p)
      BY <1>0, <3>2 DEF ClaimedIdsIssued, TypeOK, VectorIds
    <3>3. CASE m = x
      BY <3>1, <3>2, <3>3, <1>4, <1>5, <2>2
    <3>4. CASE n = x
      BY <3>1, <3>2, <3>4, <1>4, <1>5, <2>2
    <3>5. CASE m # x /\ n # x
      BY <3>1, <3>5, <1>4, <2>2, <1>0 DEF IdentityAudit, DistinctVectorOwners
    <3> QED BY <3>3, <3>4, <3>5
  <2> QED BY <2>1, <2>2 DEF IdentityAudit, DistinctVectorOwners
<1>8. RelationshipAudit'
  BY <1>0, <1>1, LinksFrame
<1> QED BY <1>2, <1>3, <1>6, <1>7, <1>8 DEF StoreInvariant

-----------------------------------------------------------------------------
(* Supersession: the one transaction that writes links.                    *)

\* A cycle through the new link would have to enter the replacement, and
\* nothing supersedes a row that was not indexed until now.
LEMMA SupersessionKeepsAcyclic ==
    ASSUME NoSupersessionCycle,
           NEW r \in stored, NEW t \in stored, r # t,
           stored' = stored,
           \A m \in stored \ {r} : supersedes'[m] = supersedes[m],
           supersedes'[r] = {t},
           \A m \in stored : r \notin supersedes[m]
    PROVE  NoSupersessionCycle'
<1> SUFFICES ASSUME NEW S \in SUBSET stored, S # {},
                    \A m \in S : supersedes'[m] \cap S # {}
             PROVE  FALSE
  BY DEF NoSupersessionCycle
<1>1. CASE r \notin S
  BY <1>1 DEF NoSupersessionCycle
<1>2. CASE r \in S
  <2> DEFINE T == S \ {r}
  <2>1. T \in SUBSET stored /\ T # {}
    BY <1>2
  <2>2. ASSUME NEW m \in T PROVE supersedes[m] \cap T # {}
    <3>1. supersedes'[m] = supersedes[m] /\ r \notin supersedes[m]
      OBVIOUS
    <3> QED BY <3>1
  <2> QED BY <2>1, <2>2 DEF NoSupersessionCycle
<1> QED BY <1>1, <1>2

LEMMA SupersessionInvariant ==
    ASSUME StoreInvariant, NEW u \in Users, NEW r \in MemoryIds, NEW t \in MemoryIds,
           AcknowledgeSupersession(u, r, t)
    PROVE  StoreInvariant'
<1> USE NullAssumption
<1>0. TypeOK /\ UnstoredRowsBlank /\ ClaimedIdsIssued /\ IdentityAudit /\ RelationshipAudit
  BY DEF StoreInvariant
<1>1. /\ UNCHANGED <<stored, deletedAt, mapping, nextVectorId, cleanup, cleanupId, requestedAt>>
      /\ r \in stored /\ t \in stored /\ r # t /\ mapping[r] # Null
      /\ Owner[r] = Owner[t] /\ Slot[r] = Slot[t] /\ Slot[r] # Null /\ r \in Explicit
      /\ lifecycle[r] = "active" /\ indexing[r] = "pending"
      /\ supersedes[r] = {} /\ supersededBy[r] = Null
      /\ lifecycle[t] = "active" /\ indexing[t] = "indexed" /\ supersededBy[t] = Null
      /\ indexing' = [indexing EXCEPT ![r] = "indexed"]
      /\ supersedes' = [supersedes EXCEPT ![r] = {t}]
      /\ lifecycle' = [lifecycle EXCEPT ![t] = "superseded"]
      /\ supersededBy' = [supersededBy EXCEPT ![t] = r]
  BY DEF AcknowledgeSupersession, ValidSupersessionTarget, HasIndexingWork, Owned,
         mappingVars, forgettingVars
<1>2. TypeOK'
  BY <1>0, <1>1 DEF TypeOK, IndexingState, LifecycleStatus
<1>3. /\ indexing'[r] = "indexed" /\ \A m \in MemoryIds \ {r} : indexing'[m] = indexing[m]
      /\ supersedes'[r] = {t} /\ \A m \in MemoryIds \ {r} : supersedes'[m] = supersedes[m]
      /\ lifecycle'[t] = "superseded" /\ \A m \in MemoryIds \ {t} : lifecycle'[m] = lifecycle[m]
      /\ supersededBy'[t] = r /\ \A m \in MemoryIds \ {t} : supersededBy'[m] = supersededBy[m]
  BY <1>0, <1>1 DEF TypeOK
<1>4. UnstoredRowsBlank' /\ ClaimedIdsIssued'
  BY <1>0, <1>1, <1>3, BlankFrame
<1>5. IdentityAudit'
  <2>1. \A m \in stored : indexing'[m] = "indexed" => indexing[m] = "indexed" \/ mapping[m] # Null
    BY <1>0, <1>1, <1>3 DEF TypeOK
  <2> QED BY <2>1, <1>0, <1>1, IdentityFrame
<1>6. ASSUME NEW m \in stored PROVE LinkAudit(m) /\ m \in MemoryIds
  BY <1>0 DEF RelationshipAudit, TypeOK
<1>7. \A m \in stored : r \notin supersedes[m] /\ t \notin supersedes[m]
  BY <1>1, <1>6 DEF LinkAudit
<1>8. ASSUME NEW m \in stored' PROVE LinkAudit(m)'
  <2>1. m \in stored /\ m \in MemoryIds /\ LinkAudit(m)
    BY <1>1, <1>6
  <2>2. CASE m = r
    BY <2>1, <2>2, <1>1, <1>3 DEF LinkAudit
  <2>3. CASE m = t
    <3>1. supersedes'[t] = supersedes[t] /\ indexing'[t] = indexing[t]
      BY <1>1, <1>3
    <3>2. \A s \in supersedes[t] : s # r /\ s # t /\ s \in MemoryIds
      BY <1>0, <1>1, <1>7 DEF TypeOK
    <3> QED BY <2>1, <2>3, <3>1, <3>2, <1>1, <1>3 DEF LinkAudit
  <2>4. CASE m # r /\ m # t
    <3>1. \A s \in supersedes[m] : s # r /\ s # t /\ s \in MemoryIds
      BY <1>0, <2>1, <1>7 DEF TypeOK
    <3>2. supersededBy[m] # Null => supersededBy[m] # r
      BY <2>1, <1>1 DEF LinkAudit
    <3> QED BY <2>1, <2>4, <3>1, <3>2, <1>0, <1>1, <1>3 DEF LinkAudit, TypeOK
  <2> QED BY <2>2, <2>3, <2>4
<1>9. NoSupersessionCycle'
  <2>1. \A m \in stored \ {r} : supersedes'[m] = supersedes[m]
    BY <1>0, <1>3 DEF TypeOK
  <2> QED BY <2>1, <1>0, <1>1, <1>3, <1>7, SupersessionKeepsAcyclic DEF RelationshipAudit
<1> QED BY <1>2, <1>4, <1>5, <1>8, <1>9 DEF StoreInvariant, RelationshipAudit

-----------------------------------------------------------------------------
(* The theorems.                                                           *)

\* Every transaction preserves the invariant.
LEMMA NextInvariant == StoreInvariant /\ [Next]_storeVars => StoreInvariant'
<1> SUFFICES ASSUME StoreInvariant, [Next]_storeVars PROVE StoreInvariant'
  OBVIOUS
<1>1. ASSUME NEW m \in MemoryIds, PersistPending(m) PROVE StoreInvariant'
  BY <1>1, PersistPendingInvariant
<1>2. ASSUME NEW u \in Users, NEW m \in MemoryIds, MarkIndexed(u, m) PROVE StoreInvariant'
  BY <1>2, TransitionInvariant DEF MarkIndexed, IndexingState
<1>3. ASSUME NEW u \in Users, NEW m \in MemoryIds, MarkPending(u, m) PROVE StoreInvariant'
  BY <1>3, TransitionInvariant DEF MarkPending, IndexingState
<1>4. ASSUME NEW u \in Users, NEW m \in MemoryIds, MarkFailed(u, m) PROVE StoreInvariant'
  BY <1>4, TransitionInvariant DEF MarkFailed, IndexingState
<1>5. ASSUME NEW u \in Users, NEW m \in MemoryIds, NEW t \in MemoryIds,
             AcknowledgeSupersession(u, m, t)
      PROVE  StoreInvariant'
  BY <1>5, SupersessionInvariant
<1>6. ASSUME NEW u \in Users, NEW m \in MemoryIds, NEW now \in Instants,
             BeginForgetting(u, m, now)
      PROVE  StoreInvariant'
  BY <1>6, BeginForgettingInvariant
<1>7. ASSUME NEW u \in Users, NEW m \in MemoryIds, NEW v \in VectorIds,
             AdoptForgettingVectorId(u, m, v)
      PROVE  StoreInvariant'
  BY <1>7, AdoptInvariant
<1>8. ASSUME NEW u \in Users, NEW m \in MemoryIds, NEW v \in VectorIds,
             AcknowledgeForgettingComplete(u, m, v)
      PROVE  StoreInvariant'
  BY <1>8, AcknowledgeForgettingInvariant
<1>9. ASSUME NEW u \in Users, NEW now \in Instants, ExpireCurrentMemories(u, now)
      PROVE  StoreInvariant'
  BY <1>9, ExpireInvariant
<1>10. ASSUME NEW m \in MemoryIds, RestoreMapping(m) PROVE StoreInvariant'
  BY <1>10, RestoreMappingInvariant
<1>11. CASE UNCHANGED storeVars
  <2>1. UNCHANGED <<stored, lifecycle, indexing, supersedes, supersededBy, deletedAt,
                    mapping, nextVectorId, cleanup, cleanupId, requestedAt>>
    BY <1>11 DEF storeVars
  <2>2. TypeOK'
    BY <2>1 DEF StoreInvariant, TypeOK
  <2>3. UnstoredRowsBlank' /\ ClaimedIdsIssued'
    BY <2>1, BlankFrame DEF StoreInvariant
  <2>4. IdentityAudit'
    BY <2>1, IdentityFrame DEF StoreInvariant
  <2>5. RelationshipAudit'
    BY <2>1, LinksFrame DEF StoreInvariant
  <2> QED BY <2>2, <2>3, <2>4, <2>5 DEF StoreInvariant
<1> QED BY <1>1, <1>2, <1>3, <1>4, <1>5, <1>6, <1>7, <1>8, <1>9, <1>10, <1>11 DEF Next

\* Any order of committed transactions keeps every column of every table in
\* its domain and the store acceptable to both audits.
THEOREM StoreInvariantHolds == Spec => []StoreInvariant
BY InitInvariant, NextInvariant, PTL DEF Spec

\* The tables keep their types (SQLiteMemoryRepository).
THEOREM StoreTyped == Spec => []TypeOK
<1>1. StoreInvariant => TypeOK
  BY DEF StoreInvariant
<1> QED BY <1>1, StoreInvariantHolds, PTL

\* Startup recovery never answers unavailable_authoritative_identity for the
\* ids, tombstones or forgetting rows the transactions wrote
\* (_classify_recovery_rows).
THEOREM IdentityAuditAccepts == Spec => []IdentityAudit
<1>1. StoreInvariant => IdentityAudit
  BY DEF StoreInvariant
<1> QED BY <1>1, StoreInvariantHolds, PTL

\* Nor for the supersession links, which stay two-way, unique and acyclic
\* (_valid_recovery_relationships).
THEOREM RelationshipAuditAccepts == Spec => []RelationshipAudit
<1>1. StoreInvariant => RelationshipAudit
  BY DEF StoreInvariant
<1> QED BY <1>1, StoreInvariantHolds, PTL

\* What the audits know of a row forbids every transaction to undo it.
LEMMA NextKeepsFacts == StoreInvariant /\ [Next]_storeVars => [FactsKept]_storeVars
<1> SUFFICES ASSUME StoreInvariant, Next, NEW m \in stored
             PROVE  /\ m \in stored'
                    /\ indexing[m] = "indexed" => indexing'[m] = "indexed"
                    /\ lifecycle[m] # "active" => lifecycle'[m] = lifecycle[m]
                    /\ supersededBy[m] # Null => supersededBy'[m] = supersededBy[m]
                    /\ supersedes[m] \subseteq supersedes'[m]
                    /\ ~Live(m) => deletedAt'[m] = deletedAt[m]
                    /\ cleanup[m] # Null /\ cleanupId[m] # Null => cleanupId'[m] = cleanupId[m]
                    /\ cleanup[m] = "complete" =>
                          cleanup'[m] = "complete" /\ mapping'[m] = Null
  BY DEF FactsKept
<1> USE NullAssumption
<1>0. TypeOK /\ m \in MemoryIds /\ RowAudit(m) /\ LinkAudit(m)
  BY DEF StoreInvariant, IdentityAudit, RelationshipAudit, TypeOK
<1>1. ASSUME NEW x \in MemoryIds, PersistPending(x) PROVE FactsKept
  BY <1>1, <1>0 DEF FactsKept, PersistPending, forgettingVars, StoreInvariant,
     IdentityAudit, RowAudit, TypeOK
<1>2. ASSUME NEW u \in Users, NEW x \in MemoryIds, NEW from \in {"pending", "failed"},
             NEW to \in IndexingState, Transition(u, x, from, to)
      PROVE  FactsKept
  BY <1>2, <1>0 DEF FactsKept, Transition, mappingVars, forgettingVars, StoreInvariant,
     IdentityAudit, RowAudit, TypeOK
<1>3. ASSUME NEW u \in Users, NEW r \in MemoryIds, NEW t \in MemoryIds,
             AcknowledgeSupersession(u, r, t)
      PROVE  FactsKept
  BY <1>3, <1>0 DEF FactsKept, AcknowledgeSupersession, ValidSupersessionTarget,
     mappingVars, forgettingVars, StoreInvariant, IdentityAudit, RowAudit, TypeOK
<1>4. ASSUME NEW u \in Users, NEW x \in MemoryIds, NEW now \in Instants,
             BeginForgetting(u, x, now)
      PROVE  FactsKept
  BY <1>4, <1>0 DEF FactsKept, BeginForgetting, mappingVars, StoreInvariant,
     IdentityAudit, RowAudit, TypeOK, Live
<1>5. ASSUME NEW u \in Users, NEW x \in MemoryIds, NEW v \in VectorIds,
             AdoptForgettingVectorId(u, x, v)
      PROVE  FactsKept
  BY <1>5, <1>0 DEF FactsKept, AdoptForgettingVectorId, memoryVars, mappingVars,
     StoreInvariant, IdentityAudit, RowAudit, TypeOK
<1>6. ASSUME NEW u \in Users, NEW x \in MemoryIds, NEW v \in VectorIds,
             AcknowledgeForgettingComplete(u, x, v)
      PROVE  FactsKept
  BY <1>6, <1>0 DEF FactsKept, AcknowledgeForgettingComplete, memoryVars,
     StoreInvariant, IdentityAudit, RowAudit, TypeOK
<1>7. ASSUME NEW u \in Users, NEW now \in Instants, ExpireCurrentMemories(u, now)
      PROVE  FactsKept
  BY <1>7, <1>0 DEF FactsKept, ExpireCurrentMemories, Expiring, mappingVars,
     forgettingVars, StoreInvariant, IdentityAudit, RowAudit, TypeOK
<1>8. ASSUME NEW x \in MemoryIds, RestoreMapping(x) PROVE FactsKept
  BY <1>8, <1>0 DEF FactsKept, RestoreMapping, memoryVars, forgettingVars,
     StoreInvariant, IdentityAudit, RowAudit, TypeOK
<1>9. FactsKept
  BY <1>1, <1>2, <1>3, <1>4, <1>5, <1>6, <1>7, <1>8
  DEF Next, MarkIndexed, MarkPending, MarkFailed, IndexingState
<1> QED BY <1>9 DEF FactsKept

\* Nothing a committed transaction established is undone by a later one.
THEOREM FactsAreFinal == Spec => CommittedFactsAreFinal
BY StoreInvariantHolds, NextKeepsFacts, PTL DEF Spec, CommittedFactsAreFinal

-----------------------------------------------------------------------------
(* The store implements MemoryLifecycle.                                   *)

\* Only an indexed row expires or is superseded, and no row is unindexed.
LEMMA OnlyIndexedExpireHolds == Spec => []OnlyIndexedExpire
<1>1. Init => OnlyIndexedExpire
  BY DEF Init, OnlyIndexedExpire
<1>2. StoreInvariant /\ OnlyIndexedExpire /\ [Next]_storeVars => OnlyIndexedExpire'
  <2> SUFFICES ASSUME TypeOK, OnlyIndexedExpire, [Next]_storeVars,
                      NEW m \in MemoryIds, indexing'[m] # "indexed"
               PROVE  lifecycle'[m] = "active"
    BY DEF StoreInvariant, OnlyIndexedExpire
  <2> USE DEF TypeOK, OnlyIndexedExpire
  <2>1. ASSUME NEW x \in MemoryIds, PersistPending(x) PROVE lifecycle'[m] = "active"
    BY <2>1 DEF PersistPending
  <2>2. ASSUME NEW u \in Users, NEW x \in MemoryIds,
               MarkIndexed(u, x) \/ MarkPending(u, x) \/ MarkFailed(u, x)
        PROVE  lifecycle'[m] = "active"
    BY <2>2 DEF MarkIndexed, MarkPending, MarkFailed, Transition
  <2>3. ASSUME NEW u \in Users, NEW x \in MemoryIds, NEW t \in MemoryIds,
               AcknowledgeSupersession(u, x, t)
        PROVE  lifecycle'[m] = "active"
    BY <2>3 DEF AcknowledgeSupersession, ValidSupersessionTarget
  <2>4. ASSUME NEW u \in Users, NEW now \in Instants, ExpireCurrentMemories(u, now)
        PROVE  lifecycle'[m] = "active"
    BY <2>4 DEF ExpireCurrentMemories, Expiring
  <2>5. ASSUME NEW u \in Users, NEW x \in MemoryIds,
               \/ \E now \in Instants : BeginForgetting(u, x, now)
               \/ \E v \in VectorIds : AdoptForgettingVectorId(u, x, v)
               \/ \E v \in VectorIds : AcknowledgeForgettingComplete(u, x, v)
        PROVE  lifecycle'[m] = "active"
    BY <2>5 DEF BeginForgetting, AdoptForgettingVectorId, AcknowledgeForgettingComplete,
       memoryVars
  <2>6. CASE UNCHANGED storeVars
    BY <2>6 DEF storeVars
  <2>7. ASSUME NEW x \in MemoryIds, RestoreMapping(x) PROVE lifecycle'[m] = "active"
    BY <2>7 DEF RestoreMapping, memoryVars
  <2> QED BY <2>1, <2>2, <2>3, <2>4, <2>5, <2>6, <2>7 DEF Next
<1> QED BY <1>1, <1>2, StoreInvariantHolds, PTL DEF Spec

-----------------------------------------------------------------------------
(* One lemma per transaction that the owner of a memory can see.           *)

\* Nothing is seen of a step that leaves every phase and every link alone.
LEMMA LifeStutter ==
    ASSUME \A m \in MemoryIds : Phase(m)' = Phase(m), supersededBy' = supersededBy
    PROVE  UNCHANGED Life!lifeVars
BY DEF Life!lifeVars

\* One memory moves on and the others stay where they are.
LEMMA OnePhase ==
    ASSUME NEW x \in MemoryIds, NEW p,
           Phase(x)' = p,
           \A m \in MemoryIds : m # x => Phase(m)' = Phase(m)
    PROVE  [m \in MemoryIds |-> Phase(m)]'
             = [[m \in MemoryIds |-> Phase(m)] EXCEPT ![x] = p]
OBVIOUS

\* A first row of its key is an admission.
LEMMA PersistPendingIsAdmit ==
    ASSUME StoreInvariant, NEW x \in MemoryIds, PersistPending(x)
    PROVE  Life!Admit(x)
<1> USE NullAssumption
<1>0. TypeOK /\ UnstoredRowsBlank
  BY DEF StoreInvariant
<1>1. Phase(x) = "absent" /\ Phase(x)' = "pending"
  BY <1>0 DEF Phase, PersistPending, UnstoredRowsBlank, Live, forgettingVars, TypeOK
<1>2. \A m \in MemoryIds : m # x => Phase(m)' = Phase(m)
  BY <1>0 DEF Phase, PersistPending, Live, forgettingVars
<1>3. \A n \in MemoryIds : Owner[n] = Owner[x] /\ Key[n] = Key[x] => Phase(n) = "absent"
  BY DEF PersistPending, SameKey, Phase
<1>4. supersededBy' = supersededBy
  BY DEF PersistPending
<1> QED BY <1>1, <1>2, <1>3, <1>4, OnePhase DEF Life!Admit

\* A transition of the indexing state shows only as a live row's publication.
LEMMA TransitionLife ==
    ASSUME TypeOK, OnlyIndexedExpire, NEW u, NEW x \in MemoryIds,
           MarkIndexed(u, x) \/ MarkPending(u, x) \/ MarkFailed(u, x)
    PROVE  Life!BecomeCurrent(x) \/ UNCHANGED Life!lifeVars
<1> USE DEF MarkIndexed, MarkPending, MarkFailed, Transition, forgettingVars, mappingVars, TypeOK
<1>1. \A m \in MemoryIds : m # x => Phase(m)' = Phase(m)
  BY DEF Phase, Live
<1>2. supersededBy' = supersededBy
  OBVIOUS
<1>3. CASE Phase(x)' = Phase(x)
  BY <1>1, <1>2, <1>3, LifeStutter
<1>4. CASE Phase(x)' # Phase(x)
  <2>1. Phase(x) = "pending" /\ Phase(x)' = "current"
    BY <1>4 DEF Phase, Live, OnlyIndexedExpire
  <2> QED BY <1>1, <1>2, <2>1, OnePhase DEF Life!BecomeCurrent
<1> QED BY <1>3, <1>4

\* Both sides of a replacement change in the same step.
LEMMA AcknowledgeSupersessionIsReplace ==
    ASSUME StoreInvariant, OnlyIndexedExpire, NEW u, NEW r \in MemoryIds, NEW t \in MemoryIds,
           AcknowledgeSupersession(u, r, t)
    PROVE  Life!Replace(r, t)
<1> USE NullAssumption
<1>0. TypeOK /\ UnstoredRowsBlank /\ IdentityAudit /\ RelationshipAudit
  BY DEF StoreInvariant
<1> USE DEF AcknowledgeSupersession, ValidSupersessionTarget, HasIndexingWork, Owned,
    forgettingVars, mappingVars
<1>1. /\ r # t /\ r \in Explicit /\ Owner[r] = Owner[t]
      /\ Slot[r] = Slot[t] /\ Slot[t] # Null
      /\ supersededBy[r] = Null /\ supersededBy[t] = Null
  OBVIOUS
<1>2. cleanup[r] # "complete"
  BY <1>0 DEF IdentityAudit, RowAudit
<1>3. /\ Phase(r) \in {"pending", "forgotten"}
      /\ Phase(r)' = IF Phase(r) = "pending" THEN "current" ELSE Phase(r)
  BY <1>0, <1>2 DEF Phase, Live, TypeOK
<1>4. /\ Phase(t) \in {"current", "forgotten", "erased"}
      /\ Phase(t)' = IF Phase(t) = "current" THEN "superseded" ELSE Phase(t)
  BY <1>0 DEF Phase, Live, TypeOK
<1>5. \A m \in MemoryIds \ {r, t} : Phase(m)' = Phase(m)
  BY <1>0 DEF Phase, Live, TypeOK
<1>6. \A n \in MemoryIds : supersededBy[n] # r
  <2> SUFFICES ASSUME NEW n \in MemoryIds, supersededBy[n] = r PROVE FALSE
    OBVIOUS
  <2>1. n \in stored
    BY <1>0 DEF UnstoredRowsBlank
  <2>2. n \in supersedes[r]
    BY <1>0, <2>1 DEF RelationshipAudit, LinkAudit
  <2> QED BY <2>2
<1>7. [m \in MemoryIds |-> Phase(m)]'
        = [[m \in MemoryIds |-> Phase(m)] EXCEPT
             ![r] = IF @ = "pending" THEN "current" ELSE @,
             ![t] = IF @ = "current" THEN "superseded" ELSE @]
  BY <1>1, <1>3, <1>4, <1>5
<1>8. supersededBy' = [supersededBy EXCEPT ![t] = r]
  OBVIOUS
<1> QED BY <1>1, <1>3, <1>4, <1>6, <1>7, <1>8 DEF Life!Replace

\* The rows a transaction expires are the memories seen as current and due.
LEMMA ExpireCurrentMemoriesIsExpire ==
    ASSUME StoreInvariant, NEW u, NEW now, ExpireCurrentMemories(u, now)
    PROVE  Life!Expire(u, now)
<1> USE NullAssumption
<1>0. TypeOK /\ IdentityAudit /\ RelationshipAudit
  BY DEF StoreInvariant
<1>1. ASSUME NEW m \in MemoryIds
      PROVE  Phase(m)' = IF /\ Phase(m) = "current"
                            /\ Owner[m] = u
                            /\ ValidUntil[m] # Null
                            /\ ValidUntil[m] <= now
                         THEN "expired" ELSE Phase(m)
  <2>1. CASE m \in Expiring(u, now)
    <3>1. cleanup[m] # "complete"
      BY <2>1, <1>0 DEF Expiring, IdentityAudit, RowAudit
    <3> QED BY <2>1, <3>1, <1>0
         DEF Expiring, ExpireCurrentMemories, Phase, Live, forgettingVars, TypeOK
  <2>2. CASE m \notin Expiring(u, now)
    <3>1. m \in stored => (lifecycle[m] = "superseded" <=> supersededBy[m] # Null)
      BY <1>0 DEF RelationshipAudit, LinkAudit
    <3>2. lifecycle'[m] = lifecycle[m]
      BY <2>2, <1>0 DEF ExpireCurrentMemories
    <3>3. Phase(m)' = Phase(m)
      BY <3>2 DEF ExpireCurrentMemories, Phase, Live, forgettingVars
    <3>4. ~ /\ Phase(m) = "current" /\ Owner[m] = u
            /\ ValidUntil[m] # Null /\ ValidUntil[m] <= now
      BY <2>2, <3>1, <1>0
         DEF Expiring, Phase, Live, TypeOK, LifecycleStatus
    <3> QED BY <3>3, <3>4
  <2> QED BY <2>1, <2>2
<1>2. supersededBy' = supersededBy
  BY DEF ExpireCurrentMemories
<1> QED BY <1>1, <1>2 DEF Life!Expire

\* The tombstone is what the owner sees of a request to forget.
LEMMA BeginForgettingIsForget ==
    ASSUME StoreInvariant, NEW u, NEW x \in MemoryIds, NEW now \in Instants,
           BeginForgetting(u, x, now)
    PROVE  Life!Forget(x)
<1> USE NullAssumption, AttributesAssumption
<1>0. TypeOK /\ IdentityAudit
  BY DEF StoreInvariant
<1>1. x \in stored /\ Live(x) /\ supersededBy' = supersededBy
  BY <1>0 DEF BeginForgetting, Owned, IdentityAudit, RowAudit
<1>2. Phase(x) \in {"pending", "current", "superseded", "expired"} /\ Phase(x)' = "forgotten"
  BY <1>0, <1>1 DEF Phase, BeginForgetting, Live, mappingVars, TypeOK, LifecycleStatus
<1>3. \A m \in MemoryIds : m # x => Phase(m)' = Phase(m)
  BY <1>0 DEF Phase, BeginForgetting, Live, mappingVars, TypeOK
<1> QED BY <1>1, <1>2, <1>3, OnePhase DEF Life!Forget

\* The acknowledged clean-up is the erasure of a forgotten memory.
LEMMA AcknowledgeForgettingIsErase ==
    ASSUME TypeOK, NEW u, NEW x \in MemoryIds, NEW v,
           AcknowledgeForgettingComplete(u, x, v)
    PROVE  Life!Erase(x)
<1> USE DEF AcknowledgeForgettingComplete, Owned, memoryVars
<1>1. Phase(x) = "forgotten" /\ Phase(x)' = "erased"
  BY DEF Phase, Live, TypeOK
<1>2. \A m \in MemoryIds : m # x => Phase(m)' = Phase(m)
  BY DEF Phase, Live, TypeOK
<1>3. supersededBy' = supersededBy
  OBVIOUS
<1> QED BY <1>1, <1>2, <1>3, OnePhase DEF Life!Erase

\* Vector ids are of no concern to the owner.
LEMMA HiddenSteps ==
    ASSUME NEW u, NEW x, NEW v,
           AdoptForgettingVectorId(u, x, v) \/ RestoreMapping(x) \/ UNCHANGED storeVars
    PROVE  UNCHANGED Life!lifeVars
<1>1. UNCHANGED <<memoryVars, cleanup>>
  BY DEF AdoptForgettingVectorId, RestoreMapping, storeVars, memoryVars, forgettingVars
<1>2. \A m \in MemoryIds : Phase(m)' = Phase(m)
  BY <1>1 DEF Phase, Live, memoryVars
<1> QED BY <1>1, <1>2, LifeStutter DEF memoryVars

-----------------------------------------------------------------------------

\* The rows of the repository, under any transactions, implement the life of
\* the memories as their owners are promised it.
THEOREM StoreImplementsLifecycle == Spec => ImplementsLifecycle
<1>1. Init => Life!LifeInit
  <2> SUFFICES ASSUME Init PROVE Life!LifeInit
    OBVIOUS
  <2>1. \A m \in MemoryIds : Phase(m) \in {"absent", "pending", "forgotten"}
    BY NullAssumption DEF Init, Phase, BackfillForgetting, Live
  <2>2. \A m \in MemoryIds \ Legacy : Phase(m) = "absent"
    BY DEF Init, Phase
  <2> QED BY <2>1, <2>2 DEF Init, Life!LifeInit
<1>2. StoreInvariant /\ OnlyIndexedExpire /\ [Next]_storeVars
        => [Life!LifeNext]_(Life!lifeVars)
  <2> SUFFICES ASSUME StoreInvariant, OnlyIndexedExpire, [Next]_storeVars
               PROVE  Life!LifeNext \/ UNCHANGED Life!lifeVars
    OBVIOUS
  <2>1. TypeOK
    BY DEF StoreInvariant
  <2>2. ASSUME NEW x \in MemoryIds, PersistPending(x) PROVE Life!LifeNext
    BY <2>2, PersistPendingIsAdmit DEF Life!LifeNext
  <2>3. ASSUME NEW u \in Users, NEW x \in MemoryIds,
               MarkIndexed(u, x) \/ MarkPending(u, x) \/ MarkFailed(u, x)
        PROVE  Life!LifeNext \/ UNCHANGED Life!lifeVars
    BY <2>1, <2>3, TransitionLife DEF Life!LifeNext
  <2>4. ASSUME NEW u \in Users, NEW x \in MemoryIds, NEW t \in MemoryIds,
               AcknowledgeSupersession(u, x, t)
        PROVE  Life!LifeNext
    BY <2>4, AcknowledgeSupersessionIsReplace DEF Life!LifeNext
  <2>5. ASSUME NEW u \in Users, NEW now \in Instants, ExpireCurrentMemories(u, now)
        PROVE  Life!LifeNext
    BY <2>5, ExpireCurrentMemoriesIsExpire DEF Life!LifeNext
  <2>6. ASSUME NEW u \in Users, NEW x \in MemoryIds, NEW now \in Instants,
               BeginForgetting(u, x, now)
        PROVE  Life!LifeNext
    BY <2>6, BeginForgettingIsForget DEF Life!LifeNext
  <2>7. ASSUME NEW u \in Users, NEW x \in MemoryIds, NEW v \in VectorIds,
               AcknowledgeForgettingComplete(u, x, v)
        PROVE  Life!LifeNext
    BY <2>1, <2>7, AcknowledgeForgettingIsErase DEF Life!LifeNext
  <2>8. ASSUME NEW u, NEW x, NEW v,
               AdoptForgettingVectorId(u, x, v) \/ RestoreMapping(x) \/ UNCHANGED storeVars
        PROVE  UNCHANGED Life!lifeVars
    BY <2>8, HiddenSteps
  <2> QED BY <2>2, <2>3, <2>4, <2>5, <2>6, <2>7, <2>8 DEF Next
<1> QED BY <1>1, <1>2, StoreInvariantHolds, OnlyIndexedExpireHolds, PTL
     DEF Spec, ImplementsLifecycle, Life!LifeSpec

=============================================================================
