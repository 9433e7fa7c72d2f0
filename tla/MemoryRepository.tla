-------------------------- MODULE MemoryRepository --------------------------
(***************************************************************************)
(* The authoritative SQLite store (infrastructure/sqlite/repository.py).   *)
(* Every method of SQLiteMemoryRepository is one transaction, serialised   *)
(* by _WRITE_LOCK and rolled back on any error, so one action is one       *)
(* committed transaction and a failed one is a stuttering step.            *)
(*                                                                         *)
(* The calls come in any order: MemoryService restricts them, and what     *)
(* holds here holds whatever the callers' interleaving is.                 *)
(*                                                                         *)
(* A memory identifier stands for the admission request that would create  *)
(* it, so the immutable columns of its row (owner, idempotency key,        *)
(* subject and type, authority, validity window) are constants.            *)
(***************************************************************************)
EXTENDS Naturals, FiniteSets

CONSTANTS
    MemoryIds,     \* the memories that may ever be admitted
    Users,         \* owners
    Keys,          \* idempotency keys
    Slots,         \* (normalised subject, memory type) pairs
    Instants,      \* values of the trusted clock
    Null,          \* SQL NULL
    Owner,         \* user_id of each memory
    Key,           \* idempotency_key of each memory
    Slot,          \* slot of each memory, Null when it has no subject
    Explicit,      \* memories whose authority is explicit_user
    ValidFrom,     \* valid_from of each memory, or Null
    ValidUntil,    \* valid_until of each memory, or Null
    Legacy         \* rows written before the forgetting table existed

ASSUME AttributesAssumption ==
    /\ Instants \subseteq Nat
    /\ Owner \in [MemoryIds -> Users]
    /\ Key \in [MemoryIds -> Keys]
    /\ Slot \in [MemoryIds -> Slots \cup {Null}]
    /\ ValidFrom \in [MemoryIds -> Instants \cup {Null}]
    /\ ValidUntil \in [MemoryIds -> Instants \cup {Null}]
    /\ Explicit \subseteq MemoryIds
    /\ Legacy \subseteq MemoryIds

ASSUME NullAssumption ==
    /\ Null \notin MemoryIds
    /\ Null \notin Nat
    /\ Null \notin {"cleanup_pending", "complete"}

\* (user_id, idempotency_key) is the primary key of admission_idempotency.
SameKey(m, n) == Owner[m] = Owner[n] /\ Key[m] = Key[n]

ASSUME LegacyAssumption == \A m, n \in Legacy : SameKey(m, n) => m = n

VARIABLES
    stored,        \* rows of memories (and of memory_embeddings, never deleted)
    lifecycle,     \* lifecycle_status
    indexing,      \* indexing_state
    supersedes,    \* supersedes_json, as a set
    supersededBy,  \* superseded_by
    deletedAt,     \* deleted_at
    mapping,       \* memory_vector_mappings: the live vector id, or Null
    nextVectorId,  \* AUTOINCREMENT: one more than any id ever given out
    cleanup,       \* memory_forgetting.cleanup_state, Null when there is no row
    cleanupId,     \* memory_forgetting.vector_id
    requestedAt    \* memory_forgetting.requested_at

storeVars == <<stored, lifecycle, indexing, supersedes, supersededBy, deletedAt,
               mapping, nextVectorId, cleanup, cleanupId, requestedAt>>

\* completed_at is not kept: the table's CHECK ties it to cleanup = "complete".
memoryVars == <<stored, lifecycle, indexing, supersedes, supersededBy, deletedAt>>
mappingVars == <<mapping, nextVectorId>>
forgettingVars == <<cleanup, cleanupId, requestedAt>>

VectorIds == Nat \ {0}
LifecycleStatus == {"active", "superseded", "expired"}
IndexingState == {"pending", "indexed", "failed"}

TypeOK ==
    /\ stored \subseteq MemoryIds
    /\ lifecycle \in [MemoryIds -> LifecycleStatus]
    /\ indexing \in [MemoryIds -> IndexingState]
    /\ supersedes \in [MemoryIds -> SUBSET MemoryIds]
    /\ supersededBy \in [MemoryIds -> MemoryIds \cup {Null}]
    /\ deletedAt \in [MemoryIds -> Instants \cup {Null}]
    /\ mapping \in [MemoryIds -> VectorIds \cup {Null}]
    /\ nextVectorId \in VectorIds
    /\ cleanup \in [MemoryIds -> {"cleanup_pending", "complete", Null}]
    /\ cleanupId \in [MemoryIds -> VectorIds \cup {Null}]
    /\ requestedAt \in [MemoryIds -> Instants \cup {Null}]

(***************************************************************************)
(* Migration 0003 has just been applied.  Rows from before it may already  *)
(* be tombstoned, and may have lost their vector mapping; the migration    *)
(* back-fills a forgetting row for every tombstone, with the mapping it    *)
(* finds, here none.  Live rows of the older schema are no different from  *)
(* ones admitted now, apart from an unmapped one that was never indexed:   *)
(* the audit refuses a live indexed row without a mapping.                 *)
(***************************************************************************)
BackfillForgetting ==
    /\ cleanup = [m \in MemoryIds |->
                    IF deletedAt[m] = Null THEN Null ELSE "cleanup_pending"]
    /\ cleanupId = mapping
    /\ requestedAt = deletedAt

Init ==
    /\ stored \in SUBSET Legacy
    /\ deletedAt \in [MemoryIds -> Instants \cup {Null}]
    /\ \A m \in MemoryIds \ stored : deletedAt[m] = Null
    /\ lifecycle = [m \in MemoryIds |-> "active"]
    /\ indexing \in [MemoryIds -> {"pending", "indexed"}]
    /\ \A m \in MemoryIds : deletedAt[m] = Null => indexing[m] = "pending"
    /\ supersedes = [m \in MemoryIds |-> {}]
    /\ supersededBy = [m \in MemoryIds |-> Null]
    /\ mapping = [m \in MemoryIds |-> Null]
    /\ nextVectorId = 1
    /\ BackfillForgetting

-----------------------------------------------------------------------------
(* What the transactions read.                                             *)

Live(m) == deletedAt[m] = Null

\* find: the indexing work of an existing admission is its live mapping.
HasIndexingWork(m) == m \in stored /\ mapping[m] # Null

\* A row of another owner is never seen: every statement says user_id = ?.
Owned(u, m) == m \in stored /\ Owner[m] = u

\* is_current_state_eligible, and the SQL of current_state_vector_ids.
IsCurrentStateEligible(u, m, now) ==
    /\ Owned(u, m)
    /\ indexing[m] = "indexed"
    /\ Live(m)
    /\ lifecycle[m] = "active"
    /\ supersededBy[m] = Null
    /\ ValidFrom[m] # Null => ValidFrom[m] <= now
    /\ ValidUntil[m] # Null => now < ValidUntil[m]

\* is_historical_eligible, and the SQL of historical_vector_ids.
IsHistoricalEligible(u, m) ==
    /\ Owned(u, m)
    /\ indexing[m] = "indexed"
    /\ Live(m)
    /\ lifecycle[m] = "superseded" <=> supersededBy[m] # Null

\* Mutant: a target that another memory has already replaced is accepted.
ValidSupersessionTargetAlreadyReplaced(u, r, t) ==
    /\ r \in Explicit
    /\ t # r
    /\ Owner[t] = u
    /\ indexing[t] = "indexed"
    /\ Slot[t] # Null
    /\ Slot[t] = Slot[r]

\* validate_supersession_target.
ValidSupersessionTarget(u, r, t) ==
    /\ r \in Explicit
    /\ t # r
    /\ Owner[t] = u
    /\ indexing[t] = "indexed"
    /\ lifecycle[t] = "active"
    /\ supersededBy[t] = Null
    /\ Slot[t] # Null
    /\ Slot[t] = Slot[r]

-----------------------------------------------------------------------------
(* The transactions.                                                       *)

\* Mutant: a plain rowid, one above the greatest live id, can be given out again.
PersistPendingReusingIds(m) ==
    /\ m \notin stored
    /\ \A n \in stored : ~SameKey(m, n)
    /\ stored' = stored \cup {m}
    /\ \E v \in 1..nextVectorId :
          /\ \A n \in MemoryIds : mapping[n] # Null => mapping[n] < v
          /\ v > 1 => \E n \in MemoryIds : mapping[n] = v - 1
          /\ mapping' = [mapping EXCEPT ![m] = v]
          /\ nextVectorId' = v + 1
    /\ UNCHANGED <<lifecycle, indexing, supersedes, supersededBy, deletedAt>>
    /\ UNCHANGED forgettingVars

\* persist_pending: memory, idempotency key, embedding and mapping together.
PersistPending(m) ==
    /\ m \notin stored
    /\ \A n \in stored : ~SameKey(m, n)
    /\ stored' = stored \cup {m}
    /\ mapping' = [mapping EXCEPT ![m] = nextVectorId]
    /\ nextVectorId' = nextVectorId + 1
    /\ UNCHANGED <<lifecycle, indexing, supersedes, supersededBy, deletedAt>>
    /\ UNCHANGED forgettingVars

\* _transition: the row's owner and indexing state are its only guards.
Transition(u, m, from, to) ==
    /\ Owned(u, m)
    /\ indexing[m] = from
    /\ indexing' = [indexing EXCEPT ![m] = to]
    /\ UNCHANGED <<stored, lifecycle, supersedes, supersededBy, deletedAt>>
    /\ UNCHANGED <<mappingVars, forgettingVars>>

\* Mutant: the failure is recorded under a name no reader knows.
MarkFailedAsError(u, m) == HasIndexingWork(m) /\ Transition(u, m, "pending", "error")

\* Its callers hold the IndexingWork that find or persist_pending gave them.
MarkIndexed(u, m) == HasIndexingWork(m) /\ Transition(u, m, "pending", "indexed")
MarkPending(u, m) == HasIndexingWork(m) /\ Transition(u, m, "failed", "pending")
MarkFailed(u, m)  == HasIndexingWork(m) /\ Transition(u, m, "pending", "failed")

\* acknowledge_supersession: the replacement is activated and both links are
\* written, or nothing is.  Neither tombstone is looked at.
AcknowledgeSupersession(u, r, t) ==
    /\ HasIndexingWork(r)
    /\ Owned(u, r)
    /\ Owned(u, t)
    /\ lifecycle[r] = "active"
    /\ indexing[r] = "pending"
    /\ supersedes[r] = {}
    /\ supersededBy[r] = Null
    /\ ValidSupersessionTarget(u, r, t)
    /\ indexing' = [indexing EXCEPT ![r] = "indexed"]
    /\ supersedes' = [supersedes EXCEPT ![r] = {t}]
    /\ lifecycle' = [lifecycle EXCEPT ![t] = "superseded"]
    /\ supersededBy' = [supersededBy EXCEPT ![t] = r]
    /\ UNCHANGED <<stored, deletedAt, mappingVars, forgettingVars>>

\* Mutant: a memory that is not indexed yet expires too.
ExpiringUnindexed(u, now) ==
    {m \in stored : /\ Owner[m] = u
                    /\ lifecycle[m] = "active"
                    /\ Live(m)
                    /\ supersededBy[m] = Null
                    /\ ValidUntil[m] # Null
                    /\ ValidUntil[m] <= now}

\* expire_current_memories.
Expiring(u, now) ==
    {m \in stored : /\ Owner[m] = u
                    /\ lifecycle[m] = "active"
                    /\ indexing[m] = "indexed"
                    /\ Live(m)
                    /\ supersededBy[m] = Null
                    /\ ValidUntil[m] # Null
                    /\ ValidUntil[m] <= now}

ExpireCurrentMemories(u, now) ==
    /\ lifecycle' = [m \in MemoryIds |->
                       IF m \in Expiring(u, now) THEN "expired" ELSE lifecycle[m]]
    /\ UNCHANGED <<stored, indexing, supersedes, supersededBy, deletedAt>>
    /\ UNCHANGED <<mappingVars, forgettingVars>>

\* Mutant: a second request starts the forgetting over.
BeginForgettingAgain(u, m, now) ==
    /\ Owned(u, m)
    /\ LET at == IF Live(m) THEN now ELSE deletedAt[m]
       IN /\ deletedAt' = [deletedAt EXCEPT ![m] = at]
          /\ requestedAt' = [requestedAt EXCEPT ![m] = at]
    /\ cleanup' = [cleanup EXCEPT ![m] = "cleanup_pending"]
    /\ cleanupId' = [cleanupId EXCEPT ![m] = mapping[m]]
    /\ UNCHANGED <<stored, lifecycle, indexing, supersedes, supersededBy>>
    /\ UNCHANGED mappingVars

\* begin_forgetting, when no forgetting row exists yet (it is returned as it
\* is otherwise).  A tombstone keeps its time: requested_at is never newer.
BeginForgetting(u, m, now) ==
    /\ Owned(u, m)
    /\ cleanup[m] = Null
    /\ LET at == IF Live(m) THEN now ELSE deletedAt[m]
       IN /\ deletedAt' = [deletedAt EXCEPT ![m] = at]
          /\ requestedAt' = [requestedAt EXCEPT ![m] = at]
    /\ cleanup' = [cleanup EXCEPT ![m] = "cleanup_pending"]
    /\ cleanupId' = [cleanupId EXCEPT ![m] = mapping[m]]
    /\ UNCHANGED <<stored, lifecycle, indexing, supersedes, supersededBy>>
    /\ UNCHANGED mappingVars

\* adopt_forgetting_vector_id: the JOIN needs a live mapping.
AdoptForgettingVectorId(u, m, v) ==
    /\ Owned(u, m)
    /\ ~Live(m)
    /\ cleanup[m] = "cleanup_pending"
    /\ cleanupId[m] = Null
    /\ mapping[m] = v
    /\ v \in VectorIds
    /\ \A n \in MemoryIds : cleanupId[n] # v
    /\ cleanupId' = [cleanupId EXCEPT ![m] = v]
    /\ UNCHANGED <<memoryVars, mappingVars, cleanup, requestedAt>>

\* Mutant: the mapping row outlives the completed forgetting.
AcknowledgeForgettingKeepingMapping(u, m, v) ==
    /\ Owned(u, m)
    /\ ~Live(m)
    /\ cleanup[m] = "cleanup_pending"
    /\ v \in VectorIds
    /\ cleanupId[m] = v
    /\ mapping[m] \in {v, Null}
    /\ cleanup' = [cleanup EXCEPT ![m] = "complete"]
    /\ UNCHANGED <<memoryVars, mappingVars, cleanupId, requestedAt>>

\* acknowledge_forgetting_complete, which refuses anything but a positive id;
\* repeating it with the same id is a no-op.
AcknowledgeForgettingComplete(u, m, v) ==
    /\ Owned(u, m)
    /\ ~Live(m)
    /\ cleanup[m] = "cleanup_pending"
    /\ v \in VectorIds
    /\ cleanupId[m] = v
    /\ mapping[m] \in {v, Null}
    /\ cleanup' = [cleanup EXCEPT ![m] = "complete"]
    /\ mapping' = [mapping EXCEPT ![m] = Null]
    /\ UNCHANGED <<memoryVars, nextVectorId, cleanupId, requestedAt>>

\* An operator restores the mapping row of a memory forgotten without one:
\* the event adopt_forgetting_vector_id exists for.  Outside the library.
RestoreMapping(m) ==
    /\ m \in stored
    /\ cleanup[m] = "cleanup_pending"
    /\ cleanupId[m] = Null
    /\ mapping[m] = Null
    /\ mapping' = [mapping EXCEPT ![m] = nextVectorId]
    /\ nextVectorId' = nextVectorId + 1
    /\ UNCHANGED <<memoryVars, forgettingVars>>

Next ==
    \/ \E m \in MemoryIds : PersistPending(m)
    \/ \E u \in Users, m \in MemoryIds :
          \/ MarkIndexed(u, m)
          \/ MarkPending(u, m)
          \/ MarkFailed(u, m)
          \/ \E t \in MemoryIds : AcknowledgeSupersession(u, m, t)
          \/ \E now \in Instants : BeginForgetting(u, m, now)
          \/ \E v \in VectorIds \cap {mapping[m]} : AdoptForgettingVectorId(u, m, v)
          \/ \E v \in VectorIds \cap {cleanupId[m]} : AcknowledgeForgettingComplete(u, m, v)
    \/ \E u \in Users, now \in Instants : ExpireCurrentMemories(u, now)
    \/ \E m \in MemoryIds : RestoreMapping(m)

Spec == Init /\ [][Next]_storeVars

-----------------------------------------------------------------------------
(* The startup audit (_classify_recovery_rows) as a predicate of the rows. *)

\* The id checks of one row, and deleted_at against the forgetting row.
RowAudit(m) ==
    /\ cleanup[m] = Null <=> Live(m)
    /\ cleanup[m] # Null => requestedAt[m] = deletedAt[m]
    /\ cleanup[m] = "complete" => mapping[m] = Null /\ cleanupId[m] # Null
    /\ cleanup[m] = "cleanup_pending" /\ cleanupId[m] # Null => mapping[m] = cleanupId[m]
    /\ Live(m) /\ indexing[m] = "indexed" => mapping[m] # Null

\* The ids a row claims: its live mapping and the one its forgetting row keeps.
ClaimedIds(m) == {mapping[m], cleanupId[m]} \ {Null}

\* No vector id is claimed by two memories, completed forgettings included.
DistinctVectorOwners ==
    \A m, n \in stored : m # n => ClaimedIds(m) \cap ClaimedIds(n) = {}

\* The startup audit never answers unavailable_authoritative_identity for an
\* id, a tombstone or a forgetting row, whatever transactions were committed.
IdentityAudit ==
    /\ \A m \in stored : RowAudit(m)
    /\ DistinctVectorOwners

\* _valid_recovery_relationships, the checks made of one row.
LinkAudit(m) ==
    /\ lifecycle[m] = "superseded" <=> supersededBy[m] # Null
    /\ \A s, t \in supersedes[m] : s = t
    /\ \A t \in supersedes[m] :
          /\ t # m
          /\ indexing[m] = "indexed"
          /\ t \in stored
          /\ Owner[t] = Owner[m]
          /\ indexing[t] = "indexed"
          /\ lifecycle[t] = "superseded"
          /\ supersededBy[t] = m
          /\ m \in Explicit
          /\ Slot[m] # Null
          /\ Slot[m] = Slot[t]
    /\ supersededBy[m] # Null =>
          /\ supersededBy[m] \in stored
          /\ Owner[supersededBy[m]] = Owner[m]
          /\ m \in supersedes[supersededBy[m]]

\* Its depth-first visit finds no cycle: every set of rows has one that
\* supersedes nothing in the set.
NoSupersessionCycle ==
    \A S \in SUBSET stored :
        S # {} => \E m \in S : supersedes[m] \cap S = {}

\* The startup audit never rejects the supersession links: two-way, of one
\* owner and slot, one replacement per target, and without a cycle.
RelationshipAudit ==
    /\ \A m \in stored : LinkAudit(m)
    /\ NoSupersessionCycle

\* What one transaction may not undo.
FactsKept ==
    \A m \in stored :
        /\ m \in stored'
        /\ indexing[m] = "indexed" => indexing'[m] = "indexed"
        /\ lifecycle[m] # "active" => lifecycle'[m] = lifecycle[m]
        /\ supersededBy[m] # Null => supersededBy'[m] = supersededBy[m]
        /\ supersedes[m] \subseteq supersedes'[m]
        /\ ~Live(m) => deletedAt'[m] = deletedAt[m]
        /\ cleanup[m] # Null /\ cleanupId[m] # Null => cleanupId'[m] = cleanupId[m]
        /\ cleanup[m] = "complete" => cleanup'[m] = "complete" /\ mapping'[m] = Null

\* A row never goes back: what was indexed stays indexed, an expired or
\* superseded memory is never reactivated or linked again, and a tombstone,
\* the vector id it is to clean and its completion are final.
CommittedFactsAreFinal == [][FactsKept]_storeVars

-----------------------------------------------------------------------------
(* What makes the audit inductive.                                         *)

\* A memory that was never admitted has no trace in any table.
UnstoredRowsBlank ==
    \A m \in MemoryIds \ stored :
        /\ lifecycle[m] = "active"
        /\ indexing[m] = "pending"
        /\ supersedes[m] = {}
        /\ supersededBy[m] = Null
        /\ Live(m)
        /\ mapping[m] = Null
        /\ cleanup[m] = Null
        /\ cleanupId[m] = Null
        /\ requestedAt[m] = Null

\* AUTOINCREMENT: every id still claimed by a row was given out before.
ClaimedIdsIssued ==
    \A m \in MemoryIds : \A v \in ClaimedIds(m) : v < nextVectorId

\* The inductive invariant: the two audits, and what the next transaction
\* needs to know of the rows and ids that are not in use yet.
StoreInvariant ==
    /\ TypeOK
    /\ UnstoredRowsBlank
    /\ ClaimedIdsIssued
    /\ IdentityAudit
    /\ RelationshipAudit

\* Only an indexed memory was ever current, and can have expired.
OnlyIndexedExpire ==
    \A m \in MemoryIds : indexing[m] # "indexed" => lifecycle[m] = "active"

-----------------------------------------------------------------------------
(* The life of a memory, as its owner sees it.                             *)

Phase(m) ==
    IF m \notin stored THEN "absent"
    ELSE IF cleanup[m] = "complete" THEN "erased"
    ELSE IF ~Live(m) THEN "forgotten"
    ELSE IF indexing[m] # "indexed" THEN "pending"
    ELSE IF lifecycle[m] = "active" THEN "current"
    ELSE lifecycle[m]

Life == INSTANCE MemoryLifecycle WITH
            phase <- [m \in MemoryIds |-> Phase(m)],
            replacedBy <- supersededBy

\* The rows and their transactions implement the life a memory is promised:
\* it is pending before it is current, expires or is replaced only while it is
\* current and together with its replacement, and never comes back.
ImplementsLifecycle == Life!LifeSpec

=============================================================================
