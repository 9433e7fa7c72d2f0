------------------------- MODULE MemoryServiceProofs -------------------------
(***************************************************************************)
(* For any number of services, readers, memories and faults: the service   *)
(* only touches the store through its transactions, so what                *)
(* MemoryRepositoryProofs establishes of the store holds of the service,   *)
(* and it keeps its index in step with its store.                          *)
(***************************************************************************)
EXTENDS MemoryService, MemoryRepositoryProofs

\* The index and the bookkeeping of the workflows leave the store alone.
LEMMA IndexKeepsStore ==
    ASSUME IndexStep \/ OwnStep
    PROVE  UNCHANGED storeVars
BY DEF IndexStep, OwnStep

\* A workflow under the lock takes a store transaction, or no store step.
LEMMA JobStepIsStoreStep ==
    ASSUME TypeOK, JobStep
    PROVE  [Next]_storeVars
<1> USE AttributesAssumption, NullAssumption, TargetAssumption
<1>1. CASE AddVector \/ AddRefused \/ AddDone \/ ReplacementRejected \/ RemoveVector
        \/ RemoveRefused \/ RemoveDone \/ ReconcileDone \/ CleanupDone
        \/ VerifyReady \/ VerifyRebuild \/ VerifyDone \/ ReplaceFile
  BY <1>1 DEF AddVector, AddRefused, AddDone, ReplacementRejected, RemoveVector,
     RemoveRefused, RemoveDone, ReconcileDone, CleanupDone, VerifyReady,
     VerifyRebuild, VerifyDone, ReplaceFile, IndexStep, OwnStep, Recovered
<1>2. CASE RecordFailure
  <2>1. PICK m \in MemoryIds : MarkFailed(Owner[m], m)
    BY <1>2 DEF RecordFailure, MarkFailed, HasIndexingWork, TypeOK
  <2> QED BY <2>1 DEF Next
<1>3. CASE AcknowledgeIndexed
  <2>1. PICK m \in MemoryIds : MarkIndexed(Owner[m], m)
    BY <1>3 DEF AcknowledgeIndexed, MarkIndexed, HasIndexingWork, TypeOK
  <2> QED BY <2>1 DEF Next
<1>4. CASE AcknowledgeReplacement
  <2>1. PICK m, t \in MemoryIds : AcknowledgeSupersession(Owner[m], m, t)
    BY <1>4 DEF AcknowledgeReplacement, AcknowledgeSupersession, HasIndexingWork, Owned, TypeOK
  <2> QED BY <2>1 DEF Next
<1>5. CASE ForgetDone
  <2> DEFINE m == job.memory
  <2>1. AcknowledgeForgettingComplete(Owner[m], m, cleanupId[m])
    BY <1>5 DEF ForgetDone
  <2>2. m \in MemoryIds /\ cleanupId[m] \in VectorIds \cap {cleanupId[m]}
    BY <2>1 DEF AcknowledgeForgettingComplete, Owned, TypeOK
  <2>3. Owner[m] \in Users
    BY <2>2
  <2> QED BY <2>1, <2>2, <2>3 DEF Next
<1>6. ASSUME NEW m \in MemoryIds, AdoptMapping(m)
      PROVE  [Next]_storeVars
  BY <1>6 DEF AdoptMapping, AdoptForgettingVectorId, Next, TypeOK
<1>7. ASSUME NEW m \in MemoryIds, CompleteForgetting(m)
      PROVE  [Next]_storeVars
  BY <1>7 DEF CompleteForgetting, AcknowledgeForgettingComplete, Next, TypeOK
<1> QED BY <1>1, <1>2, <1>3, <1>4, <1>5, <1>6, <1>7 DEF JobStep

\* Neither does a failed call, a crash, a start-up or a retrieval write to the
\* store outside its transactions.
LEMMA ServiceStepIsStoreStep ==
    ASSUME TypeOK, [ServiceNext]_serviceVars
    PROVE  [Next]_storeVars
<1> USE AttributesAssumption, NullAssumption
<1>1. CASE JobStep
  BY <1>1, JobStepIsStoreStep
<1>2. ASSUME NEW m \in MemoryIds, (\E s \in Services : AdmitNew(s, m)) \/ Retry(m)
      PROVE  [Next]_storeVars
  <2>1. Owner[m] \in Users
    OBVIOUS
  <2>2. PersistPending(m) \/ UNCHANGED storeVars \/ MarkPending(Owner[m], m)
    BY <1>2 DEF AdmitNew, Retry, RetryPending, RetryFailed
  <2> QED BY <2>1, <2>2 DEF Next
<1>3. ASSUME NEW s \in Services, NEW u \in Users, NEW m \in MemoryIds,
             (\E now \in Instants : Forget(s, u, m, now)) \/ ForgetAgain(s, u, m)
      PROVE  [Next]_storeVars
  <2>1. (\E now \in Instants : BeginForgetting(u, m, now)) \/ UNCHANGED storeVars
    BY <1>3 DEF Forget, ForgetAgain, OwnStep
  <2> QED BY <2>1 DEF Next
<1>4. ASSUME NEW s \in Services, StartUpStep(s)
      PROVE  UNCHANGED storeVars
  BY <1>4 DEF StartUpStep, RecoverReady, RecoverReuse, RecoverRebuild, OpenIndex, OpenRefused,
     Recovered, OwnStep, IndexStep
<1>5. ASSUME NEW r \in Readers, NEW s \in Services, NEW u \in Users,
             \/ \E now \in Instants : RetrieveCurrent(r, s, u, now)
             \/ RetrieveHistorical(r, s, u)
      PROVE  [Next]_storeVars
  <2>1. (\E now \in Instants : ExpireCurrentMemories(u, now)) \/ UNCHANGED storeVars
    BY <1>5 DEF RetrieveCurrent, RetrieveHistorical
  <2> QED BY <2>1 DEF Next
<1>6. ASSUME NEW r \in Readers,
             ListCurrent(r) \/ Search(r) \/ SearchRefused(r) \/ Deliver(r)
      PROVE  UNCHANGED storeVars
  BY <1>6 DEF ListCurrent, Search, SearchRefused, Deliver
<1>7. CASE \/ AddFails \/ RemoveFails \/ ReconcileFails \/ WorkflowFails
           \/ ProcessCrash \/ IndexDamaged
  BY <1>7 DEF AddFails, RemoveFails, ReconcileFails, WorkflowFails, ProcessCrash,
     IndexDamaged, OwnStep
<1>8. ASSUME NEW m \in MemoryIds, MappingRestored(m)
      PROVE  [Next]_storeVars
  BY <1>8 DEF MappingRestored, Next
<1>9. CASE Restart \/ UNCHANGED serviceVars
  BY <1>9 DEF Restart, serviceVars
<1> QED
  BY <1>1, <1>2, <1>3, <1>4, <1>5, <1>6, <1>7, <1>8, <1>9 DEF ServiceNext

\* The store's invariant holds of the service, whatever its workflows, its
\* failures, its crashes and its retrievals do to the store and when.
THEOREM ServiceKeepsStoreInvariant == ServiceSpec => []StoreInvariant
<1>1. ServiceInit => StoreInvariant
  BY InitInvariant DEF ServiceInit
<1>2. StoreInvariant /\ [ServiceNext]_serviceVars => StoreInvariant'
  BY ServiceStepIsStoreStep, NextInvariant DEF StoreInvariant
<1> QED BY <1>1, <1>2, PTL DEF ServiceSpec

\* The service implements the store's specification: its workflows never make
\* a change to the rows that is not one of the repository's transactions.
THEOREM ServiceImplementsStore == ServiceSpec => Spec
<1>1. ServiceInit => Init
  BY DEF ServiceInit
<1>2. StoreInvariant /\ [ServiceNext]_serviceVars => [Next]_storeVars
  BY ServiceStepIsStoreStep DEF StoreInvariant
<1> QED BY <1>1, <1>2, ServiceKeepsStoreInvariant, PTL DEF ServiceSpec, Spec

\* The audit a start-up begins with never finds the store in a state that
\* stops the service, after any history of calls, failures and crashes.
THEOREM StartUpIsNeverRefused == ServiceSpec => []Auditable
<1>1. StoreInvariant => Auditable
  BY DEF StoreInvariant, Auditable
<1> QED BY <1>1, ServiceKeepsStoreInvariant, PTL

\* What a transaction committed is not undone while the service runs, crashes
\* and recovers.
THEOREM ServiceKeepsFacts == ServiceSpec => CommittedFactsAreFinal
BY ServiceImplementsStore, FactsAreFinal

\* The owner of a memory sees the promised life, whatever the service, its
\* failures and its recoveries do in between.
THEOREM ServiceImplementsLifecycle == ServiceSpec => ImplementsLifecycle
BY ServiceImplementsStore, StoreImplementsLifecycle

-----------------------------------------------------------------------------
(* The index follows the store.                                            *)

\* The types of what the writers use, and of what the readers use.
WorkTypes ==
    /\ Index!IndexTypeOK
    /\ job \in Workflows \cup Recoveries \cup {Idle}
    /\ startup \in [Services -> {"down", "recovered", "up"}]
    /\ \A s \in Services : startup[s] = "up" <=> loaded[s] # Closed
    /\ published \in [Services -> SUBSET MemoryIds]
    /\ faults \in 0..MaxFaults
ReaderTypes ==
    /\ reader \in [Readers -> Retrievals \cup {Idle}]
    /\ \A r \in Readers : reader[r] # Idle => startup[reader[r].by] = "up"

\* The steps of a workflow that publish.
Publishing ==
    \/ At("admit", "adding") \/ At("forget", "removing")
    \/ At("recover", "reconciling") \/ At("recover", "verifying")

\* What the workflow that holds the lock knows of its memory and its service.
JobInvariant ==
    /\ working # Idle => Publishing
    /\ job # Idle /\ job.kind = "admit" =>
          startup[job.by] = "up" /\ HasIndexingWork(job.memory)
    /\ job # Idle /\ job.kind = "forget" =>
          /\ startup[job.by] = "up"
          /\ job.memory \in stored
          /\ cleanup[job.memory] = "cleanup_pending" /\ cleanupId[job.memory] # Null
    /\ job # Idle /\ job.kind = "recover" =>
          /\ startup[job.by] = "down"
          /\ \A m \in job.items : m \in stored /\ ~ Live(m)

\* A replacement in the cache of a service was stored, and keeps its id while
\* it is not forgotten.
PublishedInvariant ==
    \A s \in Services : \A m \in published[s] : m \in stored /\ (Live(m) => mapping[m] # Null)

\* The memories whose vectors a generation has to hold, and those whose
\* vectors it must not hold: by the rows, the caches and the workflow.
Needed ==
    {m \in stored : /\ Live(m)
                    /\ \/ indexing[m] = "indexed"
                       \/ \E s \in Services : m \in published[s]
                       \/ At("admit", "acknowledge") /\ job.memory = m}
Gone ==
    {m \in stored : \/ cleanup[m] = "complete"
                    \/ At("forget", "complete") /\ job.memory = m
                    \/ At("recover", "cleanup") /\ m \in job.items}
NeededIds == {mapping[m] : m \in Needed}
GoneIds == UNION {ClaimedIds(m) : m \in Gone}

\* What the publication under way is to bring, and to take away.
Brought == IF At("admit", "adding") THEN {mapping[job.memory]} ELSE {}
Taken ==
    IF At("forget", "removing") THEN ClaimedIds(job.memory)
    ELSE IF At("recover", "reconciling") THEN UNION {ClaimedIds(m) : m \in job.items} ELSE {}

Serves(G, needed, gone) == needed \subseteq G /\ gone \cap G = {}

Sole == \A s, t \in Services : s = t

\* Every generation, the durable one, the one being published and, where there
\* is one service, its own, holds what it has to and nothing that is gone.
IndexInvariant ==
    /\ durable \notin {Absent, Torn} => Serves(durable, NeededIds, GoneIds)
    /\ working # Idle => Serves(working.goal, NeededIds \cup Brought, GoneIds \cup Taken)
    /\ working # Idle /\ working.replaced = 2 => durable = working.goal
    /\ working # Idle => working.by = IF job.kind = "recover" THEN Recovery ELSE job.by
    /\ Sole => \A s \in Services : loaded[s] # Closed => Serves(loaded[s], NeededIds, GoneIds)
    /\ ~ Sole /\ durable = Absent => \A s \in Services : loaded[s] = Closed

WorkInvariant == WorkTypes /\ JobInvariant /\ PublishedInvariant /\ IndexInvariant

\* Marks are no sets of ids, and both files disappear only under one service.
Marks == {Absent, Torn, Closed} \cap SUBSET VectorIds = {}
DamageLimit == Damages \subseteq {Absent, Torn} /\ (Absent \in Damages => Sole)

-----------------------------------------------------------------------------
(* The frame of a step.                                                    *)

AdmitSteps == {"add", "adding", "acknowledge", "failed"}
ForgetSteps == {"remove", "removing", "complete"}
RecoverSteps == {"reconciling", "cleanup", "verify", "verifying"}

LEMMA NewWorkflow ==
    ASSUME NEW k \in {"admit", "forget"}, NEW s \in Services, NEW m \in MemoryIds,
           NEW x \in AdmitSteps \cup ForgetSteps
    PROVE  /\ Job(k, s, m, x) \in Workflows /\ Job(k, s, m, x) # Idle
           /\ Job(k, s, m, x).kind = k /\ Job(k, s, m, x).by = s
           /\ Job(k, s, m, x).memory = m /\ Job(k, s, m, x).step = x
<1>1. Job(k, s, m, x) \in Workflows
  BY DEF Job, Workflows, AdmitSteps, ForgetSteps
<1> QED
  BY <1>1, MarksAssumption DEF Job

\* A workflow goes to its next step.
LEMMA WorkflowGoes ==
    ASSUME WorkTypes, job # Idle, job.kind \in {"admit", "forget"},
           NEW x \in AdmitSteps \cup ForgetSteps, Goto(x)
    PROVE  /\ job' \in Workflows /\ job' # Idle
           /\ job'.kind = job.kind /\ job'.by = job.by /\ job'.memory = job.memory
           /\ job'.step = x
           /\ job.by \in Services /\ job.memory \in MemoryIds
<1>1. job \in Workflows
  BY DEF WorkTypes, Recoveries
<1>2. job' \in Workflows /\ job'.kind = job.kind /\ job'.by = job.by /\ job'.memory = job.memory
      /\ job'.step = x /\ job.by \in Services /\ job.memory \in MemoryIds
  BY <1>1 DEF Goto, Workflows, AdmitSteps, ForgetSteps
<1> QED
  BY <1>2, MarksAssumption

LEMMA RecoveryGoes ==
    ASSUME WorkTypes, job # Idle, job.kind = "recover", NEW x \in RecoverSteps, Goto(x)
    PROVE  /\ job' \in Recoveries /\ job' # Idle
           /\ job'.kind = job.kind /\ job'.by = job.by /\ job'.items = job.items
           /\ job'.step = x
           /\ job.by \in Services /\ job.items \subseteq MemoryIds
<1>1. job \in Recoveries
  BY DEF WorkTypes, Workflows
<1>2. job' \in Recoveries /\ job'.kind = job.kind /\ job'.by = job.by /\ job'.items = job.items
      /\ job'.step = x /\ job.by \in Services /\ job.items \subseteq MemoryIds
  BY <1>1 DEF Goto, Recoveries, RecoverSteps
<1> QED
  BY <1>2, MarksAssumption

\* A generation that serves more than it has to serves what it has to.
LEMMA ServesLess ==
    ASSUME NEW G, NEW needed, NEW gone, NEW less, NEW fewer, Serves(G, needed, gone),
           less \subseteq needed, fewer \subseteq gone
    PROVE  Serves(G, less, fewer)
BY DEF Serves

\* The index is as it was, and less is asked of it.
LEMMA IndexFrame ==
    ASSUME IndexInvariant, UNCHANGED indexVars, NeededIds' \subseteq NeededIds,
           GoneIds' \subseteq GoneIds, working = Idle \/ UNCHANGED <<job, mapping, cleanupId>>
    PROVE  IndexInvariant'
<1>1. UNCHANGED <<durable, loaded, working>>
  BY DEF indexVars
<1>2. working # Idle => Brought' = Brought /\ Taken' = Taken
  BY DEF Brought, Taken, At, ClaimedIds
<1> QED
  BY <1>1, <1>2 DEF IndexInvariant, Serves, Sole

\* What a transaction may do to a row that a workflow or a retrieval knows.
LEMMA RowsStay ==
    ASSUME StoreInvariant, [Next]_storeVars, NEW m \in stored
    PROVE  /\ m \in stored'
           /\ deletedAt'[m] = Null => deletedAt[m] = Null
           /\ mapping[m] # Null =>
                 \/ mapping'[m] = mapping[m]
                 \/ /\ mapping'[m] = Null /\ deletedAt[m] # Null
                    /\ cleanup'[m] = "complete" /\ cleanupId'[m] = mapping[m]
           /\ cleanup[m] = "complete" => cleanup'[m] = "complete" /\ cleanupId'[m] = cleanupId[m]
<1> USE NullAssumption, AttributesAssumption DEF StoreInvariant, TypeOK, IdentityAudit, RowAudit, Live
<1>1. ASSUME NEW x \in MemoryIds, PersistPending(x) \/ RestoreMapping(x)
      PROVE  /\ m \in stored'
             /\ deletedAt'[m] = Null => deletedAt[m] = Null
             /\ mapping[m] # Null => mapping'[m] = mapping[m]
             /\ cleanup[m] = "complete" => cleanup'[m] = "complete" /\ cleanupId'[m] = cleanupId[m]
  BY <1>1 DEF PersistPending, RestoreMapping, memoryVars, forgettingVars
<1>2. ASSUME NEW u \in Users, NEW x \in MemoryIds,
             \/ MarkIndexed(u, x) \/ MarkPending(u, x) \/ MarkFailed(u, x)
             \/ \E t \in MemoryIds : AcknowledgeSupersession(u, x, t)
             \/ \E now \in Instants : ExpireCurrentMemories(u, now)
      PROVE  UNCHANGED <<stored, deletedAt, mapping, cleanup, cleanupId>>
  BY <1>2 DEF MarkIndexed, MarkPending, MarkFailed, Transition, AcknowledgeSupersession,
     ExpireCurrentMemories, mappingVars, forgettingVars
<1>3. ASSUME NEW u \in Users, NEW x \in MemoryIds, NEW now \in Instants, BeginForgetting(u, x, now)
      PROVE  /\ m \in stored'
             /\ deletedAt'[m] = Null => deletedAt[m] = Null
             /\ mapping'[m] = mapping[m]
             /\ cleanup[m] = "complete" => cleanup'[m] = "complete" /\ cleanupId'[m] = cleanupId[m]
  BY <1>3 DEF BeginForgetting, mappingVars
<1>4. ASSUME NEW u \in Users, NEW x \in MemoryIds, NEW v \in VectorIds,
             AdoptForgettingVectorId(u, x, v)
      PROVE  /\ m \in stored' /\ deletedAt'[m] = deletedAt[m] /\ mapping'[m] = mapping[m]
             /\ cleanup[m] = "complete" => cleanup'[m] = "complete" /\ cleanupId'[m] = cleanupId[m]
  BY <1>4 DEF AdoptForgettingVectorId, mappingVars, memoryVars
<1>5. ASSUME NEW u \in Users, NEW x \in MemoryIds, NEW v \in VectorIds,
             AcknowledgeForgettingComplete(u, x, v)
      PROVE  /\ m \in stored' /\ deletedAt'[m] = deletedAt[m]
             /\ cleanupId'[m] = cleanupId[m]
             /\ cleanup[m] = "complete" => cleanup'[m] = "complete"
             /\ mapping[m] # Null =>
                   \/ mapping'[m] = mapping[m]
                   \/ /\ mapping'[m] = Null /\ deletedAt[m] # Null
                      /\ cleanup'[m] = "complete" /\ cleanupId'[m] = mapping[m]
  BY <1>5 DEF AcknowledgeForgettingComplete, memoryVars
<1>6. CASE UNCHANGED storeVars
  BY <1>6 DEF storeVars
<1>7. CASE \E u \in Users, now \in Instants : ExpireCurrentMemories(u, now)
  BY <1>2, <1>7
<1> QED
  BY <1>1, <1>2, <1>3, <1>4, <1>5, <1>6, <1>7 DEF Next

LEMMA PublishedStays ==
    ASSUME StoreInvariant, [Next]_storeVars, WorkTypes, PublishedInvariant,
           \A s \in Services : published'[s] \subseteq published[s]
    PROVE  PublishedInvariant'
BY RowsStay DEF PublishedInvariant, Live

\* The ids that are asked for, when no row is new among them.
LEMMA IdsStay ==
    ASSUME \A m \in Needed' : m \in Needed /\ mapping'[m] = mapping[m],
           \A m \in Gone' : /\ m \in Gone
                            /\ mapping'[m] \in {mapping[m], cleanupId[m], Null}
                            /\ cleanupId'[m] \in {mapping[m], cleanupId[m], Null}
    PROVE  NeededIds' \subseteq NeededIds /\ GoneIds' \subseteq GoneIds
BY DEF NeededIds, GoneIds, ClaimedIds

\* A step that leaves the index alone, and opens or closes no service.
LEMMA BesideIndex ==
    ASSUME WorkInvariant, UNCHANGED indexVars, faults' \in 0..MaxFaults,
           startup' \in [Services -> {"down", "recovered", "up"}],
           \A s \in Services : startup'[s] = "up" <=> startup[s] = "up",
           job' \in Workflows \cup Recoveries \cup {Idle},
           published' \in [Services -> SUBSET MemoryIds],
           working = Idle \/ UNCHANGED <<job, mapping, cleanupId>>,
           NeededIds' \subseteq NeededIds, GoneIds' \subseteq GoneIds,
           JobInvariant', PublishedInvariant'
    PROVE  WorkInvariant'
<1>1. WorkTypes'
  BY DEF WorkInvariant, WorkTypes, indexVars, Index!IndexTypeOK
<1>2. IndexInvariant'
  BY IndexFrame DEF WorkInvariant
<1> QED
  BY <1>1, <1>2 DEF WorkInvariant

LEMMA StoreWork ==
    ASSUME WorkInvariant, UNCHANGED <<indexVars, startup>>, faults' \in 0..MaxFaults,
           job' \in Workflows \cup Recoveries \cup {Idle},
           published' \in [Services -> SUBSET MemoryIds],
           working = Idle \/ UNCHANGED <<job, mapping, cleanupId>>,
           NeededIds' \subseteq NeededIds, GoneIds' \subseteq GoneIds,
           JobInvariant', PublishedInvariant'
    PROVE  WorkInvariant'
<1>1. startup' \in [Services -> {"down", "recovered", "up"}]
      /\ \A s \in Services : startup'[s] = "up" <=> startup[s] = "up"
  BY DEF WorkInvariant, WorkTypes
<1> QED
  BY <1>1, BesideIndex

\* An index that nobody publishes to, while no workflow runs or it does not publish.
LEMMA NobodyPublishes ==
    ASSUME WorkInvariant, job = Idle \/ ~ Publishing
    PROVE  working = Idle
BY DEF WorkInvariant, JobInvariant, Publishing, At

-----------------------------------------------------------------------------
(* The steps of a workflow that leave the index alone.                     *)

LEMMA AdmissionStarts ==
    ASSUME StoreInvariant, StoreInvariant', WorkInvariant, NEW s \in Services, NEW m \in MemoryIds,
           AdmitNew(s, m)
    PROVE  WorkInvariant'
<1> USE NullAssumption, AttributesAssumption
<1>1. /\ job = Idle /\ startup[s] = "up" /\ PersistPending(m)
      /\ job' = Job("admit", s, m, "add")
      /\ UNCHANGED <<indexVars, startup, published, faults>>
  BY DEF AdmitNew, Starts, StoreStep, NoFault
<1>2. working = Idle
  BY <1>1, NobodyPublishes
<1>3. /\ job' \in Workflows /\ job' # Idle /\ job'.kind = "admit" /\ job'.by = s
      /\ job'.memory = m /\ job'.step = "add"
  BY <1>1, NewWorkflow DEF AdmitSteps
<1>4. JobInvariant'
  <2>1. HasIndexingWork(m)'
    BY <1>1 DEF PersistPending, HasIndexingWork, StoreInvariant, TypeOK, VectorIds
  <2> QED
    BY <1>1, <1>2, <1>3, <2>1 DEF JobInvariant, indexVars
<1>5. PublishedInvariant'
  BY <1>1, PublishedStays DEF WorkInvariant, Next
<1>6. NeededIds' \subseteq NeededIds /\ GoneIds' \subseteq GoneIds
  <2>1. m \notin stored /\ indexing[m] # "indexed" /\ cleanup[m] = Null
    BY <1>1 DEF PersistPending, StoreInvariant, UnstoredRowsBlank
  <2>2. \A t \in Services : m \notin published[t]
    BY <2>1 DEF WorkInvariant, PublishedInvariant
  <2>3. /\ \A n \in stored' : n = m \/ n \in stored
        /\ \A n \in stored : mapping'[n] = mapping[n]
        /\ UNCHANGED <<indexing, deletedAt, cleanup, cleanupId>>
    BY <1>1, <2>1 DEF PersistPending, forgettingVars, StoreInvariant, TypeOK
  <2>4. \A n \in Needed' : n \in Needed /\ mapping'[n] = mapping[n]
    BY <1>1, <1>3, <2>1, <2>2, <2>3 DEF Needed, Live, At
  <2>5. \A n \in Gone' : n \in Gone /\ mapping'[n] = mapping[n] /\ cleanupId'[n] = cleanupId[n]
    BY <1>3, <2>1, <2>3 DEF Gone, At
  <2> QED
    BY <2>4, <2>5, IdsStay
<1>7. faults' \in 0..MaxFaults /\ published' \in [Services -> SUBSET MemoryIds]
  BY <1>1 DEF WorkInvariant, WorkTypes
<1> QED
  BY <1>1, <1>2, <1>3, <1>4, <1>5, <1>6, <1>7, StoreWork

LEMMA AdmissionResumes ==
    ASSUME StoreInvariant, StoreInvariant', WorkInvariant, NEW s \in Services, NEW m \in MemoryIds,
           RetryPending(s, m) \/ RetryFailed(s, m)
    PROVE  WorkInvariant'
<1> USE NullAssumption, AttributesAssumption
<1>1. /\ job = Idle /\ startup[s] = "up" /\ HasIndexingWork(m)
      /\ job' = Job("admit", s, m, RetryStep(s, m))
      /\ UNCHANGED <<indexVars, startup, published, faults>>
      /\ UNCHANGED storeVars \/ MarkPending(Owner[m], m)
  BY DEF RetryPending, RetryFailed, Starts, StoreStep, MarkPending, NoFault
<1>2. working = Idle
  BY <1>1, NobodyPublishes
<1>3. /\ job' \in Workflows /\ job' # Idle /\ job'.kind = "admit" /\ job'.by = s
      /\ job'.memory = m /\ job'.step = RetryStep(s, m)
  BY <1>1, NewWorkflow DEF AdmitSteps, RetryStep
<1>4. /\ UNCHANGED <<stored, deletedAt, mapping, cleanup, cleanupId>>
      /\ \A n \in MemoryIds : indexing'[n] = "indexed" => indexing[n] = "indexed"
  BY <1>1 DEF storeVars, MarkPending, Transition, mappingVars, forgettingVars, StoreInvariant, TypeOK
<1>5. JobInvariant'
  BY <1>1, <1>2, <1>3, <1>4 DEF JobInvariant, indexVars, HasIndexingWork
<1>6. PublishedInvariant'
  BY <1>1, PublishedStays DEF WorkInvariant, Next
<1>7. NeededIds' \subseteq NeededIds /\ GoneIds' \subseteq GoneIds
  <2>1. job'.step = "acknowledge" => m \in published[s]
    BY <1>3 DEF RetryStep
  <2>2. \A n \in Needed' : n \in Needed /\ mapping'[n] = mapping[n]
    BY <1>1, <1>3, <1>4, <2>1 DEF Needed, Live, At, StoreInvariant, TypeOK
  <2>3. \A n \in Gone' : n \in Gone /\ mapping'[n] = mapping[n] /\ cleanupId'[n] = cleanupId[n]
    BY <1>3, <1>4 DEF Gone, At
  <2> QED
    BY <2>2, <2>3, IdsStay
<1>8. faults' \in 0..MaxFaults /\ published' \in [Services -> SUBSET MemoryIds]
  BY <1>1 DEF WorkInvariant, WorkTypes
<1> QED
  BY <1>1, <1>2, <1>3, <1>5, <1>6, <1>7, <1>8, StoreWork

LEMMA ForgettingStarts ==
    ASSUME StoreInvariant, StoreInvariant', WorkInvariant, NEW s \in Services, NEW u \in Users,
           NEW m \in MemoryIds,
           (\E now \in Instants : Forget(s, u, m, now)) \/ ForgetAgain(s, u, m)
    PROVE  WorkInvariant'
<1> USE NullAssumption, AttributesAssumption
<1>1. /\ job = Idle /\ startup[s] = "up" /\ m \in stored
      /\ job' = Job("forget", s, m, "remove") \/ job' = Idle
      /\ UNCHANGED <<indexVars, startup, published, faults>>
      /\ UNCHANGED storeVars \/ \E now \in Instants : BeginForgetting(u, m, now)
  BY DEF Forget, ForgetAgain, Starts, StoreStep, OwnStep, NoFault, BeginForgetting, Owned
<1>2. working = Idle
  BY <1>1, NobodyPublishes
<1>3. \/ job' = Idle
      \/ /\ job' \in Workflows /\ job' # Idle /\ job'.kind = "forget" /\ job'.by = s
         /\ job'.memory = m /\ job'.step = "remove"
  BY <1>1, NewWorkflow DEF ForgetSteps
<1>4. /\ UNCHANGED <<stored, mapping, indexing>>
      /\ \A n \in MemoryIds : n # m => cleanupId'[n] = cleanupId[n]
      /\ \A n \in MemoryIds : deletedAt'[n] = Null => deletedAt[n] = Null
      /\ \A n \in MemoryIds : cleanup'[n] = "complete" =>
            cleanup[n] = "complete" /\ cleanupId'[n] = cleanupId[n]
  BY <1>1 DEF storeVars, BeginForgetting, mappingVars, StoreInvariant, TypeOK
<1>5. job' # Idle => cleanup'[m] = "cleanup_pending" /\ cleanupId'[m] # Null
  <2>1. CASE \E now \in Instants : Forget(s, u, m, now)
    BY <1>1, <2>1 DEF Forget, BeginForgetting, StoreInvariant, TypeOK
  <2>2. CASE ForgetAgain(s, u, m)
    BY <2>2 DEF ForgetAgain, storeVars, OwnStep
  <2> QED
    BY <2>1, <2>2
<1>6. JobInvariant'
  BY <1>1, <1>2, <1>3, <1>4, <1>5 DEF JobInvariant, indexVars
<1>7. PublishedInvariant'
  BY <1>1, PublishedStays DEF WorkInvariant, Next
<1>8. NeededIds' \subseteq NeededIds /\ GoneIds' \subseteq GoneIds
  <2>1. \A n \in Needed' : n \in Needed /\ mapping'[n] = mapping[n]
    BY <1>1, <1>3, <1>4 DEF Needed, Live, At, StoreInvariant, TypeOK
  <2>2. \A n \in Gone' : n \in Gone /\ mapping'[n] = mapping[n] /\ cleanupId'[n] = cleanupId[n]
    BY <1>3, <1>4 DEF Gone, At, StoreInvariant, TypeOK
  <2> QED
    BY <2>1, <2>2, IdsStay
<1>9. faults' \in 0..MaxFaults /\ published' \in [Services -> SUBSET MemoryIds]
  BY <1>1 DEF WorkInvariant, WorkTypes
<1> QED
  BY <1>1, <1>2, <1>3, <1>6, <1>7, <1>8, <1>9, StoreWork

\* The rows are left alone, and the workflow goes on or returns.
LEMMA WorkGoesOn ==
    ASSUME WorkInvariant, job # Idle, ~ Publishing,
           UNCHANGED <<storeVars, indexVars, startup, published>>, faults' \in 0..MaxFaults,
           \/ job' = Idle
           \/ At("admit", "add") /\ Goto("failed")
           \/ At("recover", "cleanup") /\ Goto("verify")
    PROVE  WorkInvariant'
<1>1. working = Idle
  BY NobodyPublishes
<1>2. /\ UNCHANGED <<stored, indexing, deletedAt, mapping, cleanup, cleanupId>>
      /\ WorkTypes /\ JobInvariant /\ PublishedInvariant
  BY DEF storeVars, WorkInvariant
<1>3. \/ job' = Idle
      \/ /\ job' # Idle /\ job'.kind = job.kind /\ job'.by = job.by
         /\ \/ job.kind = "admit" /\ job' \in Workflows /\ job'.memory = job.memory /\ job'.step = "failed"
            \/ job.kind = "recover" /\ job' \in Recoveries /\ job'.items = job.items /\ job'.step = "verify"
  BY <1>2, WorkflowGoes, RecoveryGoes DEF At, AdmitSteps, RecoverSteps
<1>4. JobInvariant'
  BY <1>1, <1>2, <1>3 DEF JobInvariant, indexVars, HasIndexingWork, Live
<1>5. PublishedInvariant'
  BY <1>2 DEF PublishedInvariant, Live
<1>6. NeededIds' \subseteq NeededIds /\ GoneIds' \subseteq GoneIds
  <2>1. \A n \in Needed' : n \in Needed /\ mapping'[n] = mapping[n]
    BY <1>2, <1>3 DEF Needed, Live, At
  <2>2. \A n \in Gone' : n \in Gone /\ mapping'[n] = mapping[n] /\ cleanupId'[n] = cleanupId[n]
    BY <1>2, <1>3 DEF Gone, At
  <2> QED
    BY <2>1, <2>2, IdsStay
<1>7. job' \in Workflows \cup Recoveries \cup {Idle} /\ published' \in [Services -> SUBSET MemoryIds]
  BY <1>2, <1>3 DEF WorkTypes
<1> QED
  BY <1>1, <1>4, <1>5, <1>6, <1>7, StoreWork

LEMMA FailuresGoOn ==
    ASSUME WorkInvariant,
           \/ AddRefused \/ ReplacementRejected \/ RemoveRefused \/ CleanupDone \/ WorkflowFails
    PROVE  WorkInvariant'
<1>1. /\ job # Idle /\ ~ Publishing
      /\ \/ job' = Idle
         \/ At("admit", "add") /\ Goto("failed")
         \/ At("recover", "cleanup") /\ Goto("verify")
  BY DEF AddRefused, ReplacementRejected, RemoveRefused, CleanupDone, WorkflowFails, At, Publishing,
     Return
<1>2. UNCHANGED <<storeVars, indexVars, startup, published>> /\ (NoFault \/ Fault)
  BY DEF AddRefused, ReplacementRejected, RemoveRefused, CleanupDone, WorkflowFails, OwnStep
<1>3. faults' \in 0..MaxFaults
  BY <1>2, MarksAssumption DEF NoFault, Fault, WorkInvariant, WorkTypes
<1> QED
  BY <1>1, <1>2, <1>3, WorkGoesOn

\* The transactions that end an admission.
LEMMA AdmissionEnds ==
    ASSUME StoreInvariant, StoreInvariant', WorkInvariant,
           RecordFailure \/ AcknowledgeIndexed \/ AcknowledgeReplacement
    PROVE  WorkInvariant'
<1> USE NullAssumption, AttributesAssumption
<1> DEFINE m == job.memory
<1>1. /\ job # Idle /\ job.kind = "admit" /\ ~ Publishing /\ job' = Idle
      /\ UNCHANGED <<indexVars, startup, faults>>
  BY DEF RecordFailure, AcknowledgeIndexed, AcknowledgeReplacement, At, Publishing, Return,
     StoreStep, NoFault
<1>2. working = Idle
  BY <1>1, NobodyPublishes
<1>3. m \in MemoryIds /\ job.by \in Services
  BY <1>1 DEF WorkInvariant, WorkTypes, Workflows, Recoveries
<1>4. /\ \/ MarkFailed(Owner[m], m)
         \/ job.step = "acknowledge" /\ MarkIndexed(Owner[m], m)
         \/ /\ job.step = "acknowledge" /\ Target[m] \in MemoryIds
            /\ AcknowledgeSupersession(Owner[m], m, Target[m])
      /\ published' \in [Services -> SUBSET MemoryIds]
      /\ \A s \in Services : published'[s] \subseteq published[s]
  BY <1>3, TargetAssumption DEF RecordFailure, AcknowledgeIndexed, AcknowledgeReplacement, At,
     StoreStep, WorkInvariant, WorkTypes
<1>5. /\ UNCHANGED <<stored, deletedAt, mapping, cleanup, cleanupId>>
      /\ \A n \in MemoryIds : indexing'[n] = "indexed" =>
            indexing[n] = "indexed" \/ (n = m /\ job.step = "acknowledge")
  BY <1>3, <1>4 DEF MarkFailed, MarkIndexed, Transition, AcknowledgeSupersession, mappingVars,
     forgettingVars, StoreInvariant, TypeOK
<1>6. JobInvariant'
  BY <1>1, <1>2 DEF JobInvariant, indexVars
<1>7. PublishedInvariant'
  BY <1>4, <1>5 DEF WorkInvariant, PublishedInvariant, WorkTypes, Live
<1>8. NeededIds' \subseteq NeededIds /\ GoneIds' \subseteq GoneIds
  <2>1. \A n \in Needed' : n \in Needed /\ mapping'[n] = mapping[n]
    BY <1>1, <1>4, <1>5 DEF Needed, Live, At, StoreInvariant, TypeOK
  <2>2. \A n \in Gone' : n \in Gone /\ mapping'[n] = mapping[n] /\ cleanupId'[n] = cleanupId[n]
    BY <1>1, <1>5 DEF Gone, At
  <2> QED
    BY <2>1, <2>2, IdsStay
<1>9. faults' \in 0..MaxFaults
  BY <1>1 DEF WorkInvariant, WorkTypes
<1> QED
  BY <1>1, <1>2, <1>4, <1>6, <1>7, <1>8, <1>9, StoreWork

\* The transactions that end a forgetting, under its workflow or a recovery.
LEMMA ForgettingEnds ==
    ASSUME StoreInvariant, StoreInvariant', WorkInvariant,
           ForgetDone \/ \E m \in MemoryIds : AdoptMapping(m) \/ CompleteForgetting(m)
    PROVE  WorkInvariant'
<1> USE NullAssumption, AttributesAssumption
<1>1. /\ job # Idle /\ ~ Publishing
      /\ At("forget", "complete") \/ At("recover", "cleanup")
      /\ UNCHANGED <<indexVars, startup, published, faults>>
  BY DEF ForgetDone, AdoptMapping, CompleteForgetting, At, Publishing, StoreStep, NoFault
<1>2. working = Idle
  BY <1>1, NobodyPublishes
<1>3. PICK m \in MemoryIds :
        /\ m \in Gone
        /\ \/ AdoptForgettingVectorId(Owner[m], m, mapping[m])
           \/ AcknowledgeForgettingComplete(Owner[m], m, cleanupId[m])
        /\ \/ ForgetDone /\ m = job.memory
           \/ m \in job.items /\ (AdoptMapping(m) \/ CompleteForgetting(m))
  <2>1. CASE ForgetDone
    BY <2>1 DEF ForgetDone, Gone, WorkInvariant, WorkTypes, JobInvariant, At, Workflows, Recoveries
  <2>2. ASSUME NEW m \in MemoryIds, AdoptMapping(m) \/ CompleteForgetting(m)
        PROVE  m \in Gone
    BY <2>2 DEF AdoptMapping, CompleteForgetting, Gone, WorkInvariant, JobInvariant, At
  <2> QED
    BY <2>1, <2>2 DEF AdoptMapping, CompleteForgetting, ForgetDone
<1>4. /\ UNCHANGED <<stored, indexing, deletedAt>>
      /\ m \in stored /\ deletedAt[m] # Null
      /\ \A n \in MemoryIds : n # m =>
            mapping'[n] = mapping[n] /\ cleanup'[n] = cleanup[n] /\ cleanupId'[n] = cleanupId[n]
      /\ mapping'[m] \in {mapping[m], Null} /\ cleanupId'[m] \in {mapping[m], cleanupId[m]}
      /\ AdoptMapping(m) => cleanup' = cleanup /\ mapping' = mapping
  BY <1>3 DEF AdoptForgettingVectorId, AcknowledgeForgettingComplete, memoryVars, mappingVars,
     Owned, Live, StoreInvariant, TypeOK, AdoptMapping
<1>5. \/ job' = Idle
      \/ job' = job /\ job.kind = "recover"
      \/ /\ job.kind = "recover"
         /\ job' \in Recoveries /\ job' # Idle /\ job'.kind = "recover" /\ job'.by = job.by
         /\ job'.items = job.items \ {m} /\ job'.step = job.step
  <2>1. CASE ForgetDone
    BY <2>1 DEF ForgetDone, Return
  <2>2. CASE AdoptMapping(m)
    BY <2>2 DEF AdoptMapping, At
  <2>3. CASE CompleteForgetting(m)
    <3>1. job \in Recoveries /\ job' = [job EXCEPT !.items = @ \ {m}] /\ job.kind = "recover"
      BY <2>3 DEF CompleteForgetting, At, WorkInvariant, WorkTypes, Workflows
    <3>2. job' \in Recoveries /\ job'.kind = "recover" /\ job'.by = job.by
          /\ job'.items = job.items \ {m} /\ job'.step = job.step
      BY <3>1 DEF Recoveries
    <3> QED
      BY <3>1, <3>2, MarksAssumption
  <2> QED
    BY <1>3, <2>1, <2>2, <2>3
<1>6. JobInvariant'
  <2>1. job.kind = "recover" =>
          startup[job.by] = "down" /\ \A n \in job.items : n \in stored /\ deletedAt[n] # Null
    BY <1>1 DEF WorkInvariant, JobInvariant, Live
  <2>2. working' = Idle /\ UNCHANGED <<startup, stored, deletedAt>>
    BY <1>1, <1>2, <1>4 DEF indexVars
  <2>3. CASE job' = Idle
    BY <2>2, <2>3 DEF JobInvariant
  <2>4. CASE job' # Idle
    <3>1. job'.kind = "recover" /\ job'.by = job.by
          /\ \A n \in job'.items : n \in job.items
      BY <1>5, <2>4
    <3> QED
      BY <1>5, <2>1, <2>2, <2>4, <3>1 DEF JobInvariant, Live
  <2> QED
    BY <2>3, <2>4
<1>7. PublishedInvariant'
  BY <1>1, <1>4 DEF WorkInvariant, PublishedInvariant, WorkTypes, Live
<1>8. NeededIds' \subseteq NeededIds /\ GoneIds' \subseteq GoneIds
  <2>1. \A n \in Needed' : n \in Needed /\ mapping'[n] = mapping[n]
    BY <1>1, <1>4, <1>5 DEF Needed, Live, At, StoreInvariant, TypeOK
  <2>2. \A n \in Gone' : /\ n \in Gone
                         /\ mapping'[n] \in {mapping[n], cleanupId[n], Null}
                         /\ cleanupId'[n] \in {mapping[n], cleanupId[n], Null}
    BY <1>1, <1>3, <1>4, <1>5 DEF Gone, At, StoreInvariant, TypeOK
  <2> QED
    BY <2>1, <2>2, IdsStay
<1>9. /\ faults' \in 0..MaxFaults /\ published' \in [Services -> SUBSET MemoryIds]
      /\ job' \in Workflows \cup Recoveries \cup {Idle}
  BY <1>1, <1>5 DEF WorkInvariant, WorkTypes
<1> QED
  BY <1>1, <1>2, <1>6, <1>7, <1>8, <1>9, StoreWork

-----------------------------------------------------------------------------
(* Start-ups, retrievals and the environment.                              *)

\* What recovery rebuilds the index to is what the index has to hold.
LEMMA RebuildServes ==
    ASSUME StoreInvariant, WorkInvariant
    PROVE  /\ Rebuild \subseteq VectorIds
           /\ Serves(Rebuild, NeededIds, GoneIds)
           /\ \A m \in stored : ~ Live(m) => ClaimedIds(m) \cap Rebuild = {}
<1> USE NullAssumption
<1>1. \A m \in stored : RowAudit(m)
  BY DEF StoreInvariant, IdentityAudit
<1>2. Rebuild \subseteq VectorIds
  BY DEF Rebuild, StoreInvariant, TypeOK
<1>3. ASSUME NEW m \in stored, ~ Live(m)
      PROVE  ClaimedIds(m) \cap Rebuild = {}
  <2> SUFFICES ASSUME NEW v \in ClaimedIds(m), v \in Rebuild PROVE FALSE
    OBVIOUS
  <2>1. PICK n \in stored : cleanup[n] = Null /\ mapping[n] # Null /\ v = mapping[n]
    BY DEF Rebuild
  <2>2. n # m
    BY <1>1, <1>3, <2>1 DEF RowAudit
  <2>3. v \in ClaimedIds(n)
    BY <2>1 DEF ClaimedIds
  <2> QED
    BY <2>2, <2>3 DEF StoreInvariant, IdentityAudit, DistinctVectorOwners
<1>4. ASSUME NEW m \in Needed
      PROVE  mapping[m] \in Rebuild
  <2>1. m \in stored /\ Live(m)
    BY DEF Needed
  <2>2. cleanup[m] = Null
    BY <1>1, <2>1 DEF RowAudit
  <2>3. mapping[m] # Null
    BY <1>1, <2>1 DEF Needed, RowAudit, WorkInvariant, PublishedInvariant, JobInvariant,
       HasIndexingWork, At
  <2> QED
    BY <2>1, <2>2, <2>3 DEF Rebuild
<1>5. ASSUME NEW m \in Gone
      PROVE  m \in stored /\ ~ Live(m)
  BY <1>1 DEF Gone, RowAudit, WorkInvariant, JobInvariant, At
<1> QED
  BY <1>2, <1>3, <1>4, <1>5 DEF Serves, NeededIds, GoneIds

\* A retrieval writes expirations at most.
LEMMA RetrievalsBeside ==
    ASSUME StoreInvariant, WorkInvariant, UNCHANGED <<indexVars, job, startup, published, faults>>,
           \/ UNCHANGED storeVars
           \/ \E u \in Users, now \in Instants : ExpireCurrentMemories(u, now)
    PROVE  WorkInvariant'
<1>1. UNCHANGED <<stored, indexing, deletedAt, mapping, cleanup, cleanupId>>
  BY DEF storeVars, ExpireCurrentMemories, mappingVars, forgettingVars
<1>2. JobInvariant'
  BY <1>1 DEF WorkInvariant, JobInvariant, Publishing, At, indexVars, HasIndexingWork, Live
<1>3. PublishedInvariant'
  BY <1>1 DEF WorkInvariant, PublishedInvariant, Live
<1>4. NeededIds' \subseteq NeededIds /\ GoneIds' \subseteq GoneIds
  <2>1. \A n \in Needed' : n \in Needed /\ mapping'[n] = mapping[n]
    BY <1>1 DEF Needed, Live, At
  <2>2. \A n \in Gone' : n \in Gone /\ mapping'[n] = mapping[n] /\ cleanupId'[n] = cleanupId[n]
    BY <1>1 DEF Gone, At
  <2> QED
    BY <2>1, <2>2, IdsStay
<1>5. /\ faults' \in 0..MaxFaults /\ published' \in [Services -> SUBSET MemoryIds]
      /\ job' \in Workflows \cup Recoveries \cup {Idle}
  BY DEF WorkInvariant, WorkTypes
<1> QED
  BY <1>1, <1>2, <1>3, <1>4, <1>5, StoreWork

LEMMA MappingsRestored ==
    ASSUME StoreInvariant, WorkInvariant, NEW m \in MemoryIds, MappingRestored(m)
    PROVE  WorkInvariant'
<1> USE NullAssumption
<1>1. /\ job = Idle /\ RestoreMapping(m)
      /\ UNCHANGED <<indexVars, job, startup, published, faults>>
  BY DEF MappingRestored, NoFault
<1>2. working = Idle
  BY <1>1, NobodyPublishes
<1>3. /\ UNCHANGED <<stored, indexing, deletedAt, cleanup, cleanupId>>
      /\ \A n \in MemoryIds : n # m => mapping'[n] = mapping[n]
      /\ m \in stored /\ cleanup[m] = "cleanup_pending" /\ ~ Live(m)
  BY <1>1 DEF RestoreMapping, memoryVars, forgettingVars, StoreInvariant, TypeOK, IdentityAudit,
     RowAudit
<1>4. JobInvariant'
  BY <1>1, <1>2 DEF JobInvariant, indexVars
<1>5. PublishedInvariant'
  BY <1>1, PublishedStays DEF WorkInvariant, Next
<1>6. NeededIds' \subseteq NeededIds /\ GoneIds' \subseteq GoneIds
  <2>1. \A n \in Needed' : n \in Needed /\ mapping'[n] = mapping[n]
    BY <1>1, <1>3 DEF Needed, Live, At, StoreInvariant, TypeOK
  <2>2. \A n \in Gone' : n \in Gone /\ mapping'[n] = mapping[n] /\ cleanupId'[n] = cleanupId[n]
    BY <1>1, <1>3 DEF Gone, At, StoreInvariant, TypeOK
  <2> QED
    BY <2>1, <2>2, IdsStay
<1>7. /\ faults' \in 0..MaxFaults /\ published' \in [Services -> SUBSET MemoryIds]
      /\ job' \in Workflows \cup Recoveries \cup {Idle}
  BY <1>1 DEF WorkInvariant, WorkTypes
<1> QED
  BY <1>1, <1>2, <1>4, <1>5, <1>6, <1>7, StoreWork

\* A start-up that needs no publication, or finds no generation to load.
LEMMA StartUpsBeside ==
    ASSUME StoreInvariant, WorkInvariant,
           VerifyReady \/ \E s \in Services : RecoverReady(s) \/ OpenRefused(s)
    PROVE  WorkInvariant'
<1>1. /\ UNCHANGED <<storeVars, indexVars, published, faults>>
      /\ \/ job' = Idle /\ job # Idle /\ ~ Publishing
         \/ job' = job
  BY DEF VerifyReady, RecoverReady, OpenRefused, Recovered, Return, At, Publishing, NoFault
<1>2. PICK s \in Services :
        \/ startup[s] = "down" /\ startup' = [startup EXCEPT ![s] = "recovered"] /\ job' = Idle
        \/ startup[s] = "recovered" /\ startup' = [startup EXCEPT ![s] = "down"]
  <2>1. CASE VerifyReady
    BY <2>1 DEF VerifyReady, Recovered, Return, At, WorkInvariant, WorkTypes, JobInvariant, Recoveries,
       Workflows
  <2> QED
    BY <2>1 DEF RecoverReady, OpenRefused, StartUp, Recovered
<1>3. /\ startup' \in [Services -> {"down", "recovered", "up"}]
      /\ \A t \in Services : startup'[t] = "up" <=> startup[t] = "up"
      /\ \A t \in Services : startup[t] = "down" /\ job' # Idle => startup'[t] = "down"
  BY <1>2 DEF WorkInvariant, WorkTypes
<1>4. UNCHANGED <<stored, indexing, deletedAt, mapping, cleanup, cleanupId>>
  BY <1>1 DEF storeVars
<1>5. working = Idle \/ UNCHANGED <<job, mapping, cleanupId>>
  BY <1>1, <1>4, NobodyPublishes
<1>6. JobInvariant'
  <2>1. CASE job' = Idle
    BY <1>1, <2>1, NobodyPublishes DEF JobInvariant, indexVars
  <2>2. CASE job' # Idle
    <3>1. job' = job /\ UNCHANGED working /\ job # Idle /\ JobInvariant
      BY <1>1, <2>2 DEF indexVars, WorkInvariant
    <3>2. job.by \in Services
      BY <3>1 DEF WorkInvariant, WorkTypes, Workflows, Recoveries
    <3> QED
      BY <1>3, <1>4, <2>2, <3>1, <3>2 DEF JobInvariant, Publishing, At, HasIndexingWork, Live,
         WorkInvariant, WorkTypes
  <2> QED
    BY <2>1, <2>2
<1>7. PublishedInvariant'
  BY <1>1, <1>4 DEF WorkInvariant, PublishedInvariant, Live
<1>8. NeededIds' \subseteq NeededIds /\ GoneIds' \subseteq GoneIds
  <2>1. \A n \in Needed' : n \in Needed /\ mapping'[n] = mapping[n]
    BY <1>1, <1>4 DEF Needed, Live, At
  <2>2. \A n \in Gone' : n \in Gone /\ mapping'[n] = mapping[n] /\ cleanupId'[n] = cleanupId[n]
    BY <1>1, <1>4 DEF Gone, At
  <2> QED
    BY <2>1, <2>2, IdsStay
<1>9. /\ faults' \in 0..MaxFaults /\ published' \in [Services -> SUBSET MemoryIds]
      /\ job' \in Workflows \cup Recoveries \cup {Idle}
  BY <1>1 DEF WorkInvariant, WorkTypes
<1> QED
  BY <1>1, <1>3, <1>5, <1>6, <1>7, <1>8, <1>9, BesideIndex

\* Rows that are left alone are asked for no more than before, if no workflow
\* begins.
LEMMA IdsOfIdle ==
    ASSUME UNCHANGED storeVars, job' = job \/ job' = Idle,
           \A s \in Services : published'[s] \subseteq published[s]
    PROVE  NeededIds' \subseteq NeededIds /\ GoneIds' \subseteq GoneIds
<1>1. UNCHANGED <<stored, indexing, deletedAt, mapping, cleanup, cleanupId>>
  BY DEF storeVars
<1>2. \A n \in Needed' : n \in Needed /\ mapping'[n] = mapping[n]
  BY <1>1 DEF Needed, Live, At
<1>3. \A n \in Gone' : n \in Gone /\ mapping'[n] = mapping[n] /\ cleanupId'[n] = cleanupId[n]
  BY <1>1 DEF Gone, At
<1> QED
  BY <1>2, <1>3, IdsStay

LEMMA ProcessEnds ==
    ASSUME WorkInvariant, ProcessCrash \/ Restart
    PROVE  WorkInvariant'
<1>1. /\ UNCHANGED <<storeVars, durable>>
      /\ loaded' = [i \in Services |-> Closed] /\ working' = Idle /\ job' = Idle
      /\ startup' = [s \in Services |-> "down"] /\ published' = [s \in Services |-> {}]
      /\ NoFault \/ Fault
  BY DEF ProcessCrash, Restart, Index!Crash
<1>2. faults' \in 0..MaxFaults
  BY <1>1, MarksAssumption DEF NoFault, Fault, WorkInvariant, WorkTypes
<1>3. WorkTypes'
  BY <1>1, <1>2 DEF WorkInvariant, WorkTypes, Index!IndexTypeOK
<1>4. JobInvariant' /\ PublishedInvariant'
  BY <1>1 DEF JobInvariant, PublishedInvariant
<1>5. NeededIds' \subseteq NeededIds /\ GoneIds' \subseteq GoneIds
  BY <1>1, IdsOfIdle
<1>6. IndexInvariant'
  BY <1>1, <1>5 DEF WorkInvariant, IndexInvariant, Serves
<1> QED
  BY <1>3, <1>4, <1>6 DEF WorkInvariant

LEMMA FilesDamaged ==
    ASSUME WorkInvariant, DamageLimit, IndexDamaged
    PROVE  WorkInvariant'
<1>1. /\ UNCHANGED <<storeVars, loaded, working, job, startup, published>>
      /\ working = Idle /\ durable' \in Damages /\ durable' \in {Absent, Torn} /\ Fault
  BY DEF IndexDamaged, Index!Damage
<1>2. UNCHANGED <<stored, deletedAt, mapping, cleanup, cleanupId>>
  BY <1>1 DEF storeVars
<1>3. faults' \in 0..MaxFaults
  BY <1>1, MarksAssumption DEF Fault, WorkInvariant, WorkTypes
<1>4. WorkTypes'
  BY <1>1, <1>3 DEF WorkInvariant, WorkTypes, Index!IndexTypeOK
<1>5. JobInvariant' /\ PublishedInvariant'
  BY <1>1, <1>2 DEF WorkInvariant, JobInvariant, PublishedInvariant, Publishing, At, HasIndexingWork, Live
<1>6. NeededIds' \subseteq NeededIds /\ GoneIds' \subseteq GoneIds
  BY <1>1, IdsOfIdle
<1>7. durable' = Absent => Sole
  BY <1>1 DEF DamageLimit
<1>8. IndexInvariant'
  BY <1>1, <1>6, <1>7 DEF WorkInvariant, IndexInvariant, Serves, Sole
<1> QED
  BY <1>4, <1>5, <1>8 DEF WorkInvariant

LEMMA IndexOpened ==
    ASSUME WorkInvariant, Marks, NEW s \in Services, OpenIndex(s)
    PROVE  WorkInvariant'
<1>1. /\ UNCHANGED <<storeVars, durable, working, job, published, faults>>
      /\ startup[s] = "recovered" /\ startup' = [startup EXCEPT ![s] = "up"]
      /\ durable \notin {Absent, Torn} /\ loaded' = [loaded EXCEPT ![s] = durable]
  BY DEF OpenIndex, Index!Open, Index!HasGeneration, NoFault
<1>2. UNCHANGED <<stored, deletedAt, mapping, cleanup, cleanupId>>
  BY <1>1 DEF storeVars
<1>3. WorkTypes'
  <2>1. durable \subseteq VectorIds /\ durable # Closed
    BY <1>1 DEF WorkInvariant, WorkTypes, Index!IndexTypeOK, Index!Generations, Marks
  <2>2. Index!IndexTypeOK'
    BY <1>1, <2>1 DEF WorkInvariant, WorkTypes, Index!IndexTypeOK, Index!Generations
  <2> QED
    BY <1>1, <2>1, <2>2 DEF WorkInvariant, WorkTypes, Index!IndexTypeOK
<1>4. JobInvariant'
  <2>1. job # Idle => job.by \in Services
    BY DEF WorkInvariant, WorkTypes, Workflows, Recoveries
  <2> QED
    BY <1>1, <1>2, <2>1 DEF WorkInvariant, WorkTypes, JobInvariant, Publishing, At, HasIndexingWork, Live
<1>5. PublishedInvariant'
  BY <1>1, <1>2 DEF WorkInvariant, PublishedInvariant, Live
<1>6. NeededIds' \subseteq NeededIds /\ GoneIds' \subseteq GoneIds
  BY <1>1, IdsOfIdle
<1>7. Brought' = Brought /\ Taken' = Taken
  BY <1>1, <1>2 DEF Brought, Taken, At, ClaimedIds
<1>8. IndexInvariant'
  BY <1>1, <1>6, <1>7 DEF WorkInvariant, WorkTypes, Index!IndexTypeOK, IndexInvariant, Serves, Sole
<1> QED
  BY <1>3, <1>4, <1>5, <1>8 DEF WorkInvariant

\* The exact generation of the first inventory holds nothing of what is to be
\* cleaned up.
LEMMA RecoveryReuses ==
    ASSUME StoreInvariant, WorkInvariant, NEW s \in Services, RecoverReuse(s)
    PROVE  WorkInvariant'
<1> USE NullAssumption
<1>1. /\ job = Idle /\ startup[s] = "down" /\ durable = Rebuild /\ job' = Recover(s, "cleanup")
      /\ UNCHANGED <<storeVars, indexVars, startup, published, faults>>
  BY DEF RecoverReuse, StartUp, OwnStep, NoFault
<1>2. working = Idle
  BY <1>1, NobodyPublishes
<1>3. /\ job' \in Recoveries /\ job' # Idle /\ job'.kind = "recover" /\ job'.by = s
      /\ job'.items = CleanupItems /\ job'.step = "cleanup"
  <2>1. CleanupItems \subseteq MemoryIds
    BY DEF CleanupItems, StoreInvariant, TypeOK
  <2>2. Recover(s, "cleanup") \in Recoveries
    BY <2>1 DEF Recover, Recoveries
  <2> QED
    BY <1>1, <2>2, MarksAssumption DEF Recover
<1>4. \A m \in CleanupItems : m \in stored /\ ~ Live(m)
  BY DEF CleanupItems, StoreInvariant, IdentityAudit, RowAudit
<1>5. UNCHANGED <<stored, indexing, deletedAt, mapping, cleanup, cleanupId, durable, loaded, working>>
  BY <1>1 DEF storeVars, indexVars
<1>6. WorkTypes'
  BY <1>1, <1>3, <1>5 DEF WorkInvariant, WorkTypes, Index!IndexTypeOK
<1>7. JobInvariant' /\ PublishedInvariant'
  BY <1>1, <1>2, <1>3, <1>4, <1>5 DEF WorkInvariant, JobInvariant, PublishedInvariant, Live
<1>8. Serves(durable, NeededIds', GoneIds')
  <2>1. Needed' = Needed
    BY <1>1, <1>3, <1>5 DEF Needed, Live, At
  <2>2. NeededIds' = NeededIds
    BY <1>5, <2>1 DEF NeededIds
  <2>3. \A m \in Gone' : ClaimedIds(m) \cap Rebuild = {}
    <3>1. \A m \in Gone' : m \in stored /\ ~ Live(m)
      BY <1>3, <1>4, <1>5 DEF Gone, At, StoreInvariant, IdentityAudit, RowAudit
    <3> QED
      BY <3>1, RebuildServes
  <2>4. GoneIds' \cap Rebuild = {}
    BY <1>5, <2>3 DEF GoneIds, ClaimedIds
  <2> QED
    BY <1>1, <2>2, <2>4, RebuildServes DEF Serves
<1>9. IndexInvariant'
  <2>1. Sole => \A t \in Services : loaded[t] = Closed
    BY <1>1 DEF Sole, WorkInvariant, WorkTypes
  <2>2. ~ Sole /\ durable = Absent => \A t \in Services : loaded[t] = Closed
    BY DEF WorkInvariant, IndexInvariant
  <2> QED
    BY <1>2, <1>5, <1>8, <2>1, <2>2 DEF IndexInvariant, Sole
<1> QED
  BY <1>6, <1>7, <1>9 DEF WorkInvariant
-----------------------------------------------------------------------------
(* A publication begins.                                                   *)

\* A workflow that publishes has established nothing yet.
LEMMA IdsOfPublishing ==
    ASSUME UNCHANGED <<storeVars, published>>, job'.step \in {"adding", "removing", "reconciling", "verifying"}
    PROVE  NeededIds' \subseteq NeededIds /\ GoneIds' \subseteq GoneIds
<1>1. UNCHANGED <<stored, indexing, deletedAt, mapping, cleanup, cleanupId>>
  BY DEF storeVars
<1>2. \A n \in Needed' : n \in Needed /\ mapping'[n] = mapping[n]
  BY <1>1 DEF Needed, Live, At
<1>3. \A n \in Gone' : n \in Gone /\ mapping'[n] = mapping[n] /\ cleanupId'[n] = cleanupId[n]
  BY <1>1 DEF Gone, At
<1> QED
  BY <1>2, <1>3, IdsStay

LEMMA Begun ==
    ASSUME WorkInvariant, working = Idle, NEW G \in SUBSET VectorIds,
           UNCHANGED <<storeVars, durable, loaded, startup, published, faults>>,
           job' \in Workflows \cup Recoveries,
           job'.step \in {"adding", "removing", "reconciling", "verifying"},
           working' = Index!Publication(IF job'.kind = "recover" THEN Recovery ELSE job'.by, G),
           Serves(G, NeededIds \cup Brought', GoneIds \cup Taken'),
           JobInvariant'
    PROVE  WorkInvariant'
<1> DEFINE who == IF job'.kind = "recover" THEN Recovery ELSE job'.by
<1>1. UNCHANGED <<stored, deletedAt>>
  BY DEF storeVars
<1>2. who \in Services \cup {Recovery}
  BY DEF Workflows, Recoveries
<1>3. /\ working' \in Index!Publications /\ working' # Idle
      /\ working'.goal = G /\ working'.by = who /\ working'.replaced = 0
  <2>1. Index!Publication(who, G) \in Index!Publications
    BY <1>2 DEF Index!Publication, Index!Publications, Index!Generations
  <2> QED
    BY <2>1, MarksAssumption DEF Index!Publication
<1>4. WorkTypes'
  BY <1>3 DEF WorkInvariant, WorkTypes, Index!IndexTypeOK
<1>5. NeededIds' \subseteq NeededIds /\ GoneIds' \subseteq GoneIds
  BY IdsOfPublishing
<1>6. PublishedInvariant'
  BY DEF WorkInvariant, PublishedInvariant, Live, storeVars
<1>7. IndexInvariant'
  BY <1>3, <1>5 DEF WorkInvariant, IndexInvariant, Serves, Sole
<1> QED
  BY <1>4, <1>6, <1>7 DEF WorkInvariant

\* What add publishes: the generation it read, or its memory when there is
\* none, which only happens to the single service of a process.
LEMMA AddBegins ==
    ASSUME StoreInvariant, WorkInvariant, Marks, AddVector
    PROVE  WorkInvariant'
<1> USE NullAssumption
<1> DEFINE m == job.memory
           v == mapping[m]
<1>1. /\ job # Idle /\ job.kind = "admit" /\ job.step = "add" /\ Goto("adding")
      /\ UNCHANGED <<storeVars, durable, loaded, startup, published, faults>>
      /\ working = Idle /\ loaded[job.by] # Closed
  BY DEF AddVector, At, Index!BeginAdd, Index!Begin, IndexStep, NoFault
<1>2. /\ job' \in Workflows /\ job' # Idle /\ job'.kind = "admit" /\ job'.by = job.by
      /\ job'.memory = m /\ job'.step = "adding" /\ job.by \in Services /\ m \in MemoryIds
  BY <1>1, WorkflowGoes DEF AdmitSteps, WorkInvariant
<1>3. m \in stored /\ v # Null /\ v \in VectorIds
  BY <1>1, <1>2 DEF WorkInvariant, JobInvariant, HasIndexingWork, StoreInvariant, TypeOK
<1>4. PICK G \in SUBSET VectorIds :
        /\ working' = Index!Publication(job.by, G \cup {v})
        /\ Serves(G, NeededIds, GoneIds)
  <2>1. CASE durable \notin {Absent, Torn} /\ working' = Index!Publication(job.by, durable \cup {v})
    <3>1. durable \in SUBSET VectorIds
      BY <2>1 DEF WorkInvariant, WorkTypes, Index!IndexTypeOK, Index!Generations
    <3> QED
      BY <2>1, <3>1 DEF WorkInvariant, IndexInvariant
  <2>2. CASE durable = Absent /\ working' = Index!Publication(job.by, loaded[job.by] \cup {v})
    <3>1. Sole
      BY <1>1, <1>2, <2>2 DEF WorkInvariant, IndexInvariant
    <3>2. loaded[job.by] \in SUBSET VectorIds
      BY <1>1, <1>2 DEF WorkInvariant, WorkTypes, Index!IndexTypeOK, Index!Generations
    <3> QED
      BY <1>1, <1>2, <2>2, <3>1, <3>2 DEF WorkInvariant, IndexInvariant
  <2> QED
    BY <2>1, <2>2 DEF AddVector, Index!BeginAdd, Index!Begin, Index!HasGeneration
<1>5. Brought' = {v} /\ Taken' = {}
  BY <1>1, <1>2 DEF Brought, Taken, At, storeVars
<1>6. v \notin GoneIds
  <2> SUFFICES ASSUME NEW n \in Gone, v \in ClaimedIds(n) PROVE FALSE
    BY DEF GoneIds
  <2>1. n \in stored /\ cleanup[n] = "complete"
    BY <1>1 DEF Gone, At
  <2>2. n # m
    BY <1>3, <2>1 DEF StoreInvariant, IdentityAudit, RowAudit
  <2>3. v \in ClaimedIds(m)
    BY <1>3 DEF ClaimedIds
  <2> QED
    BY <1>3, <2>1, <2>2, <2>3 DEF StoreInvariant, IdentityAudit, DistinctVectorOwners
<1>7. Serves(G \cup {v}, NeededIds \cup Brought', GoneIds \cup Taken')
  BY <1>4, <1>5, <1>6 DEF Serves
<1>8. JobInvariant'
  <2>1. Publishing'
    BY <1>2 DEF Publishing, At
  <2>2. HasIndexingWork(m)' /\ startup'[job.by] = "up"
    BY <1>1, <1>2, <1>3 DEF HasIndexingWork, storeVars, WorkInvariant, JobInvariant
  <2> QED
    BY <1>2, <2>1, <2>2 DEF JobInvariant
<1>9. G \cup {v} \in SUBSET VectorIds
  BY <1>3, <1>4
<1> HIDE DEF v, m
<1> QED
  BY <1>1, <1>2, <1>4, <1>7, <1>8, <1>9, Begun

-----------------------------------------------------------------------------
(* A publication is acknowledged, fails, or replaces a file.               *)

\* A call returns, and its service takes the durable generation into memory.
LEMMA ServiceLoads ==
    ASSUME WorkInvariant, Marks, UNCHANGED <<storeVars, durable, startup, faults>>,
           durable \notin {Absent, Torn}, working' = Idle,
           NEW i \in Services, startup[i] = "up",
           loaded' = [k \in Services |-> IF k = i THEN durable ELSE loaded[k]],
           job' \in Workflows \cup Recoveries \cup {Idle},
           published' \in [Services -> SUBSET MemoryIds],
           Serves(durable, NeededIds', GoneIds'), JobInvariant', PublishedInvariant'
    PROVE  WorkInvariant'
<1>1. durable \in Index!Generations /\ durable # Closed
  BY DEF WorkInvariant, WorkTypes, Index!IndexTypeOK, Index!Generations, Marks
<1>2. Index!IndexTypeOK'
  BY <1>1 DEF WorkInvariant, WorkTypes, Index!IndexTypeOK
<1>3. WorkTypes'
  BY <1>1, <1>2 DEF WorkInvariant, WorkTypes, Index!IndexTypeOK
<1>4. Sole => \A k \in Services : loaded'[k] = durable
  BY DEF Sole
<1>5. IndexInvariant'
  BY <1>4 DEF IndexInvariant, Sole
<1> QED
  BY <1>3, <1>5 DEF WorkInvariant

\* A repair returns: it loads nothing, and its service is not open yet.
LEMMA RecoveryRepairs ==
    ASSUME WorkInvariant, UNCHANGED <<storeVars, durable, loaded, faults>>,
           durable \notin {Absent, Torn}, working' = Idle,
           NEW i \in Services, startup[i] = "down",
           startup' \in [Services -> {"down", "recovered", "up"}],
           \A s \in Services : startup'[s] = "up" <=> startup[s] = "up",
           job' \in Workflows \cup Recoveries \cup {Idle}, UNCHANGED published,
           Serves(durable, NeededIds', GoneIds'), JobInvariant', PublishedInvariant'
    PROVE  WorkInvariant'
<1>1. WorkTypes'
  BY DEF WorkInvariant, WorkTypes, Index!IndexTypeOK
<1>2. Sole => \A k \in Services : loaded[k] = Closed
  BY DEF Sole, WorkInvariant, WorkTypes
<1>3. IndexInvariant'
  BY <1>2 DEF IndexInvariant, Sole
<1> QED
  BY <1>1, <1>3 DEF WorkInvariant

\* What an acknowledged call has made durable.
LEMMA GoalReached ==
    ASSUME WorkInvariant, Marks, Index!Acknowledge
    PROVE  /\ durable \notin {Absent, Torn} /\ working # Idle
           /\ Serves(durable, NeededIds \cup Brought, GoneIds \cup Taken)
           /\ loaded' = [k \in Services |->
                           IF k = (IF job.kind = "recover" THEN Recovery ELSE job.by)
                           THEN durable ELSE loaded[k]]
<1>1. working \in Index!Publications /\ working # Idle /\ working.replaced = 2
  BY DEF Index!Acknowledge, WorkInvariant, WorkTypes, Index!IndexTypeOK
<1>2. working.goal \in SUBSET VectorIds
  BY <1>1 DEF Index!Publications, Index!Generations
<1>3. durable = working.goal
  BY <1>1 DEF WorkInvariant, IndexInvariant
<1> QED
  BY <1>1, <1>2, <1>3 DEF WorkInvariant, IndexInvariant, Marks, Index!Acknowledge

\* What remove publishes: the generation it read, without the vector.
LEMMA RemoveBegins ==
    ASSUME StoreInvariant, WorkInvariant, Marks, RemoveVector
    PROVE  WorkInvariant'
<1> USE NullAssumption
<1> DEFINE m == job.memory
           v == cleanupId[m]
<1>1. /\ job # Idle /\ job.kind = "forget" /\ job.step = "remove"
      /\ UNCHANGED <<storeVars, durable, startup, published, faults>>
      /\ working = Idle /\ durable \notin {Absent, Torn}
  BY DEF RemoveVector, At, Index!BeginRemove, Index!RemoveAbsent, Index!Begin, Index!HasGeneration,
     IndexStep, NoFault
<1>2. job.by \in Services /\ m \in MemoryIds
  BY <1>1 DEF WorkInvariant, WorkTypes, Workflows, Recoveries
<1>3. /\ m \in stored /\ v # Null /\ v \in VectorIds /\ mapping[m] = v /\ ~ Live(m)
      /\ cleanup[m] = "cleanup_pending" /\ startup[job.by] = "up"
  BY <1>1, <1>2 DEF WorkInvariant, JobInvariant, StoreInvariant, TypeOK, IdentityAudit, RowAudit
<1>4. ClaimedIds(m) = {v}
  BY <1>3 DEF ClaimedIds
<1>5. v \notin NeededIds
  <2> SUFFICES ASSUME NEW n \in Needed, v = mapping[n] PROVE FALSE
    BY DEF NeededIds
  <2>1. n \in stored /\ n # m
    BY <1>3 DEF Needed
  <2>2. v \in ClaimedIds(n)
    BY <1>3 DEF ClaimedIds
  <2> QED
    BY <1>3, <1>4, <2>1, <2>2 DEF StoreInvariant, IdentityAudit, DistinctVectorOwners
<1>6. durable \in SUBSET VectorIds /\ Serves(durable, NeededIds, GoneIds)
  BY <1>1 DEF WorkInvariant, WorkTypes, Index!IndexTypeOK, Index!Generations, IndexInvariant
<1>7. CASE Index!BeginRemove(job.by, v) /\ Goto("removing")
  <2>1. UNCHANGED loaded /\ working' = Index!Publication(job.by, durable \ {v})
    BY <1>7 DEF Index!BeginRemove, Index!Begin
  <2>2. /\ job' \in Workflows /\ job' # Idle /\ job'.kind = "forget" /\ job'.by = job.by
        /\ job'.memory = m /\ job'.step = "removing"
    BY <1>1, <1>7, WorkflowGoes DEF ForgetSteps, WorkInvariant
  <2>3. Brought' = {} /\ Taken' = {v}
    BY <1>1, <1>4, <2>2 DEF Brought, Taken, At, storeVars, ClaimedIds
  <2>4. Serves(durable \ {v}, NeededIds \cup Brought', GoneIds \cup Taken')
    BY <1>5, <1>6, <2>3 DEF Serves
  <2>5. JobInvariant'
    BY <1>1, <1>3, <2>2 DEF JobInvariant, Publishing, At, storeVars
  <2>6. durable \ {v} \in SUBSET VectorIds
    BY <1>6
  <2> HIDE DEF v, m
  <2> QED
    BY <1>1, <2>1, <2>2, <2>4, <2>5, <2>6, Begun
<1>8. CASE Index!RemoveAbsent(job.by, v) /\ Goto("complete")
  <2>1. /\ UNCHANGED working /\ v \notin durable /\ loaded[job.by] # Closed
        /\ loaded' = [loaded EXCEPT ![job.by] = durable]
    BY <1>8 DEF Index!RemoveAbsent
  <2>2. /\ job' \in Workflows /\ job' # Idle /\ job'.kind = "forget" /\ job'.by = job.by
        /\ job'.memory = m /\ job'.step = "complete"
    BY <1>1, <1>8, WorkflowGoes DEF ForgetSteps, WorkInvariant
  <2>3. loaded' = [k \in Services |-> IF k = job.by THEN durable ELSE loaded[k]]
    BY <1>2, <2>1 DEF WorkInvariant, WorkTypes, Index!IndexTypeOK
  <2>4. JobInvariant' /\ PublishedInvariant'
    BY <1>1, <1>3, <2>1, <2>2 DEF WorkInvariant, JobInvariant, PublishedInvariant, storeVars, Live
  <2>5. UNCHANGED <<stored, indexing, deletedAt, mapping, cleanup, cleanupId>>
    BY <1>1 DEF storeVars
  <2>6. NeededIds' \subseteq NeededIds
    <3>1. Needed' \subseteq Needed
      BY <1>1, <2>2, <2>5 DEF Needed, Live, At
    <3> QED
      BY <2>5, <3>1 DEF NeededIds
  <2>7. GoneIds' \subseteq GoneIds \cup {v}
    <3>1. Gone' \subseteq Gone \cup {m}
      BY <1>1, <2>2, <2>5 DEF Gone, At
    <3>2. \A n : ClaimedIds(n)' = ClaimedIds(n)
      BY <2>5 DEF ClaimedIds
    <3> QED
      BY <1>4, <3>1, <3>2 DEF GoneIds
  <2>8. Serves(durable, NeededIds', GoneIds')
    BY <1>6, <2>1, <2>6, <2>7 DEF Serves
  <2>9. published' \in [Services -> SUBSET MemoryIds]
    BY <1>1 DEF WorkInvariant, WorkTypes
  <2> HIDE DEF v, m
  <2> QED
    BY <1>1, <1>2, <1>3, <2>1, <2>2, <2>3, <2>4, <2>8, <2>9, ServiceLoads
<1> QED
  BY <1>7, <1>8 DEF RemoveVector

\* A repair begins: what it publishes is what the rows it read ask for.
LEMMA RepairBegins ==
    ASSUME StoreInvariant, WorkInvariant,
           VerifyRebuild \/ \E s \in Services : RecoverRebuild(s)
    PROVE  WorkInvariant'
<1> USE NullAssumption
<1>1. /\ UNCHANGED <<storeVars, durable, loaded, startup, published, faults>>
      /\ working = Idle /\ working' = Index!Publication(Recovery, Rebuild)
  BY DEF VerifyRebuild, RecoverRebuild, Index!BeginReconcile, Index!Begin, IndexStep, NoFault
<1>2. UNCHANGED <<stored, deletedAt, mapping, cleanup, cleanupId>>
  BY <1>1 DEF storeVars
<1>3. Serves(Rebuild, NeededIds, GoneIds) /\ Rebuild \in SUBSET VectorIds
  BY RebuildServes
<1>4. \A m \in CleanupItems : m \in stored /\ ~ Live(m)
  BY DEF CleanupItems, StoreInvariant, IdentityAudit, RowAudit
<1>5. /\ job' \in Recoveries /\ job' # Idle /\ job'.kind = "recover"
      /\ job'.step \in {"reconciling", "verifying"} /\ startup[job'.by] = "down"
      /\ \A m \in job'.items : m \in stored /\ ~ Live(m)
  <2>1. CASE VerifyRebuild
    <3>1. job # Idle /\ job.kind = "recover" /\ Goto("verifying")
      BY <2>1 DEF VerifyRebuild, At
    <3> QED
      BY <3>1, RecoveryGoes DEF RecoverSteps, WorkInvariant, JobInvariant
  <2>2. ASSUME NEW s \in Services, RecoverRebuild(s)
        PROVE  job' = Recover(s, "reconciling") /\ startup[s] = "down"
    BY <2>2 DEF RecoverRebuild, StartUp
  <2>3. ASSUME NEW s \in Services
        PROVE  LET j == Recover(s, "reconciling")
               IN  /\ j \in Recoveries /\ j.kind = "recover" /\ j.step = "reconciling" /\ j.by = s
                   /\ j.items = CleanupItems
    <3>1. CleanupItems \subseteq MemoryIds
      BY DEF CleanupItems, StoreInvariant, TypeOK
    <3> QED
      BY <3>1 DEF Recover, Recoveries
  <2> QED
    BY <1>4, <2>1, <2>2, <2>3, MarksAssumption
<1>6. Brought' = {} /\ Taken' \cap Rebuild = {}
  <2>1. \A m \in job'.items : ClaimedIds(m)' = ClaimedIds(m) /\ ClaimedIds(m) \cap Rebuild = {}
    BY <1>2, <1>5, RebuildServes DEF ClaimedIds
  <2> QED
    BY <1>5, <2>1 DEF Brought, Taken, At
<1>7. Serves(Rebuild, NeededIds \cup Brought', GoneIds \cup Taken')
  BY <1>3, <1>6 DEF Serves
<1>8. JobInvariant'
  BY <1>1, <1>2, <1>5 DEF JobInvariant, Publishing, At, Live
<1> QED
  BY <1>1, <1>3, <1>5, <1>7, <1>8, Begun

\* A file is replaced: the pair is torn, or is the generation being published.
LEMMA FileReplaced ==
    ASSUME WorkInvariant, Marks, ReplaceFile
    PROVE  WorkInvariant'
<1>1. /\ UNCHANGED <<storeVars, loaded, job, startup, published, faults>>
      /\ working \in Index!Publications /\ working # Idle /\ working.replaced < 2
      /\ working' = [working EXCEPT !.replaced = @ + 1]
      /\ durable' \in {Torn, working.goal}
      /\ working.replaced = 1 => durable' = working.goal
  BY DEF ReplaceFile, Index!ReplaceFile, IndexStep, NoFault, WorkInvariant, WorkTypes,
     Index!IndexTypeOK, Index!Publications
<1>2. /\ working' \in Index!Publications /\ working'.goal = working.goal
      /\ working'.by = working.by /\ working'.replaced = working.replaced + 1
  BY <1>1 DEF Index!Publications
<1>3. working' # Idle
  BY <1>2, MarksAssumption
<1>4. working.goal \in Index!Generations
  BY <1>1 DEF Index!Publications
<1>5. WorkTypes'
  BY <1>1, <1>2, <1>4 DEF WorkInvariant, WorkTypes, Index!IndexTypeOK
<1>6. UNCHANGED <<stored, deletedAt, mapping, cleanup, cleanupId>>
  BY <1>1 DEF storeVars
<1>7. JobInvariant' /\ PublishedInvariant'
  BY <1>1, <1>6 DEF WorkInvariant, JobInvariant, PublishedInvariant, Publishing, At, HasIndexingWork, Live
<1>8. NeededIds' \subseteq NeededIds /\ GoneIds' \subseteq GoneIds
  BY <1>1, IdsOfIdle
<1>9. Brought' = Brought /\ Taken' = Taken
  BY <1>1, <1>6 DEF Brought, Taken, At, ClaimedIds
<1>10. durable' # Absent
  BY <1>1, <1>4, MarksAssumption DEF Index!Generations, Marks
<1>11. working.replaced \in 0..2
  BY <1>1 DEF Index!Publications
<1>12. working'.replaced = 2 => durable' = working'.goal
  BY <1>1, <1>2, <1>11
<1>13. Serves(working.goal, NeededIds' \cup Brought', GoneIds' \cup Taken')
  BY <1>1, <1>8, <1>9 DEF WorkInvariant, IndexInvariant, Serves
<1>14. IndexInvariant'
  <2>1. durable' \notin {Absent, Torn} => Serves(durable', NeededIds', GoneIds')
    BY <1>1, <1>13 DEF Serves
  <2>2. working'.by = IF job'.kind = "recover" THEN Recovery ELSE job'.by
    BY <1>1, <1>2 DEF WorkInvariant, IndexInvariant
  <2>3. Sole => \A s \in Services : loaded'[s] # Closed => Serves(loaded'[s], NeededIds', GoneIds')
    BY <1>1, <1>8 DEF WorkInvariant, IndexInvariant, Serves
  <2> QED
    BY <1>2, <1>10, <1>12, <1>13, <2>1, <2>2, <2>3 DEF IndexInvariant, Sole
<1> QED
  BY <1>5, <1>7, <1>14 DEF WorkInvariant

\* add returns: its vector is durable, and served by the service that added it.
LEMMA AddReturns ==
    ASSUME StoreInvariant, WorkInvariant, Marks, AddDone
    PROVE  WorkInvariant'
<1> USE NullAssumption
<1>1. /\ job # Idle /\ job.kind = "admit" /\ job.step = "adding" /\ Goto("acknowledge")
      /\ UNCHANGED <<storeVars, durable, startup, faults>>
      /\ Index!Acknowledge /\ working' = Idle
      /\ published' = IF Target[job.memory] = Null THEN published
                      ELSE [published EXCEPT ![job.by] = @ \cup {job.memory}]
  BY DEF AddDone, At, Index!Acknowledge, IndexStep, NoFault
<1>2. /\ job' \in Workflows /\ job' # Idle /\ job'.kind = "admit" /\ job'.by = job.by
      /\ job'.memory = job.memory /\ job'.step = "acknowledge"
      /\ job.by \in Services /\ job.memory \in MemoryIds
  BY <1>1, WorkflowGoes DEF AdmitSteps, WorkInvariant
<1>3. job.memory \in stored /\ mapping[job.memory] # Null /\ startup[job.by] = "up"
  BY <1>1 DEF WorkInvariant, JobInvariant, HasIndexingWork
<1>4. /\ durable \notin {Absent, Torn}
      /\ Serves(durable, NeededIds \cup {mapping[job.memory]}, GoneIds)
      /\ loaded' = [k \in Services |-> IF k = job.by THEN durable ELSE loaded[k]]
  BY <1>1, GoalReached DEF Brought, At, Serves
<1>5. UNCHANGED <<stored, indexing, deletedAt, mapping, cleanup, cleanupId>>
  BY <1>1 DEF storeVars
<1>6. /\ published' \in [Services -> SUBSET MemoryIds]
      /\ \A s \in Services : published'[s] \subseteq published[s] \cup {job.memory}
  BY <1>1, <1>2 DEF WorkInvariant, WorkTypes
<1>7. JobInvariant'
  BY <1>1, <1>2, <1>3, <1>5 DEF JobInvariant, HasIndexingWork
<1>8. PublishedInvariant'
  BY <1>3, <1>5, <1>6 DEF WorkInvariant, PublishedInvariant, Live
<1>9. Serves(durable, NeededIds', GoneIds')
  <2>1. Needed' \subseteq Needed \cup {job.memory}
    BY <1>2, <1>5, <1>6 DEF Needed, Live, At
  <2>2. NeededIds' \subseteq NeededIds \cup {mapping[job.memory]}
    BY <1>5, <2>1 DEF NeededIds
  <2>3. Gone' \subseteq Gone
    BY <1>2, <1>5 DEF Gone, At
  <2>4. GoneIds' \subseteq GoneIds
    BY <1>5, <2>3 DEF GoneIds, ClaimedIds
  <2> QED
    BY <1>4, <2>2, <2>4 DEF Serves
<1> QED
  BY <1>1, <1>2, <1>3, <1>4, <1>6, <1>7, <1>8, <1>9, ServiceLoads

\* remove returns: its vector is in no generation any more.
LEMMA RemoveReturns ==
    ASSUME StoreInvariant, WorkInvariant, Marks, RemoveDone
    PROVE  WorkInvariant'
<1> USE NullAssumption
<1>1. /\ job # Idle /\ job.kind = "forget" /\ job.step = "removing" /\ Goto("complete")
      /\ UNCHANGED <<storeVars, durable, startup, published, faults>>
      /\ Index!Acknowledge /\ working' = Idle
  BY DEF RemoveDone, At, Index!Acknowledge, IndexStep, NoFault
<1>2. /\ job' \in Workflows /\ job' # Idle /\ job'.kind = "forget" /\ job'.by = job.by
      /\ job'.memory = job.memory /\ job'.step = "complete"
      /\ job.by \in Services /\ job.memory \in MemoryIds
  BY <1>1, WorkflowGoes DEF ForgetSteps, WorkInvariant
<1>3. /\ job.memory \in stored /\ cleanup[job.memory] = "cleanup_pending"
      /\ cleanupId[job.memory] # Null /\ startup[job.by] = "up"
  BY <1>1 DEF WorkInvariant, JobInvariant
<1>4. /\ durable \notin {Absent, Torn}
      /\ Serves(durable, NeededIds, GoneIds \cup ClaimedIds(job.memory))
      /\ loaded' = [k \in Services |-> IF k = job.by THEN durable ELSE loaded[k]]
  BY <1>1, GoalReached DEF Taken, At, Serves
<1>5. UNCHANGED <<stored, indexing, deletedAt, mapping, cleanup, cleanupId>>
  BY <1>1 DEF storeVars
<1>6. published' \in [Services -> SUBSET MemoryIds]
  BY <1>1 DEF WorkInvariant, WorkTypes
<1>7. JobInvariant' /\ PublishedInvariant'
  BY <1>1, <1>2, <1>3, <1>5 DEF WorkInvariant, JobInvariant, PublishedInvariant, Live
<1>8. Serves(durable, NeededIds', GoneIds')
  <2>1. Needed' \subseteq Needed
    BY <1>1, <1>2, <1>5 DEF Needed, Live, At
  <2>2. NeededIds' \subseteq NeededIds
    BY <1>5, <2>1 DEF NeededIds
  <2>3. Gone' \subseteq Gone \cup {job.memory}
    BY <1>2, <1>5 DEF Gone, At
  <2>4. GoneIds' \subseteq GoneIds \cup ClaimedIds(job.memory)
    BY <1>5, <2>3 DEF GoneIds, ClaimedIds
  <2> QED
    BY <1>4, <2>2, <2>4 DEF Serves
<1> QED
  BY <1>1, <1>2, <1>3, <1>4, <1>6, <1>7, <1>8, ServiceLoads

\* A repair returns, the first of a recovery or the one after its clean-up.
LEMMA RepairReturns ==
    ASSUME StoreInvariant, WorkInvariant, Marks, ReconcileDone \/ VerifyDone
    PROVE  WorkInvariant'
<1> USE NullAssumption
<1>1. /\ job # Idle /\ job.kind = "recover"
      /\ UNCHANGED <<storeVars, durable, published, faults>>
      /\ Index!Acknowledge /\ working' = Idle
      /\ \/ job.step = "reconciling" /\ Goto("cleanup") /\ UNCHANGED startup
         \/ job.step = "verifying" /\ job' = Idle
            /\ startup' = [startup EXCEPT ![job.by] = "recovered"]
  BY DEF ReconcileDone, VerifyDone, At, Index!Acknowledge, IndexStep, NoFault, Recovered, Return
<1>2. job \in Recoveries /\ job.by \in Services
  BY <1>1 DEF WorkInvariant, WorkTypes, Workflows, Recoveries
<1>3. startup[job.by] = "down" /\ \A m \in job.items : m \in stored /\ ~ Live(m)
  BY <1>1 DEF WorkInvariant, JobInvariant
<1>4. durable \notin {Absent, Torn} /\ Serves(durable, NeededIds, GoneIds \cup Taken)
  BY <1>1, GoalReached DEF Serves
<1>5. UNCHANGED loaded
  <2>1. loaded' = [k \in Services |-> IF k = Recovery THEN durable ELSE loaded[k]]
    BY <1>1, GoalReached
  <2>2. DOMAIN loaded = Services /\ loaded = [k \in Services |-> loaded[k]]
    BY DEF WorkInvariant, WorkTypes, Index!IndexTypeOK
  <2> QED
    BY <2>1, <2>2, MarksAssumption
<1>6. UNCHANGED <<stored, indexing, deletedAt, mapping, cleanup, cleanupId>>
  BY <1>1 DEF storeVars
<1>7. \/ /\ job.step = "reconciling" /\ job' \in Recoveries /\ job' # Idle /\ job'.kind = "recover"
         /\ job'.by = job.by /\ job'.items = job.items /\ job'.step = "cleanup"
         /\ UNCHANGED startup
      \/ job.step = "verifying" /\ job' = Idle
  BY <1>1, RecoveryGoes DEF RecoverSteps, WorkInvariant
<1>8. /\ startup' \in [Services -> {"down", "recovered", "up"}]
      /\ \A s \in Services : startup'[s] = "up" <=> startup[s] = "up"
  BY <1>1, <1>3 DEF WorkInvariant, WorkTypes
<1>9. JobInvariant' /\ PublishedInvariant'
  BY <1>1, <1>3, <1>6, <1>7 DEF WorkInvariant, JobInvariant, PublishedInvariant, Live
<1>10. Serves(durable, NeededIds', GoneIds')
  <2>1. Needed' \subseteq Needed
    BY <1>1, <1>6, <1>7 DEF Needed, Live, At
  <2>2. NeededIds' \subseteq NeededIds
    BY <1>6, <2>1 DEF NeededIds
  <2>3. GoneIds' \subseteq GoneIds \cup Taken
    <3>1. CASE job' = Idle
      <4>1. Gone' \subseteq Gone
        BY <1>6, <3>1 DEF Gone, At
      <4> QED
        BY <1>6, <4>1 DEF GoneIds, ClaimedIds
    <3>2. CASE job' # Idle
      <4>1. Gone' \subseteq Gone \cup job.items
        BY <1>6, <1>7, <3>2 DEF Gone, At
      <4>2. Taken = UNION {ClaimedIds(m) : m \in job.items}
        BY <1>1, <1>7, <3>2 DEF Taken, At
      <4> QED
        BY <1>6, <4>1, <4>2 DEF GoneIds, ClaimedIds
    <3> QED
      BY <3>1, <3>2
  <2> QED
    BY <1>4, <2>2, <2>3 DEF Serves
<1> QED
  BY <1>1, <1>2, <1>3, <1>4, <1>5, <1>7, <1>8, <1>9, <1>10, RecoveryRepairs

\* A call fails: the directory stays as far as it got, and memory untouched.
LEMMA PublicationsFail ==
    ASSUME StoreInvariant, WorkInvariant, AddFails \/ RemoveFails \/ ReconcileFails
    PROVE  WorkInvariant'
<1> USE NullAssumption
<1>1. /\ UNCHANGED <<storeVars, durable, loaded, startup, published>>
      /\ working' = Idle /\ Fault /\ job # Idle
      /\ \/ job.kind = "admit" /\ Goto("failed")
         \/ job' = Idle
  BY DEF AddFails, RemoveFails, ReconcileFails, At, Index!Abandon, Return
<1>2. UNCHANGED <<stored, indexing, deletedAt, mapping, cleanup, cleanupId>>
  BY <1>1 DEF storeVars
<1>3. faults' \in 0..MaxFaults
  BY <1>1, MarksAssumption DEF Fault, WorkInvariant, WorkTypes
<1>4. \/ /\ job.kind = "admit" /\ job' \in Workflows /\ job' # Idle /\ job'.kind = "admit"
         /\ job'.by = job.by /\ job'.memory = job.memory /\ job'.step = "failed"
      \/ job' = Idle
  BY <1>1, WorkflowGoes DEF AdmitSteps, WorkInvariant
<1>5. WorkTypes'
  BY <1>1, <1>3, <1>4 DEF WorkInvariant, WorkTypes, Index!IndexTypeOK
<1>6. JobInvariant' /\ PublishedInvariant'
  BY <1>1, <1>2, <1>4 DEF WorkInvariant, JobInvariant, PublishedInvariant, Live, HasIndexingWork
<1>7. NeededIds' \subseteq NeededIds /\ GoneIds' \subseteq GoneIds
  <2>1. \A n \in Needed' : n \in Needed /\ mapping'[n] = mapping[n]
    BY <1>2, <1>1, <1>4 DEF Needed, Live, At
  <2>2. \A n \in Gone' : n \in Gone /\ mapping'[n] = mapping[n] /\ cleanupId'[n] = cleanupId[n]
    BY <1>2, <1>4 DEF Gone, At
  <2> QED
    BY <2>1, <2>2, IdsStay
<1>8. IndexInvariant'
  BY <1>1, <1>7 DEF WorkInvariant, IndexInvariant, Serves, Sole
<1> QED
  BY <1>5, <1>6, <1>8 DEF WorkInvariant

-----------------------------------------------------------------------------
(* Every step.                                                             *)

LEMMA WorkStarts ==
    ASSUME ServiceInit PROVE WorkInvariant
<1>1. /\ durable = Absent /\ loaded = [i \in Services |-> Closed] /\ working = Idle
      /\ job = Idle /\ startup = [s \in Services |-> "down"]
      /\ published = [s \in Services |-> {}] /\ faults = 0
  BY DEF ServiceInit, Init, Index!Init
<1>2. WorkTypes
  BY <1>1, MarksAssumption DEF WorkTypes, Index!IndexTypeOK
<1>3. JobInvariant /\ PublishedInvariant /\ IndexInvariant
  BY <1>1 DEF JobInvariant, PublishedInvariant, IndexInvariant
<1> QED
  BY <1>2, <1>3 DEF WorkInvariant

LEMMA WorkStutters ==
    ASSUME WorkInvariant, UNCHANGED serviceVars PROVE WorkInvariant'
<1>1. UNCHANGED <<indexVars, durable, loaded, working, job, startup, published, faults,
                  stored, indexing, deletedAt, mapping, cleanup, cleanupId>>
  BY DEF serviceVars, indexVars, storeVars
<1>2. WorkTypes' /\ JobInvariant' /\ PublishedInvariant'
  BY <1>1 DEF WorkInvariant, WorkTypes, JobInvariant, PublishedInvariant, Index!IndexTypeOK,
     Publishing, At, HasIndexingWork, Live
<1>3. NeededIds' \subseteq NeededIds /\ GoneIds' \subseteq GoneIds
  BY IdsOfIdle DEF serviceVars
<1>4. IndexInvariant'
  BY <1>1, <1>3, IndexFrame DEF WorkInvariant
<1> QED
  BY <1>2, <1>4 DEF WorkInvariant

LEMMA WorkInvariantStep ==
    ASSUME Marks, DamageLimit, StoreInvariant, StoreInvariant', WorkInvariant,
           [ServiceNext]_serviceVars
    PROVE  WorkInvariant'
<1>1. CASE JobStep
  <2>1. CASE AddRefused \/ ReplacementRejected \/ RemoveRefused \/ CleanupDone
    BY <2>1, FailuresGoOn
  <2>2. CASE AddVector \/ RemoveVector
    BY <2>2, AddBegins, RemoveBegins
  <2>3. CASE VerifyRebuild
    BY <2>3, RepairBegins
  <2>4. CASE AddDone \/ RemoveDone
    BY <2>4, AddReturns, RemoveReturns
  <2>5. CASE ReconcileDone \/ VerifyDone
    BY <2>5, RepairReturns
  <2>6. CASE ReplaceFile
    BY <2>6, FileReplaced
  <2>7. CASE RecordFailure \/ AcknowledgeIndexed \/ AcknowledgeReplacement
    BY <2>7, AdmissionEnds
  <2>8. CASE ForgetDone \/ \E m \in MemoryIds : AdoptMapping(m) \/ CompleteForgetting(m)
    BY <2>8, ForgettingEnds
  <2>9. CASE VerifyReady
    BY <2>9, StartUpsBeside
  <2> QED
    BY <1>1, <2>1, <2>2, <2>3, <2>4, <2>5, <2>6, <2>7, <2>8, <2>9 DEF JobStep
<1>2. ASSUME NEW s \in Services, NEW m \in MemoryIds, AdmitNew(s, m)
      PROVE  WorkInvariant'
  BY <1>2, AdmissionStarts
<1>3. ASSUME NEW m \in MemoryIds, Retry(m)
      PROVE  WorkInvariant'
  BY <1>3, AdmissionResumes DEF Retry
<1>4. ASSUME NEW s \in Services, NEW u \in Users, NEW m \in MemoryIds,
             (\E now \in Instants : Forget(s, u, m, now)) \/ ForgetAgain(s, u, m)
      PROVE  WorkInvariant'
  BY <1>4, ForgettingStarts
<1>5. ASSUME NEW s \in Services, StartUpStep(s)
      PROVE  WorkInvariant'
  BY <1>5, StartUpsBeside, RecoveryReuses, RepairBegins, IndexOpened DEF StartUpStep
<1>6. CASE AddFails \/ RemoveFails \/ ReconcileFails
  BY <1>6, PublicationsFail
<1>7. CASE WorkflowFails
  BY <1>7, FailuresGoOn
<1>8. CASE ProcessCrash \/ Restart
  BY <1>8, ProcessEnds
<1>9. CASE IndexDamaged
  BY <1>9, FilesDamaged
<1>10. ASSUME NEW m \in MemoryIds, MappingRestored(m)
       PROVE  WorkInvariant'
  BY <1>10, MappingsRestored
<1>11. ASSUME NEW r \in Readers,
              \/ \E s \in Services, u \in Users :
                    \/ \E now \in Instants : RetrieveCurrent(r, s, u, now)
                    \/ RetrieveHistorical(r, s, u)
              \/ ListCurrent(r) \/ Search(r) \/ SearchRefused(r) \/ Deliver(r)
       PROVE  WorkInvariant'
  <2>1. /\ UNCHANGED <<indexVars, job, startup, published, faults>>
        /\ \/ UNCHANGED storeVars
           \/ \E u \in Users, now \in Instants : ExpireCurrentMemories(u, now)
    <3>1. ASSUME NEW s \in Services, NEW u \in Users, NEW now \in Instants,
                 RetrieveCurrent(r, s, u, now)
          PROVE  ExpireCurrentMemories(u, now) /\ UNCHANGED <<indexVars, job, startup, published, faults>>
      BY <3>1 DEF RetrieveCurrent, ReaderStep, NoFault
    <3>2. ASSUME NEW s \in Services, NEW u \in Users, RetrieveHistorical(r, s, u)
          PROVE  UNCHANGED <<storeVars, indexVars, job, startup, published, faults>>
      BY <3>2 DEF RetrieveHistorical, ReaderStep, NoFault
    <3>3. CASE ListCurrent(r) \/ Search(r) \/ SearchRefused(r) \/ Deliver(r)
      BY <3>3 DEF ListCurrent, Search, SearchRefused, Deliver, ReaderStep, NoFault
    <3> QED
      BY <1>11, <3>1, <3>2, <3>3
  <2> QED
    BY <2>1, RetrievalsBeside
<1>12. CASE UNCHANGED serviceVars
  BY <1>12, WorkStutters
<1> QED
  BY <1>1, <1>2, <1>3, <1>4, <1>5, <1>6, <1>7, <1>8, <1>9, <1>10, <1>11, <1>12 DEF ServiceNext

\* What the writers rely on holds whatever any of them does, fails or crashes.
THEOREM ServiceKeepsIndex ==
    ASSUME Marks, DamageLimit PROVE ServiceSpec => []WorkInvariant
<1>1. ServiceInit => WorkInvariant
  BY WorkStarts
<1>2. /\ StoreInvariant /\ StoreInvariant' /\ WorkInvariant /\ [ServiceNext]_serviceVars
      => WorkInvariant'
  BY WorkInvariantStep
<1> QED
  BY <1>1, <1>2, ServiceKeepsStoreInvariant, PTL DEF ServiceSpec

\* No failed publication, crash, recovery or race of services loses the vector
\* of a memory that was acknowledged as indexed.
THEOREM IndexedAreDurable ==
    ASSUME Marks, DamageLimit PROVE ServiceSpec => []IndexedStayDurable
<1>1. WorkInvariant => IndexedStayDurable
  BY DEF WorkInvariant, IndexInvariant, Serves, IndexedStayDurable, IdsOf, Retrievable, NeededIds, Needed
<1> QED
  BY <1>1, ServiceKeepsIndex, PTL

\* No retry, failure or recovery brings back the vector of a memory whose
\* forgetting was completed.
THEOREM ForgottenStayErased ==
    ASSUME Marks, DamageLimit PROVE ServiceSpec => []ForgottenAreErased
<1>1. StoreInvariant /\ WorkInvariant => ForgottenAreErased
  <2> SUFFICES ASSUME StoreInvariant, WorkInvariant, durable \notin {Absent, Torn},
                      NEW m \in stored, cleanup[m] = "complete"
               PROVE  cleanupId[m] \notin durable
    BY DEF ForgottenAreErased
  <2>1. cleanupId[m] \in ClaimedIds(m) /\ m \in Gone
    BY DEF StoreInvariant, IdentityAudit, RowAudit, ClaimedIds, Gone
  <2> QED
    BY <2>1 DEF WorkInvariant, IndexInvariant, Serves, GoneIds
<1> QED
  BY <1>1, ServiceKeepsIndex, ServiceKeepsStoreInvariant, PTL

\* The only service of a process serves from memory every acknowledged vector
\* and no erased one, at every moment it is up.
THEOREM ServedFollowsStore ==
    ASSUME Marks, DamageLimit, Sole PROVE ServiceSpec => []ServedIndexFollowsStore
<1>1. StoreInvariant /\ WorkInvariant => ServedIndexFollowsStore
  <2> SUFFICES ASSUME StoreInvariant, WorkInvariant, NEW s \in Services, startup[s] = "up"
               PROVE  /\ IdsOf(Retrievable) \subseteq loaded[s]
                      /\ \A m \in stored : cleanup[m] = "complete" => cleanupId[m] \notin loaded[s]
    BY DEF ServedIndexFollowsStore
  <2>1. Serves(loaded[s], NeededIds, GoneIds)
    BY DEF WorkInvariant, WorkTypes, IndexInvariant
  <2>2. IdsOf(Retrievable) \subseteq NeededIds
    BY DEF IdsOf, Retrievable, NeededIds, Needed
  <2>3. \A m \in stored : cleanup[m] = "complete" => m \in Gone /\ cleanupId[m] \in ClaimedIds(m)
    BY DEF StoreInvariant, IdentityAudit, RowAudit, ClaimedIds, Gone
  <2> QED
    BY <2>1, <2>2, <2>3 DEF Serves, GoneIds
<1> QED
  BY <1>1, ServiceKeepsIndex, ServiceKeepsStoreInvariant, PTL

-----------------------------------------------------------------------------
(* The retrievals.                                                         *)

\* The row of m has the vector id, or had it when its forgetting completed.
Claim(m, v) ==
    /\ m \in stored
    /\ v # Null
    /\ mapping[m] = v \/ (cleanup[m] = "complete" /\ cleanupId[m] = v)

\* The ids of a retrieval that is under way are those of authorised memories,
\* whatever happened to the memories since its allowlist was read.
AllowedAreClaimed ==
    \A r \in Readers : Retrieving(r, "search") \/ Retrieving(r, "hydrate") =>
        \A v \in reader[r].allowed : \E m \in reader[r].authorised : Claim(m, v)

ReaderInvariant == ReaderTypes /\ AllowedAreClaimed

RetrievalStep(r) ==
    \/ \E s \in Services, u \in Users :
          \/ \E now \in Instants : RetrieveCurrent(r, s, u, now)
          \/ RetrieveHistorical(r, s, u)
    \/ ListCurrent(r)
    \/ Search(r)
    \/ SearchRefused(r)
    \/ Deliver(r)

LEMMA ClaimsStay ==
    ASSUME StoreInvariant, [Next]_storeVars, NEW m, NEW v, Claim(m, v)
    PROVE  Claim(m, v)'
BY RowsStay DEF Claim

\* A row is claimed by one memory only.
LEMMA ClaimsAreExclusive ==
    ASSUME StoreInvariant, NEW m \in stored, NEW n, mapping[m] # Null, Claim(n, mapping[m])
    PROVE  m = n
<1>1. mapping[m] \in ClaimedIds(m) /\ mapping[m] \in ClaimedIds(n) /\ n \in stored
  BY DEF ClaimedIds, Claim
<1> QED
  BY <1>1 DEF StoreInvariant, IdentityAudit, DistinctVectorOwners

\* The writers leave the readers alone, and close no service.
LEMMA WritersLeaveReaders ==
    ASSUME WorkInvariant, [ServiceNext]_serviceVars, ~ ProcessCrash, ~ Restart,
           \A r \in Readers : ~ RetrievalStep(r)
    PROVE  UNCHANGED reader /\ \A s \in Services : startup[s] = "up" => startup'[s] = "up"
<1>1. CASE JobStep
  <2>1. CASE VerifyReady \/ VerifyDone
    <3>1. /\ job # Idle /\ job.kind = "recover" /\ UNCHANGED reader
          /\ startup' = [startup EXCEPT ![job.by] = "recovered"]
      BY <2>1 DEF VerifyReady, VerifyDone, Recovered, At
    <3> QED
      BY <3>1 DEF WorkInvariant, WorkTypes, JobInvariant
  <2>2. ASSUME ~ VerifyReady, ~ VerifyDone
        PROVE  UNCHANGED <<startup, reader>>
    BY <1>1, <2>2 DEF JobStep, AddVector, AddRefused, AddDone, RecordFailure, AcknowledgeIndexed,
       AcknowledgeReplacement, ReplacementRejected, RemoveVector, RemoveRefused, RemoveDone, ForgetDone,
       ReconcileDone, AdoptMapping, CompleteForgetting, CleanupDone, VerifyRebuild, ReplaceFile,
       StoreStep, IndexStep, OwnStep
  <2> QED
    BY <2>1, <2>2
<1>2. ASSUME NEW s \in Services, StartUpStep(s)
      PROVE  UNCHANGED reader /\ \A t \in Services : startup[t] = "up" => startup'[t] = "up"
  <2>1. /\ UNCHANGED reader
        /\ startup' = startup \/ \E x : startup' = [startup EXCEPT ![s] = x] /\ startup[s] # "up"
    BY <1>2 DEF StartUpStep, RecoverReady, RecoverReuse, RecoverRebuild, OpenIndex, OpenRefused,
       StartUp, Recovered, OwnStep, IndexStep
  <2> QED
    BY <2>1 DEF WorkInvariant, WorkTypes
<1>3. CASE \/ \E m \in MemoryIds : Retry(m) \/ MappingRestored(m)
           \/ \E s \in Services, m \in MemoryIds : AdmitNew(s, m)
           \/ \E s \in Services, u \in Users, m \in MemoryIds :
                 (\E now \in Instants : Forget(s, u, m, now)) \/ ForgetAgain(s, u, m)
  BY <1>3 DEF Retry, RetryPending, RetryFailed, MappingRestored, AdmitNew, Forget, ForgetAgain,
     StoreStep, OwnStep
<1>4. CASE AddFails \/ RemoveFails \/ ReconcileFails \/ WorkflowFails \/ IndexDamaged
  BY <1>4 DEF AddFails, RemoveFails, ReconcileFails, WorkflowFails, IndexDamaged, OwnStep
<1>5. CASE UNCHANGED serviceVars
  BY <1>5 DEF serviceVars
<1> QED
  BY <1>1, <1>2, <1>3, <1>4, <1>5 DEF ServiceNext, RetrievalStep

\* What a retrieval becomes when it begins, or is given its allowlist.
LEMMA NewRetrieval ==
    ASSUME StoreInvariant, NEW s \in Services, NEW u \in Users, NEW now \in Instants \cup {Null},
           NEW x \in {"list", "search"}, NEW memories \in SUBSET Listed(u, now)
    PROVE  LET q == Retrieval(s, u, now, x, memories)
           IN  /\ q \in Retrievals /\ q # Idle /\ q.by = s /\ q.step = x
               /\ \A v \in q.allowed : \E m \in q.authorised : Claim(m, v)
<1>1. memories \subseteq stored /\ stored \subseteq MemoryIds /\ \A m \in memories : mapping[m] # Null
  BY DEF Listed, StoreInvariant, TypeOK
<1>2. IdsOf(memories) \subseteq VectorIds
  BY <1>1 DEF IdsOf, StoreInvariant, TypeOK
<1>3. Retrieval(s, u, now, x, memories) \in Retrievals
  BY <1>1, <1>2 DEF Retrieval, Retrievals
<1>4. \A v \in IdsOf(memories) : \E m \in memories : Claim(m, v)
  BY <1>1 DEF IdsOf, Claim
<1> QED
  BY <1>3, <1>4, MarksAssumption DEF Retrieval

\* What a step of a reader makes of its retrieval.
LEMMA RetrievalGoesOn ==
    ASSUME StoreInvariant, ReaderInvariant, NEW r \in Readers, RetrievalStep(r)
    PROVE  /\ UNCHANGED startup
           /\ \E q \in Retrievals \cup {Idle} :
                 /\ reader' = [reader EXCEPT ![r] = q]
                 /\ q # Idle =>
                      /\ startup[q.by] = "up"
                      /\ q.step \in {"search", "hydrate"} =>
                           \A v \in q.allowed : \E m \in q.authorised : Claim(m, v)
<1>1. ASSUME NEW s \in Services, NEW u \in Users, NEW now \in Instants, RetrieveCurrent(r, s, u, now)
      PROVE  /\ reader' = [reader EXCEPT ![r] = Retrieval(s, u, now, "list", {})]
             /\ UNCHANGED startup /\ startup[s] = "up"
             /\ Retrieval(s, u, now, "list", {}) \in Retrievals
             /\ Retrieval(s, u, now, "list", {}).by = s
             /\ Retrieval(s, u, now, "list", {}).step = "list"
  BY <1>1, NewRetrieval DEF RetrieveCurrent, ReaderStep
<1>2. ASSUME NEW s \in Services, NEW u \in Users, RetrieveHistorical(r, s, u)
      PROVE  LET q == Retrieval(s, u, Null, "search", Listed(u, Null))
             IN  /\ reader' = [reader EXCEPT ![r] = q] /\ UNCHANGED startup /\ startup[s] = "up"
                 /\ q \in Retrievals /\ q.by = s
                 /\ \A v \in q.allowed : \E m \in q.authorised : Claim(m, v)
  BY <1>2, NewRetrieval DEF RetrieveHistorical, ReaderStep
<1>3. reader[r] # Idle => reader[r] \in Retrievals /\ startup[reader[r].by] = "up"
  BY DEF ReaderInvariant, ReaderTypes
<1>4. ASSUME ListCurrent(r)
      PROVE  \E q \in Retrievals \cup {Idle} :
                /\ reader' = [reader EXCEPT ![r] = q] /\ UNCHANGED startup
                /\ q # Idle => /\ q.by = reader[r].by /\ reader[r] # Idle
                               /\ \A v \in q.allowed : \E m \in q.authorised : Claim(m, v)
  <2> DEFINE p == reader[r]
             memories == Listed(p.user, p.now)
             q == Retrieval(p.by, p.user, p.now, "search", memories)
  <2>1. p \in Retrievals /\ p # Idle /\ UNCHANGED startup
        /\ reader' = [reader EXCEPT ![r] = IF memories = {} THEN Idle ELSE q]
    BY <1>3, <1>4 DEF ListCurrent, Retrieving, ReaderStep
  <2>2. p.by \in Services /\ p.user \in Users /\ p.now \in Instants \cup {Null}
    BY <2>1 DEF Retrievals
  <2>3. q \in Retrievals /\ q.by = p.by /\ \A v \in q.allowed : \E m \in q.authorised : Claim(m, v)
    BY <2>2, NewRetrieval
  <2> QED
    BY <2>1, <2>3
<1>5. ASSUME Search(r)
      PROVE  \E q \in Retrievals :
                /\ reader' = [reader EXCEPT ![r] = q] /\ UNCHANGED startup
                /\ q.by = reader[r].by /\ reader[r] # Idle
                /\ \A v \in q.allowed : \E m \in q.authorised : Claim(m, v)
  <2>1. PICK hits \in SUBSET reader[r].allowed :
          reader' = [reader EXCEPT ![r] = [reader[r] EXCEPT !.step = "hydrate", !.allowed = hits]]
    BY <1>5 DEF Search, ReaderStep
  <2>2. reader[r] # Idle /\ Retrieving(r, "search") /\ UNCHANGED startup /\ reader[r] \in Retrievals
    BY <1>3, <1>5 DEF Search, Retrieving, ReaderStep
  <2>3. \A v \in hits : \E m \in reader[r].authorised : Claim(m, v)
    BY <2>2 DEF ReaderInvariant, AllowedAreClaimed
  <2> DEFINE q == [reader[r] EXCEPT !.step = "hydrate", !.allowed = hits]
  <2>4. /\ q \in Retrievals /\ q.by = reader[r].by /\ q.authorised = reader[r].authorised
        /\ q.allowed = hits
    BY <2>2 DEF Retrievals
  <2> QED
    BY <2>1, <2>2, <2>3, <2>4
<1>6. ASSUME SearchRefused(r)
      PROVE  reader' = [reader EXCEPT ![r] = Idle] /\ UNCHANGED startup
  BY <1>6 DEF SearchRefused, ReaderStep
<1>7. ASSUME Deliver(r)
      PROVE  \E q \in Retrievals \cup {Idle} :
                /\ reader' = [reader EXCEPT ![r] = q] /\ UNCHANGED startup
                /\ q # Idle => q.by = reader[r].by /\ reader[r] # Idle /\ q.step = "delivered"
  <2> DEFINE q == [reader[r] EXCEPT !.step = "delivered", !.delivered = Hydrated(r)]
  <2>1. reader[r] \in Retrievals /\ reader[r] # Idle /\ UNCHANGED startup
        /\ reader' = [reader EXCEPT ![r] = IF IdsOf(Hydrated(r)) = reader[r].allowed THEN q ELSE Idle]
    BY <1>3, <1>7 DEF Deliver, Retrieving, ReaderStep
  <2>2. Hydrated(r) \subseteq MemoryIds
    BY DEF Hydrated, StoreInvariant, TypeOK
  <2>3. q \in Retrievals /\ q.by = reader[r].by /\ q.step = "delivered"
    BY <2>1, <2>2 DEF Retrievals
  <2> QED
    BY <2>1, <2>3
<1> QED
  BY <1>1, <1>2, <1>3, <1>4, <1>5, <1>6, <1>7 DEF RetrievalStep

LEMMA ReaderInvariantStep ==
    ASSUME StoreInvariant, WorkInvariant, ReaderInvariant, [ServiceNext]_serviceVars
    PROVE  ReaderInvariant'
<1>1. \A m, v : Claim(m, v) => Claim(m, v)'
  BY ServiceStepIsStoreStep, ClaimsStay DEF StoreInvariant
<1>2. CASE ProcessCrash \/ Restart
  <2>1. reader' = [r \in Readers |-> Idle]
    BY <1>2 DEF ProcessCrash, Restart
  <2> QED
    BY <2>1 DEF ReaderInvariant, ReaderTypes, AllowedAreClaimed, Retrieving
<1>3. ASSUME NEW r \in Readers, RetrievalStep(r)
      PROVE  ReaderInvariant'
  <2>1. PICK q \in Retrievals \cup {Idle} :
          /\ reader' = [reader EXCEPT ![r] = q]
          /\ q # Idle =>
               /\ startup[q.by] = "up"
               /\ q.step \in {"search", "hydrate"} =>
                    \A v \in q.allowed : \E m \in q.authorised : Claim(m, v)
    BY <1>3, RetrievalGoesOn
  <2>2. UNCHANGED startup
    BY <1>3, RetrievalGoesOn
  <2>3. \A p \in Readers : reader'[p] = IF p = r THEN q ELSE reader[p]
    BY <2>1 DEF ReaderInvariant, ReaderTypes
  <2>4. ReaderTypes'
    BY <2>1, <2>2, <2>3 DEF ReaderInvariant, ReaderTypes
  <2>5. AllowedAreClaimed'
    <3> SUFFICES ASSUME NEW p \in Readers, Retrieving(p, "search")' \/ Retrieving(p, "hydrate")',
                        NEW v \in reader'[p].allowed
                 PROVE  \E m \in reader'[p].authorised : Claim(m, v)'
      BY DEF AllowedAreClaimed
    <3>1. \E m \in reader'[p].authorised : Claim(m, v)
      BY <2>1, <2>3 DEF ReaderInvariant, AllowedAreClaimed, Retrieving
    <3> QED
      BY <1>1, <3>1
  <2> QED
    BY <2>4, <2>5 DEF ReaderInvariant
<1>4. ASSUME ~ ProcessCrash, ~ Restart, \A r \in Readers : ~ RetrievalStep(r)
      PROVE  ReaderInvariant'
  <2>1. UNCHANGED reader /\ \A s \in Services : startup[s] = "up" => startup'[s] = "up"
    BY <1>4, WritersLeaveReaders
  <2>2. ReaderTypes'
    BY <2>1 DEF ReaderInvariant, ReaderTypes, Retrievals
  <2>3. AllowedAreClaimed'
    BY <1>1, <2>1 DEF ReaderInvariant, AllowedAreClaimed, Retrieving
  <2> QED
    BY <2>2, <2>3 DEF ReaderInvariant
<1> QED
  BY <1>2, <1>3, <1>4

\* A retrieval that delivers has read its rows in this very step.
LEMMA DeliversWhatItRead ==
    ASSUME StoreInvariant, WorkInvariant, ReaderInvariant, [ServiceNext]_serviceVars,
           NEW r \in Readers, Delivers(r)
    PROVE  /\ Deliver(r) /\ UNCHANGED storeVars
           /\ reader'[r].delivered = Hydrated(r)
           /\ UNCHANGED <<reader[r].user, reader[r].now, reader[r].authorised>>
<1>1. reader'[r] # Idle /\ reader'[r].step = "delivered" /\ reader'[r] # reader[r]
  BY DEF Delivers
<1>2. PICK p \in Readers : RetrievalStep(p)
  BY <1>1, WritersLeaveReaders DEF ProcessCrash, Restart
<1>3. reader \in [Readers -> Retrievals \cup {Idle}]
  BY DEF ReaderInvariant, ReaderTypes
<1>4. p = r
  <2>1. \E q : reader' = [reader EXCEPT ![p] = q]
    BY <1>2, RetrievalGoesOn
  <2> QED
    BY <1>1, <1>3, <2>1
<1>5. ~ \E s \in Services, u \in Users :
          \/ \E now \in Instants : RetrieveCurrent(r, s, u, now)
          \/ RetrieveHistorical(r, s, u)
  BY <1>1, <1>3 DEF RetrieveCurrent, RetrieveHistorical, ReaderStep, Retrieval
<1>6. ~ ListCurrent(r) /\ ~ Search(r) /\ ~ SearchRefused(r)
  <2>1. ~ ListCurrent(r) /\ ~ SearchRefused(r)
    BY <1>1, <1>3 DEF ListCurrent, SearchRefused, ReaderStep, Retrieval
  <2>2. ~ Search(r)
    BY <1>1, <1>3 DEF Search, ReaderStep, Retrieving, Retrievals
  <2> QED
    BY <2>1, <2>2
<1>7. Deliver(r)
  BY <1>2, <1>4, <1>5, <1>6 DEF RetrievalStep
<1>8. reader[r] \in Retrievals
  BY <1>3, <1>7 DEF Deliver, Retrieving
<1>9. reader'[r] = [reader[r] EXCEPT !.step = "delivered", !.delivered = Hydrated(r)]
  BY <1>1, <1>3, <1>7 DEF Deliver, ReaderStep
<1> QED
  BY <1>7, <1>8, <1>9 DEF Retrievals, Deliver

\* What a retrieval relies on holds between any two of its steps.
THEOREM ServiceKeepsReaders ==
    ASSUME Marks, DamageLimit PROVE ServiceSpec => []ReaderInvariant
<1>1. ServiceInit => ReaderInvariant
  BY DEF ServiceInit, ReaderInvariant, ReaderTypes, AllowedAreClaimed, Retrieving
<1>2. /\ StoreInvariant /\ WorkInvariant /\ ReaderInvariant /\ [ServiceNext]_serviceVars
      => ReaderInvariant'
  BY ReaderInvariantStep
<1> QED
  BY <1>1, <1>2, ServiceKeepsStoreInvariant, ServiceKeepsIndex, PTL DEF ServiceSpec

\* Every variable of the service keeps its type, and a service is handed out
\* exactly while its index is loaded.
THEOREM ServiceTyped ==
    ASSUME Marks, DamageLimit PROVE ServiceSpec => []ServiceTypeOK
<1>1. WorkInvariant /\ ReaderInvariant => ServiceTypeOK
  BY DEF WorkInvariant, WorkTypes, ReaderInvariant, ReaderTypes, ServiceTypeOK
<1> QED
  BY <1>1, ServiceKeepsIndex, ServiceKeepsReaders, PTL

\* A retrieval delivers nothing it was not authorised for, and nothing that
\* was forgotten, replaced or expired before it read the rows, although it
\* holds no lock and any workflow may run between its steps.
THEOREM RetrievalsAreAuthorised ==
    ASSUME Marks, DamageLimit PROVE ServiceSpec => RetrievalIsAuthorised
<1>1. ASSUME StoreInvariant, WorkInvariant, ReaderInvariant, [ServiceNext]_serviceVars,
             NEW r \in Readers, Delivers(r), NEW m \in reader'[r].delivered
      PROVE  /\ m \in reader'[r].authorised
             /\ Eligible(reader'[r].user, m, reader'[r].now)
  <2> DEFINE given == reader'[r].delivered
             found == Hydrated(r)
  <2>1. /\ Deliver(r) /\ given = found
        /\ UNCHANGED <<reader[r].user, reader[r].now, reader[r].authorised>>
    BY <1>1, DeliversWhatItRead
  <2>2. m \in given
    BY <1>1
  <2> HIDE DEF given, found
  <2>3. m \in found
    BY <2>1, <2>2
  <2>4. /\ Retrieving(r, "hydrate") /\ m \in Hydrated(r)
        /\ UNCHANGED <<reader[r].user, reader[r].now, reader[r].authorised>>
    BY <2>1, <2>3 DEF Deliver, found
  <2>5. /\ m \in stored /\ mapping[m] \in reader[r].allowed
        /\ Eligible(reader[r].user, m, reader[r].now)
    BY <2>4 DEF Hydrated
  <2>6. PICK n \in reader[r].authorised : Claim(n, mapping[m])
    BY <1>1, <2>4, <2>5 DEF ReaderInvariant, AllowedAreClaimed
  <2>7. m = n
    BY <1>1, <2>5, <2>6, ClaimsAreExclusive DEF Claim
  <2> QED
    BY <2>4, <2>5, <2>6, <2>7
<1>2. ASSUME StoreInvariant, WorkInvariant, ReaderInvariant, [ServiceNext]_serviceVars
      PROVE  [\A r \in Readers : Delivers(r) =>
                \A m \in reader'[r].delivered :
                   LET now == reader'[r].now
                   IN /\ m \in reader'[r].authorised
                      /\ Owner[m] = reader'[r].user
                      /\ indexing[m] = "indexed" /\ deletedAt[m] = Null
                      /\ now # Null =>
                            /\ supersededBy[m] = Null /\ lifecycle[m] = "active"
                            /\ ValidFrom[m] = Null \/ ValidFrom[m] <= now
                            /\ ValidUntil[m] = Null \/ now < ValidUntil[m]]_serviceVars
  <2> SUFFICES ASSUME NEW r \in Readers, Delivers(r), NEW m \in reader'[r].delivered
               PROVE  LET now == reader'[r].now
                      IN /\ m \in reader'[r].authorised
                         /\ Owner[m] = reader'[r].user
                         /\ indexing[m] = "indexed" /\ deletedAt[m] = Null
                         /\ now # Null =>
                               /\ supersededBy[m] = Null /\ lifecycle[m] = "active"
                               /\ ValidFrom[m] = Null \/ ValidFrom[m] <= now
                               /\ ValidUntil[m] = Null \/ now < ValidUntil[m]
    OBVIOUS
  <2>1. m \in reader'[r].authorised /\ Eligible(reader'[r].user, m, reader'[r].now)
    BY <1>1, <1>2
  <2> QED
    BY <2>1 DEF Eligible, IsHistoricalEligible, IsCurrentStateEligible, Owned, Live
<1> QED
  BY <1>2, ServiceKeepsStoreInvariant, ServiceKeepsIndex, ServiceKeepsReaders, PTL
     DEF ServiceSpec, RetrievalIsAuthorised

=============================================================================
