---------------------------- MODULE MemoryService ----------------------------
(***************************************************************************)
(* MemoryService and RecoveryCoordinator over the SQLite store and the     *)
(* vector index (application/service.py, application/recovery.py,          *)
(* composition/__init__.py).                                               *)
(*                                                                         *)
(* Admissions, retries, forgetting and recovery hold PROCESS_WRITE_LOCK    *)
(* from their lookup to their return: job is the workflow that holds it.   *)
(* Retrievals hold no lock.  Every store transaction and every step of an  *)
(* index publication is a step here, so that a crash, a failure or a       *)
(* retrieval can come between any two of them.                             *)
(***************************************************************************)
EXTENDS MemoryRepository

CONSTANTS
    Services,   \* MemoryService objects of one process
    Readers,    \* threads that retrieve
    Target,     \* supersedes_memory_id of each request, or Null
    Recovery, Closed, Absent, Torn, Idle,  \* as in VectorIndex
    Damages,    \* how files are damaged behind its back: Absent, Torn
    MaxFaults   \* bound on crashes, failed calls and damaged files

ASSUME TargetAssumption == Target \in [MemoryIds -> MemoryIds \cup {Null}]

VARIABLES
    durable, loaded, working,  \* the vector index
    job,        \* the workflow under the lock, or Idle
    startup,    \* of each service: "down", "recovered" or "up"
    published,  \* _known_published_supersessions of each service
    reader,     \* the retrieval of each reader
    faults

indexVars == <<durable, loaded, working>>
serviceVars == <<storeVars, indexVars, job, startup, published, reader, faults>>

Index == INSTANCE VectorIndex WITH Ids <- VectorIds, Instances <- Services

\* The workflows, the recoveries and the retrievals that can be under way.
Workflows ==
    [kind : {"admit", "forget"}, by : Services, memory : MemoryIds,
     step : {"add", "adding", "acknowledge", "failed", "remove", "removing", "complete"}]
Recoveries ==
    [kind : {"recover"}, by : Services, items : SUBSET MemoryIds,
     step : {"reconciling", "cleanup", "verify", "verifying"}]
Retrievals ==
    [by : Services, user : Users, now : Instants \cup {Null},
     step : {"list", "search", "hydrate", "delivered"},
     allowed : SUBSET VectorIds, authorised : SUBSET MemoryIds, delivered : SUBSET MemoryIds]

\* What is under way is not Idle, the adapter of a recovery serves nobody,
\* files that are missing are not torn, and faults are counted.
ASSUME MarksAssumption ==
    /\ Idle \notin Workflows \cup Recoveries \cup Retrievals \cup Index!Publications
    /\ Recovery \notin Services
    /\ Absent # Torn
    /\ MaxFaults \in Nat

ServiceInit ==
    /\ Init
    /\ Index!Init
    /\ job = Idle
    /\ startup = [s \in Services |-> "down"]
    /\ published = [s \in Services |-> {}]
    /\ reader = [r \in Readers |-> Idle]
    /\ faults = 0

-----------------------------------------------------------------------------
(* The frame of a step.                                                    *)

Job(kind, s, m, step) == [kind |-> kind, by |-> s, memory |-> m, step |-> step]

\* A workflow takes the lock, goes to its next step, or returns.
Starts(s) == job = Idle /\ startup[s] = "up"
At(kind, step) == job # Idle /\ job.kind = kind /\ job.step = step
Goto(step) == job' = [job EXCEPT !.step = step]
Return == job' = Idle

Fault == faults < MaxFaults /\ faults' = faults + 1
NoFault == UNCHANGED faults

\* A step of the store alone, of the index alone, or of neither.
StoreStep == UNCHANGED <<indexVars, startup, published, reader>> /\ NoFault
IndexStep == UNCHANGED <<storeVars, startup, reader>> /\ NoFault
OwnStep == UNCHANGED <<storeVars, indexVars, startup, published, reader>>

\* A publication replaces one of its files.
ReplaceFile == Index!ReplaceFile /\ UNCHANGED <<job, published>> /\ IndexStep

-----------------------------------------------------------------------------
(* admit and its retries.                                                  *)

\* A request whose key is taken by another request is a conflict, one that is
\* already indexed is answered from its row: neither changes anything.
AdmitNew(s, m) ==
    /\ Starts(s)
    /\ Target[m] # Null => Target[m] \in stored /\ ValidSupersessionTarget(Owner[m], m, Target[m])
    /\ PersistPending(m)
    /\ job' = Job("admit", s, m, "add")
    /\ StoreStep

\* The step at which a retry resumes: a publication known is not repeated.
RetryStep(s, m) ==
    IF Target[m] # Null /\ m \in published[s] THEN "acknowledge" ELSE "add"

RetryPending(s, m) ==
    /\ Starts(s)
    /\ HasIndexingWork(m)
    /\ indexing[m] = "pending"
    /\ job' = Job("admit", s, m, RetryStep(s, m))
    /\ UNCHANGED storeVars
    /\ StoreStep

\* Mutant: the failed row is not made pending again before it is retried.
RetryFailedUnmarked(s, m) ==
    /\ Starts(s)
    /\ HasIndexingWork(m)
    /\ indexing[m] = "failed"
    /\ job' = Job("admit", s, m, RetryStep(s, m))
    /\ UNCHANGED storeVars
    /\ StoreStep

RetryFailed(s, m) ==
    /\ Starts(s)
    /\ MarkPending(Owner[m], m)
    /\ job' = Job("admit", s, m, RetryStep(s, m))
    /\ StoreStep

AddVector ==
    /\ At("admit", "add")
    /\ Index!BeginAdd(job.by, mapping[job.memory])
    /\ Goto("adding")
    /\ UNCHANGED published
    /\ IndexStep

\* add reads a torn pair and raises before it publishes anything.
AddRefused ==
    /\ At("admit", "add")
    /\ durable = Torn
    /\ Goto("failed")
    /\ OwnStep
    /\ NoFault

\* Mutant: a failed publication is acknowledged like a successful one.
AddFailsUnnoticed ==
    /\ At("admit", "adding")
    /\ Index!Abandon
    /\ Goto("acknowledge")
    /\ Fault
    /\ UNCHANGED <<storeVars, startup, published, reader>>

AddFails ==
    /\ At("admit", "adding")
    /\ Index!Abandon
    /\ Goto("failed")
    /\ Fault
    /\ UNCHANGED <<storeVars, startup, published, reader>>

\* Mutant: the published index is not taken into memory.
AddDoneWithoutSwap ==
    /\ At("admit", "adding")
    /\ working.replaced = 2
    /\ working' = Idle
    /\ UNCHANGED <<durable, loaded>>
    /\ Goto("acknowledge")
    /\ published' = IF Target[job.memory] = Null THEN published
                    ELSE [published EXCEPT ![job.by] = @ \cup {job.memory}]
    /\ IndexStep

AddDone ==
    /\ At("admit", "adding")
    /\ Index!Acknowledge
    /\ Goto("acknowledge")
    /\ published' = IF Target[job.memory] = Null THEN published
                    ELSE [published EXCEPT ![job.by] = @ \cup {job.memory}]
    /\ IndexStep

RecordFailure ==
    /\ At("admit", "failed")
    /\ MarkFailed(Owner[job.memory], job.memory)
    /\ Return
    /\ StoreStep

AcknowledgeIndexed ==
    /\ At("admit", "acknowledge")
    /\ Target[job.memory] = Null
    /\ MarkIndexed(Owner[job.memory], job.memory)
    /\ Return
    /\ StoreStep

AcknowledgeReplacement ==
    /\ At("admit", "acknowledge")
    /\ Target[job.memory] # Null
    /\ AcknowledgeSupersession(Owner[job.memory], job.memory, Target[job.memory])
    /\ published' = [published EXCEPT ![job.by] = @ \ {job.memory}]
    /\ Return
    /\ UNCHANGED <<indexVars, startup, reader>>
    /\ NoFault

\* The target changed meanwhile: the transaction is rejected.
ReplacementRejected ==
    /\ At("admit", "acknowledge")
    /\ Target[job.memory] # Null
    /\ ~ ValidSupersessionTarget(Owner[job.memory], job.memory, Target[job.memory])
    /\ Return
    /\ OwnStep
    /\ NoFault

-----------------------------------------------------------------------------
(* forget.                                                                 *)

\* A target without a vector id returns physical_cleanup_identity_pending.
Forget(s, u, m, now) ==
    /\ Starts(s)
    /\ BeginForgetting(u, m, now)
    /\ IF mapping[m] = Null THEN UNCHANGED job
       ELSE job' = Job("forget", s, m, "remove")
    /\ StoreStep

ForgetAgain(s, u, m) ==
    /\ Starts(s)
    /\ Owned(u, m)
    /\ cleanup[m] = "cleanup_pending"
    /\ cleanupId[m] # Null
    /\ job' = Job("forget", s, m, "remove")
    /\ OwnStep
    /\ NoFault

RemoveVector ==
    /\ At("forget", "remove")
    /\ \/ Index!BeginRemove(job.by, cleanupId[job.memory]) /\ Goto("removing")
       \/ Index!RemoveAbsent(job.by, cleanupId[job.memory]) /\ Goto("complete")
    /\ UNCHANGED published
    /\ IndexStep

\* Mutant: the error does not release the lock.
RemoveRefusedHoldingLock ==
    /\ At("forget", "remove")
    /\ durable \in {Torn, Absent}
    /\ UNCHANGED job
    /\ OwnStep
    /\ NoFault

RemoveRefused ==
    /\ At("forget", "remove")
    /\ durable \in {Torn, Absent}
    /\ Return
    /\ OwnStep
    /\ NoFault

\* Mutant: a failed removal counts as verified absence.
RemoveFailsUnnoticed ==
    /\ At("forget", "removing")
    /\ Index!Abandon
    /\ Goto("complete")
    /\ Fault
    /\ UNCHANGED <<storeVars, startup, published, reader>>

RemoveFails ==
    /\ At("forget", "removing")
    /\ Index!Abandon
    /\ Return
    /\ Fault
    /\ UNCHANGED <<storeVars, startup, published, reader>>

RemoveDone ==
    /\ At("forget", "removing")
    /\ Index!Acknowledge
    /\ Goto("complete")
    /\ UNCHANGED published
    /\ IndexStep

ForgetDone ==
    /\ At("forget", "complete")
    /\ AcknowledgeForgettingComplete(Owner[job.memory], job.memory, cleanupId[job.memory])
    /\ Return
    /\ StoreStep

\* The trusted clock, the embedding or the transaction failed at a step that
\* publishes nothing: the workflow goes on to its failure path or returns, and
\* the lock is released.  A start-up that fails leaves the service down.
WorkflowFails ==
    /\ \/ At("admit", "add") /\ Goto("failed")
       \/ At("admit", "failed") /\ Return
       \/ At("admit", "acknowledge") /\ Return
       \/ At("forget", "remove") /\ Return
       \/ At("forget", "complete") /\ Return
       \/ At("recover", "cleanup") /\ Goto("verify")
       \/ At("recover", "verify") /\ Return
    /\ Fault
    /\ OwnStep

-----------------------------------------------------------------------------
(* RecoveryCoordinator.recover and the composition of a service.           *)

\* Mutant: memories that wait for their clean-up are rebuilt too.
RebuildForgotten == {mapping[m] : m \in {n \in stored : mapping[n] # Null}}

\* recovery_inventory: refused, or the ids of the exact generation.
Auditable == IdentityAudit /\ RelationshipAudit
Rebuild == {mapping[m] : m \in {n \in stored : cleanup[n] = Null /\ mapping[n] # Null}}

\* Mutant: an item begun without an id is never looked at again.
CleanupItemsIdentified == {m \in stored : cleanup[m] = "cleanup_pending" /\ cleanupId[m] # Null}

CleanupItems == {m \in stored : cleanup[m] = "cleanup_pending"}

Recover(s, step) == [kind |-> "recover", by |-> s, items |-> CleanupItems, step |-> step]

Recovered(s) ==
    /\ startup' = [startup EXCEPT ![s] = "recovered"]
    /\ UNCHANGED <<storeVars, published, reader>>
    /\ NoFault

StartUp(s) == job = Idle /\ startup[s] = "down" /\ Auditable

\* The existing generation is exact, and nothing is left to clean up.
RecoverReady(s) ==
    /\ StartUp(s)
    /\ durable = Rebuild
    /\ CleanupItems = {}
    /\ Recovered(s)
    /\ UNCHANGED <<indexVars, job>>

RecoverReuse(s) ==
    /\ StartUp(s)
    /\ durable = Rebuild
    /\ CleanupItems # {}
    /\ job' = Recover(s, "cleanup")
    /\ OwnStep
    /\ NoFault

RecoverRebuild(s) ==
    /\ StartUp(s)
    /\ Index!BeginReconcile(Rebuild)
    /\ job' = Recover(s, "reconciling")
    /\ UNCHANGED published
    /\ IndexStep

ReconcileDone ==
    /\ At("recover", "reconciling")
    /\ Index!Acknowledge
    /\ Goto("cleanup")
    /\ UNCHANGED published
    /\ IndexStep

\* _complete_forgetting: the exact generation is the proof of absence.
AdoptMapping(m) ==
    /\ At("recover", "cleanup")
    /\ m \in job.items
    /\ AdoptForgettingVectorId(Owner[m], m, mapping[m])
    /\ UNCHANGED job
    /\ StoreStep

CompleteForgetting(m) ==
    /\ At("recover", "cleanup")
    /\ m \in job.items
    /\ cleanupId[m] # Null
    /\ AcknowledgeForgettingComplete(Owner[m], m, cleanupId[m])
    /\ job' = [job EXCEPT !.items = @ \ {m}]
    /\ StoreStep

\* Only items without any vector id are left.
CleanupDone ==
    /\ At("recover", "cleanup")
    /\ \A m \in job.items : cleanupId[m] = Null /\ mapping[m] = Null
    /\ Goto("verify")
    /\ OwnStep
    /\ NoFault

\* The second inventory, and the comparison with the generation or a repair.
VerifyReady ==
    /\ At("recover", "verify")
    /\ Auditable
    /\ durable = Rebuild
    /\ Recovered(job.by)
    /\ Return
    /\ UNCHANGED indexVars

VerifyRebuild ==
    /\ At("recover", "verify")
    /\ Auditable
    /\ Index!BeginReconcile(Rebuild)
    /\ Goto("verifying")
    /\ UNCHANGED published
    /\ IndexStep

VerifyDone ==
    /\ At("recover", "verifying")
    /\ Index!Acknowledge
    /\ Recovered(job.by)
    /\ Return

ReconcileFails ==
    /\ At("recover", "reconciling") \/ At("recover", "verifying")
    /\ Index!Abandon
    /\ Return
    /\ Fault
    /\ UNCHANGED <<storeVars, startup, published, reader>>

\* Mutant: the service is handed out before its index is loaded.
OpenIndexLater(s) ==
    /\ startup[s] = "recovered"
    /\ startup' = [startup EXCEPT ![s] = "up"]
    /\ UNCHANGED <<storeVars, indexVars, job, published, reader>>
    /\ NoFault

\* FaissVectorIndex is constructed after the lock is released.
OpenIndex(s) ==
    /\ startup[s] = "recovered"
    /\ Index!Open(s)
    /\ startup' = [startup EXCEPT ![s] = "up"]
    /\ UNCHANGED <<storeVars, job, published, reader>>
    /\ NoFault

OpenRefused(s) ==
    /\ startup[s] = "recovered"
    /\ durable \in {Torn, Absent}
    /\ startup' = [startup EXCEPT ![s] = "down"]
    /\ UNCHANGED <<storeVars, indexVars, job, published, reader>>
    /\ NoFault

-----------------------------------------------------------------------------
(* retrieve.                                                               *)

\* now is Null for a historical retrieval.
Eligible(u, m, now) ==
    IF now = Null THEN IsHistoricalEligible(u, m) ELSE IsCurrentStateEligible(u, m, now)

\* SQL joins the mapping, so a memory without one is never listed.
Listed(u, now) == {m \in stored : Eligible(u, m, now) /\ mapping[m] # Null}
IdsOf(memories) == {mapping[m] : m \in memories}

ReaderStep(r, state) ==
    /\ reader' = [reader EXCEPT ![r] = state]
    /\ UNCHANGED <<indexVars, job, startup, published>>

Retrieving(r, step) == reader[r] # Idle /\ reader[r].step = step
Ready(r) == reader[r] = Idle \/ Retrieving(r, "delivered")

Retrieval(s, u, now, step, memories) ==
    [by |-> s, user |-> u, now |-> now, step |-> step,
     allowed |-> IdsOf(memories), authorised |-> memories, delivered |-> {}]

\* A current retrieval persists the expirations that are due first.
RetrieveCurrent(r, s, u, now) ==
    /\ Ready(r)
    /\ startup[s] = "up"
    /\ ExpireCurrentMemories(u, now)
    /\ ReaderStep(r, Retrieval(s, u, now, "list", {}))
    /\ NoFault

ListCurrent(r) ==
    /\ Retrieving(r, "list")
    /\ LET q == reader[r]
           memories == Listed(q.user, q.now)
       IN ReaderStep(r, IF memories = {} THEN Idle
                        ELSE Retrieval(q.by, q.user, q.now, "search", memories))
    /\ UNCHANGED storeVars
    /\ NoFault

RetrieveHistorical(r, s, u) ==
    /\ Ready(r)
    /\ startup[s] = "up"
    /\ LET memories == Listed(u, Null)
       IN memories # {} /\ ReaderStep(r, Retrieval(s, u, Null, "search", memories))
    /\ UNCHANGED storeVars
    /\ NoFault

\* The search answers from memory, with some of the ids it is allowed.
Search(r) ==
    /\ Retrieving(r, "search")
    /\ reader[r].allowed \subseteq loaded[reader[r].by]
    /\ \E hits \in SUBSET reader[r].allowed \ {{}} :
          ReaderStep(r, [reader[r] EXCEPT !.step = "hydrate", !.allowed = hits])
    /\ UNCHANGED storeVars
    /\ NoFault

\* An authorised id is missing: ServiceUnavailableError.
SearchRefused(r) ==
    /\ Retrieving(r, "search")
    /\ ~ reader[r].allowed \subseteq loaded[reader[r].by]
    /\ ReaderStep(r, Idle)
    /\ UNCHANGED storeVars
    /\ NoFault

\* Mutant: hydration trusts the allowlist (hydrate_indexed alone).
HydratedUnchecked(r) ==
    {m \in stored : mapping[m] \in reader[r].allowed /\ indexing[m] = "indexed"}

\* What the hits are now, and still eligible at the time of the request.
Hydrated(r) ==
    {m \in stored : /\ mapping[m] \in reader[r].allowed
                    /\ Eligible(reader[r].user, m, reader[r].now)}

\* A hit that is not hydrated any more fails the whole retrieval.
Deliver(r) ==
    /\ Retrieving(r, "hydrate")
    /\ LET found == Hydrated(r)
           state == [reader[r] EXCEPT !.step = "delivered", !.delivered = found]
       IN ReaderStep(r, IF IdsOf(found) = reader[r].allowed THEN state ELSE Idle)
    /\ UNCHANGED storeVars
    /\ NoFault

-----------------------------------------------------------------------------
(* The environment.                                                        *)

\* The process dies: locks, memory and caches go, transactions roll back.
ProcessCrash ==
    /\ Fault
    /\ Index!Crash
    /\ job' = Idle
    /\ startup' = [s \in Services |-> "down"]
    /\ published' = [s \in Services |-> {}]
    /\ reader' = [r \in Readers |-> Idle]
    /\ UNCHANGED storeVars

\* The process ends between two workflows, and is started again.
Restart ==
    /\ job = Idle
    /\ \E s \in Services : startup[s] = "up"
    /\ Index!Crash
    /\ startup' = [s \in Services |-> "down"]
    /\ published' = [s \in Services |-> {}]
    /\ reader' = [r \in Readers |-> Idle]
    /\ UNCHANGED <<storeVars, job>>
    /\ NoFault

IndexDamaged ==
    /\ Fault
    /\ Index!Damage
    /\ durable' \in Damages
    /\ UNCHANGED <<storeVars, job, startup, published, reader>>

\* Between two workflows: recovery works from the rows of its inventory.
MappingRestored(m) ==
    /\ job = Idle
    /\ RestoreMapping(m)
    /\ UNCHANGED <<indexVars, job, startup, published, reader>>
    /\ NoFault

-----------------------------------------------------------------------------

\* What the thread that holds the lock does next, whatever fails.
JobStep ==
    \/ AddVector
    \/ AddRefused
    \/ AddDone
    \/ RecordFailure
    \/ AcknowledgeIndexed
    \/ AcknowledgeReplacement
    \/ ReplacementRejected
    \/ RemoveVector
    \/ RemoveRefused
    \/ RemoveDone
    \/ ForgetDone
    \/ ReconcileDone
    \/ \E m \in MemoryIds : AdoptMapping(m) \/ CompleteForgetting(m)
    \/ CleanupDone
    \/ VerifyReady
    \/ VerifyRebuild
    \/ VerifyDone
    \/ ReplaceFile

Retry(m) == \E s \in Services : RetryPending(s, m) \/ RetryFailed(s, m)

StartUpStep(s) ==
    \/ RecoverReady(s)
    \/ RecoverReuse(s)
    \/ RecoverRebuild(s)
    \/ OpenIndex(s)
    \/ OpenRefused(s)

ServiceNext ==
    \/ JobStep
    \/ \E m \in MemoryIds : Retry(m)
    \/ \E s \in Services :
          \/ \E m \in MemoryIds : AdmitNew(s, m)
          \/ \E u \in Users, m \in MemoryIds :
                \/ \E now \in Instants : Forget(s, u, m, now)
                \/ ForgetAgain(s, u, m)
          \/ StartUpStep(s)
    \/ Restart
    \/ \E r \in Readers :
          \/ \E s \in Services, u \in Users :
                \/ \E now \in Instants : RetrieveCurrent(r, s, u, now)
                \/ RetrieveHistorical(r, s, u)
          \/ ListCurrent(r)
          \/ Search(r)
          \/ SearchRefused(r)
          \/ Deliver(r)
    \/ AddFails
    \/ RemoveFails
    \/ ReconcileFails
    \/ WorkflowFails
    \/ ProcessCrash
    \/ IndexDamaged
    \/ \E m \in MemoryIds : MappingRestored(m)

\* The thread that holds the lock is scheduled until it releases it.
ServiceSpec == ServiceInit /\ [][ServiceNext]_serviceVars /\ WF_serviceVars(JobStep)

\* What the library leaves to its user: a start-up is carried on and tried
\* again, the process is restarted now and then, and a caller repeats an
\* admission until it is answered.
OperatorFairness ==
    /\ SF_serviceVars(Restart)
    /\ \A s \in Services : SF_serviceVars(StartUpStep(s))
    /\ \A m \in MemoryIds : SF_serviceVars(Retry(m))

OperatedSpec == ServiceSpec /\ OperatorFairness

-----------------------------------------------------------------------------

ServiceTypeOK ==
    /\ Index!IndexTypeOK
    /\ job \in Workflows \cup Recoveries \cup {Idle}
    /\ startup \in [Services -> {"down", "recovered", "up"}]
    /\ \A s \in Services : startup[s] = "up" <=> loaded[s] # Closed
    /\ published \in [Services -> SUBSET MemoryIds]
    /\ reader \in [Readers -> Retrievals \cup {Idle}]
    /\ \A r \in Readers : reader[r] # Idle => startup[reader[r].by] = "up"
    /\ faults \in 0..MaxFaults

Retrievable == {m \in stored : indexing[m] = "indexed" /\ Live(m)}

\* What the store calls indexed is in every generation that verifies: neither
\* a failed publication, a crash nor a recovery loses an acknowledged vector.
IndexedStayDurable ==
    durable \notin {Absent, Torn} => IdsOf(Retrievable) \subseteq durable

\* The only service of a process searches an index that follows the store: it
\* misses an authorised id only when the memory was forgotten after the
\* allowlist was read, and holds no vector whose forgetting is complete.
ServedIndexFollowsStore ==
    \A s \in Services : startup[s] = "up" =>
        /\ IdsOf(Retrievable) \subseteq loaded[s]
        /\ \A m \in stored : cleanup[m] = "complete" => cleanupId[m] \notin loaded[s]

\* The vector of a completed forgetting is in no generation that verifies, and
\* no later retry, failure or recovery brings it back.
ForgottenAreErased ==
    durable \notin {Absent, Torn} =>
        \A m \in stored : cleanup[m] = "complete" => cleanupId[m] \notin durable

\* A retrieval delivers memories it was authorised for when it read the
\* allowlist: the user's own, acknowledged, not forgotten before it read the
\* rows and, if it asks for the current ones, neither replaced by then nor
\* expired nor outside valid_from <= now < valid_until, although other
\* workflows ran between its steps.
Delivers(r) == reader'[r] # Idle /\ reader'[r].step = "delivered" /\ reader'[r] # reader[r]

RetrievalIsAuthorised ==
    [][\A r \in Readers : Delivers(r) =>
         \A m \in reader'[r].delivered :
             LET now == reader'[r].now
             IN /\ m \in reader'[r].authorised
                /\ Owner[m] = reader'[r].user
                /\ indexing[m] = "indexed" /\ deletedAt[m] = Null
                /\ now # Null =>
                      /\ supersededBy[m] = Null /\ lifecycle[m] = "active"
                      /\ ValidFrom[m] = Null \/ ValidFrom[m] <= now
                      /\ ValidUntil[m] = Null \/ now < ValidUntil[m]]_serviceVars

\* Every workflow returns, whatever fails, and releases the process write lock.
LockReleased == job # Idle ~> job = Idle

\* A forgetting whose vector id is known is completed by the start-ups that
\* follow, however its removals, recoveries and acknowledgements failed.
ForgettingsComplete ==
    \A m \in MemoryIds :
        cleanup[m] = "cleanup_pending" /\ ClaimedIds(m) # {} ~> cleanup[m] = "complete"

\* An admission that is retried is indexed in the end, whatever failed: no
\* failure leaves a row, an index or a cache from which a retry cannot go on.
\* Replacements are excepted: their target may be gone.
RetriesSucceed ==
    \A m \in MemoryIds :
        HasIndexingWork(m) /\ Live(m) /\ Target[m] = Null ~> indexing[m] = "indexed" \/ ~Live(m)

\* A memory is replaced by one that becomes current in the same transaction,
\* so its owner is not left without either.
ReplacementBecomesCurrent ==
    [][\A t \in MemoryIds : supersededBy'[t] # supersededBy[t] =>
         deletedAt'[supersededBy'[t]] = Null]_serviceVars

=============================================================================
