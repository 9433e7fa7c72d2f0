# Conversational Memory Intelligence: a TLA+ verification project

The program keeps the memories of its users in SQLite, and a vector index derived from them in
two files. This directory holds TLA+ modules of its core, the TLC configurations that check them
on small instances, and theorems proved with TLAPS for all instances. Source paths below are
relative to `src/src/conversational_memory/`.

## 1. Inventory of the system

| Component | State it keeps | Operations that change it |
|---|---|---|
| SQLite store (`infrastructure/sqlite/repository.py`, `domain/*.py`) | rows of `memories`, `admission_idempotency`, `memory_embeddings`, `memory_vector_mappings`, `memory_forgetting` | `persist_pending`, `mark_indexed/pending/failed`, `acknowledge_supersession`, `expire_current_memories`, `begin_forgetting`, `adopt_forgetting_vector_id`, `acknowledge_forgetting_complete` |
| Vector index (`infrastructure/faiss_index.py`) | two final files, temporaries beside them, one loaded index for each adapter instance | constructor, `add`, `remove`, `reconcile` |
| `MemoryService` (`application/service.py`) | a cache of published replacements | `admit` (with its retries and replacements), `forget`, `retrieve` (expires memories) |
| Recovery (`application/recovery.py`) | none of its own | `recover`: inventory, reconciliation, completion of forgettings, second inventory, verification |
| Composition (`composition/__init__.py`) | none | opens the store, recovers, opens the index, builds the service |
| Schema migrations (`infrastructure/sqlite/migrations.py`) | `schema_migrations` and the schema | `initialize_schema` in every repository constructor |
| Retrieval selection (`domain/relevance.py`, `ranking.py`, `context.py`) | none (pure) | threshold, ranking, greedy context under a token budget |
| Observability (`application/events.py`, `infrastructure/observability.py`) | none; events go to a sink | one event for each stage, one terminal event for each invocation |
| Admission policy, idempotency (`domain/admission.py`, `idempotency.py`) | none (pure) | validation, credential patterns, fingerprints |
| Embedder, token counter (`infrastructure/`) | a loaded model | wrap external libraries |
| Command line, evaluation (`entrypoints/`) | what a run of the fixed workload recorded of each case | `evaluate-fixed-workload`; demonstrations |

How they interact. Admission, forgetting and recovery hold `PROCESS_WRITE_LOCK`
(`application/locking.py`) from their lookup to their return, across several store transactions
and the publication of an index generation. Each transaction is atomic under the repository's own
lock; a publication is two `os.replace` calls. Three things do **not** take the process lock:
retrieval (which reads an allowlist, searches the memory of its adapter, and hydrates, in separate
transactions), the constructor of the index after recovery, and the constructor of the store,
which migrates the schema. Several services of one process may share a store and a directory.

What is hard here:

- a crash or failure between a store transaction and the publication it belongs to, or between the
  two file replacements;
- an adapter instance whose memory is older than the files; a constructor that deletes temporary
  files while another instance is publishing;
- retrievals overtaken by forgetting, replacement and expiration;
- replacement requests retried after a failure, with the target or the replacement changed meanwhile;
- forgetting of legacy rows that have no vector id until an operator restores one;
- two constructors migrating one database, since whether a version was applied is read before
  `BEGIN IMMEDIATE`;
- a start-up that fails after recovery reported its own events;
- an answer and a terminal event made from a row whose last transaction failed;
- an evaluation that fails between two cases, or after the last one.

What makes each component correct: the store never holds rows its own start-up audit rejects, and
never undoes a committed fact; the index keeps every acknowledged change and is seen as whole
generations only; the service keeps the index in step with the store, erases what is forgotten,
delivers only what is authorised, and releases its lock; migrations are applied once and in order;
a context is exact and accounts for every hit; events end in one truthful terminal event; an
evaluation succeeds only on what it verified.
`PROJECT.json` lists the hazards with their lines and the properties aimed at each.

## 2. Modules

| Module | What it models | Corresponds to |
|---|---|---|
| `MemoryRepository` | the store: one action for each committed transaction | one variable for each column or table that a guard reads |
| `VectorIndex` | what the index promises: an abstract specification | a generation is a set of ids, absent or torn |
| `FaissVectorIndex` | the two-file adapter, step by step | final files, temporaries, `_index` of each instance |
| `MemoryService` | extends the store, instantiates `VectorIndex`, adds service, recovery, composition | `job` is the workflow under the lock; `reader` each retrieval |
| `Migrations` | `initialize_schema` of several constructors | registry, executed statements, the open transaction |
| `RetrievalSelection` | scoped search, threshold, ranking, context | hits, context, exclusions, outcome |
| `StartupEvents` | the events of start-ups and recoveries | the fields of `_StartupObservation` and what was offered |
| `MemoryLifecycle` | what the store promises the owner of a memory: an abstract specification | a phase for each memory, and what replaced it |
| `OperationEvents` | the answers, errors and events of admissions, retrievals and forgettings | `inv` is one invocation of each caller, `row` the memory of the key |
| `FixedWorkloadEvaluation` | the command `evaluate-fixed-workload` | `recorded` is the dictionary of that name, `report` what is printed |
| `*Proofs` | theorems of the module they are named after | |
| `MC*` | small instances for TLC | |

Three refinements hold them together. `FaissVectorIndex` is proved to implement `VectorIndex` (property
`ImplementsVectorIndex`, with the refinement mapping at its end), and `MemoryService` uses
`VectorIndex` in its place. `MemoryService` is proved to implement `MemoryRepository`, and both are
proved to implement `MemoryLifecycle` (`ImplementsLifecycle`; the mapping is `Phase`). Operators introduced by a `\* Mutant:` comment are
plausible bugs, used to confirm that each property can fail; no specification uses them.

### Decisions of abstraction

*Store.* A memory identifier stands for the admission request that would create it, so immutable
columns are constants. `completed_at` is not kept: a CHECK ties it to the state. A failed
transaction rolls back and is a stuttering step, as are requests that are rejected, conflicting or
answered from a row that is already indexed. Text, embeddings and fingerprints do not appear: an
equal key with another fingerprint is a conflict that writes nothing. The initial states are those
migration 0003 leaves, with legacy tombstones that may have lost their mapping.
`RestoreMapping` is the one external step: the operator action that
`adopt_forgetting_vector_id` exists for.

*Lifecycle.* A memory is absent, pending, current, superseded, expired, forgotten or erased. A failed
publication is still pending, and a forgotten memory shows nothing of what it was. `Replace` lets
either side be forgotten already, as the code does (finding 2), and says nothing of an explicit
replacement whose acknowledgement comes without its target.

*Index.* The content of an index file is the sequence of its ids, because the vector of an id is
the embedding stored with its memory; metadata is the checksum of one content. Order is kept: the
same ids in another order are other bytes, so a pair can be torn between two equal sets.
The verification in a constructor is one read (its two files are read without a lock, but a pair
that changes in between fails its checksum like a torn one). Power loss, other processes and
`create_if_missing`, which no library code passes, are not modelled.

*Service.* Every store transaction and every step of a publication is a step, so a crash, failure
or retrieval may come between any two. `persist_pending` is one step with the lookup that precedes
it, since both are under the lock and nothing else writes those rows. The trusted clock answers an
arbitrary instant at each reading. Recovery completes forgettings in any order, where the code
uses the order of the rows. Index files are damaged between calls only. The temporary clean-up of a
constructor appears as a publication that fails (`AddFails`, `RemoveFails`, `ReconcileFails`); the
interleaving itself is in `FaissVectorIndex`.

*Selection.* FAISS may break ties at the limit in any way. A sort is the sequence of a set in the order of
its key (`Sorted`), as identifiers break every tie. The token counter answers any count in a
bounded set for each prospective context: nothing in the code assumes it monotonic. A budget of 0 is
a valid request (`_validate_retrieval_request`), and fits what counts for no token.

*Operation events.* Callers share one key. A request is a fingerprint, with or without a target, which
the credential policy accepts or does not; the policy and the fingerprint themselves are functions
of strings. A port may raise a storage, an indexing, a configuration or any other exception at any
stage, also where the adapters of the repository do not raise it: the ports are interfaces, and a
test or another adapter may. The code tells a mismatch by three chains of exception tests, and so does the
model: `Mismatch` for `configuration_failed`, `ApplicationErrorReason` and `ForgettingErrorReason` for the terminal
event. That the last one knows nothing of the tokenizer is harmless only because no forgetting raises
what it misses, which `RaisedAnswer` needs as a hypothesis. Contexts and retrieval requests are valid, since their classes reject
others when they are made. What the sink does with an event, and a telemetry clock that fails, is
read by no step.

*Evaluation.* What the checks of a case find is chosen freely; the model keeps their classes, since
these are all that classification and report look at. The files of the workload may change at any
time while the cases run, and stay changed. `Strict` is case6, where an unexpected empty outcome is
no result `CaseReport` accepts. The constructor of that class refuses a case6 that ended without
candidates in its budget, so such a run is reported as an unexpected failure.

*Migrations.* A caller that tries again is external (`Retry`). The primary key of the registry has no
action: a constructor that is about to register a version finds no row of it
(`TransactionInvariant`, proved), so the INSERT is never refused.

*Start-up events.* A forgetting that fails in the clean-up has told of its adoption or not, and of a failed
transaction or, if its clock failed, of none (`CleanupStages`). The telemetry clock and the sink work unless observability is invalid; a sink
that raises loses the one event it is offered, and no step of the program reads the outcome.

## 3. Runs

| Run | Instance and bounds | What it shows |
|---|---|---|
| `store` | three explicit memories of one slot (a chain of replacements), a legacy row that holds a key already, two users, two instants | any order of transactions keeps both audits and every committed fact, and is a life as `MemoryLifecycle` allows; `StoreInvariant`, the inductive invariant, is checked too |
| `faiss` | two instances, two ids, two faults (a crash, a failed step, or a damaged file) | acknowledged changes stand; an instance serves what it acknowledged; refinement of `VectorIndex`; a torn pair is repaired |
| `faiss_cleanup` | the same without faults | a *violation*: finding 1 |
| `service` | one service, two users, one retrieving thread, a legacy tombstone, a memory that expires and its replacement, whose `valid_from` may lie ahead, three faults | the index follows the store; forgetting erases; retrieval is authorised |
| `service_replacement` | as `service`, without readers, two faults | a *violation*: finding 2 |
| `two_services` | two services of one process, a legacy tombstone whose mapping may be restored, one fault | neither loses or revives the other's vectors; the lock is always released; forgettings and admissions that failed are completed by restarts and retries |
| `migrations` | two constructors, two restarts, the release, an older one and one with an edited script; three versions as the package has, with one or two statements | whole migrations, once, in order, of one release; start-ups return |
| `selection` | three memories, scores below, at and above the threshold, two times, two authorities, counts 0 to 2, a budget of 0 or 1 | the context is exact, in order, and every hit is accounted for |
| `startup_events` | every entry point, at most two pending forgettings | one terminal event, of the right result; each mismatch told once |
| `startup_terminal` | the same | a *violation*: finding 3 |
| `operation_events` | two callers, four requests under one key: with and without a target, accepted and rejected by the policy | one terminal event each, of the right name; mismatches told; rejected content untouched; answers agree with the row |
| `evaluation` | three cases, one of them strict | exit code 0 means verified; a failure is told and keeps the observations |

Why the bounds are enough. Two ids are needed for a generation that is wrong in content but not
in size, and two instances for stale memory. A lost or doubled publication needs one fault between
the store and the index and at most another while it is repaired; three
allow a failed repair as well. Links between memories are pairwise, and a chain of three
replacements is the shortest in which a cycle could close through an intermediate memory. Races of
migrations are between a transaction and one waiter. In `RetrievalSelection` three hits are the
least for an exclusion between two inclusions. In `OperationEvents` a second caller is needed for an
answer that another workflow could overtake, and the exceptions at each stage are all classes the
code tells apart. Three cases are the least with one before, one at and one after a failure. `CHECK_DEADLOCK FALSE` is set where the system
stops: no request or start-up is left to make (`store`, `service_replacement`,
`two_services`, `migrations`, `selection`, `startup_*`, `evaluation`).

Damage in `two_services` is restricted to torn files. When *both* files disappear under two running
services, `add` continues from the memory of one instance and leaves out what the other published,
until the next start-up rebuilds the generation. The code says that memory is the source in that
case, so this is a limit and no finding; it is listed among the hazards.

### Fairness

- `MemoryService`: `WF(JobStep)`. The thread that holds the lock is scheduled; failures may
  strike at each of its steps; it is enough for `LockReleased`. `OperatedSpec` adds what the library
  leaves to its user, as strong fairness: the process is restarted now and then, a start-up is
  carried on and tried again, and a caller repeats its admission until it is answered. Strong,
  because other workflows keep taking the lock between the attempts. `ForgettingsComplete` rests on the
  restarts alone and `RetriesSucceed` on the retries; the former speaks of forgettings whose id is
  known, since an operator who never restores a lost mapping cannot be helped.
- `FaissVectorIndex`: `WF(CallStep)`, for the same reason, and `WF(Restart)`: a service that does not
  compose is composed again. The second is an assumption about the operator and is used by
  `TornPairRepaired` alone.
- `Migrations`: `WF(Proceed(s))`. Threads are scheduled, and a start-up that failed is tried again
  (`Retry`); `StartUpsReturn` excepts databases of another release.

### Findings

1. `faiss_cleanup`. The constructor of an index deletes every temporary of the directory
   (`infrastructure/faiss_index.py:449`) without the process lock. It takes away the temporaries of a
   publication that another instance has in progress, which then fails, possibly half-way. The
   documentation speaks of stale temporaries and supports several instances in a process. The
   run `faiss` shows that nothing acknowledged is lost by it.
2. `service_replacement`. `acknowledge_supersession` does not look at the tombstone of the
   replacement. A replacement forgotten while its acknowledgement was pending still supersedes its
   target when its admission is retried: the owner keeps neither memory as current.
3. `startup_terminal`. With an empty model name or a dimension below 1, the terminal event
   carries metadata that `MemoryEvent` rejects, and the isolation of events drops it: the
   invocation offers `configuration_failed` and no terminal event.

## 4. Proofs

`MemoryRepositoryProofs` proves of `MemoryRepository!Spec`, for all sets of memories, users,
keys, slots and instants:

- `StoreInvariantHolds`: `StoreInvariant` is an invariant. The audits (`IdentityAudit`,
  `RelationshipAudit`) are not inductive alone. A new admission needs to know that rows that are not
  stored have no trace (`UnstoredRowsBlank`), and that the next vector id is above all ids any
  row still claims, completed forgettings included (`ClaimedIdsIssued`). Their conjunction with
  `TypeOK` is inductive. There is one lemma for each transaction and frame lemmas for the
  conjuncts a transaction does not touch. Absence of cycles is stated with sets (every non-empty
  set of rows has a member that supersedes nothing in it), which needs no recursion:
  a transaction adds one edge out of a row that nothing supersedes, so a set that contains it still has such
  a member (`SupersessionKeepsAcyclic`).
- `StoreTyped`, `IdentityAuditAccepts`, `RelationshipAuditAccepts`: its parts.
- `FactsAreFinal`: `CommittedFactsAreFinal`, from the same invariant.

`MemoryServiceProofs` proves of `MemoryService!ServiceSpec`, for any number of services, readers and
faults: `ServiceImplementsStore` (each step is one transaction or leaves the rows alone), and from it
`ServiceKeepsStoreInvariant`, `ServiceKeepsFacts` and `StartUpIsNeverRefused` (the audit a start-up
begins with accepts every reachable store).

`MemoryRepositoryProofs` and `MemoryServiceProofs` also prove that the store and the service implement
`MemoryLifecycle` (`StoreImplementsLifecycle`, `ServiceImplementsLifecycle`): each transaction is one step of
a life under the mapping `Phase`, or changes nothing of it. The invariant is used where a phase
depends on what the transaction did not look at; for instance that only indexed memories expire.

`MemoryServiceProofs` proves further that index and store stay together, for any number of services,
readers, memories and faults: `IndexedAreDurable`, `ForgottenStayErased`, `ServedFollowsStore`,
`RetrievalsAreAuthorised` and `ServiceTyped`. None of these properties is inductive. A generation that
holds every indexed memory says nothing of the one that is being published, nor of the memory whose
publication was acknowledged by the index and not yet by the store. `WorkInvariant` therefore speaks of the
ids that are *needed* (indexed rows, replacements in the cache of a service, the memory of an
admission about to be acknowledged) and of those that are *gone* (completed forgettings, the memory of a
forgetting whose removal was verified, all items of a recovery in its clean-up). Every generation, durable,
being published or served by a single service, holds what is needed and nothing that is gone; the one being
published also has what its workflow is about to claim. With it goes what the holder of the lock knows
of its row and its service (`JobInvariant`), which no other step can disturb because of the lock. There is
one lemma for each way a step can touch the index: it leaves it alone (`BesideIndex`), it begins a
publication (`Begun`), a publication is acknowledged (`ServiceLoads`, `RecoveryRepairs`). For the
retrievals, which hold no lock, `AllowedAreClaimed` says that an id of an allowlist still belongs to the memory it was read
for, by its mapping or by its completed forgetting (`ClaimsStay`), so that hydration cannot meet another
memory under that id. `RetrievalIsAuthorised` writes out what a delivered memory has to be, with both bounds
of its validity, and uses none of the predicates the steps use. Two hypotheses are stated with the theorems: `Marks` (the three marks of an index
that has no generation are no sets of ids; TLC cannot evaluate it, as it compares model values with
sets) and `DamageLimit` (files are only lost or torn, and both are lost only under one service, see section 3).
`ServedFollowsStore` also assumes that service to be the only one.

`FaissVectorIndexProofs` proves of `FaissVectorIndex!Spec`, for any ids, instances and faults: `FaissTyped`,
`AcknowledgedStand`, `OwnServed` and `FaissImplementsIndex`. The acknowledgements are kept because more agrees with
them than the pair that verifies: the content being published does (`StandingInvariant`), from the step that
begins a call on, when what was said of the ids it is asked for is withdrawn; so a pair half replaced verifies with an old or a new content that both
agree. Without a pair nothing stands, and memory may be the source. `CallInvariant` says how far a call has come
with the files, and gives the refinement: the first replacement makes the pair torn or the new generation, the
second always the new one; writing and deleting temporaries is unseen. The lemmas on contents say that removing an id removes
that id alone (`WithoutContent`), that adding one adds it once (`WithLastContent`), and that an inventory in the order of
its ids is a content of those ids (`InOrderContent`, by the injection of each id to the number of smaller ones).

`MigrationsProofs` proves of `Migrations!Spec`, for any releases, scripts, constructors and restarts:
`RegistryIsTrue`, `StartUpsMatch` and `MigrationsAreOrdered`. What must be known besides the property is
what the open transaction holds (`TransactionInvariant`: its writer is the constructor that executes a
script; it differs from the database in that script alone, by as many statements as were executed; a
constructor that lost its race sees the whole script and has executed none of it) and what a
constructor has already seen (`ProgressInvariant`). The heart is `ExecuteFacts`: since a script
begins with DDL, the first statement of one that is already applied is refused, so nothing is executed
twice although the lookup was made outside the transaction.

`FixedWorkloadEvaluationProofs` proves `SuccessIsAlwaysVerified`, `FailureIsAlwaysTold` and
`ObservationsAreAlwaysKept` of `FixedWorkloadEvaluation!Spec`, for any number of cases and whatever fails. The
invariant says that the cases run in order, what the records of finished, current and later cases hold, and
what is known at each step of the command when it may fail.

`OperationEventsProofs` proves `TerminalEach`, `MismatchFirst`, `RejectedUntouched` and `AnswersTellTheRow` of
`OperationEvents!Spec`, for any callers, requests and failures. That no stage is told twice holds because no workflow
returns to an earlier stage: stages have a rank, and the events told so far are of ranks below that of the step
to come (`Tidy`); a memory is created at one of two ranks, by its request. The invariant also says that every
answer fits the profile of its event (`Answered`), that the lock is held by the writer under way (`LockOK`),
and what this writer knows of the row (`Knows`), which makes its answer true: `StageFails` reports a pending
row from stages that are reached with a pending row only. There is one lemma for each way a step ends
(`Going`, `Returning`, `Raising`), and one for each group of actions.

`RetrievalSelectionProofs` proves the four invariants of `RetrievalSelection!Spec`, for any memories, scores,
limits and budgets and whatever the tokenizer counts: `HitsAreAccountedFor`, `TokenCountIsExact`,
`ContextIsTheBest` and `BudgetExclusionsHold`. They speak of a finished retrieval, and the invariant
(`SelectionInvariant`) of every turn of the loop before: no memory outside the hits scores better than a hit
(`HitsAreTheBest`); each hit is below the threshold, in the context, left out, or still waiting, and their numbers
add up (`HitsAreDivided`); those that wait are in the order of the ranking and behind all that were tried
(`RankingIsKept`). `ExclusionsWereCounted` keeps, for each memory out of budget, the prefix of the context it was
counted behind: later inclusions only append, so the prefix stays, and what is counted later is another
context (`OtherContext`). Rankings rest on one lemma about sorting: a finite set with a strict total order has a
sequence in that order, each element at the place given by the number of elements before it (`Ranking`), and
only one (`OneSequence`, from which `RankingIsDeterministic` follows).

`StartupEventsProofs` proves the four invariants of `StartupEvents!Spec`, for any number of pending forgettings and
whatever fails: `OneTerminalEvent`, `MismatchIsToldOnce`, `TerminalIsTrue` and `ReadyTellsNoFailure`. All but the last
speak of the end of an invocation, and the invariant (`StartUpInvariant`) says what has been offered at each step before:
nothing before a recovery; during it its stages, and every mismatch it met (`DuringRecovery`); after it
its terminal event behind the stages, and what its result says of them (`AfterRecovery`). The start-up
around it knows of mismatches only by `recovery_configuration_handled`, so `WhenFailing` says that the mismatches met are the
ones told and, if `ReportsMismatch` holds, the one about to be told; it needs to know which reason
`failure_reason` names at each step (`FallbackOfStep`). Numbers of events are cardinalities, which add when events are
appended (`CountConcat`). `StartUpsAreBounded` is a variant: every step counts down the steps that are left, 12 at
the start and one for each pending forgetting, so that no failure and no forgetting keeps a start-up
going. That it does end needs fairness besides, and is not claimed.

Assumptions: `IdsAssumption`, `BoundAssumption` and the `MarksAssumption` of `FaissVectorIndex` (finitely many positive ids; what stands for no file, call or
generation is none), `AttributesAssumption` (the constants have their types; instants are naturals),
`NullAssumption` (NULL is no memory, number or state), `LegacyAssumption` (the primary key of the
idempotency table held before migration 0003), `TargetAssumption` (a request names one target or none),
`ReleaseAssumption` (a release has between one and all of the versions), `ScriptsAssumption` (every script
begins with a CREATE or an ALTER TABLE, as the three of the package do), `MarksAssumption` (what is under way
is not `Idle`, the adapter of a recovery is no service), `CaseAssumption` and the
`NullAssumption` of the evaluation (its constants have their types and null is none of its values),
`RequestAssumption` and `NullAssumption` of the events of operations (the targeted and the rejected requests are
requests; null is no caller, request, row or exception), `RequestAssumption` and `MemoryAssumption` of the
selection (a limit is positive, a budget is not negative; memories are finitely many and numbered, scores, instants and
counts are numbers, and what is not there is no instant), `CleanupsAssumption` (a number of forgettings).
TLC evaluates each of them.

Every safety property of a passing run is stated by a theorem above. Checked by TLC only: liveness
(`TornPairRepaired`, `LockReleased`, `ForgettingsComplete`, `RetriesSucceed`, `StartUpsReturn`), which rests on fairness
and `ENABLED`, both out of the prover's reach; and the three properties that are violated, whose counterexamples TLC finds.

## 5. Plan

The order was: store (everything rests on its rows), index, service over both, migrations,
selection, events of start-ups; then the lives of memories, the events of operations, the
evaluation; the proofs of each after its runs, those of selection and start-up events last. What is
left: the depth-first audit of links as an algorithm, compared with `NoSupersessionCycle`, and the demonstrations of the command line.

Not modelled, and why: normalisation, credential patterns and fingerprints are functions of strings and
change no state (requests are distinguished by what these functions make of them); the embedder and the
token counter wrap libraries, and their failures are failed calls; the pseudonymisation of users and the
serialisation of event lines carry no state; the demonstrations call the service in a fixed order on
fixed texts, and the checks of an evaluation case are comparisons of texts whose outcome the model
chooses; scores and the numerical part of FAISS are inputs of the selection.
