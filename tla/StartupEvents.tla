----------------------------- MODULE StartupEvents -----------------------------
(***************************************************************************)
(* The events of a start-up or of a direct recovery: which are offered to  *)
(* the sink, in which order, and how they tell the result                  *)
(* (composition/__init__.py _run_startup, application/recovery.py,         *)
(* application/events.py MemoryEvent).                                     *)
(*                                                                         *)
(* One invocation, any step of which may fail.  The sink, the clock and    *)
(* the key work unless observability is "invalid"; a sink that raises      *)
(* loses what it is offered and nothing else, for no step reads it.        *)
(***************************************************************************)
EXTENDS Naturals, FiniteSets, Sequences, SequencesExt

CONSTANTS
    Null,
    MaxCleanups   \* bound on the pending forgettings of a recovery

ASSUME CleanupsAssumption == MaxCleanups \in Nat

VARIABLES
    entry,          \* "recover", "recovered" or "local": what was called
    observability,  \* "valid", or "invalid" (no key of 32 bytes)
    wellFormed,     \* the embedding model and dimension are a configuration
    step,
    inventory,      \* the last inventory: "ready" or "degraded", or Null
    cleanups,       \* pending forgettings left to complete
    rebuilt,
    incomplete,     \* _complete_forgetting gave up
    recovery,       \* the result of the recovery: <<readiness, reason>>
    fallback,       \* failure_reason of the start-up
    handled,        \* recovery_configuration_handled
    error,          \* the exception that is raised: <<class, reason>>
    mismatches,     \* configuration mismatches met so far (history)
    offered         \* the events offered to the sink: <<name, reason>>

observation == <<recovery, fallback, handled>>
work == <<inventory, cleanups, rebuilt, incomplete>>
call == <<entry, observability, wellFormed>>
vars == <<call, step, work, observation, error, mismatches, offered>>

InventoryReasons ==
    {"unavailable_sqlite_integrity", "unavailable_schema_or_migration",
     "unavailable_authoritative_identity", "unavailable_embedding_configuration"}
ReconcileReasons ==
    {"unavailable_rebuild", "unavailable_publication",
     "unavailable_post_publication_verification"}

Init ==
    /\ entry \in {"recover", "recovered", "local"}
    /\ observability \in {"valid", "invalid"}
    /\ wellFormed \in (IF entry = "local" THEN {TRUE} ELSE BOOLEAN)
    /\ step = "resolve"
    /\ inventory = Null
    /\ cleanups \in 0..MaxCleanups
    /\ rebuilt = FALSE
    /\ incomplete = FALSE
    /\ recovery = Null
    /\ fallback = "unavailable_rebuild"
    /\ handled = FALSE
    /\ error = Null
    /\ mismatches = 0
    /\ offered = <<>>

-----------------------------------------------------------------------------
(* Events.                                                                 *)

Offer(events) == offered' = offered \o events

\* MemoryEvent rejects a profile without its fields: recovery and start-up
\* events require a model name that is not empty and a positive dimension.
OfferTerminal(events, terminal) ==
    Offer(events \o (IF wellFormed THEN <<terminal>> ELSE <<>>))

Stage(name) == <<name, "operation_completed">>
ConfigurationFailed == <<"configuration_failed", "configuration_mismatch">>
MismatchIf(reported) == IF reported THEN <<ConfigurationFailed>> ELSE <<>>

\* The last stages of a recovery, and what _emit_terminal offers behind them.
OfferResult(stages, reason) ==
    OfferTerminal(stages \o MismatchIf(reason = "unavailable_embedding_configuration"),
                  <<"recovery_completed", reason>>)

-----------------------------------------------------------------------------
(* The start of a start-up.                                                *)

Goto(s) == step' = s

\* A direct recovery begins at its inventory.
BeginRecovery ==
    /\ step = "resolve" /\ entry = "recover" /\ observability = "valid"
    /\ Goto("inventory")
    /\ UNCHANGED <<call, work, observation, error, mismatches, offered>>

\* Refused before anything is done; a start-up offers what its sink can take.
RefuseObservability ==
    /\ step = "resolve" /\ observability = "invalid"
    /\ Goto("raised")
    /\ error' = <<"configuration", Null>>
    /\ mismatches' = mismatches + 1
    /\ \/ UNCHANGED offered
       \/ /\ entry # "recover"
          /\ OfferTerminal(<<ConfigurationFailed>>,
                           <<"startup_unavailable", "configuration_mismatch">>)
    /\ UNCHANGED <<call, work, observation>>

BeginStartUp ==
    /\ step = "resolve" /\ entry # "recover" /\ observability = "valid"
    /\ Goto(IF entry = "local" THEN "repository" ELSE "inventory")
    /\ fallback' = IF entry = "local" THEN "unavailable_schema_or_migration" ELSE fallback
    /\ UNCHANGED <<call, work, recovery, handled, error, mismatches, offered>>

OpenRepository ==
    /\ step = "repository"
    /\ Goto("models")
    /\ fallback' = "unavailable_embedding_configuration"
    /\ UNCHANGED <<call, work, recovery, handled, error, mismatches, offered>>

LoadModels ==
    /\ step = "models"
    /\ Goto("inventory")
    /\ fallback' = "unavailable_rebuild"
    /\ UNCHANGED <<call, work, recovery, handled, error, mismatches, offered>>

\* An exception of a constructor; a message that is no reason of the closed
\* vocabulary is Null.  A model that is not available counts as a mismatch.
Fail(class, reason) ==
    /\ Goto("failing")
    /\ error' = <<class, reason>>
    /\ mismatches' = IF class = "configuration" \/ (class = "unavailable" /\ step = "models")
                     THEN mismatches + 1 ELSE mismatches
    /\ UNCHANGED <<call, work, observation, offered>>

ConstructorFails ==
    \/ /\ step = "repository"
       /\ Fail("unavailable", "unavailable_schema_or_migration") \/ Fail("other", Null)
    \/ /\ step = "models"
       /\ Fail("configuration", Null) \/ Fail("unavailable", Null) \/ Fail("other", Null)
    \/ /\ step = "index"
       /\ Fail("configuration", Null) \/ Fail("unavailable", Null) \/ Fail("other", Null)
    \/ step = "service" /\ Fail("configuration", Null)

-----------------------------------------------------------------------------
(* RecoveryCoordinator.recover.                                            *)

\* The recovery ends with a result.
Finish(readiness, reason, stage) ==
    /\ recovery' = <<readiness, reason>>
    /\ OfferResult(<<stage>>, reason)
    /\ mismatches' = IF reason = "unavailable_embedding_configuration"
                     THEN mismatches + 1 ELSE mismatches
    /\ Goto("recovered")
    /\ UNCHANGED <<call, fallback, handled, error>>

\* A malformed configuration is refused before the database is read.
InventoryUnavailable ==
    /\ step \in {"inventory", "verify"}
    /\ \E reason \in IF wellFormed THEN InventoryReasons
                     ELSE {"unavailable_embedding_configuration"} :
          Finish("unavailable", reason, Stage("storage_completed"))
    /\ UNCHANGED work

\* Pending forgettings degrade the first inventory, and the second one if they
\* could not all be completed.
TakeInventory ==
    /\ step \in {"inventory", "verify"}
    /\ wellFormed
    /\ inventory' \in (IF cleanups > 0 THEN {"degraded"} ELSE {"ready", "degraded"})
    /\ Offer(<<Stage("storage_completed")>>)
    /\ Goto(IF step = "inventory" THEN "reconcile" ELSE "reconcile_again")
    /\ UNCHANGED <<call, cleanups, rebuilt, incomplete, observation, error, mismatches>>

Result(publication) ==
    IF incomplete \/ inventory = "degraded"
    THEN <<"degraded", "degraded_excluded_work_pending">>
    ELSE <<"ready", IF publication THEN "ready_rebuilt_generation" ELSE "ready_existing_generation">>

Reconcile ==
    /\ step = "reconcile"
    /\ \E published \in BOOLEAN :
         /\ rebuilt' = published
         /\ IF cleanups > 0 \/ published
            THEN /\ Goto(IF cleanups > 0 THEN "cleanup" ELSE "verify")
                 /\ Offer(<<Stage("indexing_completed")>>)
                 /\ UNCHANGED <<call, observation, error, mismatches>>
            ELSE Finish(Result(FALSE)[1], Result(FALSE)[2], Stage("indexing_completed"))
    /\ UNCHANGED <<inventory, cleanups, incomplete>>

ReconcileAgain ==
    /\ step = "reconcile_again"
    /\ \E published \in BOOLEAN :
          Finish(Result(rebuilt \/ published)[1], Result(rebuilt \/ published)[2],
                 Stage("indexing_completed"))
    /\ UNCHANGED work

\* Mutant: a failed publication is left to the verification that follows.
ReconcileFailureIgnored ==
    /\ step = "reconcile"
    /\ rebuilt' = TRUE
    /\ Offer(<<Stage("indexing_failed")>>)
    /\ Goto("verify")
    /\ UNCHANGED <<call, inventory, cleanups, incomplete, observation, error, mismatches>>

ReconcileFails ==
    /\ step \in {"reconcile", "reconcile_again"}
    /\ \E reason \in ReconcileReasons :
          Finish("unavailable", reason, Stage("indexing_failed"))
    /\ UNCHANGED work

\* A pending forgetting is completed, after its id was adopted or not.
CompleteForgetting ==
    /\ step = "cleanup" /\ cleanups > 0
    /\ \E adopted \in {<<>>, <<Stage("storage_completed")>>} :
          Offer(adopted \o <<Stage("storage_completed")>>)
    /\ cleanups' = cleanups - 1
    /\ Goto(IF cleanups = 1 THEN "verify" ELSE step)
    /\ UNCHANGED <<call, inventory, rebuilt, incomplete, observation, error, mismatches>>

\* One without any vector id is passed over, and stays pending.
PassOver ==
    /\ step = "cleanup"
    /\ Goto("verify")
    /\ UNCHANGED <<call, work, observation, error, mismatches, offered>>

\* What a forgetting tells before it fails: its id was adopted or not, and what
\* failed was a transaction, or the clock, which is no stage.
CleanupStages ==
    {adopted \o failed : adopted \in {<<>>, <<Stage("storage_completed")>>},
                         failed \in {<<>>, <<Stage("storage_failed")>>}}

\* The clock is not trusted, or a transaction fails: the rest is left.
CleanUpFails ==
    /\ step = "cleanup"
    /\ incomplete' = TRUE
    /\ \E stages \in CleanupStages :
          \/ Offer(stages) /\ UNCHANGED mismatches
          \/ Offer(stages \o <<ConfigurationFailed>>) /\ mismatches' = mismatches + 1
    /\ Goto("verify")
    /\ UNCHANGED <<call, inventory, cleanups, rebuilt, observation, error>>

\* What the step tells before its exception leaves the recovery.
StagesOfFailure ==
    CASE step \in {"inventory", "verify"} -> {<<Stage("storage_failed")>>}
      [] step = "cleanup" -> CleanupStages
      [] step \in {"reconcile", "reconcile_again"} -> {<<Stage("indexing_failed")>>}

\* A port raises something the coordinator does not classify.
RecoveryRaises ==
    /\ \/ step \in {"inventory", "verify"} /\ wellFormed
       \/ step \in {"cleanup", "reconcile", "reconcile_again"}
    /\ \E class \in {"configuration", "other"} :
         /\ step = "cleanup" => class = "other"
         /\ error' = <<class, Null>>
         /\ mismatches' = IF class = "configuration" THEN mismatches + 1 ELSE mismatches
         /\ handled' = (class = "configuration")
         /\ \E stages \in StagesOfFailure :
               OfferResult(stages, IF class = "configuration"
                                   THEN "unavailable_embedding_configuration"
                                   ELSE "unavailable_rebuild")
    /\ Goto(IF entry = "recover" THEN "raised" ELSE "failing")
    /\ UNCHANGED <<call, work, recovery, fallback>>

-----------------------------------------------------------------------------
(* The end.                                                                *)

\* Mutant: the start-up does not remember that recovery reported it.
RecoveryDoneUnhandled ==
    /\ step = "recovered" /\ entry # "recover"
    /\ IF recovery[1] = "unavailable"
       THEN /\ error' = <<"unavailable", recovery[2]>>
            /\ Goto("failing")
            /\ UNCHANGED fallback
       ELSE /\ Goto("index")
            /\ fallback' = "unavailable_post_publication_verification"
            /\ UNCHANGED error
    /\ UNCHANGED <<call, work, recovery, handled, mismatches, offered>>

RecoveryDone ==
    /\ step = "recovered" /\ entry # "recover"
    /\ handled' = (recovery[2] = "unavailable_embedding_configuration")
    /\ IF recovery[1] = "unavailable"
       THEN /\ error' = <<"unavailable", recovery[2]>>
            /\ Goto("failing")
            /\ UNCHANGED fallback
       ELSE /\ Goto("index")
            /\ fallback' = "unavailable_post_publication_verification"
            /\ UNCHANGED error
    /\ UNCHANGED <<call, work, recovery, mismatches, offered>>

DirectRecoveryReturns ==
    /\ step = "recovered" /\ entry = "recover"
    /\ Goto("returned")
    /\ UNCHANGED <<call, work, observation, error, mismatches, offered>>

OpenIndex ==
    /\ step = "index"
    /\ Goto("service")
    /\ fallback' = "unavailable_rebuild"
    /\ UNCHANGED <<call, work, recovery, handled, error, mismatches, offered>>

\* Mutant: a service that is exposed is reported ready.
StartUpReturnsReady ==
    /\ step = "service"
    /\ OfferTerminal(<<>>, <<"startup_ready", recovery[2]>>)
    /\ Goto("returned")
    /\ UNCHANGED <<call, work, observation, error, mismatches>>

StartUpReturns ==
    /\ step = "service"
    /\ OfferTerminal(<<>>, <<IF recovery[1] = "ready" THEN "startup_ready" ELSE "startup_degraded",
                             recovery[2]>>)
    /\ Goto("returned")
    /\ UNCHANGED <<call, work, observation, error, mismatches>>

\* _emit_startup_failure: a mismatch recovery reported is not offered again.
ReportsMismatch(reason) ==
    /\ ~ handled
    /\ \/ error[1] = "configuration"
       \/ error[1] = "unavailable" /\ reason = "unavailable_embedding_configuration"

\* Mutant: only exceptions with a reason of their own are reported.
StartUpRaisesKnown ==
    /\ step = "failing"
    /\ IF error[2] = Null THEN UNCHANGED offered
       ELSE OfferTerminal(MismatchIf(ReportsMismatch(error[2])),
                          <<"startup_unavailable", error[2]>>)
    /\ Goto("raised")
    /\ UNCHANGED <<call, work, observation, error, mismatches>>

StartUpRaises ==
    /\ step = "failing"
    /\ LET reason == IF error[2] # Null THEN error[2] ELSE fallback
           told == IF error[1] = "configuration" THEN "configuration_mismatch" ELSE reason
       IN OfferTerminal(MismatchIf(ReportsMismatch(reason)), <<"startup_unavailable", told>>)
    /\ Goto("raised")
    /\ UNCHANGED <<call, work, observation, error, mismatches>>

Next ==
    \/ BeginRecovery \/ RefuseObservability \/ BeginStartUp
    \/ OpenRepository \/ LoadModels \/ ConstructorFails
    \/ InventoryUnavailable \/ TakeInventory \/ Reconcile \/ ReconcileAgain
    \/ ReconcileFails \/ CompleteForgetting \/ PassOver \/ CleanUpFails \/ RecoveryRaises
    \/ RecoveryDone \/ DirectRecoveryReturns \/ OpenIndex \/ StartUpReturns \/ StartUpRaises

Spec == Init /\ [][Next]_vars

-----------------------------------------------------------------------------

Ended == step \in {"returned", "raised"}
Offered(names) == Cardinality({i \in DOMAIN offered : offered[i][1] \in names})

StageEvents == {"storage_completed", "storage_failed", "indexing_completed", "indexing_failed"}
StartupEventNames == {"startup_ready", "startup_degraded", "startup_unavailable"}
Terminal == IF entry = "recover" THEN {"recovery_completed"} ELSE StartupEventNames

\* A start-up offers one start-up event, whatever failed and where, a recovery
\* it began one recovery_completed after all of its stages, and the terminal
\* event of the invocation comes last.
ExactlyOneTerminal ==
    Ended /\ observability = "valid" /\ wellFormed =>
        /\ Offered(StartupEventNames) = IF entry = "recover" THEN 0 ELSE 1
        /\ Offered({"recovery_completed"}) = IF Offered(StageEvents) > 0 THEN 1 ELSE 0
        /\ Last(offered)[1] \in Terminal
        /\ \A i, j \in DOMAIN offered :
              offered[i][1] = "recovery_completed" /\ offered[j][1] \in StageEvents => j < i

\* Every configuration mismatch is offered once: recovery reports the ones it
\* meets, and the start-up around it only those recovery did not report.
MismatchToldOnce ==
    Ended /\ observability = "valid" => Offered({"configuration_failed"}) = mismatches

\* The terminal event tells the caller's result: a service was exposed, with
\* the readiness of its recovery, or an exception was raised, and
\* configuration_mismatch is told only after a mismatch was.
TerminalTellsResult ==
    Ended /\ observability = "valid" /\ wellFormed /\ entry # "recover" =>
        LET told == Last(offered)
        IN /\ (told[1] = "startup_unavailable") <=> (step = "raised")
           /\ told[1] = "startup_ready" => recovery[1] = "ready"
           /\ told[1] = "startup_degraded" => recovery[1] = "degraded"
           /\ told[2] = "configuration_mismatch" => Offered({"configuration_failed"}) > 0

\* A recovery is ready only if no stage of it failed and no mismatch was met.
ReadyMeansNoFailure ==
    recovery # Null /\ recovery[1] = "ready" /\ step = "recovered" =>
        Offered({"storage_failed", "indexing_failed", "configuration_failed"}) = 0

\* "each direct recovery invocation emits exactly one recovery_completed; and
\* each composed startup emits exactly one" start-up event, also for a
\* configuration the recovery refuses.
TerminalForEveryInvocation ==
    Ended /\ observability = "valid" => Offered(Terminal) = 1

=============================================================================
