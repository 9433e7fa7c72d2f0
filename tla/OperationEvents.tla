---------------------------- MODULE OperationEvents ----------------------------
(***************************************************************************)
(* What an admission, a retrieval or a forgetting tells: its answer to the *)
(* caller and the events it offers to the sink (application/service.py,    *)
(* application/events.py, domain/admission.py).                            *)
(*                                                                         *)
(* Callers work on one idempotency key and the memory admitted under it,   *)
(* and any port may fail at any stage.  The store and the index are that   *)
(* memory's row; MemoryRepository and MemoryService model them in full.    *)
(* The sink, its clock and its key work: calls to them are isolated, and   *)
(* no step reads what became of an event.                                  *)
(***************************************************************************)
EXTENDS Naturals, Sequences, SequencesExt

CONSTANTS
    Callers,
    Requests,    \* requests under the key that differ in their fingerprint
    Targeted,    \* those with a supersedes_memory_id
    Sensitive,   \* those the credential policy rejects or cannot scan
    Null

ASSUME RequestAssumption == Targeted \subseteq Requests /\ Sensitive \subseteq Requests

Rows ==
    [request : Requests, indexing : {"pending", "failed", "indexed"},
     cleanup : {Null, "cleanup_pending", "complete"}, mapped : BOOLEAN]

\* What a port raises, and the exceptions configuration_failed is told of.
PortErrors == {"storage", "indexing", "configuration", "other"}
MismatchErrors == {"configuration", "invalid_tokenizer_configuration"}
Mismatch(error) == error \in MismatchErrors

\* Null is no caller, no request, no row and no exception.
ASSUME NullAssumption ==
    /\ Null \notin Callers /\ Null \notin Requests /\ Null \notin Rows
    /\ Null \notin MismatchErrors

VARIABLES
    row,        \* [request, indexing, cleanup, mapped] of the memory, or Null
    published,  \* it is in _known_published_supersessions
    lock,       \* the caller that holds PROCESS_WRITE_LOCK, or Null
    inv         \* the invocation of each caller

vars == <<row, published, lock, inv>>

Called(op, input, step) ==
    [op |-> op, input |-> input, step |-> step, answer |-> Null, events |-> <<>>]

\* Nothing was admitted, or a database of the older schema holds the memory,
\* soft-deleted and without a vector id.
Init ==
    /\ row \in {Null} \cup
         {[request |-> r, indexing |-> "indexed", cleanup |-> "cleanup_pending",
           mapped |-> FALSE] : r \in Requests \ Sensitive}
    /\ published = FALSE
    /\ lock = Null
    /\ inv = [c \in Callers |-> Called(Null, Null, "done")]

-----------------------------------------------------------------------------
(* Answers and events.                                                     *)

\* The outcome, the reason told, whether the memory is named, the indexing
\* state reported and the exception raised.
Reply(outcome, reason, named, indexing, error) ==
    [outcome |-> outcome, reason |-> reason, named |-> named, indexing |-> indexing,
     error |-> error]
Answer(outcome, reason, named) == Reply(outcome, reason, named, Null, Null)
Accepted(reason, indexing) == Reply("accepted", reason, TRUE, indexing, Null)

\* Mutant: a ValidationError of a retrieval is told like any other exception.
ApplicationErrorReasonUntold(op, error) ==
    CASE error = "configuration" -> "configuration_mismatch"
      [] error = "storage"       -> "storage_failure"
      [] error = "indexing"      -> "indexing_failed"
      [] op = "admission" /\ error \notin PortErrors -> error
      [] OTHER -> "operation_failed"

\* The reason of an admission or a retrieval, from exception tests of its own:
\* what _observe_configuration_error tests is Mismatch.  The ValidationErrors
\* are the errors that no port raises.
ApplicationErrorReason(op, error) ==
    CASE error = "configuration" -> "configuration_mismatch"
      [] error = "storage"       -> "storage_failure"
      [] error = "indexing"      -> "indexing_failed"
      [] op = "retrieval" /\ error = "invalid_tokenizer_configuration" ->
           "configuration_mismatch"
      [] op = "admission" /\ error \notin PortErrors -> error
      [] OTHER -> "operation_failed"

\* The reason of a forgetting, which looks at no ValidationError.
ForgettingErrorReason(error) ==
    CASE error = "configuration" -> "configuration_mismatch"
      [] error = "storage"       -> "storage_failure"
      [] error = "indexing"      -> "indexing_failed"
      [] OTHER -> "operation_failed"

ErrorReason(op, error) ==
    IF op = "forgetting" THEN ForgettingErrorReason(error)
    ELSE ApplicationErrorReason(op, error)

Raised(op, error) == Reply("failed", ErrorReason(op, error), FALSE, Null, error)

IndexStages == {"embedding", "vector_add", "vector_search", "vector_remove"}
StorageStages ==
    {"idempotency_lookup", "supersession_lookup", "persist_pending", "mark_pending",
     "mark_failed", "mark_indexed", "acknowledge_supersession", "expiration_transition",
     "current_allowlist", "historical_allowlist", "current_hydration",
     "historical_hydration", "forgetting_lookup", "begin_forgetting",
     "acknowledge_forgetting"}

Completed(stage) ==
    <<IF stage \in IndexStages THEN "indexing_completed" ELSE "storage_completed", stage>>
Failed(stage) ==
    <<IF stage \in IndexStages THEN "indexing_failed" ELSE "storage_failed", stage>>

TerminalOf(op) ==
    CASE op = "admission"  -> "admission_completed"
      [] op = "retrieval"  -> "retrieval_completed"
      [] op = "forgetting" -> "forgetting_completed"

RetrievalOutcomes ==
    {"memories_selected", "no_eligible_memory", "no_relevant_memory", "budget_excluded"}

ProfileOutcomes(op) ==
    {"failed"} \cup
        CASE op = "admission"  -> {"accepted", "rejected"}
          [] op = "retrieval"  -> RetrievalOutcomes
          [] op = "forgetting" -> {"forgotten", "cleanup_pending", "not_found"}

\* Mutant: the profile lacks the answer to a repeated forgetting.
ForgettingReasonsOnce ==
    {"memory_not_found", "forgotten", "physical_cleanup_pending",
     "physical_cleanup_identity_pending"}

ForgettingReasons ==
    {"memory_not_found", "forgotten", "already_forgotten", "physical_cleanup_pending",
     "physical_cleanup_identity_pending"}

ProfileReasons(op) ==
    {"storage_failure", "indexing_failed", "configuration_mismatch", "operation_failed"} \cup
        CASE op = "admission"  ->
               {"accepted_and_indexed", "sensitive_admission_rejected",
                "invalid_admission_request", "idempotency_key_conflict",
                "invalid_supersession_target", "indexing_acknowledgement_failed",
                "supersession_acknowledgement_failed"}
          [] op = "retrieval"  -> RetrievalOutcomes
          [] op = "forgetting" -> ForgettingReasons

\* MemoryEvent rejects what does not fit the profile of its name; an event it
\* rejects is not offered.
Representable(op, answer) ==
    /\ answer.outcome \in ProfileOutcomes(op)
    /\ answer.reason \in ProfileReasons(op)
    /\ op = "forgetting" => answer.named = (answer.outcome \notin {"not_found", "failed"})

-----------------------------------------------------------------------------
(* The frame of a step.                                                    *)

At(c, step) == inv[c].step = step

\* The events of this step, then the step that follows, or the answer.
Goes(c, events, step) ==
    /\ inv' = [inv EXCEPT ![c].events = @ \o events, ![c].step = step]
    /\ UNCHANGED lock
Returns(c, events, answer) ==
    /\ inv' = [inv EXCEPT ![c].events = @ \o events, ![c].step = "told",
                          ![c].answer = answer]
    /\ lock' = IF lock = c THEN Null ELSE lock
Raises(c, events, error) == Returns(c, events, Raised(inv[c].op, error))

RowStays == UNCHANGED <<row, published>>

\* A call takes the lock where its first step needs it.
Locked(c, op, input, stage) ==
    /\ At(c, "done") /\ lock = Null
    /\ lock' = c
    /\ inv' = [inv EXCEPT ![c] = Called(op, input, stage)]
    /\ RowStays

\* _observe_configuration_error and the terminal event, after the lock.
Tell(c) ==
    /\ At(c, "told")
    /\ LET answer == inv[c].answer
           op == inv[c].op
           mismatch == IF Mismatch(answer.error)
                       THEN <<<<"configuration_failed", "configuration_mismatch">>>> ELSE <<>>
           terminal == IF Representable(op, answer)
                       THEN <<<<TerminalOf(op), answer.reason>>>> ELSE <<>>
       IN Goes(c, mismatch \o terminal, "done")
    /\ RowStays

\* What a workflow makes of the exception of a stage: an answer, or Null when
\* the exception is raised to the caller.
Caught(stage, error) ==
    CASE stage = "mark_failed" /\ error = "storage" -> Accepted("indexing_failed", "pending")
      [] stage = "mark_indexed" /\ error = "storage" ->
           Accepted("indexing_acknowledgement_failed", "pending")
      [] stage = "acknowledge_supersession" /\ error = "storage" ->
           Accepted("supersession_acknowledgement_failed", "pending")
      [] \/ stage = "vector_remove" /\ error = "indexing"
         \/ stage = "acknowledge_forgetting" /\ error = "storage" ->
           Answer("cleanup_pending", "physical_cleanup_pending", TRUE)
      [] OTHER -> Null

StageFails(c, error) ==
    LET stage == inv[c].step
        failed == <<Failed(stage)>>
    IN /\ stage \in StorageStages \cup IndexStages
       /\ IF stage = "vector_add" /\ error = "indexing" THEN Goes(c, failed, "mark_failed")
          ELSE IF Caught(stage, error) # Null THEN Returns(c, failed, Caught(stage, error))
          ELSE Raises(c, failed, error)
       /\ RowStays

\* A stage succeeds and changes nothing but the step.
Passes(c, stage, step) ==
    /\ At(c, stage)
    /\ Goes(c, <<Completed(stage)>>, step)
    /\ RowStays

-----------------------------------------------------------------------------
(* admit.                                                                  *)

Admit(c) == \E r \in Requests : Locked(c, "admission", r, "idempotency_lookup")

\* A request without a key or a fingerprint is refused before the lock.
AdmitMalformed(c) ==
    /\ At(c, "done")
    /\ inv' = [inv EXCEPT ![c] = [Called("admission", Null, "told") EXCEPT
                                    !.answer = Raised("admission", "invalid_admission_request")]]
    /\ UNCHANGED lock
    /\ RowStays

\* Mutant: the policy is asked only of requests without a target.
LookedUpNewUnasked(c) ==
    /\ At(c, "idempotency_lookup") /\ row = Null
    /\ LET done == <<Completed("idempotency_lookup")>>
       IN IF inv[c].input \in Sensitive \ Targeted
          THEN Returns(c, done, Answer("rejected", "sensitive_admission_rejected", FALSE))
          ELSE Goes(c, done, IF inv[c].input \in Targeted THEN "create" ELSE "embedding")
    /\ RowStays

\* The key is free: evaluate_credential_admission, then the record or the
\* embedding, whichever comes first.
LookedUpNew(c) ==
    /\ At(c, "idempotency_lookup") /\ row = Null
    /\ LET done == <<Completed("idempotency_lookup")>>
       IN IF inv[c].input \in Sensitive
          THEN Returns(c, done, Answer("rejected", "sensitive_admission_rejected", FALSE))
          ELSE Goes(c, done, IF inv[c].input \in Targeted THEN "create" ELSE "embedding")
    /\ RowStays

Matches(c) == At(c, "idempotency_lookup") /\ row # Null /\ row.request = inv[c].input
Retry == <<Completed("idempotency_lookup"), <<"admission_retry", "retry_started">>>>

LookedUpConflict(c) ==
    /\ At(c, "idempotency_lookup") /\ row # Null /\ ~ Matches(c)
    /\ Raises(c, <<Completed("idempotency_lookup")>>, "idempotency_key_conflict")
    /\ RowStays

\* An indexed row is answered as stored, forgotten or not; one that is not
\* indexed and has lost its mapping to a forgetting cannot be.
LookedUpStored(c) ==
    /\ Matches(c)
    /\ \/ /\ row.indexing = "indexed"
          /\ Returns(c, Retry, Accepted("accepted_and_indexed", "indexed"))
       \/ /\ row.indexing # "indexed" /\ ~ row.mapped
          /\ Raises(c, Retry, "storage")
    /\ RowStays

Resumed(c) ==
    IF inv[c].input \in Targeted /\ published THEN "acknowledge_supersession" ELSE "vector_add"

\* Mutant: a failed row is retried as if it were pending.
LookedUpWorkUnmarked(c) ==
    /\ Matches(c)
    /\ row.indexing # "indexed" /\ row.mapped
    /\ Goes(c, Retry, Resumed(c))
    /\ RowStays

LookedUpWork(c) ==
    /\ Matches(c)
    /\ row.indexing # "indexed" /\ row.mapped
    /\ Goes(c, Retry, IF row.indexing = "failed" THEN "mark_pending" ELSE Resumed(c))
    /\ RowStays

MarkPending(c) ==
    /\ At(c, "mark_pending")
    /\ row' = [row EXCEPT !.indexing = "pending"]
    /\ Goes(c, <<Completed("mark_pending")>>, Resumed(c))
    /\ UNCHANGED published

\* The clock and _new_memory, before the lookup of a target or after the
\* embedding.
CreateMemory(c) ==
    /\ At(c, "create")
    /\ Goes(c, <<>>, IF inv[c].input \in Targeted THEN "supersession_lookup"
                      ELSE "persist_pending")
    /\ RowStays

CreateFails(c) ==
    /\ At(c, "create")
    /\ \E error \in {"invalid_admission_request", "other"} : Raises(c, <<>>, error)
    /\ RowStays

FindTarget(c) == Passes(c, "supersession_lookup", "embedding")

TargetRefused(c) ==
    /\ At(c, "supersession_lookup")
    /\ Raises(c, <<Completed("supersession_lookup")>>, "invalid_supersession_target")
    /\ RowStays

EmbedContent(c) ==
    /\ inv[c].op = "admission"
    /\ Passes(c, "embedding", IF inv[c].input \in Targeted THEN "persist_pending" ELSE "create")

PersistPending(c) ==
    /\ At(c, "persist_pending")
    /\ row' = [request |-> inv[c].input, indexing |-> "pending", cleanup |-> Null,
               mapped |-> TRUE]
    /\ Goes(c, <<Completed("persist_pending")>>, "vector_add")
    /\ UNCHANGED published

AddVector(c) ==
    /\ At(c, "vector_add")
    /\ IF inv[c].input \in Targeted
       THEN published' = TRUE
            /\ Goes(c, <<Completed("vector_add")>>, "acknowledge_supersession")
       ELSE UNCHANGED published
            /\ Goes(c, <<Completed("vector_add")>>, "mark_indexed")
    /\ UNCHANGED row

\* The transactions that end an admission are rejected, a failure like any
\* other, unless the row is pending.
Acknowledge(c, stage, state) ==
    /\ At(c, stage) /\ row.indexing = "pending"
    /\ row' = [row EXCEPT !.indexing = state]
    /\ Returns(c, <<Completed(stage)>>,
               Accepted(IF state = "indexed" THEN "accepted_and_indexed" ELSE "indexing_failed",
                        state))

MarkFailed(c) == Acknowledge(c, "mark_failed", "failed") /\ UNCHANGED published
MarkIndexed(c) == Acknowledge(c, "mark_indexed", "indexed") /\ UNCHANGED published
AcknowledgeSupersession(c) ==
    Acknowledge(c, "acknowledge_supersession", "indexed") /\ published' = FALSE

-----------------------------------------------------------------------------
(* retrieve, which takes no lock.                                          *)

IsCurrent(c) == inv[c].input = "current"

Retrieve(c) ==
    /\ At(c, "done")
    /\ \E intent \in {"current", "historical"} :
          inv' = [inv EXCEPT ![c] = Called("retrieval", intent, "validate")]
    /\ UNCHANGED lock
    /\ RowStays

\* The request and the tokenizer, and for a current retrieval the clock.
ValidateRetrieval(c) ==
    /\ At(c, "validate")
    /\ \/ Goes(c, <<>>, IF IsCurrent(c) THEN "expiration_transition" ELSE "historical_allowlist")
       \/ \E error \in {"invalid_retrieval_query", "invalid_tokenizer_configuration"} :
             Raises(c, <<>>, error)
       \/ IsCurrent(c) /\ \E error \in {"configuration", "other"} : Raises(c, <<>>, error)
    /\ RowStays

ExpireMemories(c) == Passes(c, "expiration_transition", "current_allowlist")

Allowlist(c) ==
    \E stage \in {"current_allowlist", "historical_allowlist"} :
       \/ Passes(c, stage, "embedding")
       \/ /\ At(c, stage)
          /\ Returns(c, <<Completed(stage)>>,
                     Answer("no_eligible_memory", "no_eligible_memory", FALSE))
          /\ RowStays

EmbedQuery(c) == inv[c].op = "retrieval" /\ Passes(c, "embedding", "vector_search")

\* A hit outside the allowlist is an AuthorizationError.
Search(c) ==
    \/ Passes(c, "vector_search", IF IsCurrent(c) THEN "current_hydration"
                                  ELSE "historical_hydration")
    \/ /\ At(c, "vector_search")
       /\ Raises(c, <<Completed("vector_search")>>, "other")
       /\ RowStays

\* The hits are authorised, filtered, ranked and selected: RetrievalSelection.
Hydrate(c) ==
    \E stage \in {"current_hydration", "historical_hydration"} :
       /\ At(c, stage)
       /\ \/ \E outcome \in RetrievalOutcomes \ {"no_eligible_memory"} :
                Returns(c, <<Completed(stage)>>, Answer(outcome, outcome, FALSE))
          \/ \E error \in {"invalid_tokenizer_result", "other"} :
                Raises(c, <<Completed(stage)>>, error)
       /\ RowStays

-----------------------------------------------------------------------------
(* forget.                                                                 *)

\* Of the memory, or of one the caller does not own.
Forget(c) ==
    \E owned \in BOOLEAN : Locked(c, "forgetting", owned, "forgetting_lookup")

\* The step that follows once the forgetting is begun.
RemoveIf(c, mapped, events) ==
    IF mapped THEN Goes(c, events, "vector_remove")
    ELSE Returns(c, events, Answer("cleanup_pending", "physical_cleanup_identity_pending", TRUE))

FindForgettingTarget(c) ==
    /\ At(c, "forgetting_lookup")
    /\ LET done == <<Completed("forgetting_lookup")>>
       IN IF row = Null \/ inv[c].input = FALSE
          THEN Returns(c, done, Answer("not_found", "memory_not_found", FALSE))
          ELSE CASE row.cleanup = "complete" ->
                      Returns(c, done, Answer("forgotten", "already_forgotten", TRUE))
                 [] row.cleanup = "cleanup_pending" -> RemoveIf(c, row.mapped, done)
                 [] OTHER -> Goes(c, done, "requested_at")
    /\ RowStays

\* validate_trusted_utc of the clock, before each of the two transactions.
ReadClock(c) ==
    \/ At(c, "requested_at") /\ Goes(c, <<>>, "begin_forgetting") /\ RowStays
    \/ At(c, "completed_at") /\ Goes(c, <<>>, "acknowledge_forgetting") /\ RowStays

ClockFails(c) ==
    /\ At(c, "requested_at") \/ At(c, "completed_at")
    /\ \E error \in {"configuration", "other"} : Raises(c, <<>>, error)
    /\ RowStays

BeginForgetting(c) ==
    /\ At(c, "begin_forgetting")
    /\ row' = [row EXCEPT !.cleanup = "cleanup_pending"]
    /\ RemoveIf(c, row.mapped, <<Completed("begin_forgetting")>>)
    /\ UNCHANGED published

RemoveVector(c) == Passes(c, "vector_remove", "completed_at")

AcknowledgeForgetting(c) ==
    /\ At(c, "acknowledge_forgetting")
    /\ row' = [row EXCEPT !.cleanup = "complete", !.mapped = FALSE]
    /\ Returns(c, <<Completed("acknowledge_forgetting")>>, Answer("forgotten", "forgotten", TRUE))
    /\ UNCHANGED published

Next ==
    \E c \in Callers :
       \/ Admit(c) \/ AdmitMalformed(c) \/ Retrieve(c) \/ Forget(c)
       \/ LookedUpNew(c) \/ LookedUpConflict(c) \/ LookedUpStored(c) \/ LookedUpWork(c)
       \/ MarkPending(c) \/ CreateMemory(c) \/ CreateFails(c) \/ FindTarget(c)
       \/ TargetRefused(c) \/ EmbedContent(c) \/ PersistPending(c) \/ AddVector(c)
       \/ MarkFailed(c) \/ MarkIndexed(c) \/ AcknowledgeSupersession(c)
       \/ ValidateRetrieval(c) \/ ExpireMemories(c) \/ Allowlist(c) \/ EmbedQuery(c)
       \/ Search(c) \/ Hydrate(c)
       \/ FindForgettingTarget(c) \/ ReadClock(c) \/ ClockFails(c) \/ BeginForgetting(c)
       \/ RemoveVector(c) \/ AcknowledgeForgetting(c)
       \/ \E error \in PortErrors : StageFails(c, error)
       \/ Tell(c)

Spec == Init /\ [][Next]_vars

-----------------------------------------------------------------------------

Stages(c) == {inv[c].events[i][2] : i \in DOMAIN inv[c].events}
Ended(c) == At(c, "done") /\ inv[c].op # Null

\* Every invocation, however it ends, offers one terminal event, its own and
\* its last, and before it one event of each stage it attempted: no path, not
\* even a repeated call, answers with what the profiles cannot represent.
OneTerminalEach ==
    \A c \in Callers : Ended(c) =>
        LET events == inv[c].events
            terminals == {i \in DOMAIN events :
                            events[i][1] \in {"admission_completed", "retrieval_completed",
                                              "forgetting_completed"}}
        IN /\ terminals = {Len(events)}
           /\ Last(events) = <<TerminalOf(inv[c].op), inv[c].answer.reason>>
           /\ IsInjective(events)

\* configuration_failed is offered where a mismatch ended the invocation, next
\* to the terminal event that tells the mismatch, and nowhere else.
MismatchToldFirst ==
    \A c \in Callers : Ended(c) =>
        LET events == inv[c].events
        IN \A i \in DOMAIN events :
              i + 1 \in DOMAIN events =>
                 (events[i][1] = "configuration_failed"
                    <=> events[i + 1][2] = "configuration_mismatch"
                        /\ events[i + 1][1] = TerminalOf(inv[c].op))

\* Content the policy rejects is never stored, and reaches neither the
\* embedder nor the lookup of a target.
RejectedContentUntouched ==
    /\ row # Null => row.request \notin Sensitive
    /\ \A c \in Callers :
          inv[c].op = "admission" /\ inv[c].input \in Sensitive =>
              Stages(c) \cap {"supersession_lookup", "embedding", "persist_pending"} = {}

\* When a writer lets go of the lock, its answer is what the row then says:
\* the indexing state it reports, a forgetting complete or pending, the id of
\* the memory only for a memory that is stored.
AnswerTellsRow ==
    [][\A c \in Callers : lock = c /\ lock' = Null =>
          LET answer == inv'[c].answer
          IN /\ answer.indexing # Null => row' # Null /\ answer.indexing = row'.indexing
             /\ answer.outcome = "forgotten" => row'.cleanup = "complete"
             /\ answer.outcome = "cleanup_pending" => row'.cleanup = "cleanup_pending"
             /\ answer.outcome = "rejected" => row' = Null]_vars

=============================================================================
