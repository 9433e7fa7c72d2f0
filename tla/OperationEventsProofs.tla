------------------------ MODULE OperationEventsProofs ------------------------
(***************************************************************************)
(* Any number of callers, requests and failures: every invocation tells    *)
(* one terminal event, of what happened, and answers what the row says.    *)
(***************************************************************************)
EXTENDS OperationEvents, TLAPS

-----------------------------------------------------------------------------
(* The order of an invocation.                                             *)

Ops == {"admission", "retrieval", "forgetting"}
AdmissionSteps ==
    {"idempotency_lookup", "mark_pending", "create", "supersession_lookup", "embedding",
     "persist_pending", "vector_add", "mark_failed", "mark_indexed",
     "acknowledge_supersession"}
RetrievalSteps ==
    {"validate", "expiration_transition", "current_allowlist", "historical_allowlist",
     "embedding", "vector_search", "current_hydration", "historical_hydration"}
ForgettingSteps ==
    {"forgetting_lookup", "requested_at", "begin_forgetting", "vector_remove",
     "completed_at", "acknowledge_forgetting"}

\* A stage comes after all stages of a smaller rank.
Rank(stage) ==
    IF stage \in {"idempotency_lookup", "validate", "expiration_transition",
                  "forgetting_lookup"} THEN 1
    ELSE IF stage \in {"retry_started", "current_allowlist", "historical_allowlist",
                       "requested_at", "begin_forgetting"} THEN 2
    ELSE IF stage \in {"mark_pending", "vector_remove"} THEN 3
    ELSE IF stage \in {"supersession_lookup", "completed_at", "acknowledge_forgetting"} THEN 4
    ELSE IF stage = "embedding" THEN 5
    ELSE IF stage \in {"persist_pending", "vector_search"} THEN 6
    ELSE IF stage \in {"vector_add", "current_hydration", "historical_hydration"} THEN 7
    ELSE IF stage \in {"mark_failed", "mark_indexed", "acknowledge_supersession"} THEN 8
    ELSE 9

\* The least rank of the stages to come.  A memory is created before the
\* lookup of a target, or after the embedding.
Due(step, input) ==
    IF step = "create" THEN IF input \in Targeted THEN 4 ELSE 6 ELSE Rank(step)

StageKinds ==
    {"storage_completed", "storage_failed", "indexing_completed", "indexing_failed",
     "admission_retry"}
StageNames == StorageStages \cup IndexStages \cup {"retry_started"}
Events == StageKinds \X StageNames

\* Events of stages, none twice, of ranks from the one to below the other.
Tidy(events, from, due) ==
    /\ events \in Seq(Events)
    /\ IsInjective(events)
    /\ \A k \in DOMAIN events :
          /\ from <= Rank(events[k][2]) /\ Rank(events[k][2]) < due

LEMMA RankIsNatural == ASSUME NEW s PROVE Rank(s) \in 1..9
BY DEF Rank

LEMMA TidyAppend ==
    ASSUME NEW s, NEW t, NEW a \in Nat, NEW b \in Nat, NEW d \in Nat,
           Tidy(s, a, b), Tidy(t, b, d), a <= b, b <= d
    PROVE  Tidy(s \o t, a, d)
<1>1. /\ s \in Seq(Events) /\ t \in Seq(Events)
      /\ DOMAIN s = 1..Len(s) /\ DOMAIN t = 1..Len(t) /\ Len(s) \in Nat /\ Len(t) \in Nat
  BY DEF Tidy
<1>2. /\ s \o t \in Seq(Events) /\ DOMAIN (s \o t) = 1..(Len(s) + Len(t))
      /\ \A k \in 1..(Len(s) + Len(t)) :
            (s \o t)[k] = IF k <= Len(s) THEN s[k] ELSE t[k - Len(s)]
  BY <1>1
<1> DEFINE u == s \o t
<1> HIDE DEF u
<1>3. ASSUME NEW k \in 1..(Len(s) + Len(t))
      PROVE  \/ k \in DOMAIN s /\ u[k] = s[k]
             \/ k - Len(s) \in DOMAIN t /\ u[k] = t[k - Len(s)]
  BY <1>1, <1>2 DEF u
<1>4. \A e : Rank(e) \in Nat
  BY RankIsNatural
<1>5. ASSUME NEW k \in 1..(Len(s) + Len(t))
      PROVE  /\ a <= Rank(u[k][2]) /\ Rank(u[k][2]) < d
  <2>1. Rank(u[k][2]) \in Nat
    BY <1>4
  <2>2. CASE k \in DOMAIN s /\ u[k] = s[k]
    BY <2>1, <2>2 DEF Tidy
  <2>3. CASE k - Len(s) \in DOMAIN t /\ u[k] = t[k - Len(s)]
    BY <2>1, <2>3 DEF Tidy
  <2> QED
    BY <1>3, <2>2, <2>3
<1>6. ASSUME NEW j \in DOMAIN s, NEW k \in DOMAIN t
      PROVE  s[j] # t[k]
  <2>1. Rank(s[j][2]) \in Nat /\ Rank(t[k][2]) \in Nat
    BY <1>4
  <2>2. Rank(s[j][2]) < b /\ b <= Rank(t[k][2])
    BY DEF Tidy
  <2>3. Rank(s[j][2]) # Rank(t[k][2])
    BY <2>1, <2>2
  <2> QED
    BY <2>3
<1>7. ASSUME NEW j \in 1..(Len(s) + Len(t)), NEW k \in 1..(Len(s) + Len(t)), u[j] = u[k]
      PROVE  j = k
  <2>1. \A x, y \in DOMAIN s : s[x] = s[y] => x = y
    BY DEF Tidy, IsInjective
  <2>2. \A x, y \in DOMAIN t : t[x] = t[y] => x = y
    BY DEF Tidy, IsInjective
  <2> DEFINE InS(x) == x \in DOMAIN s /\ u[x] = s[x]
             InT(x) == x - Len(s) \in DOMAIN t /\ u[x] = t[x - Len(s)]
  <2>3. (InS(j) \/ InT(j)) /\ (InS(k) \/ InT(k))
    BY <1>3
  <2>4. InS(j) /\ InS(k) => j = k
    BY <1>7, <2>1
  <2>5. InT(j) /\ InT(k) => j - Len(s) = k - Len(s)
    BY <1>7, <2>2
  <2>6. ~ (InS(j) /\ InT(k)) /\ ~ (InT(j) /\ InS(k))
    BY <1>6, <1>7
  <2> HIDE DEF InS, InT
  <2> QED
    BY <1>1, <2>3, <2>4, <2>5, <2>6
<1> QED
  BY <1>2, <1>5, <1>7 DEF Tidy, IsInjective, u

LEMMA NothingIsTidy == ASSUME NEW a, NEW b PROVE Tidy(<<>>, a, b)
BY DEF Tidy, IsInjective

\* The event of a stage, completed or failed.
LEMMA StageIsTidy ==
    ASSUME NEW stage \in StorageStages \cup IndexStages, NEW b \in Nat, Rank(stage) < b,
           NEW a, a = Rank(stage)
    PROVE  /\ Tidy(<<Completed(stage)>>, a, b)
           /\ Tidy(<<Failed(stage)>>, a, b)
<1>1. ASSUME NEW e \in Events, e[2] = stage
      PROVE  Tidy(<<e>>, Rank(stage), b)
  <2>1. <<e>> \in Seq(Events) /\ DOMAIN <<e>> = {1} /\ <<e>>[1] = e
    OBVIOUS
  <2> QED
    BY <1>1, <2>1, RankIsNatural DEF Tidy, IsInjective
<1>2. Completed(stage) \in Events /\ Completed(stage)[2] = stage
  BY DEF Completed, Events, StageKinds, StageNames
<1>3. Failed(stage) \in Events /\ Failed(stage)[2] = stage
  BY DEF Failed, Events, StageKinds, StageNames
<1> QED
  BY <1>1, <1>2, <1>3

LEMMA RetryIsTidy == Tidy(Retry, 1, 3)
<1> DEFINE e == Completed("idempotency_lookup")
           r == <<"admission_retry", "retry_started">>
<1>1. e = <<"storage_completed", "idempotency_lookup">>
  BY DEF Completed, IndexStages
<1>2. Retry = <<e, r>> /\ Retry \in Seq(Events)
  BY <1>1 DEF Retry, Events, StageKinds, StageNames, StorageStages
<1>3. DOMAIN Retry = 1..2 /\ Retry[1] = e /\ Retry[2] = r
  BY <1>2
<1>4. Rank("idempotency_lookup") = 1 /\ Rank("retry_started") = 2
  BY DEF Rank
<1>5. \A k \in 1..2 : k = 1 \/ k = 2
  OBVIOUS
<1>6. IsInjective(Retry)
  BY <1>1, <1>3, <1>5 DEF IsInjective
<1> QED
  BY <1>1, <1>2, <1>3, <1>4, <1>5, <1>6 DEF Tidy

-----------------------------------------------------------------------------
(* What is known of an invocation.                                         *)

\* The step is one of the workflow's own.
Fits(op, step) ==
    \/ op = "admission" /\ step \in AdmissionSteps
    \/ op = "retrieval" /\ step \in RetrievalSteps
    \/ op = "forgetting" /\ step \in ForgettingSteps
Underway(i) == Fits(i.op, i.step) /\ (i.op = "admission" => i.input \in Requests)
Writing(i) == Underway(i) /\ i.op # "retrieval"

\* The answer fits the profile of its terminal event, and a mismatch is told.
Answered(op, answer) ==
    /\ Representable(op, answer)
    /\ Mismatch(answer.error) <=> answer.reason = "configuration_mismatch"

\* What OneTerminalEach and MismatchToldFirst say of one invocation.
OneTerminal(i) ==
    /\ {k \in DOMAIN i.events :
          i.events[k][1] \in {"admission_completed", "retrieval_completed",
                              "forgetting_completed"}} = {Len(i.events)}
    /\ Last(i.events) = <<TerminalOf(i.op), i.answer.reason>>
    /\ IsInjective(i.events)
MismatchTold(i) ==
    \A k \in DOMAIN i.events :
        k + 1 \in DOMAIN i.events =>
            (i.events[k][1] = "configuration_failed"
                <=> i.events[k + 1][2] = "configuration_mismatch"
                    /\ i.events[k + 1][1] = TerminalOf(i.op))

Progress(i) ==
    \/ i.op = Null /\ i.step = "done"
    \/ Underway(i) /\ Tidy(i.events, 1, Due(i.step, i.input))
    \/ /\ i.op \in Ops /\ i.step = "told"
       /\ Tidy(i.events, 1, 9) /\ Answered(i.op, i.answer)
    \/ i.op \in Ops /\ i.step = "done" /\ OneTerminal(i) /\ MismatchTold(i)

\* A request the policy rejects gets no further than the lookup of its key.
Forbidden == {"supersession_lookup", "embedding", "persist_pending"}
SensitiveAdmission(i) == i.op = "admission" /\ i.input \in Sensitive
Untouched(i) ==
    SensitiveAdmission(i) =>
        /\ i.step \in {"idempotency_lookup", "told", "done"}
        /\ \A k \in DOMAIN i.events : i.events[k][2] \notin Forbidden

Shape(i) ==
    i = [op |-> i.op, input |-> i.input, step |-> i.step, answer |-> i.answer,
         events |-> i.events]
InvocationOK(i) == Shape(i) /\ Progress(i) /\ Untouched(i)

\* What the writer at this step knows of the row.
Knows(step, r) ==
    /\ step \in {"mark_pending", "requested_at", "begin_forgetting"} => r # Null
    /\ step \in {"vector_add", "mark_failed", "mark_indexed", "acknowledge_supersession"} =>
          r # Null /\ r.indexing = "pending"
    /\ step \in {"vector_remove", "completed_at", "acknowledge_forgetting"} =>
          r # Null /\ r.cleanup = "cleanup_pending"

RowOK == row # Null => row \in Rows /\ row.request \notin Sensitive

\* The lock is held by the writer that is under way.
LockOK ==
    /\ lock \in Callers \cup {Null}
    /\ \A c \in Callers : lock = c <=> Writing(inv[c])

EventsInvariant ==
    /\ inv = [c \in Callers |-> inv[c]]
    /\ \A c \in Callers : InvocationOK(inv[c]) /\ Knows(inv[c].step, row)
    /\ RowOK
    /\ LockOK

\* An answer as AnswerTellsRow demands it.
Tells(answer, r) ==
    /\ answer.indexing # Null => r # Null /\ answer.indexing = r.indexing
    /\ answer.outcome = "forgotten" => r.cleanup = "complete"
    /\ answer.outcome = "cleanup_pending" => r.cleanup = "cleanup_pending"
    /\ answer.outcome = "rejected" => r = Null
Truth == \A c \in Callers : lock = c /\ lock' = Null => Tells(inv'[c].answer, row')

-----------------------------------------------------------------------------
(* The frames of a step keep it.                                           *)

\* One invocation changes; the row changes only under the lock.
LEMMA OneMoves ==
    ASSUME EventsInvariant, NEW c \in Callers, NEW j, inv' = [inv EXCEPT ![c] = j],
           InvocationOK(j), Knows(j.step, row'), RowOK', UNCHANGED row \/ Writing(inv[c]),
           \/ lock' = lock /\ (Writing(j) <=> Writing(inv[c]))
           \/ lock' = (IF lock = c THEN Null ELSE lock) /\ ~ Writing(j)
           \/ lock = Null /\ lock' = c /\ Writing(j)
    PROVE  EventsInvariant'
<1>1. /\ inv' = [d \in Callers |-> inv'[d]] /\ inv'[c] = j
      /\ \A d \in Callers : d # c => inv'[d] = inv[d]
  BY DEF EventsInvariant
<1>2. ASSUME NEW d \in Callers, d # c
      PROVE  Knows(inv'[d].step, row')
  <2>1. CASE UNCHANGED row
    BY <1>1, <1>2, <2>1 DEF EventsInvariant
  <2>2. CASE Writing(inv[c])
    <3>1. ~ Writing(inv[d]) /\ InvocationOK(inv[d])
      BY <1>2, <2>2 DEF EventsInvariant, LockOK
    <3>2. inv[d].step \in {"told", "done"} \/ inv[d].step \in RetrievalSteps
      BY <3>1 DEF InvocationOK, Progress, Writing, Underway, Fits
    <3> QED
      BY <1>1, <1>2, <3>2 DEF Knows, RetrievalSteps
  <2> QED
    BY <2>1, <2>2
<1>3. \A d \in Callers : InvocationOK(inv'[d]) /\ Knows(inv'[d].step, row')
  BY <1>1, <1>2 DEF EventsInvariant
<1>4. \A d \in Callers \ {c} : Writing(inv'[d]) <=> Writing(inv[d])
  BY <1>1
<1>5. /\ lock' \in Callers \cup {Null}
      /\ \A d \in Callers : lock' = d <=> Writing(inv'[d])
  <2>1. lock \in Callers \cup {Null} /\ \A d \in Callers : lock = d <=> Writing(inv[d])
    BY DEF EventsInvariant, LockOK
  <2> QED
    BY <1>1, <1>4, <2>1, NullAssumption
<1>6. LockOK'
  BY <1>5 DEF LockOK, Writing, Underway, Fits
<1>7. \A d \in Callers : InvocationOK(inv[d])' /\ Knows(inv[d].step, row)'
  BY <1>3
<1> QED
  BY <1>1, <1>6, <1>7 DEF EventsInvariant

\* What each update of an invocation makes of it.
LEMMA UpdatedField ==
    ASSUME NEW i, NEW o, NEW p, NEW s, NEW a, NEW e, NEW x,
           i = [op |-> o, input |-> p, step |-> s, answer |-> a, events |-> e]
    PROVE  /\ [i EXCEPT !.events = x] =
                 [op |-> o, input |-> p, step |-> s, answer |-> a, events |-> x]
           /\ [i EXCEPT !.step = x] =
                 [op |-> o, input |-> p, step |-> x, answer |-> a, events |-> e]
           /\ [i EXCEPT !.answer = x] =
                 [op |-> o, input |-> p, step |-> s, answer |-> x, events |-> e]
OBVIOUS

LEMMA GoneOn ==
    ASSUME NEW i, NEW new, NEW next,
           i = [op |-> i.op, input |-> i.input, step |-> i.step, answer |-> i.answer,
                events |-> i.events]
    PROVE  [[i EXCEPT !.events = @ \o new] EXCEPT !.step = next] =
             [op |-> i.op, input |-> i.input, step |-> next, answer |-> i.answer,
              events |-> i.events \o new]
<1> DEFINE events == i.events \o new
           i1 == [i EXCEPT !.events = events]
<1> HIDE DEF events
<1>1. i1 = [op |-> i.op, input |-> i.input, step |-> i.step, answer |-> i.answer,
            events |-> events]
  BY UpdatedField
<1> HIDE DEF i1
<1>2. [i1 EXCEPT !.step = next] =
        [op |-> i.op, input |-> i.input, step |-> next, answer |-> i.answer, events |-> events]
  BY <1>1, UpdatedField
<1> QED
  BY <1>2 DEF events, i1

\* A step goes on: the events it adds are those of the stage it leaves.
LEMMA Going ==
    ASSUME EventsInvariant, NEW c \in Callers, NEW new, NEW next, Goes(c, new, next),
           Underway(inv[c]), Fits(inv[c].op, next), ~ SensitiveAdmission(inv[c]),
           Due(inv[c].step, inv[c].input) <= Due(next, inv[c].input),
           Tidy(new, Due(inv[c].step, inv[c].input), Due(next, inv[c].input)),
           RowOK', UNCHANGED row \/ Writing(inv[c]), Knows(next, row')
    PROVE  EventsInvariant' /\ Truth
<1> DEFINE i == inv[c]
           j == [op |-> i.op, input |-> i.input, step |-> next, answer |-> i.answer,
                 events |-> i.events \o new]
<1>1. InvocationOK(i) /\ lock' = lock
  BY DEF EventsInvariant, Goes
<1>2. inv' = [inv EXCEPT ![c] = j]
  <2>1. i = [op |-> i.op, input |-> i.input, step |-> i.step, answer |-> i.answer,
             events |-> i.events]
    BY <1>1 DEF InvocationOK, Shape
  <2>2. inv' = [inv EXCEPT ![c].events = @ \o new, ![c].step = next]
    BY DEF Goes
  <2>3. [[i EXCEPT !.events = @ \o new] EXCEPT !.step = next] = j
    BY <2>1, GoneOn
  <2> QED
    BY <2>2, <2>3 DEF EventsInvariant
<1>3. i.step \notin {"told", "done"} /\ Tidy(i.events, 1, Due(i.step, i.input))
  <2>1. i.step \notin {"told", "done"}
    BY DEF Underway, Fits, AdmissionSteps, RetrievalSteps, ForgettingSteps
  <2> QED
    BY <1>1, <2>1 DEF InvocationOK, Progress
<1>4. Tidy(j.events, 1, Due(next, i.input))
  <2>1. /\ Due(i.step, i.input) \in Nat /\ Due(next, i.input) \in Nat
        /\ 1 <= Due(i.step, i.input)
    BY RankIsNatural DEF Due
  <2> QED
    BY <1>3, <2>1, TidyAppend
<1>5. Underway(j) /\ (Writing(j) <=> Writing(i)) /\ ~ SensitiveAdmission(j)
  BY DEF Underway, Writing, SensitiveAdmission
<1>6. InvocationOK(j)
  BY <1>4, <1>5 DEF InvocationOK, Shape, Progress, Untouched
<1>7. Knows(j.step, row')
  OBVIOUS
<1> HIDE DEF j
<1>8. EventsInvariant'
  BY <1>1, <1>2, <1>5, <1>6, <1>7, OneMoves
<1>9. Truth
  BY <1>1, NullAssumption DEF Truth
<1> QED
  BY <1>8, <1>9

\* A workflow ends in an answer, and lets go of the lock if it holds it.
LEMMA Returning ==
    ASSUME EventsInvariant, NEW c \in Callers, NEW new, NEW answer,
           Returns(c, new, answer), Underway(inv[c]), Answered(inv[c].op, answer),
           Tidy(new, Due(inv[c].step, inv[c].input), 9),
           SensitiveAdmission(inv[c]) => \A k \in DOMAIN new : new[k][2] \notin Forbidden,
           RowOK', UNCHANGED row \/ Writing(inv[c]),
           Writing(inv[c]) => Tells(answer, row')
    PROVE  EventsInvariant' /\ Truth
<1> DEFINE i == inv[c]
           j == [op |-> i.op, input |-> i.input, step |-> "told", answer |-> answer,
                 events |-> i.events \o new]
<1>1. InvocationOK(i) /\ lock' = IF lock = c THEN Null ELSE lock
  BY DEF EventsInvariant, Returns
<1>2. inv' = [inv EXCEPT ![c] = j]
  <2>1. i = [op |-> i.op, input |-> i.input, step |-> i.step, answer |-> i.answer,
             events |-> i.events]
    BY <1>1 DEF InvocationOK, Shape
  <2>2. inv' = [inv EXCEPT ![c].events = @ \o new, ![c].step = "told", ![c].answer = answer]
    BY DEF Returns
  <2>3. [[[i EXCEPT !.events = @ \o new] EXCEPT !.step = "told"] EXCEPT !.answer = answer] = j
    <3> DEFINE events == i.events \o new
               k == [[i EXCEPT !.events = @ \o new] EXCEPT !.step = "told"]
    <3>1. k = [op |-> i.op, input |-> i.input, step |-> "told", answer |-> i.answer,
               events |-> events]
      BY <2>1, GoneOn
    <3> HIDE DEF k, events
    <3>2. [k EXCEPT !.answer = answer] =
            [op |-> i.op, input |-> i.input, step |-> "told", answer |-> answer,
             events |-> events]
      BY <3>1, UpdatedField
    <3> QED
      BY <3>2 DEF k, events
  <2> QED
    BY <2>2, <2>3 DEF EventsInvariant
<1>3. i.step \notin {"told", "done"} /\ Tidy(i.events, 1, Due(i.step, i.input))
  <2>1. i.step \notin {"told", "done"}
    BY DEF Underway, Fits, AdmissionSteps, RetrievalSteps, ForgettingSteps
  <2> QED
    BY <1>1, <2>1 DEF InvocationOK, Progress
<1>4. Tidy(j.events, 1, 9)
  <2>1. /\ Due(i.step, i.input) \in Nat /\ 1 <= Due(i.step, i.input)
        /\ Due(i.step, i.input) <= 9
    BY RankIsNatural DEF Due
  <2> QED
    BY <1>3, <2>1, TidyAppend
<1>5. ~ Underway(j) /\ j.op \in Ops
  BY DEF Underway, Fits, AdmissionSteps, RetrievalSteps, ForgettingSteps, Ops
<1>6. Untouched(j)
  <2>1. i.events \in Seq(Events) /\ new \in Seq(Events)
    BY <1>3 DEF Tidy
  <2>2. \A k \in DOMAIN (i.events \o new) :
          \/ k \in DOMAIN i.events /\ (i.events \o new)[k] = i.events[k]
          \/ k - Len(i.events) \in DOMAIN new /\ (i.events \o new)[k] = new[k - Len(i.events)]
    BY <2>1
  <2>3. SensitiveAdmission(i) => \A k \in DOMAIN i.events : i.events[k][2] \notin Forbidden
    BY <1>1 DEF InvocationOK, Untouched
  <2>4. SensitiveAdmission(j) <=> SensitiveAdmission(i)
    BY DEF SensitiveAdmission
  <2> QED
    BY <2>2, <2>3, <2>4 DEF Untouched
<1>7. InvocationOK(j)
  BY <1>4, <1>5, <1>6 DEF InvocationOK, Shape, Progress
<1>8. Knows(j.step, row') /\ ~ Writing(j)
  BY <1>5 DEF Knows, Writing
<1>9. j.answer = answer
  OBVIOUS
<1> HIDE DEF j
<1>10. EventsInvariant'
  BY <1>1, <1>2, <1>7, <1>8, OneMoves
<1>11. Truth
  <2> SUFFICES ASSUME NEW d \in Callers, lock = d, lock' = Null
               PROVE  Tells(inv'[d].answer, row')
    BY DEF Truth
  <2>1. d = c /\ Writing(inv[c])
    BY <1>1, NullAssumption DEF EventsInvariant, LockOK
  <2>2. inv'[c] = j
    BY <1>2 DEF EventsInvariant
  <2> QED
    BY <1>9, <2>1, <2>2
<1> QED
  BY <1>10, <1>11

\* An invocation that is neither answered nor ended is in its workflow.
LEMMA AtWork ==
    ASSUME EventsInvariant, NEW c \in Callers, inv[c].step \notin {"told", "done"}
    PROVE  /\ Underway(inv[c])
           /\ SensitiveAdmission(inv[c]) => inv[c].step = "idempotency_lookup"
           /\ Knows(inv[c].step, row)
           /\ RowOK
BY DEF EventsInvariant, InvocationOK, Progress, Untouched

\* A stage that succeeds.
LEMMA Proceeding ==
    ASSUME EventsInvariant, NEW c \in Callers, NEW next,
           NEW stage \in StorageStages \cup IndexStages, inv[c].step = stage,
           Goes(c, <<Completed(stage)>>, next),
           Fits(inv[c].op, next), ~ SensitiveAdmission(inv[c]),
           Rank(stage) < Due(next, inv[c].input),
           RowOK', UNCHANGED row \/ Writing(inv[c]), Knows(next, row')
    PROVE  EventsInvariant' /\ Truth
<1>1. stage \notin {"told", "done", "create"}
  BY DEF StorageStages, IndexStages
<1>2. Underway(inv[c])
  BY <1>1, AtWork
<1>3. /\ Due(stage, inv[c].input) = Rank(stage) /\ Rank(stage) \in Nat
      /\ Due(next, inv[c].input) \in Nat
  BY <1>1, RankIsNatural DEF Due
<1>4. Tidy(<<Completed(stage)>>, Rank(stage), Due(next, inv[c].input))
  BY <1>3, StageIsTidy
<1> QED
  BY <1>2, <1>3, <1>4, Going

\* A stage that succeeds and leaves the row alone.
LEMMA Passing ==
    ASSUME EventsInvariant, NEW c \in Callers, NEW next,
           NEW stage \in StorageStages \cup IndexStages, Passes(c, stage, next),
           Fits(inv[c].op, next), ~ SensitiveAdmission(inv[c]),
           Rank(stage) < Due(next, inv[c].input), Knows(next, row)
    PROVE  EventsInvariant' /\ Truth
<1>1. /\ inv[c].step = stage /\ Goes(c, <<Completed(stage)>>, next) /\ UNCHANGED row
  BY DEF Passes, At, RowStays
<1>2. RowOK'
  BY <1>1 DEF EventsInvariant, RowOK
<1> QED
  BY <1>1, <1>2, Proceeding

\* A stage that succeeds and ends the workflow.
LEMMA Concluding ==
    ASSUME EventsInvariant, NEW c \in Callers, NEW answer,
           NEW stage \in StorageStages \cup IndexStages, inv[c].step = stage,
           Returns(c, <<Completed(stage)>>, answer), Answered(inv[c].op, answer),
           RowOK', UNCHANGED row \/ Writing(inv[c]),
           Writing(inv[c]) => Tells(answer, row')
    PROVE  EventsInvariant' /\ Truth
<1>1. stage \notin {"told", "done", "create"}
  BY DEF StorageStages, IndexStages
<1>2. Underway(inv[c]) /\ (SensitiveAdmission(inv[c]) => stage = "idempotency_lookup")
  BY <1>1, AtWork
<1>3. /\ Due(stage, inv[c].input) = Rank(stage) /\ Rank(stage) \in Nat /\ Rank(stage) < 9
  <2>1. Rank(stage) # 9
    BY DEF Rank, StorageStages, IndexStages
  <2> QED
    BY <1>1, <2>1, RankIsNatural DEF Due
<1>4. Tidy(<<Completed(stage)>>, Rank(stage), 9)
  BY <1>3, StageIsTidy
<1>5. SensitiveAdmission(inv[c]) =>
        \A k \in DOMAIN <<Completed(stage)>> : <<Completed(stage)>>[k][2] \notin Forbidden
  BY <1>2 DEF Completed, Forbidden
<1> QED
  BY <1>2, <1>3, <1>4, <1>5, Returning

\* What a workflow raises fits the profile of its terminal event.
LEMMA RaisedAnswer ==
    ASSUME NEW op \in Ops, NEW error,
           \/ error \in PortErrors
           \/ op = "admission" /\ error \in {"invalid_admission_request",
                 "idempotency_key_conflict", "invalid_supersession_target"}
           \/ op = "retrieval" /\ error \in {"invalid_retrieval_query",
                 "invalid_tokenizer_configuration", "invalid_tokenizer_result"}
    PROVE  Answered(op, Raised(op, error)) /\ \A r : Tells(Raised(op, error), r)
<1> DEFINE answer == Raised(op, error)
           reason == ErrorReason(op, error)
<1>1. answer = [outcome |-> "failed", reason |-> reason, named |-> FALSE,
                indexing |-> Null, error |-> error]
  BY DEF Raised, Reply
<1> HIDE DEF answer
<1>2. /\ answer.outcome = "failed" /\ answer.reason = reason /\ answer.named = FALSE
      /\ answer.indexing = Null /\ answer.error = error
  BY <1>1
<1>3. /\ reason \in ProfileReasons(op)
      /\ Mismatch(error) <=> reason = "configuration_mismatch"
  <2>1. CASE error \in PortErrors
    BY <2>1 DEF ErrorReason, ApplicationErrorReason, ForgettingErrorReason, Mismatch,
                MismatchErrors, PortErrors, ProfileReasons, Ops
  <2>2. CASE op = "admission" /\ error \in {"invalid_admission_request",
               "idempotency_key_conflict", "invalid_supersession_target"}
    BY <2>2 DEF ErrorReason, ApplicationErrorReason, ForgettingErrorReason, Mismatch,
                MismatchErrors, PortErrors, ProfileReasons, Ops
  <2>3. CASE op = "retrieval" /\ error \in {"invalid_retrieval_query",
               "invalid_tokenizer_configuration", "invalid_tokenizer_result"}
    BY <2>3 DEF ErrorReason, ApplicationErrorReason, ForgettingErrorReason, Mismatch,
                MismatchErrors, PortErrors, ProfileReasons, Ops
  <2> QED
    BY <2>1, <2>2, <2>3
<1> HIDE DEF reason
<1>4. answer.outcome \in ProfileOutcomes(op)
  BY <1>2 DEF ProfileOutcomes
<1>5. Representable(op, answer)
  BY <1>2, <1>3, <1>4 DEF Representable
<1>6. \A r : Tells(answer, r)
  BY <1>2 DEF Tells
<1> QED
  BY <1>2, <1>3, <1>5, <1>6 DEF Answered, answer

\* A workflow that raises: before a stage, or with the event of its stage.
LEMMA Raising ==
    ASSUME EventsInvariant, NEW c \in Callers, NEW new, NEW error,
           inv[c].step \notin {"told", "done"}, Raises(c, new, error), UNCHANGED row,
           \/ new = <<>>
           \/ /\ inv[c].step \in StorageStages \cup IndexStages
              /\ new \in {<<Completed(inv[c].step)>>, <<Failed(inv[c].step)>>},
           \/ error \in PortErrors
           \/ inv[c].op = "admission" /\ error \in {"invalid_admission_request",
                 "idempotency_key_conflict", "invalid_supersession_target"}
           \/ inv[c].op = "retrieval" /\ error \in {"invalid_retrieval_query",
                 "invalid_tokenizer_configuration", "invalid_tokenizer_result"}
    PROVE  EventsInvariant' /\ Truth
<1> DEFINE answer == Raised(inv[c].op, error)
<1>1. /\ Underway(inv[c]) /\ RowOK'
      /\ SensitiveAdmission(inv[c]) => inv[c].step = "idempotency_lookup"
  BY AtWork DEF RowOK
<1>2. inv[c].op \in Ops
  BY <1>1 DEF Underway, Fits, Ops
<1>3. Answered(inv[c].op, answer) /\ Tells(answer, row')
  BY <1>2, RaisedAnswer
<1>4. Returns(c, new, answer)
  BY DEF Raises
<1>5. Tidy(new, Due(inv[c].step, inv[c].input), 9)
  <2>1. CASE new = <<>>
    BY <2>1, NothingIsTidy
  <2>2. CASE /\ inv[c].step \in StorageStages \cup IndexStages
             /\ new \in {<<Completed(inv[c].step)>>, <<Failed(inv[c].step)>>}
    <3>1. Rank(inv[c].step) \in Nat /\ Rank(inv[c].step) < 9
      <4>1. Rank(inv[c].step) # 9
        BY <2>2 DEF Rank, StorageStages, IndexStages
      <4> QED
        BY <4>1, RankIsNatural
    <3>2. Due(inv[c].step, inv[c].input) = Rank(inv[c].step)
      BY <2>2 DEF Due, StorageStages, IndexStages
    <3> QED
      BY <2>2, <3>1, <3>2, StageIsTidy
  <2> QED
    BY <2>1, <2>2
<1>6. SensitiveAdmission(inv[c]) => \A k \in DOMAIN new : new[k][2] \notin Forbidden
  <2> SUFFICES ASSUME SensitiveAdmission(inv[c]), NEW k \in DOMAIN new
               PROVE  new[k][2] \notin Forbidden
    OBVIOUS
  <2>1. \/ new = <<Completed("idempotency_lookup")>>
        \/ new = <<Failed("idempotency_lookup")>>
    BY <1>1
  <2>2. new[k][2] = "idempotency_lookup"
    BY <2>1 DEF Completed, Failed
  <2> QED
    BY <2>2 DEF Forbidden
<1> HIDE DEF answer
<1> QED
  BY <1>1, <1>3, <1>4, <1>5, <1>6, Returning
-----------------------------------------------------------------------------
(* Each operation keeps it.                                                *)

\* The rank of the stages of an admission, and of the step that has none.
LEMMA AdmissionRanks ==
    ASSUME NEW input
    PROVE  /\ Rank("idempotency_lookup") = 1 /\ Rank("mark_pending") = 3
           /\ Rank("supersession_lookup") = 4 /\ Rank("embedding") = 5
           /\ Rank("persist_pending") = 6 /\ Rank("vector_add") = 7
           /\ Rank("mark_failed") = 8 /\ Rank("mark_indexed") = 8
           /\ Rank("acknowledge_supersession") = 8
           /\ Due("create", input) = IF input \in Targeted THEN 4 ELSE 6
           /\ \A step : step # "create" => Due(step, input) = Rank(step)
BY DEF Rank, Due

LEMMA Starting ==
    ASSUME EventsInvariant, NEW c \in Callers,
           Admit(c) \/ AdmitMalformed(c) \/ Retrieve(c) \/ Forget(c)
    PROVE  EventsInvariant' /\ Truth
<1>1. /\ inv[c].step = "done" /\ UNCHANGED row /\ RowOK'
      /\ lock' = lock \/ lock = Null
  BY DEF Admit, AdmitMalformed, Retrieve, Forget, Locked, At, RowStays, EventsInvariant, RowOK
<1>2. ~ Writing(inv[c])
  BY <1>1 DEF Writing, Underway, Fits, AdmissionSteps, RetrievalSteps, ForgettingSteps
<1>3. Truth
  BY <1>1, NullAssumption DEF Truth
<1>4. ASSUME NEW op, NEW input, NEW step, inv' = [inv EXCEPT ![c] = Called(op, input, step)],
             Fits(op, step), Rank(step) = 1, step # "create", Knows(step, row'),
             op = "admission" => step = "idempotency_lookup" /\ input \in Requests,
             \/ op # "retrieval" /\ lock = Null /\ lock' = c
             \/ op = "retrieval" /\ lock' = lock
      PROVE  EventsInvariant'
  <2> DEFINE j == Called(op, input, step)
  <2>1. j.op = op /\ j.input = input /\ j.step = step /\ j.events = <<>> /\ Shape(j)
    BY DEF Called, Shape
  <2> HIDE DEF j
  <2>2. InvocationOK(j)
    BY <1>4, <2>1, NothingIsTidy DEF InvocationOK, Progress, Underway, Untouched, SensitiveAdmission
  <2>3. Writing(j) <=> op # "retrieval"
    BY <1>4, <2>1 DEF Writing, Underway
  <2>4. inv' = [inv EXCEPT ![c] = j] /\ Knows(j.step, row')
    BY <1>4, <2>1 DEF j
  <2> QED
    BY <1>1, <1>2, <1>4, <2>2, <2>3, <2>4, OneMoves
<1>5. CASE Admit(c)
  <2>1. PICK r \in Requests : Locked(c, "admission", r, "idempotency_lookup")
    BY <1>5 DEF Admit
  <2>2. Fits("admission", "idempotency_lookup") /\ Knows("idempotency_lookup", row')
    BY DEF Fits, AdmissionSteps, Knows
  <2> QED
    BY <1>3, <1>4, <2>1, <2>2, AdmissionRanks DEF Locked
<1>6. CASE Forget(c)
  <2>1. PICK owned \in BOOLEAN : Locked(c, "forgetting", owned, "forgetting_lookup")
    BY <1>6 DEF Forget
  <2>2. /\ Fits("forgetting", "forgetting_lookup") /\ Knows("forgetting_lookup", row')
        /\ Rank("forgetting_lookup") = 1
    BY DEF Fits, ForgettingSteps, Knows, Rank
  <2> QED
    BY <1>3, <1>4, <2>1, <2>2 DEF Locked
<1>7. CASE Retrieve(c)
  <2>1. PICK intent : inv' = [inv EXCEPT ![c] = Called("retrieval", intent, "validate")]
    BY <1>7 DEF Retrieve
  <2>2. Fits("retrieval", "validate") /\ Knows("validate", row') /\ Rank("validate") = 1
    BY DEF Fits, RetrievalSteps, Knows, Rank
  <2>3. lock' = lock
    BY <1>7 DEF Retrieve
  <2> QED
    BY <1>3, <1>4, <2>1, <2>2, <2>3
<1>8. CASE AdmitMalformed(c)
  <2> DEFINE answer == Raised("admission", "invalid_admission_request")
             j == [Called("admission", Null, "told") EXCEPT !.answer = answer]
  <2>1. j.op = "admission" /\ j.input = Null /\ j.step = "told" /\ j.events = <<>>
        /\ j.answer = answer /\ Shape(j)
    <3> HIDE DEF answer
    <3>1. j = [op |-> "admission", input |-> Null, step |-> "told", answer |-> answer,
               events |-> <<>>]
      BY UpdatedField DEF Called
    <3> HIDE DEF j
    <3> QED
      BY <3>1 DEF Shape
  <2>2. inv' = [inv EXCEPT ![c] = j] /\ lock' = lock
    BY <1>8 DEF AdmitMalformed
  <2>3. Answered("admission", answer)
    BY RaisedAnswer DEF Ops
  <2> HIDE DEF j, answer
  <2>4. ~ Underway(j)
    BY <2>1 DEF Underway, Fits, AdmissionSteps, RetrievalSteps, ForgettingSteps
  <2>5. InvocationOK(j)
    BY <2>1, <2>3, NothingIsTidy DEF InvocationOK, Progress, Ops, Untouched
  <2>6. Knows(j.step, row') /\ ~ Writing(j)
    BY <2>1, <2>4 DEF Knows, Writing
  <2>7. EventsInvariant'
    BY <1>1, <1>2, <2>2, <2>5, <2>6, OneMoves
  <2> QED
    BY <1>3, <2>7
<1> QED
  BY <1>5, <1>6, <1>7, <1>8

\* What is known at a stage of an admission.
LEMMA AdmissionStage ==
    ASSUME EventsInvariant, NEW c \in Callers, inv[c].step \in AdmissionSteps,
           inv[c].op # "retrieval"
    PROVE  /\ inv[c].op = "admission" /\ Underway(inv[c]) /\ Writing(inv[c])
           /\ SensitiveAdmission(inv[c]) => inv[c].step = "idempotency_lookup"
           /\ Knows(inv[c].step, row) /\ RowOK
<1>1. inv[c].step \notin {"told", "done"}
  BY DEF AdmissionSteps
<1>2. Underway(inv[c])
  BY <1>1, AtWork
<1>3. inv[c].op = "admission"
  BY <1>2 DEF Underway, Fits, AdmissionSteps, RetrievalSteps, ForgettingSteps
<1> QED
  BY <1>1, <1>2, <1>3, AtWork DEF Writing

\* The answers of an admission fit its profile.
LEMMA AdmissionAnswers ==
    /\ \A reason \in {"accepted_and_indexed", "indexing_failed",
                      "indexing_acknowledgement_failed", "supersession_acknowledgement_failed"},
          indexing \in {"pending", "failed", "indexed"} :
          Answered("admission", Accepted(reason, indexing))
    /\ Answered("admission", Answer("rejected", "sensitive_admission_rejected", FALSE))
<1>1. ASSUME NEW outcome \in {"accepted", "rejected"},
             NEW reason \in {"accepted_and_indexed", "indexing_failed",
                 "indexing_acknowledgement_failed", "supersession_acknowledgement_failed",
                 "sensitive_admission_rejected"},
             NEW named, NEW indexing
      PROVE  Answered("admission", Reply(outcome, reason, named, indexing, Null))
  <2> DEFINE a == Reply(outcome, reason, named, indexing, Null)
  <2>1. a.outcome = outcome /\ a.reason = reason /\ a.error = Null
    BY DEF Reply
  <2> HIDE DEF a
  <2>2. outcome \in ProfileOutcomes("admission") /\ reason \in ProfileReasons("admission")
    BY DEF ProfileOutcomes, ProfileReasons
  <2>3. ~ Mismatch(Null) /\ reason # "configuration_mismatch"
    BY NullAssumption DEF Mismatch
  <2> QED
    BY <2>1, <2>2, <2>3 DEF Answered, Representable, a
<1> QED
  BY <1>1 DEF Accepted, Answer

LEMMA RetryIsTidyBefore ==
    ASSUME NEW due \in Nat, 3 <= due
    PROVE  Tidy(Retry, 1, due)
<1>1. \A k \in DOMAIN Retry : Rank(Retry[k][2]) \in Nat /\ Rank(Retry[k][2]) < 3
  BY RetryIsTidy, RankIsNatural DEF Tidy
<1>2. \A k \in DOMAIN Retry : Rank(Retry[k][2]) < due
  BY <1>1
<1> QED
  BY <1>2, RetryIsTidy DEF Tidy

\* The four ways the lookup of a key goes.
LEMMA LookingUp ==
    ASSUME EventsInvariant, NEW c \in Callers,
           LookedUpNew(c) \/ LookedUpConflict(c) \/ LookedUpStored(c) \/ LookedUpWork(c)
    PROVE  EventsInvariant' /\ Truth
<1>1. /\ inv[c].step = "idempotency_lookup" /\ UNCHANGED row
      /\ inv[c].op = "admission" /\ Underway(inv[c]) /\ RowOK
  <2>1. inv[c].step = "idempotency_lookup" /\ UNCHANGED row
    BY DEF LookedUpNew, LookedUpConflict, LookedUpStored, LookedUpWork, Matches, At, RowStays
  <2>2. Underway(inv[c]) /\ RowOK
    BY <2>1, AtWork
  <2>3. inv[c].op = "admission"
    BY <2>1, <2>2 DEF Underway, Fits, RetrievalSteps, ForgettingSteps
  <2> QED
    BY <2>1, <2>2, <2>3
<1>2. /\ Due(inv[c].step, inv[c].input) = 1 /\ Rank("idempotency_lookup") = 1
      /\ "idempotency_lookup" \in StorageStages \cup IndexStages /\ RowOK'
  BY <1>1, AdmissionRanks DEF StorageStages, RowOK
<1>3. CASE LookedUpNew(c)
  <2>1. CASE inv[c].input \in Sensitive
    <3> DEFINE answer == Answer("rejected", "sensitive_admission_rejected", FALSE)
    <3>1. Returns(c, <<Completed("idempotency_lookup")>>, answer) /\ row = Null
      BY <1>3, <2>1 DEF LookedUpNew
    <3>2. Tells(answer, row')
      BY <1>1, <3>1 DEF Tells, Answer, Reply
    <3>3. Answered(inv[c].op, answer)
      BY <1>1, AdmissionAnswers
    <3> HIDE DEF answer
    <3> QED
      BY <1>1, <1>2, <3>1, <3>2, <3>3, Concluding
  <2>2. CASE inv[c].input \notin Sensitive
    <3> DEFINE next == IF inv[c].input \in Targeted THEN "create" ELSE "embedding"
    <3>1. Goes(c, <<Completed("idempotency_lookup")>>, next)
      BY <1>3, <2>2 DEF LookedUpNew
    <3>2. Due(next, inv[c].input) \in {4, 5}
      BY AdmissionRanks
    <3>3. Fits("admission", next) /\ Knows(next, row')
      BY DEF Fits, AdmissionSteps, Knows
    <3> HIDE DEF next
    <3>4. Rank("idempotency_lookup") < Due(next, inv[c].input)
      BY <1>2, <3>2
    <3> QED
      BY <1>1, <1>2, <2>2, <3>1, <3>3, <3>4, Proceeding DEF SensitiveAdmission
  <2> QED
    BY <2>1, <2>2
<1>4. CASE LookedUpConflict(c)
  BY <1>1, <1>2, <1>4, Raising DEF LookedUpConflict
<1>5. ASSUME Matches(c)
      PROVE  row # Null /\ row \in Rows /\ ~ SensitiveAdmission(inv[c])
  BY <1>1, <1>5 DEF Matches, RowOK, SensitiveAdmission
<1>6. CASE LookedUpStored(c)
  <2>1. ASSUME NEW answer, Returns(c, Retry, answer), Answered("admission", answer),
               Tells(answer, row')
        PROVE  EventsInvariant' /\ Truth
    <3>1. Tidy(Retry, 1, 9) /\ ~ SensitiveAdmission(inv[c])
      BY <1>5, <1>6, RetryIsTidyBefore DEF LookedUpStored
    <3> QED
      BY <1>1, <1>2, <2>1, <3>1, Returning
  <2>2. CASE /\ row.indexing = "indexed"
             /\ Returns(c, Retry, Accepted("accepted_and_indexed", "indexed"))
    <3>1. row # Null
      BY <1>5, <1>6 DEF LookedUpStored
    <3>2. Tells(Accepted("accepted_and_indexed", "indexed"), row')
      BY <1>1, <2>2, <3>1 DEF Tells, Accepted, Reply
    <3> QED
      BY <2>1, <2>2, <3>2, AdmissionAnswers
  <2>3. CASE Raises(c, Retry, "storage")
    <3>1. /\ Answered("admission", Raised("admission", "storage"))
          /\ Tells(Raised("admission", "storage"), row')
      BY RaisedAnswer DEF Ops, PortErrors
    <3> QED
      BY <1>1, <2>1, <2>3, <3>1 DEF Raises
  <2> QED
    BY <1>6, <2>2, <2>3 DEF LookedUpStored
<1>7. CASE LookedUpWork(c)
  <2> DEFINE next == IF row.indexing = "failed" THEN "mark_pending" ELSE Resumed(c)
  <2>1. Goes(c, Retry, next) /\ row.indexing \in {"failed", "pending"} /\ row # Null
        /\ ~ SensitiveAdmission(inv[c])
    BY <1>5, <1>7 DEF LookedUpWork, Rows
  <2>2. next \in {"mark_pending", "vector_add", "acknowledge_supersession"}
    BY DEF Resumed
  <2>3. Knows(next, row')
    BY <1>1, <2>1, <2>2 DEF Knows
  <2> HIDE DEF next
  <2>4. Fits("admission", next) /\ Due(next, inv[c].input) \in {3, 7, 8}
    BY <2>2, AdmissionRanks DEF Fits, AdmissionSteps
  <2>5. Tidy(Retry, 1, Due(next, inv[c].input))
    BY <2>4, RetryIsTidyBefore
  <2> QED
    BY <1>1, <1>2, <2>1, <2>3, <2>4, <2>5, Going
<1> QED
  BY <1>3, <1>4, <1>6, <1>7

\* The stages between the lookup and the acknowledgement.
LEMMA Admitting ==
    ASSUME EventsInvariant, NEW c \in Callers,
           \/ MarkPending(c) \/ CreateMemory(c) \/ CreateFails(c) \/ FindTarget(c)
           \/ TargetRefused(c) \/ EmbedContent(c) \/ PersistPending(c) \/ AddVector(c)
    PROVE  EventsInvariant' /\ Truth
<1> DEFINE step == inv[c].step
           input == inv[c].input
<1>1. /\ step \in AdmissionSteps /\ step # "idempotency_lookup" /\ inv[c].op # "retrieval"
      /\ inv[c].op = "admission" /\ Underway(inv[c]) /\ Writing(inv[c])
      /\ ~ SensitiveAdmission(inv[c]) /\ Knows(step, row) /\ RowOK
  <2>1. \/ step \in {"mark_pending", "create", "supersession_lookup", "persist_pending",
                     "vector_add"}
        \/ step = "embedding" /\ inv[c].op = "admission"
    BY DEF MarkPending, CreateMemory, CreateFails, FindTarget, TargetRefused, EmbedContent,
           PersistPending, AddVector, Passes, At
  <2>2. Underway(inv[c])
    BY <2>1, AtWork
  <2>3. step \in AdmissionSteps /\ step # "idempotency_lookup" /\ inv[c].op # "retrieval"
    BY <2>1, <2>2 DEF Underway, Fits, AdmissionSteps, RetrievalSteps, ForgettingSteps
  <2> QED
    BY <2>3, AdmissionStage
<1>2. CASE MarkPending(c)
  <2>1. /\ step = "mark_pending" /\ row' = [row EXCEPT !.indexing = "pending"]
        /\ Goes(c, <<Completed("mark_pending")>>, Resumed(c))
    BY <1>2 DEF MarkPending, At
  <2>2. row \in Rows /\ row # Null /\ row.request \notin Sensitive
    BY <1>1, <2>1 DEF Knows, RowOK
  <2>3. row' \in Rows /\ row'.indexing = "pending" /\ row'.request = row.request
    BY <2>1, <2>2 DEF Rows
  <2>4. row' # Null /\ RowOK'
    BY <2>2, <2>3, NullAssumption DEF RowOK
  <2>5. Resumed(c) \in {"vector_add", "acknowledge_supersession"}
    BY DEF Resumed
  <2>6. /\ Fits("admission", Resumed(c)) /\ Rank("mark_pending") < Due(Resumed(c), input)
        /\ Knows(Resumed(c), row')
    BY <2>3, <2>4, <2>5, AdmissionRanks DEF Fits, AdmissionSteps, Knows
  <2>7. "mark_pending" \in StorageStages \cup IndexStages
    BY DEF StorageStages
  <2> QED
    BY <1>1, <2>1, <2>4, <2>6, <2>7, Proceeding
<1>3. CASE CreateMemory(c)
  <2> DEFINE next == IF input \in Targeted THEN "supersession_lookup" ELSE "persist_pending"
  <2>1. step = "create" /\ UNCHANGED row /\ Goes(c, <<>>, next)
    BY <1>3 DEF CreateMemory, At, RowStays
  <2>2. Fits("admission", next) /\ Knows(next, row')
    BY DEF Fits, AdmissionSteps, Knows
  <2>3. Due(step, input) = Due(next, input) /\ Due(next, input) \in {4, 6}
    BY <2>1, AdmissionRanks
  <2> HIDE DEF next
  <2>4. Tidy(<<>>, Due(step, input), Due(next, input)) /\ RowOK'
    BY <1>1, <2>1, NothingIsTidy DEF RowOK
  <2> QED
    BY <1>1, <2>1, <2>2, <2>3, <2>4, Going
<1>4. CASE CreateFails(c)
  <2>1. PICK error \in {"invalid_admission_request", "other"} : Raises(c, <<>>, error)
    BY <1>4 DEF CreateFails
  <2>2. UNCHANGED row /\ step \notin {"told", "done"}
    BY <1>1, <1>4 DEF CreateFails, RowStays, AdmissionSteps
  <2> QED
    BY <1>1, <2>1, <2>2, Raising DEF PortErrors
<1>5. CASE FindTarget(c)
  <2>1. Passes(c, "supersession_lookup", "embedding")
    BY <1>5 DEF FindTarget
  <2>2. Fits("admission", "embedding") /\ Knows("embedding", row)
    BY DEF Fits, AdmissionSteps, Knows
  <2>3. /\ Rank("supersession_lookup") < Due("embedding", input)
        /\ "supersession_lookup" \in StorageStages \cup IndexStages
    BY AdmissionRanks DEF StorageStages
  <2> QED
    BY <1>1, <2>1, <2>2, <2>3, Passing
<1>6. CASE TargetRefused(c)
  <2>1. /\ step = "supersession_lookup" /\ UNCHANGED row
        /\ Raises(c, <<Completed("supersession_lookup")>>, "invalid_supersession_target")
    BY <1>6 DEF TargetRefused, At, RowStays
  <2>2. "supersession_lookup" \in StorageStages \cup IndexStages
    BY DEF StorageStages
  <2> QED
    BY <1>1, <2>1, <2>2, Raising
<1>7. CASE EmbedContent(c)
  <2> DEFINE next == IF input \in Targeted THEN "persist_pending" ELSE "create"
  <2>1. Passes(c, "embedding", next)
    BY <1>7 DEF EmbedContent
  <2>2. Fits("admission", next) /\ Knows(next, row)
    BY DEF Fits, AdmissionSteps, Knows
  <2>3. /\ Rank("embedding") < Due(next, input)
        /\ "embedding" \in StorageStages \cup IndexStages
    BY AdmissionRanks DEF IndexStages
  <2> HIDE DEF next
  <2> QED
    BY <1>1, <2>1, <2>2, <2>3, Passing
<1>8. CASE PersistPending(c)
  <2>1. /\ step = "persist_pending"
        /\ row' = [request |-> input, indexing |-> "pending", cleanup |-> Null, mapped |-> TRUE]
        /\ Goes(c, <<Completed("persist_pending")>>, "vector_add")
    BY <1>8 DEF PersistPending, At
  <2>2. row'.request = input /\ row'.indexing = "pending" /\ row' # Null /\ RowOK'
    <3>1. row' \in Rows
      BY <1>1, <2>1 DEF Rows, Underway
    <3>2. row'.request = input /\ row'.indexing = "pending"
      BY <2>1
    <3> QED
      BY <1>1, <3>1, <3>2, NullAssumption DEF RowOK, SensitiveAdmission
  <2>3. Fits("admission", "vector_add") /\ Knows("vector_add", row')
    BY <2>2 DEF Fits, AdmissionSteps, Knows
  <2>4. /\ Rank("persist_pending") < Due("vector_add", input)
        /\ "persist_pending" \in StorageStages \cup IndexStages
    BY AdmissionRanks DEF StorageStages
  <2> QED
    BY <1>1, <2>1, <2>2, <2>3, <2>4, Proceeding
<1>9. CASE AddVector(c)
  <2> DEFINE next == IF input \in Targeted THEN "acknowledge_supersession" ELSE "mark_indexed"
  <2>1. step = "vector_add" /\ UNCHANGED row /\ Goes(c, <<Completed("vector_add")>>, next)
    BY <1>9 DEF AddVector, At
  <2>2. Fits("admission", next) /\ Knows(next, row')
    BY <1>1, <2>1 DEF Fits, AdmissionSteps, Knows
  <2>3. /\ Rank("vector_add") < Due(next, input)
        /\ "vector_add" \in StorageStages \cup IndexStages
    BY AdmissionRanks DEF IndexStages
  <2> HIDE DEF next
  <2>4. RowOK'
    BY <1>1, <2>1 DEF RowOK
  <2> QED
    BY <1>1, <2>1, <2>2, <2>3, <2>4, Proceeding
<1> QED
  BY <1>2, <1>3, <1>4, <1>5, <1>6, <1>7, <1>8, <1>9
\* The transactions that end an admission say what they wrote.
LEMMA AdmissionEnds ==
    ASSUME EventsInvariant, NEW c \in Callers,
           MarkFailed(c) \/ MarkIndexed(c) \/ AcknowledgeSupersession(c)
    PROVE  EventsInvariant' /\ Truth
<1>1. ASSUME NEW stage \in {"mark_failed", "mark_indexed", "acknowledge_supersession"},
             NEW state \in {"failed", "indexed"}, Acknowledge(c, stage, state)
      PROVE  EventsInvariant' /\ Truth
  <2> DEFINE reason == IF state = "indexed" THEN "accepted_and_indexed" ELSE "indexing_failed"
             answer == Accepted(reason, state)
  <2>1. /\ inv[c].step = stage /\ row' = [row EXCEPT !.indexing = state]
        /\ Returns(c, <<Completed(stage)>>, answer)
    BY <1>1 DEF Acknowledge, At
  <2>2. stage \in StorageStages \cup IndexStages /\ stage \notin {"told", "done"}
    BY DEF StorageStages
  <2>3. Underway(inv[c]) /\ Knows(stage, row) /\ RowOK
    BY <2>1, <2>2, AtWork
  <2>4. inv[c].op = "admission" /\ Writing(inv[c])
    BY <2>1, <2>3 DEF Underway, Writing, Fits, RetrievalSteps, ForgettingSteps
  <2>5. row \in Rows /\ row.request \notin Sensitive
    BY <2>3 DEF Knows, RowOK
  <2>6. row' \in Rows /\ row'.indexing = state /\ row'.request = row.request
    BY <2>1, <2>5 DEF Rows
  <2>7. RowOK' /\ row' # Null
    BY <2>5, <2>6, NullAssumption DEF RowOK
  <2>8. Tells(answer, row')
    BY <2>6, <2>7 DEF Tells, Accepted, Reply
  <2>9. Answered(inv[c].op, answer)
    BY <2>4, AdmissionAnswers
  <2> HIDE DEF answer
  <2> QED
    BY <2>1, <2>2, <2>4, <2>7, <2>8, <2>9, Concluding
<1> QED
  BY <1>1 DEF MarkFailed, MarkIndexed, AcknowledgeSupersession

-----------------------------------------------------------------------------

\* The other answers fit their profiles.
LEMMA OtherAnswers ==
    /\ \A outcome \in RetrievalOutcomes : Answered("retrieval", Answer(outcome, outcome, FALSE))
    /\ Answered("forgetting", Answer("not_found", "memory_not_found", FALSE))
    /\ Answered("forgetting", Answer("forgotten", "forgotten", TRUE))
    /\ Answered("forgetting", Answer("forgotten", "already_forgotten", TRUE))
    /\ Answered("forgetting", Answer("cleanup_pending", "physical_cleanup_pending", TRUE))
    /\ Answered("forgetting",
                Answer("cleanup_pending", "physical_cleanup_identity_pending", TRUE))
<1>1. ASSUME NEW op \in {"retrieval", "forgetting"}, NEW outcome, NEW reason, NEW named,
             outcome \in ProfileOutcomes(op), reason \in ProfileReasons(op),
             op = "forgetting" => named = (outcome \notin {"not_found", "failed"}),
             reason # "configuration_mismatch"
      PROVE  Answered(op, Answer(outcome, reason, named))
  <2> DEFINE a == Answer(outcome, reason, named)
  <2>1. a.outcome = outcome /\ a.reason = reason /\ a.named = named /\ a.error = Null
    BY DEF Answer, Reply
  <2> HIDE DEF a
  <2>2. ~ Mismatch(Null)
    BY NullAssumption DEF Mismatch
  <2> QED
    BY <1>1, <2>1, <2>2 DEF Answered, Representable, a
<1>2. \A outcome \in RetrievalOutcomes :
        /\ outcome \in ProfileOutcomes("retrieval") /\ outcome \in ProfileReasons("retrieval")
        /\ outcome # "configuration_mismatch"
  BY DEF RetrievalOutcomes, ProfileOutcomes, ProfileReasons
<1>3. /\ {"not_found", "forgotten", "cleanup_pending"} \subseteq ProfileOutcomes("forgetting")
      /\ ForgettingReasons \subseteq ProfileReasons("forgetting")
  BY DEF ProfileOutcomes, ProfileReasons
<1>4. \A outcome \in RetrievalOutcomes : Answered("retrieval", Answer(outcome, outcome, FALSE))
  BY <1>1, <1>2
<1>5. Answered("forgetting", Answer("not_found", "memory_not_found", FALSE))
  BY <1>1, <1>3 DEF ForgettingReasons
<1>6. \A outcome \in {"forgotten", "cleanup_pending"},
         reason \in ForgettingReasons : Answered("forgetting", Answer(outcome, reason, TRUE))
  <2> TAKE outcome \in {"forgotten", "cleanup_pending"}, reason \in ForgettingReasons
  <2>1. reason # "configuration_mismatch"
    BY DEF ForgettingReasons
  <2> QED
    BY <1>1, <1>3, <2>1
<1> QED
  BY <1>4, <1>5, <1>6 DEF ForgettingReasons

LEMMA RetrievalRanks ==
    ASSUME NEW input
    PROVE  /\ Rank("expiration_transition") = 1 /\ Rank("current_allowlist") = 2
           /\ Rank("historical_allowlist") = 2 /\ Rank("embedding") = 5
           /\ Rank("vector_search") = 6
           /\ Rank("current_hydration") = 7 /\ Rank("historical_hydration") = 7
           /\ Rank("validate") = 1
           /\ \A step : step # "create" => Due(step, input) = Rank(step)
BY DEF Rank, Due

\* Retrievals hold no lock, and answer what their stages found.
LEMMA Retrieving ==
    ASSUME EventsInvariant, NEW c \in Callers,
           \/ ValidateRetrieval(c) \/ ExpireMemories(c) \/ Allowlist(c) \/ EmbedQuery(c)
           \/ Search(c) \/ Hydrate(c)
    PROVE  EventsInvariant' /\ Truth
<1> DEFINE step == inv[c].step
           input == inv[c].input
<1>1. /\ step \in RetrievalSteps /\ inv[c].op = "retrieval" /\ Underway(inv[c])
      /\ ~ SensitiveAdmission(inv[c]) /\ ~ Writing(inv[c]) /\ UNCHANGED row /\ RowOK'
      /\ step \notin {"told", "done"}
  <2>1. \/ step \in {"validate", "expiration_transition", "current_allowlist",
                     "historical_allowlist", "vector_search", "current_hydration",
                     "historical_hydration"}
        \/ step = "embedding" /\ inv[c].op = "retrieval"
    BY DEF ValidateRetrieval, ExpireMemories, Allowlist, EmbedQuery, Search, Hydrate, Passes, At
  <2>2. Underway(inv[c]) /\ RowOK
    BY <2>1, AtWork
  <2>3. step \in RetrievalSteps /\ inv[c].op = "retrieval" /\ step \notin {"told", "done"}
    BY <2>1, <2>2 DEF Underway, Fits, AdmissionSteps, RetrievalSteps, ForgettingSteps
  <2>4. UNCHANGED row
    BY DEF ValidateRetrieval, ExpireMemories, Allowlist, EmbedQuery, Search, Hydrate, Passes,
           RowStays
  <2> QED
    BY <2>2, <2>3, <2>4 DEF SensitiveAdmission, Writing, RowOK
<1>2. \A next \in RetrievalSteps : Fits("retrieval", next) /\ Knows(next, row)
  BY DEF Fits, RetrievalSteps, Knows
<1>3. \A stage \in RetrievalSteps \ {"validate"} : stage \in StorageStages \cup IndexStages
  BY DEF RetrievalSteps, StorageStages, IndexStages
<1>4. ASSUME NEW stage \in RetrievalSteps \ {"validate"}, NEW next \in RetrievalSteps,
             Passes(c, stage, next), Rank(stage) < Rank(next)
      PROVE  EventsInvariant' /\ Truth
  <2>1. Due(next, input) = Rank(next)
    BY RetrievalRanks DEF RetrievalSteps
  <2> QED
    BY <1>1, <1>2, <1>3, <1>4, <2>1, Passing
<1>5. CASE ValidateRetrieval(c)
  <2>1. CASE Goes(c, <<>>, IF IsCurrent(c) THEN "expiration_transition"
                           ELSE "historical_allowlist")
    <3> DEFINE next == IF IsCurrent(c) THEN "expiration_transition" ELSE "historical_allowlist"
    <3>1. next \in RetrievalSteps /\ Due(next, input) \in {1, 2}
      BY RetrievalRanks DEF RetrievalSteps
    <3>2. Due(step, input) = 1
      BY <1>5, RetrievalRanks DEF ValidateRetrieval, At
    <3>3. Goes(c, <<>>, next)
      BY <2>1
    <3> HIDE DEF next
    <3>4. Tidy(<<>>, Due(step, input), Due(next, input))
      BY NothingIsTidy
    <3> QED
      BY <1>1, <1>2, <3>1, <3>2, <3>3, <3>4, Going
  <2>2. CASE \E error \in {"invalid_retrieval_query", "invalid_tokenizer_configuration"} :
               Raises(c, <<>>, error)
    BY <1>1, <2>2, Raising
  <2>3. CASE \E error \in {"configuration", "other"} : Raises(c, <<>>, error)
    BY <1>1, <2>3, Raising DEF PortErrors
  <2> QED
    BY <1>5, <2>1, <2>2, <2>3 DEF ValidateRetrieval
<1>6. CASE ExpireMemories(c)
  BY <1>4, <1>6, RetrievalRanks DEF ExpireMemories, RetrievalSteps
<1>7. ASSUME NEW stage \in {"current_allowlist", "historical_allowlist"},
             \/ Passes(c, stage, "embedding")
             \/ /\ At(c, stage)
                /\ Returns(c, <<Completed(stage)>>,
                           Answer("no_eligible_memory", "no_eligible_memory", FALSE))
      PROVE  EventsInvariant' /\ Truth
  <2>1. CASE Passes(c, stage, "embedding")
    BY <1>4, <2>1, RetrievalRanks DEF RetrievalSteps
  <2>2. CASE /\ At(c, stage)
             /\ Returns(c, <<Completed(stage)>>,
                        Answer("no_eligible_memory", "no_eligible_memory", FALSE))
    <3>1. Answered("retrieval", Answer("no_eligible_memory", "no_eligible_memory", FALSE))
      BY OtherAnswers DEF RetrievalOutcomes
    <3>2. step = stage /\ stage \in StorageStages \cup IndexStages
      BY <2>2 DEF At, StorageStages
    <3> QED
      BY <1>1, <2>2, <3>1, <3>2, Concluding
  <2> QED
    BY <1>7, <2>1, <2>2
<1>8. CASE EmbedQuery(c)
  BY <1>4, <1>8, RetrievalRanks DEF EmbedQuery, RetrievalSteps
<1>9. CASE Search(c)
  <2>1. CASE Passes(c, "vector_search", IF IsCurrent(c) THEN "current_hydration"
                                        ELSE "historical_hydration")
    BY <1>4, <2>1, RetrievalRanks DEF RetrievalSteps
  <2>2. CASE At(c, "vector_search") /\ Raises(c, <<Completed("vector_search")>>, "other")
    <3>1. step = "vector_search" /\ "vector_search" \in StorageStages \cup IndexStages
      BY <2>2 DEF At, IndexStages
    <3> QED
      BY <1>1, <2>2, <3>1, Raising DEF PortErrors
  <2> QED
    BY <1>9, <2>1, <2>2 DEF Search
<1>10. ASSUME NEW stage \in {"current_hydration", "historical_hydration"}, At(c, stage),
              \/ \E outcome \in RetrievalOutcomes \ {"no_eligible_memory"} :
                    Returns(c, <<Completed(stage)>>, Answer(outcome, outcome, FALSE))
              \/ \E error \in {"invalid_tokenizer_result", "other"} :
                    Raises(c, <<Completed(stage)>>, error)
       PROVE  EventsInvariant' /\ Truth
  <2>1. step = stage /\ stage \in StorageStages \cup IndexStages
    BY <1>10 DEF At, StorageStages
  <2>2. ASSUME NEW outcome \in RetrievalOutcomes,
               Returns(c, <<Completed(stage)>>, Answer(outcome, outcome, FALSE))
        PROVE  EventsInvariant' /\ Truth
    BY <1>1, <2>1, <2>2, OtherAnswers, Concluding
  <2>3. ASSUME NEW error \in {"invalid_tokenizer_result", "other"},
               Raises(c, <<Completed(stage)>>, error)
        PROVE  EventsInvariant' /\ Truth
    BY <1>1, <2>1, <2>3, Raising DEF PortErrors
  <2> QED
    BY <1>10, <2>2, <2>3
<1> QED
  BY <1>5, <1>6, <1>7, <1>8, <1>9, <1>10 DEF Allowlist, Hydrate

LEMMA ForgettingRanks ==
    ASSUME NEW input
    PROVE  /\ Rank("forgetting_lookup") = 1 /\ Rank("requested_at") = 2
           /\ Rank("begin_forgetting") = 2 /\ Rank("vector_remove") = 3
           /\ Rank("completed_at") = 4 /\ Rank("acknowledge_forgetting") = 4
           /\ \A step : step # "create" => Due(step, input) = Rank(step)
BY DEF Rank, Due

\* What is known at a step of a forgetting.
LEMMA ForgettingStage ==
    ASSUME EventsInvariant, NEW c \in Callers, inv[c].step \in ForgettingSteps
    PROVE  /\ inv[c].op = "forgetting" /\ Underway(inv[c]) /\ Writing(inv[c])
           /\ ~ SensitiveAdmission(inv[c]) /\ inv[c].step \notin {"told", "done"}
           /\ Knows(inv[c].step, row) /\ RowOK
<1>1. inv[c].step \notin {"told", "done"}
  BY DEF ForgettingSteps
<1>2. Underway(inv[c])
  BY <1>1, AtWork
<1>3. inv[c].op = "forgetting"
  BY <1>2 DEF Underway, Fits, AdmissionSteps, RetrievalSteps, ForgettingSteps
<1> QED
  BY <1>1, <1>2, <1>3, AtWork DEF Writing, SensitiveAdmission

\* Once a forgetting is begun, its vector is removed, or reported missing.
LEMMA Removing ==
    ASSUME EventsInvariant, NEW c \in Callers,
           NEW stage \in {"forgetting_lookup", "begin_forgetting"}, inv[c].step = stage,
           NEW mapped, RemoveIf(c, mapped, <<Completed(stage)>>),
           RowOK', row' # Null, row'.cleanup = "cleanup_pending"
    PROVE  EventsInvariant' /\ Truth
<1>1. inv[c].step \in ForgettingSteps /\ stage \in StorageStages \cup IndexStages
  BY DEF ForgettingSteps, StorageStages
<1>2. inv[c].op = "forgetting" /\ Writing(inv[c]) /\ ~ SensitiveAdmission(inv[c])
  BY <1>1, ForgettingStage
<1>3. CASE Goes(c, <<Completed(stage)>>, "vector_remove")
  <2>1. Fits("forgetting", "vector_remove") /\ Knows("vector_remove", row')
    BY DEF Fits, ForgettingSteps, Knows
  <2>2. Rank(stage) < Due("vector_remove", inv[c].input)
    BY ForgettingRanks
  <2> QED
    BY <1>1, <1>2, <1>3, <2>1, <2>2, Proceeding
<1>4. CASE Returns(c, <<Completed(stage)>>,
                   Answer("cleanup_pending", "physical_cleanup_identity_pending", TRUE))
  <2> DEFINE answer == Answer("cleanup_pending", "physical_cleanup_identity_pending", TRUE)
  <2>1. Answered("forgetting", answer)
    BY OtherAnswers
  <2>2. Tells(answer, row')
    BY DEF Tells, Answer, Reply
  <2> HIDE DEF answer
  <2>3. Returns(c, <<Completed(stage)>>, answer)
    BY <1>4 DEF answer
  <2> QED
    BY <1>1, <1>2, <2>1, <2>2, <2>3, Concluding
<1> QED
  BY <1>3, <1>4 DEF RemoveIf

\* The steps of a forgetting.
LEMMA Forgetting ==
    ASSUME EventsInvariant, NEW c \in Callers,
           \/ FindForgettingTarget(c) \/ ReadClock(c) \/ ClockFails(c) \/ BeginForgetting(c)
           \/ RemoveVector(c) \/ AcknowledgeForgetting(c)
    PROVE  EventsInvariant' /\ Truth
<1> DEFINE step == inv[c].step
           input == inv[c].input
<1>1. /\ step \in ForgettingSteps /\ inv[c].op = "forgetting" /\ Underway(inv[c])
      /\ Writing(inv[c]) /\ ~ SensitiveAdmission(inv[c]) /\ step \notin {"told", "done"}
      /\ Knows(step, row) /\ RowOK
  <2>1. step \in ForgettingSteps
    BY DEF FindForgettingTarget, ReadClock, ClockFails, BeginForgetting, RemoveVector,
           AcknowledgeForgetting, Passes, At, ForgettingSteps
  <2> QED
    BY <2>1, ForgettingStage
<1>2. \A next \in ForgettingSteps : Fits("forgetting", next) /\ Due(next, input) = Rank(next)
  BY ForgettingRanks DEF Fits, ForgettingSteps
<1>3. {"forgetting_lookup", "begin_forgetting", "vector_remove", "acknowledge_forgetting"}
        \subseteq StorageStages \cup IndexStages
  BY DEF StorageStages, IndexStages
<1>4. CASE FindForgettingTarget(c)
  <2>1. step = "forgetting_lookup" /\ UNCHANGED row /\ RowOK'
    BY <1>1, <1>4 DEF FindForgettingTarget, At, RowStays, RowOK
  <2>2. ASSUME NEW answer, Returns(c, <<Completed("forgetting_lookup")>>, answer),
               Answered("forgetting", answer), Tells(answer, row')
        PROVE  EventsInvariant' /\ Truth
    BY <1>1, <1>3, <2>1, <2>2, Concluding
  <2>3. CASE row = Null \/ input = FALSE
    <3>1. Tells(Answer("not_found", "memory_not_found", FALSE), row')
      BY DEF Tells, Answer, Reply
    <3>2. Returns(c, <<Completed("forgetting_lookup")>>,
                  Answer("not_found", "memory_not_found", FALSE))
      BY <1>4, <2>3 DEF FindForgettingTarget
    <3> QED
      BY <2>2, <3>1, <3>2, OtherAnswers
  <2>4. CASE ~ (row = Null \/ input = FALSE) /\ row.cleanup = "complete"
    <3>1. Tells(Answer("forgotten", "already_forgotten", TRUE), row')
      BY <2>1, <2>4 DEF Tells, Answer, Reply
    <3>2. Returns(c, <<Completed("forgetting_lookup")>>,
                  Answer("forgotten", "already_forgotten", TRUE))
      BY <1>4, <2>4 DEF FindForgettingTarget
    <3> QED
      BY <2>2, <3>1, <3>2, OtherAnswers
  <2>5. CASE ~ (row = Null \/ input = FALSE) /\ row.cleanup = "cleanup_pending"
    <3>1. RemoveIf(c, row.mapped, <<Completed("forgetting_lookup")>>)
      BY <1>4, <2>5 DEF FindForgettingTarget
    <3> QED
      BY <2>1, <2>5, <3>1, Removing
  <2>6. CASE /\ ~ (row = Null \/ input = FALSE)
             /\ row.cleanup \notin {"complete", "cleanup_pending"}
    <3>1. Goes(c, <<Completed("forgetting_lookup")>>, "requested_at")
      BY <1>4, <2>6 DEF FindForgettingTarget
    <3>2. Knows("requested_at", row')
      BY <2>1, <2>6 DEF Knows
    <3>3. /\ Fits("forgetting", "requested_at")
          /\ Rank("forgetting_lookup") < Due("requested_at", input)
      BY <1>2, ForgettingRanks DEF ForgettingSteps
    <3> QED
      BY <1>1, <1>3, <2>1, <3>1, <3>2, <3>3, Proceeding
  <2> QED
    BY <2>3, <2>4, <2>5, <2>6
<1>5. CASE ReadClock(c)
  <2>1. PICK next \in {"begin_forgetting", "acknowledge_forgetting"} :
          /\ Goes(c, <<>>, next) /\ UNCHANGED row
          /\ step = IF next = "begin_forgetting" THEN "requested_at" ELSE "completed_at"
    BY <1>5 DEF ReadClock, At, RowStays
  <2>2. Due(step, input) = Due(next, input) /\ Due(next, input) \in {2, 4}
    BY <1>2, <2>1, ForgettingRanks DEF ForgettingSteps
  <2>3. Fits("forgetting", next) /\ Knows(next, row') /\ RowOK'
    BY <1>1, <1>2, <2>1 DEF Knows, ForgettingSteps, RowOK
  <2>4. Tidy(<<>>, Due(step, input), Due(next, input))
    BY NothingIsTidy
  <2> QED
    BY <1>1, <2>1, <2>2, <2>3, <2>4, Going
<1>6. CASE ClockFails(c)
  <2>1. PICK error \in {"configuration", "other"} : Raises(c, <<>>, error)
    BY <1>6 DEF ClockFails
  <2>2. UNCHANGED row
    BY <1>6 DEF ClockFails, RowStays
  <2> QED
    BY <1>1, <2>1, <2>2, Raising DEF PortErrors
<1>7. CASE BeginForgetting(c)
  <2>1. /\ step = "begin_forgetting" /\ row' = [row EXCEPT !.cleanup = "cleanup_pending"]
        /\ RemoveIf(c, row.mapped, <<Completed("begin_forgetting")>>)
    BY <1>7 DEF BeginForgetting, At
  <2>2. row \in Rows /\ row.request \notin Sensitive
    BY <1>1, <2>1 DEF Knows, RowOK
  <2>3. row' \in Rows /\ row'.cleanup = "cleanup_pending" /\ row'.request = row.request
    BY <2>1, <2>2 DEF Rows
  <2>4. RowOK' /\ row' # Null
    BY <2>2, <2>3, NullAssumption DEF RowOK
  <2> QED
    BY <2>1, <2>3, <2>4, Removing
<1>8. CASE RemoveVector(c)
  <2>1. Passes(c, "vector_remove", "completed_at") /\ step = "vector_remove"
    BY <1>8 DEF RemoveVector, Passes, At
  <2>2. Fits("forgetting", "completed_at") /\ Knows("completed_at", row)
    BY <1>1, <1>2, <2>1 DEF Knows, ForgettingSteps
  <2>3. Rank("vector_remove") < Due("completed_at", input)
    BY <1>2, ForgettingRanks DEF ForgettingSteps
  <2> QED
    BY <1>1, <1>3, <2>1, <2>2, <2>3, Passing
<1>9. CASE AcknowledgeForgetting(c)
  <2> DEFINE answer == Answer("forgotten", "forgotten", TRUE)
  <2>1. /\ step = "acknowledge_forgetting"
        /\ row' = [row EXCEPT !.cleanup = "complete", !.mapped = FALSE]
        /\ Returns(c, <<Completed("acknowledge_forgetting")>>, answer)
    BY <1>9 DEF AcknowledgeForgetting, At
  <2>2. row \in Rows /\ row.request \notin Sensitive
    BY <1>1, <2>1 DEF Knows, RowOK
  <2>3. row' \in Rows /\ row'.cleanup = "complete" /\ row'.request = row.request
    <3>1. row = [request |-> row.request, indexing |-> row.indexing,
                 cleanup |-> row.cleanup, mapped |-> row.mapped]
      BY <2>2 DEF Rows
    <3>2. row' = [request |-> row.request, indexing |-> row.indexing,
                  cleanup |-> "complete", mapped |-> FALSE]
      BY <2>1, <3>1
    <3> QED
      BY <2>2, <3>2 DEF Rows
  <2>4. RowOK'
    BY <2>2, <2>3 DEF RowOK
  <2>5. Tells(answer, row') /\ Answered("forgetting", answer)
    BY <2>3, OtherAnswers DEF Tells, Answer, Reply
  <2> HIDE DEF answer
  <2> QED
    BY <1>1, <1>3, <2>1, <2>4, <2>5, Concluding
<1> QED
  BY <1>4, <1>5, <1>6, <1>7, <1>8, <1>9

\* What a workflow answers when it does not raise fits its profile, and the row.
LEMMA CaughtAnswer ==
    ASSUME EventsInvariant, NEW c \in Callers, NEW error,
           NEW stage \in StorageStages \cup IndexStages, inv[c].step = stage,
           Caught(stage, error) # Null
    PROVE  Answered(inv[c].op, Caught(stage, error)) /\ Tells(Caught(stage, error), row)
<1> DEFINE reason ==
             IF stage = "mark_failed" THEN "indexing_failed"
             ELSE IF stage = "mark_indexed" THEN "indexing_acknowledgement_failed"
             ELSE "supersession_acknowledgement_failed"
<1>1. \/ /\ stage \in {"mark_failed", "mark_indexed", "acknowledge_supersession"}
         /\ Caught(stage, error) = Accepted(reason, "pending")
      \/ /\ stage \in {"vector_remove", "acknowledge_forgetting"}
         /\ Caught(stage, error) = Answer("cleanup_pending", "physical_cleanup_pending", TRUE)
  BY DEF Caught
<1>2. Underway(inv[c]) /\ Knows(stage, row)
  <2>1. stage \notin {"told", "done"}
    BY DEF StorageStages, IndexStages
  <2> QED
    BY <2>1, AtWork
<1>3. CASE /\ stage \in {"mark_failed", "mark_indexed", "acknowledge_supersession"}
           /\ Caught(stage, error) = Accepted(reason, "pending")
  <2>1. inv[c].op = "admission"
    BY <1>2, <1>3 DEF Underway, Fits, RetrievalSteps, ForgettingSteps
  <2>2. reason \in {"indexing_failed", "indexing_acknowledgement_failed",
                    "supersession_acknowledgement_failed"}
    OBVIOUS
  <2> HIDE DEF reason
  <2>3. Answered("admission", Accepted(reason, "pending"))
    BY <2>2, AdmissionAnswers
  <2>4. Tells(Accepted(reason, "pending"), row)
    BY <1>2, <1>3 DEF Tells, Accepted, Reply, Knows
  <2> QED
    BY <1>3, <2>1, <2>3, <2>4
<1>4. CASE /\ stage \in {"vector_remove", "acknowledge_forgetting"}
           /\ Caught(stage, error) = Answer("cleanup_pending", "physical_cleanup_pending", TRUE)
  <2>1. inv[c].op = "forgetting"
    BY <1>2, <1>4 DEF Underway, Fits, RetrievalSteps, AdmissionSteps
  <2>2. Tells(Answer("cleanup_pending", "physical_cleanup_pending", TRUE), row)
    BY <1>2, <1>4 DEF Tells, Answer, Reply, Knows
  <2> QED
    BY <1>4, <2>1, <2>2, OtherAnswers
<1> QED
  BY <1>1, <1>3, <1>4

\* A stage that fails.
LEMMA Failing ==
    ASSUME EventsInvariant, NEW c \in Callers, NEW error \in PortErrors, StageFails(c, error)
    PROVE  EventsInvariant' /\ Truth
<1> DEFINE stage == inv[c].step
           failed == <<Failed(stage)>>
<1>1. /\ stage \in StorageStages \cup IndexStages /\ stage \notin {"told", "done", "create"}
      /\ UNCHANGED row
  BY DEF StageFails, RowStays, StorageStages, IndexStages
<1>2. /\ Underway(inv[c]) /\ Knows(stage, row) /\ RowOK'
      /\ SensitiveAdmission(inv[c]) => stage = "idempotency_lookup"
  BY <1>1, AtWork DEF RowOK
<1>3. /\ Due(stage, inv[c].input) = Rank(stage) /\ Rank(stage) \in Nat /\ Rank(stage) < 9
  <2>1. Rank(stage) # 9
    BY <1>1 DEF Rank, StorageStages, IndexStages
  <2> QED
    BY <1>1, <2>1, RankIsNatural DEF Due
<1>4. CASE stage = "vector_add" /\ error = "indexing"
  <2>1. Goes(c, failed, "mark_failed")
    BY <1>4 DEF StageFails
  <2>2. inv[c].op = "admission" /\ Writing(inv[c]) /\ ~ SensitiveAdmission(inv[c])
    BY <1>2, <1>4 DEF Underway, Writing, Fits, RetrievalSteps, ForgettingSteps
  <2>3. Fits("admission", "mark_failed") /\ Knows("mark_failed", row')
    BY <1>1, <1>2, <1>4 DEF Fits, AdmissionSteps, Knows
  <2>4. Rank(stage) = 7 /\ Due("mark_failed", inv[c].input) = 8
    BY <1>4, AdmissionRanks
  <2>5. Tidy(failed, Rank(stage), 8)
    <3>1. Rank(stage) < 8
      BY <2>4
    <3> QED
      BY <1>1, <3>1, StageIsTidy
  <2> HIDE DEF failed
  <2> QED
    BY <1>1, <1>2, <1>3, <2>1, <2>2, <2>3, <2>4, <2>5, Going
<1>5. CASE Returns(c, failed, Caught(stage, error)) /\ Caught(stage, error) # Null
  <2> DEFINE answer == Caught(stage, error)
  <2>1. Answered(inv[c].op, answer) /\ Tells(answer, row')
    BY <1>1, <1>5, CaughtAnswer
  <2>2. Tidy(failed, Due(stage, inv[c].input), 9)
    BY <1>1, <1>3, StageIsTidy
  <2>3. SensitiveAdmission(inv[c]) => \A k \in DOMAIN failed : failed[k][2] \notin Forbidden
    BY <1>2 DEF Failed, Forbidden
  <2> HIDE DEF answer, failed
  <2>4. Returns(c, failed, answer)
    BY <1>5 DEF answer
  <2> QED
    BY <1>1, <1>2, <2>1, <2>2, <2>3, <2>4, Returning
<1>6. CASE Raises(c, failed, error)
  BY <1>1, <1>6, Raising
<1> QED
  BY <1>4, <1>5, <1>6 DEF StageFails

\* After the events of the stages come that of a mismatch and the terminal one.
LEMMA Told ==
    ASSUME NEW i, i.op \in Ops, NEW s, Tidy(s, 1, 9), NEW new,
           \/ i.answer.reason # "configuration_mismatch"
              /\ new = <<<<TerminalOf(i.op), i.answer.reason>>>>
           \/ i.answer.reason = "configuration_mismatch"
              /\ new = <<<<"configuration_failed", "configuration_mismatch">>,
                         <<TerminalOf(i.op), i.answer.reason>>>>,
           i.events = s \o new
    PROVE  /\ OneTerminal(i) /\ MismatchTold(i)
           /\ \A k \in DOMAIN i.events :
                 \/ k \in DOMAIN s /\ i.events[k] = s[k]
                 \/ i.events[k][2] \in {"configuration_mismatch", i.answer.reason}
<1> DEFINE u == i.events
           n == Len(s)
           reason == i.answer.reason
           terminal == <<TerminalOf(i.op), reason>>
           told == <<"configuration_failed", "configuration_mismatch">>
           Terminals == {"admission_completed", "retrieval_completed", "forgetting_completed"}
<1>1. PICK m \in {0, 1} : /\ m = 1 <=> reason = "configuration_mismatch"
                          /\ new = IF m = 1 THEN <<told, terminal>> ELSE <<terminal>>
  <2>1. CASE reason # "configuration_mismatch" /\ new = <<terminal>>
    BY <2>1
  <2>2. CASE reason = "configuration_mismatch" /\ new = <<told, terminal>>
    BY <2>2
  <2> QED
    BY <2>1, <2>2
<1>2. s \in Seq(Events) /\ n \in Nat /\ DOMAIN s = 1..n
  BY DEF Tidy
<1>3. /\ u \in Seq({s[k] : k \in DOMAIN s} \cup {told, terminal}) /\ Len(u) = n + m + 1
      /\ DOMAIN u = 1..(n + m + 1)
      /\ \A k \in 1..n : u[k] = s[k]
      /\ u[n + m + 1] = terminal
      /\ m = 1 => u[n + 1] = told
  <2> HIDE DEF terminal, told
  <2> DEFINE E == {s[k] : k \in DOMAIN s} \cup {told, terminal}
  <2>1. s \in Seq(E)
    BY <1>2
  <2>2. told \in E /\ terminal \in E
    OBVIOUS
  <2> HIDE DEF E
  <2>3. /\ new \in Seq(E) /\ DOMAIN new = 1..(m + 1) /\ Len(new) = m + 1
        /\ new[m + 1] = terminal /\ (m = 1 => new[1] = told)
    <3>1. CASE m = 0
      <4>1. new = <<terminal>>
        BY <1>1, <3>1
      <4> QED
        BY <2>2, <3>1, <4>1
    <3>2. CASE m = 1
      <4>1. new = <<told, terminal>>
        BY <1>1, <3>2
      <4> QED
        BY <2>2, <3>2, <4>1
    <3> QED
      BY <3>1, <3>2
  <2>4. /\ s \o new \in Seq(E) /\ Len(s \o new) = n + (m + 1)
        /\ \A k \in 1..(n + (m + 1)) : (s \o new)[k] = IF k <= n THEN s[k] ELSE new[k - n]
    BY <1>2, <2>1, <2>3
  <2> QED
    BY <1>1, <1>2, <2>3, <2>4 DEF E
<1>4. /\ TerminalOf(i.op) \in Terminals
      /\ terminal[1] = TerminalOf(i.op) /\ terminal[2] = reason
      /\ told[1] = "configuration_failed" /\ told[2] = "configuration_mismatch"
  BY DEF TerminalOf, Ops
<1>5. \A k \in 1..n : s[k][1] \in StageKinds
  BY <1>2 DEF Events
<1> HIDE DEF u, n, terminal, told, reason
<1>6. \A k \in 1..n : u[k][1] \notin Terminals \cup {"configuration_failed"}
  BY <1>3, <1>5 DEF StageKinds
<1>7. \A k \in 1..(n + m + 1) :
         k \in 1..n \/ (m = 1 /\ k = n + 1 /\ u[k] = told) \/ (k = n + m + 1 /\ u[k] = terminal)
  BY <1>1, <1>2, <1>3
<1>8. n + m + 1 \in 1..(n + m + 1)
  BY <1>1, <1>2
<1>9. {k \in DOMAIN u : u[k][1] \in Terminals} = {Len(u)}
  BY <1>3, <1>4, <1>6, <1>7, <1>8
<1>10. Last(u) = terminal
  BY <1>3 DEF Last
<1>11. IsInjective(u)
  <2> SUFFICES ASSUME NEW j \in 1..(n + m + 1), NEW k \in 1..(n + m + 1), u[j] = u[k]
               PROVE  j = k
    BY <1>3 DEF IsInjective
  <2>1. j \in 1..n /\ k \in 1..n => j = k
    BY <1>2, <1>3 DEF Tidy, IsInjective
  <2>2. told[1] \notin Terminals
    BY <1>4
  <2> QED
    BY <1>1, <1>2, <1>4, <1>6, <1>7, <2>1, <2>2
<1>12. ASSUME NEW k \in DOMAIN u, k + 1 \in DOMAIN u
       PROVE  u[k][1] = "configuration_failed"
                <=> u[k + 1][2] = "configuration_mismatch" /\ u[k + 1][1] = TerminalOf(i.op)
  <2>1. k \in 1..(n + m + 1) /\ k + 1 \in 1..(n + m + 1) /\ k \in Nat
    BY <1>1, <1>2, <1>3, <1>12
  <2>2. CASE k + 1 \in 1..n
    <3>1. k \in 1..n
      BY <1>2, <2>1, <2>2
    <3> QED
      BY <1>4, <1>6, <2>2, <3>1
  <2>3. CASE k = n /\ m = 1
    <3>1. k \in 1..n /\ u[k + 1] = told
      BY <1>2, <1>3, <2>1, <2>3
    <3> QED
      BY <1>4, <1>6, <3>1
  <2>4. CASE k = n /\ m = 0
    <3>1. k \in 1..n /\ u[k + 1] = terminal
      BY <1>2, <1>3, <2>1, <2>4
    <3> QED
      BY <1>1, <1>4, <1>6, <2>4, <3>1
  <2>5. CASE k = n + 1 /\ m = 1
    <3>1. u[k] = told /\ u[k + 1] = terminal
      BY <1>2, <1>3, <2>5
    <3> QED
      BY <1>1, <1>4, <2>5, <3>1
  <2> QED
    BY <1>1, <1>2, <2>1, <2>2, <2>3, <2>4, <2>5
<1>13. \A k \in DOMAIN u : \/ k \in DOMAIN s /\ u[k] = s[k]
                           \/ u[k][2] \in {"configuration_mismatch", reason}
  BY <1>2, <1>3, <1>4, <1>7
<1> QED
  BY <1>9, <1>10, <1>11, <1>12, <1>13 DEF OneTerminal, MismatchTold, u, terminal, reason

LEMMA Joined ==
    ASSUME NEW a, NEW b
    PROVE  <<a>> \o <<b>> = <<a, b>> /\ <<>> \o <<b>> = <<b>>
<1>1. <<a>> \in Seq({a, b}) /\ <<b>> \in Seq({a, b}) /\ <<>> \in Seq({a, b})
  OBVIOUS
<1>2. <<>> \o <<b>> = <<b>>
  BY <1>1
<1> DEFINE s == <<a>> \o <<b>>
           t == <<a, b>>
<1>3. s \in Seq({a, b}) /\ Len(s) = 2 /\ s[1] = a /\ s[2] = b
  BY <1>1
<1>4. t \in Seq({a, b}) /\ Len(t) = 2 /\ t[1] = a /\ t[2] = b
  OBVIOUS
<1> HIDE DEF s, t
<1>5. s = [k \in 1..2 |-> s[k]] /\ t = [k \in 1..2 |-> t[k]]
  BY <1>3, <1>4
<1>6. \A k \in 1..2 : s[k] = t[k]
  BY <1>3, <1>4
<1>7. s = t
  BY <1>5, <1>6
<1> QED
  BY <1>2, <1>7 DEF s, t

\* Whatever was answered is told.
LEMMA Telling ==
    ASSUME EventsInvariant, NEW c \in Callers, Tell(c)
    PROVE  EventsInvariant' /\ Truth
<1> DEFINE i == inv[c]
           answer == i.answer
           terminal == <<<<TerminalOf(i.op), answer.reason>>>>
           mismatch == <<<<"configuration_failed", "configuration_mismatch">>>>
           new == IF Mismatch(answer.error) THEN mismatch \o terminal ELSE <<>> \o terminal
           j == [op |-> i.op, input |-> i.input, step |-> "done", answer |-> answer,
                 events |-> i.events \o new]
<1>1. /\ i.step = "told" /\ InvocationOK(i) /\ UNCHANGED row /\ lock' = lock
      /\ lock \in Callers \cup {Null} /\ RowOK'
  BY DEF Tell, At, RowStays, Goes, EventsInvariant, LockOK, RowOK
<1>2. /\ i.op \in Ops /\ Tidy(i.events, 1, 9) /\ Answered(i.op, answer)
      /\ ~ Underway(i)
  BY <1>1 DEF InvocationOK, Progress, Underway, Fits, AdmissionSteps, RetrievalSteps,
              ForgettingSteps
<1>3. Goes(c, new, "done")
  BY <1>2 DEF Tell, Answered
<1>4. new = IF answer.reason = "configuration_mismatch"
            THEN <<<<"configuration_failed", "configuration_mismatch">>,
                   <<TerminalOf(i.op), answer.reason>>>>
            ELSE terminal
  <2> DEFINE a == <<"configuration_failed", "configuration_mismatch">>
             b == <<TerminalOf(i.op), answer.reason>>
  <2>1. Mismatch(answer.error) <=> answer.reason = "configuration_mismatch"
    BY <1>2 DEF Answered
  <2> HIDE DEF a, b
  <2>2. <<a>> \o <<b>> = <<a, b>> /\ <<>> \o <<b>> = <<b>>
    BY Joined
  <2> QED
    BY <2>1, <2>2 DEF a, b
<1>5. i = [op |-> i.op, input |-> i.input, step |-> i.step, answer |-> i.answer,
           events |-> i.events]
  BY <1>1 DEF InvocationOK, Shape
<1> HIDE DEF new
<1>6. inv' = [inv EXCEPT ![c] = j]
  <2>1. inv' = [inv EXCEPT ![c].events = @ \o new, ![c].step = "done"]
    BY <1>3 DEF Goes
  <2>2. [[i EXCEPT !.events = @ \o new] EXCEPT !.step = "done"] = j
    BY <1>5, GoneOn
  <2> QED
    BY <2>1, <2>2 DEF EventsInvariant
<1>7. /\ j.op = i.op /\ j.input = i.input /\ j.step = "done" /\ j.answer = answer
      /\ j.events = i.events \o new /\ Shape(j)
  BY DEF Shape
<1> HIDE DEF j
<1>8. /\ OneTerminal(j) /\ MismatchTold(j)
      /\ \A k \in DOMAIN j.events :
            \/ k \in DOMAIN i.events /\ j.events[k] = i.events[k]
            \/ j.events[k][2] \in {"configuration_mismatch", answer.reason}
  <2>1. \/ j.answer.reason # "configuration_mismatch"
           /\ new = <<<<TerminalOf(j.op), j.answer.reason>>>>
        \/ j.answer.reason = "configuration_mismatch"
           /\ new = <<<<"configuration_failed", "configuration_mismatch">>,
                      <<TerminalOf(j.op), j.answer.reason>>>>
    BY <1>4, <1>7
  <2>2. j.op \in Ops /\ Tidy(i.events, 1, 9) /\ j.answer.reason = answer.reason
    BY <1>2, <1>7
  <2> HIDE DEF i, answer, terminal
  <2> QED
    BY <1>7, <2>1, <2>2, Told
<1>9. Untouched(j)
  <2> SUFFICES ASSUME SensitiveAdmission(j), NEW k \in DOMAIN j.events
               PROVE  j.events[k][2] \notin Forbidden
    BY <1>7 DEF Untouched
  <2>1. SensitiveAdmission(i) /\ i.op = "admission"
    BY <1>7 DEF SensitiveAdmission
  <2>2. k \in DOMAIN i.events => i.events[k][2] \notin Forbidden
    BY <1>1, <2>1 DEF InvocationOK, Untouched
  <2>3. answer.reason \in ProfileReasons("admission")
    BY <1>2, <2>1 DEF Answered, Representable
  <2>4. answer.reason \notin Forbidden
    BY <2>3 DEF ProfileReasons, Forbidden
  <2> QED
    BY <1>8, <2>2, <2>4 DEF Forbidden
<1>10. InvocationOK(j) /\ Knows(j.step, row') /\ ~ Writing(j) /\ ~ Writing(i)
  BY <1>2, <1>7, <1>8, <1>9 DEF InvocationOK, Progress, Knows, Writing, Underway, Fits,
     AdmissionSteps, RetrievalSteps, ForgettingSteps
<1>11. EventsInvariant'
  BY <1>1, <1>6, <1>10, OneMoves
<1>12. Truth
  BY <1>1, NullAssumption DEF Truth
<1> QED
  BY <1>11, <1>12

-----------------------------------------------------------------------------
(* The invariant, and what it says.                                        *)

LEMMA EventsInit == Init => EventsInvariant
<1> SUFFICES ASSUME Init PROVE EventsInvariant
  OBVIOUS
<1> DEFINE i == Called(Null, Null, "done")
<1>1. i.op = Null /\ i.step = "done" /\ i.events = <<>> /\ Shape(i)
  BY DEF Called, Shape
<1> HIDE DEF i
<1>2. inv = [c \in Callers |-> i]
  BY DEF Init, i
<1>3. InvocationOK(i) /\ Knows(i.step, row) /\ ~ Writing(i)
  BY <1>1 DEF InvocationOK, Progress, Untouched, Knows, Writing, Underway, Fits,
     AdmissionSteps, RetrievalSteps, ForgettingSteps
<1>4. RowOK
  <2> SUFFICES ASSUME row # Null PROVE row \in Rows /\ row.request \notin Sensitive
    BY DEF RowOK
  <2>1. PICK r \in Requests \ Sensitive :
          row = [request |-> r, indexing |-> "indexed", cleanup |-> "cleanup_pending",
                 mapped |-> FALSE]
    BY DEF Init
  <2> QED
    BY <2>1 DEF Rows
<1>5. lock = Null
  BY DEF Init
<1> QED
  BY <1>2, <1>3, <1>4, <1>5, NullAssumption DEF EventsInvariant, LockOK

LEMMA EventsStep == EventsInvariant /\ [Next]_vars => EventsInvariant' /\ Truth
<1> SUFFICES ASSUME EventsInvariant, [Next]_vars PROVE EventsInvariant' /\ Truth
  OBVIOUS
<1>1. CASE UNCHANGED vars
  <2>1. EventsInvariant'
    BY <1>1 DEF vars, EventsInvariant, LockOK, RowOK, Writing, Underway, Fits, InvocationOK,
       Shape, Progress, Untouched, SensitiveAdmission, Knows
  <2>2. lock' = lock /\ lock \in Callers \cup {Null}
    BY <1>1 DEF vars, EventsInvariant, LockOK
  <2> QED
    BY <2>1, <2>2, NullAssumption DEF Truth
<1>2. CASE Next
  <2> PICK c \in Callers :
         \/ Admit(c) \/ AdmitMalformed(c) \/ Retrieve(c) \/ Forget(c)
         \/ LookedUpNew(c) \/ LookedUpConflict(c) \/ LookedUpStored(c) \/ LookedUpWork(c)
         \/ MarkPending(c) \/ CreateMemory(c) \/ CreateFails(c) \/ FindTarget(c)
         \/ TargetRefused(c) \/ EmbedContent(c) \/ PersistPending(c) \/ AddVector(c)
         \/ MarkFailed(c) \/ MarkIndexed(c) \/ AcknowledgeSupersession(c)
         \/ ValidateRetrieval(c) \/ ExpireMemories(c) \/ Allowlist(c) \/ EmbedQuery(c)
         \/ Search(c) \/ Hydrate(c)
         \/ FindForgettingTarget(c) \/ ReadClock(c) \/ ClockFails(c) \/ BeginForgetting(c)
         \/ RemoveVector(c) \/ AcknowledgeForgetting(c)
         \/ \E error \in PortErrors : StageFails(c, error)
         \/ Tell(c)
    BY <1>2 DEF Next
  <2>1. CASE Admit(c) \/ AdmitMalformed(c) \/ Retrieve(c) \/ Forget(c)
    BY <2>1, Starting
  <2>2. CASE LookedUpNew(c) \/ LookedUpConflict(c) \/ LookedUpStored(c) \/ LookedUpWork(c)
    BY <2>2, LookingUp
  <2>3. CASE \/ MarkPending(c) \/ CreateMemory(c) \/ CreateFails(c) \/ FindTarget(c)
             \/ TargetRefused(c) \/ EmbedContent(c) \/ PersistPending(c) \/ AddVector(c)
    BY <2>3, Admitting
  <2>4. CASE MarkFailed(c) \/ MarkIndexed(c) \/ AcknowledgeSupersession(c)
    BY <2>4, AdmissionEnds
  <2>5. CASE \/ ValidateRetrieval(c) \/ ExpireMemories(c) \/ Allowlist(c) \/ EmbedQuery(c)
             \/ Search(c) \/ Hydrate(c)
    BY <2>5, Retrieving
  <2>6. CASE \/ FindForgettingTarget(c) \/ ReadClock(c) \/ ClockFails(c) \/ BeginForgetting(c)
             \/ RemoveVector(c) \/ AcknowledgeForgetting(c)
    BY <2>6, Forgetting
  <2>7. CASE \E error \in PortErrors : StageFails(c, error)
    BY <2>7, Failing
  <2>8. CASE Tell(c)
    BY <2>8, Telling
  <2> QED
    BY <2>1, <2>2, <2>3, <2>4, <2>5, <2>6, <2>7, <2>8
<1> QED
  BY <1>1, <1>2

LEMMA EventsAlways == Spec => []EventsInvariant
BY EventsInit, EventsStep, PTL DEF Spec

\* Whatever the callers, the requests and the failures, every invocation of
\* MemoryService that ended offered to the sink one event of each stage it
\* attempted and one terminal event, of its own operation and its last: none
\* of its answers fails the profile that MemoryEvent demands.
THEOREM TerminalEach == Spec => []OneTerminalEach
<1>1. EventsInvariant => OneTerminalEach
  <2> SUFFICES ASSUME EventsInvariant, NEW c \in Callers, Ended(c)
               PROVE  OneTerminal(inv[c])
    BY DEF OneTerminalEach, OneTerminal
  <2>1. inv[c].step = "done" /\ inv[c].op # Null
    BY DEF Ended, At
  <2>2. ~ Underway(inv[c])
    BY <2>1 DEF Underway, Fits, AdmissionSteps, RetrievalSteps, ForgettingSteps
  <2> QED
    BY <2>1, <2>2 DEF EventsInvariant, InvocationOK, Progress
<1> QED
  BY <1>1, EventsAlways, PTL

\* configuration_failed is offered by _observe_configuration_error just before
\* the terminal event of an invocation that a mismatch ended, and only there.
THEOREM MismatchFirst == Spec => []MismatchToldFirst
<1>1. EventsInvariant => MismatchToldFirst
  <2> SUFFICES ASSUME EventsInvariant, NEW c \in Callers, Ended(c)
               PROVE  MismatchTold(inv[c])
    BY DEF MismatchToldFirst, MismatchTold
  <2>1. inv[c].step = "done" /\ inv[c].op # Null
    BY DEF Ended, At
  <2>2. ~ Underway(inv[c])
    BY <2>1 DEF Underway, Fits, AdmissionSteps, RetrievalSteps, ForgettingSteps
  <2> QED
    BY <2>1, <2>2 DEF EventsInvariant, InvocationOK, Progress
<1> QED
  BY <1>1, EventsAlways, PTL

\* Content that evaluate_credential_admission rejects is in no row, and no
\* admission of it, retried or concurrent, reaches the embedder or the lookup
\* of a target.
THEOREM RejectedUntouched == Spec => []RejectedContentUntouched
<1>1. EventsInvariant => RejectedContentUntouched
  <2> SUFFICES ASSUME EventsInvariant
               PROVE  RejectedContentUntouched
    OBVIOUS
  <2>1. row # Null => row.request \notin Sensitive
    BY DEF EventsInvariant, RowOK
  <2>2. ASSUME NEW c \in Callers, inv[c].op = "admission", inv[c].input \in Sensitive
        PROVE  Stages(c) \cap {"supersession_lookup", "embedding", "persist_pending"} = {}
    BY <2>2 DEF EventsInvariant, InvocationOK, Untouched, SensitiveAdmission, Forbidden, Stages
  <2> QED
    BY <2>1, <2>2 DEF RejectedContentUntouched
<1> QED
  BY <1>1, EventsAlways, PTL

\* An admission or a forgetting answers what the row says when the lock is let
\* go: no indexing state, no completed and no pending forgetting is reported
\* that the store does not hold.
THEOREM AnswersTellTheRow == Spec => AnswerTellsRow
<1> DEFINE Truthful == \A c \in Callers : lock = c /\ lock' = Null =>
             LET answer == inv'[c].answer
             IN /\ answer.indexing # Null => row' # Null /\ answer.indexing = row'.indexing
                /\ answer.outcome = "forgotten" => row'.cleanup = "complete"
                /\ answer.outcome = "cleanup_pending" => row'.cleanup = "cleanup_pending"
                /\ answer.outcome = "rejected" => row' = Null
<1>1. EventsInvariant /\ [Next]_vars => [Truthful]_vars
  BY EventsStep DEF Truth, Tells
<1>2. (Spec => [][Truthful]_vars)
  BY <1>1, EventsAlways, PTL DEF Spec
<1> QED
  BY <1>2 DEF AnswerTellsRow

=============================================================================
