-------------------------- MODULE StartupEventsProofs --------------------------
(***************************************************************************)
(* What a start-up and a recovery tell of themselves, for every number of  *)
(* pending forgettings and whatever fails: the four invariants of          *)
(* StartupEvents, from an inductive invariant that says at each step what  *)
(* has been offered so far.                                                *)
(***************************************************************************)
EXTENDS StartupEvents, FiniteSetTheorems, TLAPS

Count(events, names) == Cardinality({i \in DOMAIN events : events[i][1] \in names})

RecoveryNames == {"recovery_completed"}
MismatchNames == {"configuration_failed"}
FailureNames == {"storage_failed", "indexing_failed", "configuration_failed"}

Reasons ==
    InventoryReasons \cup ReconcileReasons
        \cup {"degraded_excluded_work_pending", "ready_rebuilt_generation",
              "ready_existing_generation"}
EventNames == StageEvents \cup StartupEventNames \cup RecoveryNames \cup MismatchNames
Event == EventNames \X (Reasons \cup {"operation_completed", "configuration_mismatch"})

\* The stages of a recovery come before its recovery_completed.
InOrder(events) ==
    \A i, j \in DOMAIN events :
        events[i][1] \in RecoveryNames /\ events[j][1] \in StageEvents => j < i

-----------------------------------------------------------------------------
(* The inductive invariant.                                                *)

RecoverySteps == {"inventory", "reconcile", "cleanup", "verify", "reconcile_again"}
Steps == {"resolve", "repository", "models", "recovered", "index", "service", "failing",
          "returned", "raised"} \cup RecoverySteps

WorkTypeOK ==
    /\ inventory \in {Null, "ready", "degraded"}
    /\ cleanups \in Nat
    /\ rebuilt \in BOOLEAN /\ incomplete \in BOOLEAN

TypeOK ==
    /\ entry \in {"recover", "recovered", "local"}
    /\ observability \in {"valid", "invalid"}
    /\ wellFormed \in BOOLEAN
    /\ step \in Steps
    /\ WorkTypeOK
    /\ handled \in BOOLEAN
    /\ recovery \in {Null} \cup ({"ready", "degraded", "unavailable"} \X Reasons)
    /\ fallback \in Reasons
    /\ error \in {Null} \cup ({"configuration", "unavailable", "other"} \X (Reasons \cup {Null}))
    /\ mismatches \in Nat
    /\ offered \in Seq(Event)

\* Nothing but the refusal is done without observability.
RefusedAtOnce == observability = "invalid" => step \in {"resolve", "raised"}

\* A direct recovery composes nothing.
ComposedOnly ==
    step \in {"repository", "models", "index", "service", "failing"} => entry # "recover"

\* failure_reason names the step the start-up is at.
FallbackOfStep ==
    /\ step = "repository" => fallback = "unavailable_schema_or_migration"
    /\ step = "models" => fallback = "unavailable_embedding_configuration"
    /\ step = "index" => fallback = "unavailable_post_publication_verification"
    /\ step \in {"resolve", "recovered", "service"} \cup RecoverySteps =>
          fallback = "unavailable_rebuild"

BeforeRecovery ==
    step \in {"resolve", "repository", "models", "inventory"} =>
        offered = <<>> /\ mismatches = 0 /\ ~ handled /\ ~ incomplete

\* Until a recovery ends it has told of its stages, of a failure only if its
\* cleanup is incomplete, and of every mismatch it met.
DuringRecovery ==
    step \in RecoverySteps =>
        /\ step # "inventory" => wellFormed /\ Offered(StageEvents) > 0
        /\ Offered(RecoveryNames) = 0 /\ Offered(StartupEventNames) = 0
        /\ Offered(MismatchNames) = mismatches
        /\ ~ incomplete => Offered(FailureNames) = 0
        /\ ~ handled

\* After it there is its terminal event, behind the stages, if its
\* configuration is one.
AfterRecovery ==
    step \in {"recovered", "index", "service"} =>
        /\ recovery \in {"ready", "degraded", "unavailable"} \X Reasons
        /\ Offered(StageEvents) > 0
        /\ Offered(RecoveryNames) = IF wellFormed THEN 1 ELSE 0
        /\ Offered(StartupEventNames) = 0
        /\ Offered(MismatchNames) = mismatches
        /\ InOrder(offered)
        /\ wellFormed => Last(offered)[1] \in RecoveryNames
        /\ recovery[1] # "unavailable" =>
              wellFormed /\ recovery[2] # "unavailable_embedding_configuration"
        /\ recovery[2] = "unavailable_embedding_configuration" => mismatches > 0
        /\ recovery[1] = "ready" => Offered(FailureNames) = 0
        /\ ~ handled
        /\ step # "recovered" => recovery[1] # "unavailable"

\* What the start-up will tell of the exception it caught.
FailureReason == IF error[2] # Null THEN error[2] ELSE fallback

\* Every mismatch was told, or is the one the start-up will tell.
WhenFailing ==
    step = "failing" =>
        /\ error \in {"configuration", "unavailable", "other"} \X (Reasons \cup {Null})
        /\ wellFormed => Offered(RecoveryNames) = IF Offered(StageEvents) > 0 THEN 1 ELSE 0
        /\ Offered(StartupEventNames) = 0
        /\ mismatches = Offered(MismatchNames) + (IF ReportsMismatch(FailureReason) THEN 1 ELSE 0)
        /\ error[1] = "configuration" /\ handled => Offered(MismatchNames) > 0
        /\ InOrder(offered)

AtTheEnd == ExactlyOneTerminal /\ MismatchToldOnce /\ TerminalTellsResult

IInv ==
    /\ TypeOK
    /\ RefusedAtOnce
    /\ ComposedOnly
    /\ FallbackOfStep
    /\ BeforeRecovery
    /\ DuringRecovery
    /\ AfterRecovery
    /\ WhenFailing
    /\ AtTheEnd

-----------------------------------------------------------------------------
(* Counting events.                                                        *)

LEMMA CountFinite ==
    ASSUME NEW s \in Seq(Event), NEW names
    PROVE  /\ IsFiniteSet({i \in DOMAIN s : s[i][1] \in names})
           /\ Count(s, names) \in Nat
<1>1. Len(s) \in Nat /\ DOMAIN s = 1..Len(s)
  OBVIOUS
<1>2. IsFiniteSet(1..Len(s))
  BY <1>1, FS_Interval
<1>3. {i \in DOMAIN s : s[i][1] \in names} \in SUBSET (1..Len(s))
  BY <1>1
<1> QED
  BY <1>2, <1>3, FS_Subset, FS_CardinalityType DEF Count

\* Events that are offered later add to those that were.
LEMMA CountConcat ==
    ASSUME NEW s \in Seq(Event), NEW t \in Seq(Event), NEW names
    PROVE  Count(s \o t, names) = Count(s, names) + Count(t, names)
<1> DEFINE n == Len(s)
           first == {i \in DOMAIN s : s[i][1] \in names}
           second == {i \in DOMAIN t : t[i][1] \in names}
           moved == {i \in (n + 1)..(n + Len(t)) : t[i - n][1] \in names}
<1>1. n \in Nat /\ DOMAIN s = 1..n /\ Len(t) \in Nat /\ DOMAIN t = 1..Len(t)
  OBVIOUS
<1>2. /\ DOMAIN (s \o t) = 1..(n + Len(t))
      /\ \A i \in 1..n : (s \o t)[i] = s[i]
      /\ \A i \in (n + 1)..(n + Len(t)) : (s \o t)[i] = t[i - n]
  OBVIOUS
<1>3. {i \in DOMAIN (s \o t) : (s \o t)[i][1] \in names} = first \cup moved
  BY <1>1, <1>2
<1>4. first \cap moved = {}
  BY <1>1
<1>5. IsFiniteSet(first) /\ IsFiniteSet(second)
  BY CountFinite
<1>6. IsFiniteSet(moved) /\ Cardinality(moved) = Cardinality(second)
  <2> DEFINE shift == [i \in second |-> i + n]
  <2>1. shift \in [second -> moved]
    BY <1>1
  <2>2. \A i, j \in second : shift[i] = shift[j] => i = j
    BY <1>1
  <2>3. \A k \in moved : k - n \in second /\ shift[k - n] = k
    BY <1>1
  <2> HIDE DEF shift, second, moved
  <2>4. shift \in Injection(second, moved) /\ shift \in Surjection(second, moved)
    <3>1. \A k \in moved : \E i \in second : shift[i] = k
      BY <2>3
    <3> QED
      BY <2>1, <2>2, <3>1 DEF Injection, IsInjective, Surjection
  <2>5. shift \in Bijection(second, moved)
    BY <2>4 DEF Bijection
  <2> QED
    BY <1>5, <2>5, FS_Bijection DEF ExistsBijection
<1> HIDE DEF first, second, moved
<1>7. Cardinality(first \cup moved) = Cardinality(first) + Cardinality(moved) - Cardinality({})
  BY <1>4, <1>5, <1>6, FS_Union
<1>8. Cardinality(first \cup moved) = Cardinality(first) + Cardinality(second)
  BY <1>5, <1>6, <1>7, FS_EmptySet, FS_CardinalityType
<1> QED
  BY <1>3, <1>8 DEF Count, first, second

LEMMA CountOne ==
    ASSUME NEW e \in Event, NEW names
    PROVE  Count(<<e>>, names) = IF e[1] \in names THEN 1 ELSE 0
<1>1. {i \in DOMAIN <<e>> : <<e>>[i][1] \in names} = IF e[1] \in names THEN {1} ELSE {}
  OBVIOUS
<1>2. Cardinality({1}) = 1 /\ Cardinality({}) = 0
  BY FS_Singleton, FS_EmptySet
<1> QED
  BY <1>1, <1>2 DEF Count

LEMMA CountNone == ASSUME NEW names PROVE Count(<<>>, names) = 0
<1>1. {i \in DOMAIN <<>> : <<>>[i][1] \in names} = {}
  OBVIOUS
<1> QED
  BY <1>1, FS_EmptySet DEF Count

\* What is counted is there, and what is not counted is not.
LEMMA CountZero ==
    ASSUME NEW s \in Seq(Event), NEW names
    PROVE  Count(s, names) = 0 <=> \A i \in DOMAIN s : s[i][1] \notin names
<1>1. IsFiniteSet({i \in DOMAIN s : s[i][1] \in names})
  BY CountFinite
<1>2. Count(s, names) = 0 <=> {i \in DOMAIN s : s[i][1] \in names} = {}
  BY <1>1, FS_EmptySet DEF Count
<1> QED
  BY <1>2

\* What a longer sequence of events says, from its parts.
LEMMA Joined ==
    ASSUME NEW s \in Seq(Event), NEW t \in Seq(Event)
    PROVE  /\ s \o t \in Seq(Event)
           /\ Count(s \o t, StageEvents) = Count(s, StageEvents) + Count(t, StageEvents)
           /\ Count(s \o t, RecoveryNames) = Count(s, RecoveryNames) + Count(t, RecoveryNames)
           /\ Count(s \o t, StartupEventNames)
                  = Count(s, StartupEventNames) + Count(t, StartupEventNames)
           /\ Count(s \o t, MismatchNames) = Count(s, MismatchNames) + Count(t, MismatchNames)
           /\ Count(s \o t, FailureNames) = Count(s, FailureNames) + Count(t, FailureNames)
           /\ t # <<>> => s \o t # <<>> /\ Last(s \o t) = Last(t)
           /\ InOrder(s) /\ Count(t, StageEvents) = 0 /\ Count(t, RecoveryNames) = 0 =>
                 InOrder(s \o t)
           /\ InOrder(t) /\ Count(s, RecoveryNames) = 0 => InOrder(s \o t)
<1>1. s \o t \in Seq(Event)
  OBVIOUS
<1>2. /\ Len(s) \in Nat /\ DOMAIN s = 1..Len(s) /\ Len(t) \in Nat /\ DOMAIN t = 1..Len(t)
      /\ Len(s \o t) = Len(s) + Len(t) /\ DOMAIN (s \o t) = 1..(Len(s) + Len(t))
      /\ \A i \in DOMAIN (s \o t) :
            \/ i \in DOMAIN s /\ (s \o t)[i] = s[i]
            \/ i > Len(s) /\ i - Len(s) \in DOMAIN t /\ (s \o t)[i] = t[i - Len(s)]
  OBVIOUS
<1>3. t # <<>> => s \o t # <<>> /\ Last(s \o t) = Last(t)
  <2> SUFFICES ASSUME t # <<>> PROVE s \o t # <<>> /\ Last(s \o t) = Last(t)
    OBVIOUS
  <2>1. Len(t) > 0
    BY <1>2
  <2> QED
    BY <1>2, <2>1 DEF Last
<1>4. ASSUME InOrder(s), Count(t, StageEvents) = 0, Count(t, RecoveryNames) = 0
      PROVE  InOrder(s \o t)
  <2>1. \A i \in DOMAIN t : t[i][1] \notin StageEvents /\ t[i][1] \notin RecoveryNames
    BY <1>4, CountZero
  <2> QED
    BY <1>2, <1>4, <2>1 DEF InOrder
<1>5. ASSUME InOrder(t), Count(s, RecoveryNames) = 0 PROVE InOrder(s \o t)
  <2>1. \A i \in DOMAIN s : s[i][1] \notin RecoveryNames
    BY <1>5, CountZero
  <2> SUFFICES ASSUME NEW i \in DOMAIN (s \o t), NEW j \in DOMAIN (s \o t),
                      (s \o t)[i][1] \in RecoveryNames, (s \o t)[j][1] \in StageEvents
               PROVE  j < i
    BY DEF InOrder
  <2>2. i > Len(s) /\ i - Len(s) \in DOMAIN t /\ t[i - Len(s)][1] \in RecoveryNames
    BY <1>2, <2>1
  <2>3. CASE j \in DOMAIN s
    BY <1>2, <2>2, <2>3
  <2>4. CASE j > Len(s) /\ j - Len(s) \in DOMAIN t /\ (s \o t)[j] = t[j - Len(s)]
    <3>1. j - Len(s) < i - Len(s)
      BY <1>5, <2>2, <2>4 DEF InOrder
    <3> QED
      BY <1>2, <3>1
  <2> QED
    BY <1>2, <2>3, <2>4
<1> QED
  BY <1>1, <1>3, <1>4, <1>5, CountConcat

LEMMA Single ==
    ASSUME NEW e \in Event
    PROVE  /\ <<e>> \in Seq(Event) /\ <<e>> # <<>> /\ Last(<<e>>) = e /\ InOrder(<<e>>)
           /\ Count(<<e>>, StageEvents) = IF e[1] \in StageEvents THEN 1 ELSE 0
           /\ Count(<<e>>, RecoveryNames) = IF e[1] \in RecoveryNames THEN 1 ELSE 0
           /\ Count(<<e>>, StartupEventNames) = IF e[1] \in StartupEventNames THEN 1 ELSE 0
           /\ Count(<<e>>, MismatchNames) = IF e[1] \in MismatchNames THEN 1 ELSE 0
           /\ Count(<<e>>, FailureNames) = IF e[1] \in FailureNames THEN 1 ELSE 0
<1>1. <<e>> \in Seq(Event) /\ <<e>> # <<>> /\ Last(<<e>>) = e
  BY DEF Last
<1>2. InOrder(<<e>>)
  <2>1. \A i \in DOMAIN <<e>> : <<e>>[i] = e
    OBVIOUS
  <2>2. ~ (e[1] \in RecoveryNames /\ e[1] \in StageEvents)
    BY DEF RecoveryNames, StageEvents
  <2> QED
    BY <2>1, <2>2 DEF InOrder
<1> QED
  BY <1>1, <1>2, CountOne

LEMMA None ==
    /\ <<>> \in Seq(Event) /\ InOrder(<<>>)
    /\ Count(<<>>, StageEvents) = 0 /\ Count(<<>>, RecoveryNames) = 0
    /\ Count(<<>>, StartupEventNames) = 0 /\ Count(<<>>, MismatchNames) = 0
    /\ Count(<<>>, FailureNames) = 0
<1>1. <<>> \in Seq(Event)
  OBVIOUS
<1>2. InOrder(<<>>)
  BY DEF InOrder
<1> QED
  BY <1>1, <1>2, CountNone

\* The events of the model are events, of one kind each.
LEMMA Kinds ==
    /\ \A n \in StageEvents : <<n, "operation_completed">> \in Event
    /\ \A n \in RecoveryNames \cup StartupEventNames,
            r \in Reasons \cup {"configuration_mismatch"} :
          <<n, r>> \in Event
    /\ ConfigurationFailed \in Event /\ ConfigurationFailed[1] \in MismatchNames
    /\ StageEvents \cap (RecoveryNames \cup StartupEventNames \cup MismatchNames) = {}
    /\ RecoveryNames \cap (StartupEventNames \cup MismatchNames \cup FailureNames) = {}
    /\ StartupEventNames \cap (MismatchNames \cup FailureNames) = {}
    /\ MismatchNames \subseteq FailureNames
BY DEF Event, EventNames, ConfigurationFailed, StageEvents, RecoveryNames, StartupEventNames,
       MismatchNames, FailureNames

\* A mismatch is told once, or not.
LEMMA MismatchTally ==
    ASSUME NEW c \in BOOLEAN
    PROVE  /\ MismatchIf(c) \in Seq(Event) /\ InOrder(MismatchIf(c))
           /\ Count(MismatchIf(c), StageEvents) = 0 /\ Count(MismatchIf(c), RecoveryNames) = 0
           /\ Count(MismatchIf(c), StartupEventNames) = 0
           /\ Count(MismatchIf(c), MismatchNames) = IF c THEN 1 ELSE 0
           /\ Count(MismatchIf(c), FailureNames) = IF c THEN 1 ELSE 0
<1>1. CASE c
  <2>1. MismatchIf(c) = <<ConfigurationFailed>>
    BY <1>1 DEF MismatchIf
  <2> DEFINE e == ConfigurationFailed
  <2>2. e \in Event /\ e[1] \in MismatchNames
    BY Kinds
  <2>3. /\ e[1] \notin StageEvents /\ e[1] \notin RecoveryNames /\ e[1] \notin StartupEventNames
        /\ e[1] \in FailureNames
    BY <2>2, Kinds
  <2> HIDE DEF e
  <2>4. /\ <<e>> \in Seq(Event) /\ InOrder(<<e>>)
        /\ Count(<<e>>, StageEvents) = 0 /\ Count(<<e>>, RecoveryNames) = 0
        /\ Count(<<e>>, StartupEventNames) = 0 /\ Count(<<e>>, MismatchNames) = 1
        /\ Count(<<e>>, FailureNames) = 1
    BY <2>2, <2>3, Single
  <2> QED
    BY <1>1, <2>1, <2>4 DEF e
<1>2. CASE ~ c
  BY <1>2, None DEF MismatchIf
<1> QED
  BY <1>1, <1>2

\* The terminal event is told if the configuration is one.
LEMMA TerminalTally ==
    ASSUME NEW e \in Event, NEW w \in BOOLEAN,
           e[1] \in RecoveryNames \cup StartupEventNames
    PROVE  LET t == IF w THEN <<e>> ELSE <<>>
           IN  /\ t \in Seq(Event) /\ InOrder(t)
               /\ w => t # <<>> /\ Last(t) = e
               /\ Count(t, StageEvents) = 0
               /\ Count(t, RecoveryNames) = IF w /\ e[1] \in RecoveryNames THEN 1 ELSE 0
               /\ Count(t, StartupEventNames) = IF w /\ e[1] \in StartupEventNames THEN 1 ELSE 0
               /\ Count(t, MismatchNames) = 0 /\ Count(t, FailureNames) = 0
<1>1. /\ e[1] \notin StageEvents /\ e[1] \notin MismatchNames /\ e[1] \notin FailureNames
  BY Kinds
<1>2. CASE w
  BY <1>1, <1>2, Single
<1>3. CASE ~ w
  BY <1>3, None
<1> QED
  BY <1>2, <1>3

\* What was offered after a step, from what it offers.
LEMMA OfferedAfter ==
    ASSUME offered \in Seq(Event), NEW t \in Seq(Event), Offer(t)
    PROVE  /\ offered' \in Seq(Event)
           /\ Offered(StageEvents)' = Offered(StageEvents) + Count(t, StageEvents)
           /\ Offered(RecoveryNames)' = Offered(RecoveryNames) + Count(t, RecoveryNames)
           /\ Offered(StartupEventNames)' = Offered(StartupEventNames) + Count(t, StartupEventNames)
           /\ Offered(MismatchNames)' = Offered(MismatchNames) + Count(t, MismatchNames)
           /\ Offered(FailureNames)' = Offered(FailureNames) + Count(t, FailureNames)
           /\ t # <<>> => Last(offered') = Last(t)
           /\ InOrder(offered) /\ Count(t, StageEvents) = 0 /\ Count(t, RecoveryNames) = 0 =>
                 InOrder(offered')
           /\ InOrder(t) /\ Offered(RecoveryNames) = 0 => InOrder(offered')
<1>1. offered' = offered \o t
  BY DEF Offer
<1>2. \A names : Offered(names) = Count(offered, names)
  BY DEF Offered, Count
<1>3. /\ Offered(StageEvents)' = Count(offered', StageEvents)
      /\ Offered(RecoveryNames)' = Count(offered', RecoveryNames)
      /\ Offered(StartupEventNames)' = Count(offered', StartupEventNames)
      /\ Offered(MismatchNames)' = Count(offered', MismatchNames)
      /\ Offered(FailureNames)' = Count(offered', FailureNames)
  BY DEF Offered, Count
<1>4. /\ Offered(StageEvents) = Count(offered, StageEvents)
      /\ Offered(RecoveryNames) = Count(offered, RecoveryNames)
      /\ Offered(StartupEventNames) = Count(offered, StartupEventNames)
      /\ Offered(MismatchNames) = Count(offered, MismatchNames)
      /\ Offered(FailureNames) = Count(offered, FailureNames)
  BY <1>2
<1> QED
  BY <1>1, <1>3, <1>4, Joined

LEMMA OfferedTypes ==
    ASSUME offered \in Seq(Event)
    PROVE  /\ Offered(StageEvents) \in Nat /\ Offered(RecoveryNames) \in Nat
           /\ Offered(StartupEventNames) \in Nat /\ Offered(MismatchNames) \in Nat
           /\ Offered(FailureNames) \in Nat
BY CountFinite DEF Offered, Count

\* The counts of a sequence of events, by kind.
IsTally(t, stage, recovered, startup, mismatch, failure) ==
    /\ Count(t, StageEvents) = stage /\ Count(t, RecoveryNames) = recovered
    /\ Count(t, StartupEventNames) = startup /\ Count(t, MismatchNames) = mismatch
    /\ Count(t, FailureNames) = failure

LEMMA StageTally ==
    ASSUME NEW n \in StageEvents
    PROVE  /\ <<Stage(n)>> \in Seq(Event) /\ InOrder(<<Stage(n)>>)
           /\ IsTally(<<Stage(n)>>, 1, 0, 0, 0, IF n \in FailureNames THEN 1 ELSE 0)
<1> DEFINE e == Stage(n)
<1>1. e \in Event /\ e[1] = n
  BY Kinds DEF Stage
<1>2. n \notin RecoveryNames /\ n \notin StartupEventNames /\ n \notin MismatchNames
  BY Kinds
<1> HIDE DEF e
<1>3. /\ <<e>> \in Seq(Event) /\ InOrder(<<e>>)
      /\ IsTally(<<e>>, 1, 0, 0, 0, IF n \in FailureNames THEN 1 ELSE 0)
  BY <1>1, <1>2, Single DEF IsTally
<1> QED
  BY <1>3 DEF e

\* The end of a recovery: its last stages, the mismatch if it is one, and the
\* terminal event, in this order.
LEMMA ResultOffered ==
    ASSUME offered \in Seq(Event), wellFormed \in BOOLEAN,
           NEW s \in Seq(Event), NEW stage \in Nat, NEW failure \in Nat,
           InOrder(s), IsTally(s, stage, 0, 0, 0, failure),
           NEW reason \in Reasons, OfferResult(s, reason)
    PROVE  LET c == reason = "unavailable_embedding_configuration"
           IN  /\ offered' \in Seq(Event)
               /\ Offered(StageEvents)' = Offered(StageEvents) + stage
               /\ Offered(RecoveryNames)' = Offered(RecoveryNames) + (IF wellFormed THEN 1 ELSE 0)
               /\ Offered(StartupEventNames)' = Offered(StartupEventNames)
               /\ Offered(MismatchNames)' = Offered(MismatchNames) + (IF c THEN 1 ELSE 0)
               /\ failure = 0 /\ ~ c => Offered(FailureNames)' = Offered(FailureNames)
               /\ Offered(RecoveryNames) = 0 => InOrder(offered')
               /\ wellFormed => Last(offered')[1] \in RecoveryNames
<1> DEFINE c == reason = "unavailable_embedding_configuration"
           e == <<"recovery_completed", reason>>
           m == MismatchIf(c)
           u == IF wellFormed THEN <<e>> ELSE <<>>
           t == (s \o m) \o u
<1>1. Offer(t)
  BY DEF OfferResult, OfferTerminal
<1>2. e \in Event /\ e[1] \in RecoveryNames /\ e[1] \notin StartupEventNames
  <2>1. "recovery_completed" \in RecoveryNames /\ "recovery_completed" \notin StartupEventNames
    BY DEF RecoveryNames, StartupEventNames
  <2> QED
    BY <2>1, Kinds
<1>3. c \in BOOLEAN
  OBVIOUS
<1> HIDE DEF c, e
<1>4. /\ m \in Seq(Event)
      /\ IsTally(m, 0, 0, 0, IF c THEN 1 ELSE 0, IF c THEN 1 ELSE 0)
  BY <1>3, MismatchTally DEF IsTally
<1>5. /\ u \in Seq(Event) /\ InOrder(u) /\ (wellFormed => u # <<>> /\ Last(u) = e)
      /\ IsTally(u, 0, IF wellFormed THEN 1 ELSE 0, 0, 0, 0)
  BY <1>2, TerminalTally DEF IsTally
<1> HIDE DEF m, u
<1> DEFINE f == s \o m
<1>6. /\ f \in Seq(Event) /\ InOrder(f)
      /\ IsTally(f, stage, 0, 0, IF c THEN 1 ELSE 0, failure + (IF c THEN 1 ELSE 0))
  BY <1>4, Joined DEF IsTally
<1> HIDE DEF f
<1>7. /\ f \o u \in Seq(Event) /\ InOrder(f \o u)
      /\ IsTally(f \o u, stage, IF wellFormed THEN 1 ELSE 0, 0, IF c THEN 1 ELSE 0,
                 failure + (IF c THEN 1 ELSE 0))
      /\ wellFormed => f \o u # <<>> /\ Last(f \o u) = e
  BY <1>5, <1>6, Joined DEF IsTally
<1>8. /\ t \in Seq(Event) /\ InOrder(t)
      /\ IsTally(t, stage, IF wellFormed THEN 1 ELSE 0, 0, IF c THEN 1 ELSE 0,
                 failure + (IF c THEN 1 ELSE 0))
      /\ wellFormed => t # <<>> /\ Last(t) = e
  BY <1>7 DEF f
<1> HIDE DEF t
<1> QED
  BY <1>1, <1>2, <1>8, OfferedAfter, OfferedTypes DEF IsTally, c

\* The end of a start-up: the mismatch that is not told yet, and the start-up
\* event, behind everything.
LEMMA StartUpOffered ==
    ASSUME offered \in Seq(Event), wellFormed \in BOOLEAN, NEW c \in BOOLEAN,
           NEW n \in StartupEventNames, NEW told \in Reasons \cup {"configuration_mismatch"},
           OfferTerminal(MismatchIf(c), <<n, told>>)
    PROVE  /\ offered' \in Seq(Event)
           /\ Offered(StageEvents)' = Offered(StageEvents)
           /\ Offered(RecoveryNames)' = Offered(RecoveryNames)
           /\ Offered(StartupEventNames)'
                  = Offered(StartupEventNames) + (IF wellFormed THEN 1 ELSE 0)
           /\ Offered(MismatchNames)' = Offered(MismatchNames) + (IF c THEN 1 ELSE 0)
           /\ InOrder(offered) => InOrder(offered')
           /\ wellFormed => Last(offered') = <<n, told>>
<1> DEFINE e == <<n, told>>
           m == MismatchIf(c)
           u == IF wellFormed THEN <<e>> ELSE <<>>
           t == m \o u
<1>1. Offer(t)
  BY DEF OfferTerminal
<1>2. e \in Event /\ e[1] \notin RecoveryNames /\ e[1] \in StartupEventNames
  BY Kinds
<1> HIDE DEF e
<1>3. m \in Seq(Event) /\ IsTally(m, 0, 0, 0, IF c THEN 1 ELSE 0, IF c THEN 1 ELSE 0)
  BY MismatchTally DEF IsTally
<1>4. /\ u \in Seq(Event) /\ InOrder(u) /\ (wellFormed => u # <<>> /\ Last(u) = e)
      /\ IsTally(u, 0, 0, IF wellFormed THEN 1 ELSE 0, 0, 0)
  BY <1>2, TerminalTally DEF IsTally
<1> HIDE DEF m, u
<1>5. /\ t \in Seq(Event)
      /\ IsTally(t, 0, 0, IF wellFormed THEN 1 ELSE 0, IF c THEN 1 ELSE 0, IF c THEN 1 ELSE 0)
      /\ wellFormed => t # <<>> /\ Last(t) = e
  BY <1>3, <1>4, Joined DEF IsTally
<1> HIDE DEF t
<1> QED
  BY <1>1, <1>5, OfferedAfter, OfferedTypes DEF IsTally, e

-----------------------------------------------------------------------------
(* The steps.                                                              *)

LEMMA InitInvariant == Init => IInv
<1> SUFFICES ASSUME Init PROVE IInv
  OBVIOUS
<1>1. TypeOK
  <2>1. WorkTypeOK
    <3>1. cleanups \in 0..MaxCleanups /\ inventory = Null
      BY DEF Init
    <3>2. rebuilt \in BOOLEAN /\ incomplete \in BOOLEAN
      BY DEF Init
    <3> QED
      BY <3>1, <3>2, CleanupsAssumption DEF WorkTypeOK
  <2>2. fallback \in Reasons /\ step \in Steps
    BY DEF Init, Reasons, ReconcileReasons, Steps
  <2>3. wellFormed \in BOOLEAN /\ handled \in BOOLEAN
    BY DEF Init
  <2>4. /\ entry \in {"recover", "recovered", "local"} /\ observability \in {"valid", "invalid"}
        /\ recovery = Null /\ error = Null /\ mismatches = 0 /\ offered = <<>>
    BY DEF Init
  <2> QED
    BY <2>1, <2>2, <2>3, <2>4 DEF TypeOK
<1>2. step = "resolve" /\ offered = <<>> /\ mismatches = 0 /\ fallback = "unavailable_rebuild"
  BY DEF Init
<1>3. ~ handled /\ ~ incomplete
  BY DEF Init
<1>4. BeforeRecovery
  BY <1>2, <1>3 DEF BeforeRecovery
<1>5. RefusedAtOnce /\ ComposedOnly /\ FallbackOfStep /\ DuringRecovery /\ AfterRecovery
      /\ WhenFailing
  BY <1>2 DEF RefusedAtOnce, ComposedOnly, FallbackOfStep, DuringRecovery, AfterRecovery,
              WhenFailing, RecoverySteps
<1>6. AtTheEnd
  BY <1>2 DEF AtTheEnd, ExactlyOneTerminal, MismatchToldOnce, TerminalTellsResult, Ended
<1> QED
  BY <1>1, <1>4, <1>5, <1>6 DEF IInv

\* The steps before the first inventory change where the start-up is and what
\* it would fall back on, and offer nothing.
LEMMA BeforeKeepsInvariant ==
    ASSUME IInv, BeginRecovery \/ BeginStartUp \/ OpenRepository \/ LoadModels
    PROVE  IInv'
<1>1. /\ TypeOK /\ RefusedAtOnce /\ ComposedOnly /\ FallbackOfStep /\ BeforeRecovery
      /\ step \in {"resolve", "repository", "models"}
  BY DEF IInv, BeginRecovery, BeginStartUp, OpenRepository, LoadModels
<1>2. /\ UNCHANGED <<call, work, recovery, handled, error, mismatches, offered>>
      /\ observability = "valid"
      /\ \/ step' = "inventory" /\ fallback' = "unavailable_rebuild"
         \/ /\ step' = "repository" /\ fallback' = "unavailable_schema_or_migration"
            /\ entry # "recover"
         \/ /\ step' = "models" /\ fallback' = "unavailable_embedding_configuration"
            /\ entry # "recover"
  BY <1>1 DEF BeginRecovery, BeginStartUp, OpenRepository, LoadModels, Goto, observation, call,
              TypeOK, RefusedAtOnce, ComposedOnly, FallbackOfStep
<1>3. offered = <<>> /\ mismatches = 0 /\ ~ handled /\ ~ incomplete
  BY <1>1 DEF BeforeRecovery
<1>4. TypeOK'
  <2>1. WorkTypeOK'
    BY <1>1, <1>2 DEF TypeOK, WorkTypeOK, work
  <2>2. fallback' \in Reasons /\ step' \in Steps
    BY <1>2 DEF Reasons, InventoryReasons, ReconcileReasons, Steps, RecoverySteps
  <2> QED
    BY <1>1, <1>2, <2>1, <2>2 DEF TypeOK, call
<1>5. /\ Offered(RecoveryNames)' = 0 /\ Offered(StartupEventNames)' = 0
      /\ Offered(MismatchNames)' = 0 /\ Offered(FailureNames)' = 0
  BY <1>2, <1>3, None DEF Offered, Count
<1>6. DuringRecovery' /\ BeforeRecovery'
  <2>1. ~ handled' /\ ~ incomplete' /\ mismatches' = 0 /\ offered' = <<>>
    BY <1>2, <1>3 DEF work
  <2>2. step' \in {"inventory", "repository", "models"}
    BY <1>2
  <2>3. BeforeRecovery'
    BY <2>1 DEF BeforeRecovery
  <2>4. DuringRecovery'
    BY <1>5, <2>1, <2>2 DEF DuringRecovery, RecoverySteps
  <2> QED
    BY <2>3, <2>4
<1>7. RefusedAtOnce' /\ ComposedOnly' /\ FallbackOfStep'
  BY <1>2 DEF RefusedAtOnce, ComposedOnly, FallbackOfStep, call, RecoverySteps
<1>8. AfterRecovery' /\ WhenFailing' /\ AtTheEnd'
  BY <1>2 DEF AfterRecovery, WhenFailing, AtTheEnd, ExactlyOneTerminal, MismatchToldOnce,
              TerminalTellsResult, Ended
<1> QED
  BY <1>4, <1>6, <1>7, <1>8 DEF IInv

\* Without observability there is nothing to tell it to.
LEMMA RefuseKeepsInvariant ==
    ASSUME IInv, RefuseObservability PROVE IInv'
<1>1. /\ step = "resolve" /\ observability = "invalid" /\ step' = "raised"
      /\ error' = <<"configuration", Null>> /\ mismatches' = mismatches + 1
      /\ UNCHANGED <<call, work, observation>>
  BY DEF RefuseObservability, Goto
<1>2. TypeOK
  BY DEF IInv
<1>3. offered' \in Seq(Event)
  <2>1. CASE UNCHANGED offered
    BY <1>2, <2>1 DEF TypeOK
  <2>2. CASE OfferTerminal(<<ConfigurationFailed>>,
                           <<"startup_unavailable", "configuration_mismatch">>)
    <3> DEFINE n == "startup_unavailable"
               told == "configuration_mismatch"
    <3>1. n \in StartupEventNames /\ told \in Reasons \cup {"configuration_mismatch"}
      BY DEF StartupEventNames
    <3>2. OfferTerminal(MismatchIf(TRUE), <<n, told>>)
      BY <2>2 DEF MismatchIf
    <3> HIDE DEF n, told
    <3> QED
      BY <1>2, <3>1, <3>2, StartUpOffered DEF TypeOK
  <2> QED
    BY <2>1, <2>2 DEF RefuseObservability
<1>4. TypeOK'
  <2>1. WorkTypeOK'
    BY <1>1, <1>2 DEF TypeOK, WorkTypeOK, work
  <2> QED
    BY <1>1, <1>2, <1>3, <2>1 DEF TypeOK, call, observation, Steps
<1> QED
  BY <1>1, <1>4 DEF IInv, RefusedAtOnce, ComposedOnly, FallbackOfStep, BeforeRecovery,
                    DuringRecovery, AfterRecovery, WhenFailing, AtTheEnd, ExactlyOneTerminal,
                    MismatchToldOnce, TerminalTellsResult, Ended, RecoverySteps, call

\* An exception of a constructor is told by the start-up: what is a mismatch
\* was counted, and is reported when the start-up ends.
LEMMA ConstructorFailsKeepsInvariant ==
    ASSUME IInv, ConstructorFails PROVE IInv'
<1>1. /\ TypeOK /\ RefusedAtOnce /\ ComposedOnly /\ FallbackOfStep /\ BeforeRecovery
      /\ AfterRecovery
  BY DEF IInv
<1>2. PICK class \in {"configuration", "unavailable", "other"},
           reason \in {Null, "unavailable_schema_or_migration"} :
          /\ Fail(class, reason)
          /\ step \in {"repository", "models", "index", "service"}
          /\ step = "repository" => class # "configuration"
          /\ step = "service" => class = "configuration"
          /\ step # "repository" => reason = Null
  BY DEF ConstructorFails
<1>3. /\ step' = "failing" /\ error' = <<class, reason>>
      /\ UNCHANGED <<call, work, observation, offered>>
      /\ mismatches' = IF class = "configuration" \/ (class = "unavailable" /\ step = "models")
                       THEN mismatches + 1 ELSE mismatches
  BY <1>2 DEF Fail, Goto
<1>4. /\ entry # "recover" /\ entry' = entry /\ observability = "valid"
      /\ observability' = observability /\ wellFormed' = wellFormed
      /\ fallback' = fallback /\ handled' = handled /\ ~ handled
  <2>1. ~ handled
    BY <1>1, <1>2 DEF BeforeRecovery, AfterRecovery
  <2> QED
    BY <1>1, <1>2, <1>3, <2>1 DEF ComposedOnly, RefusedAtOnce, TypeOK, call, observation
<1>5. TypeOK'
  <2>1. WorkTypeOK'
    BY <1>1, <1>3 DEF TypeOK, WorkTypeOK, work
  <2>2. reason \in Reasons \cup {Null}
    BY DEF Reasons, InventoryReasons
  <2>3. mismatches' \in Nat
    BY <1>1, <1>3 DEF TypeOK
  <2> QED
    BY <1>1, <1>3, <1>4, <2>1, <2>2, <2>3 DEF TypeOK, call, observation, Steps
<1>6. /\ wellFormed => Offered(RecoveryNames) = IF Offered(StageEvents) > 0 THEN 1 ELSE 0
      /\ Offered(StartupEventNames) = 0 /\ Offered(MismatchNames) = mismatches
      /\ InOrder(offered)
  <2>1. CASE step \in {"repository", "models"}
    <3>1. offered = <<>> /\ mismatches = 0
      BY <1>1, <2>1 DEF BeforeRecovery
    <3> QED
      BY <3>1, None DEF Offered, Count
  <2>2. CASE step \in {"index", "service"}
    BY <1>1, <2>2 DEF AfterRecovery
  <2> QED
    BY <1>2, <2>1, <2>2
<1>7. ReportsMismatch(FailureReason)' <=>
          class = "configuration" \/ (class = "unavailable" /\ step = "models")
  <2>1. FailureReason' = IF reason # Null THEN reason ELSE fallback
    BY <1>3, <1>4 DEF FailureReason
  <2>2. step # "models" => fallback # "unavailable_embedding_configuration"
    BY <1>1, <1>2 DEF FallbackOfStep
  <2>3. step = "models" => fallback = "unavailable_embedding_configuration"
    BY <1>1 DEF FallbackOfStep
  <2>4. class = "unavailable" =>
            (FailureReason' = "unavailable_embedding_configuration" <=> step = "models")
    BY <1>2, <2>1, <2>2, <2>3
  <2>5. ReportsMismatch(FailureReason)' <=>
            \/ class = "configuration"
            \/ class = "unavailable" /\ FailureReason' = "unavailable_embedding_configuration"
    BY <1>3, <1>4 DEF ReportsMismatch
  <2> QED
    BY <2>4, <2>5
<1>8. WhenFailing'
  <2>1. error' \in {"configuration", "unavailable", "other"} \X (Reasons \cup {Null})
    BY <1>3 DEF Reasons, InventoryReasons
  <2>2. /\ Offered(RecoveryNames)' = Offered(RecoveryNames)
        /\ Offered(StageEvents)' = Offered(StageEvents)
        /\ Offered(StartupEventNames)' = Offered(StartupEventNames)
        /\ Offered(MismatchNames)' = Offered(MismatchNames)
        /\ InOrder(offered)'
    BY <1>3, <1>6 DEF Offered, InOrder
  <2>3. mismatches' = Offered(MismatchNames)'
                          + (IF ReportsMismatch(FailureReason)' THEN 1 ELSE 0)
    BY <1>1, <1>3, <1>6, <1>7, <2>2 DEF TypeOK
  <2> QED
    BY <1>4, <1>6, <2>1, <2>2, <2>3 DEF WhenFailing
<1>9. /\ RefusedAtOnce' /\ ComposedOnly' /\ FallbackOfStep' /\ BeforeRecovery'
      /\ DuringRecovery' /\ AfterRecovery' /\ AtTheEnd'
  BY <1>3, <1>4 DEF RefusedAtOnce, ComposedOnly, FallbackOfStep, BeforeRecovery, DuringRecovery,
                    AfterRecovery, AtTheEnd, ExactlyOneTerminal, MismatchToldOnce,
                    TerminalTellsResult, Ended, RecoverySteps
<1> QED
  BY <1>5, <1>8, <1>9 DEF IInv

\* A recovery that goes on has told of its stages, and of each mismatch it met.
LEMMA StageKeepsInvariant ==
    ASSUME IInv, step \in RecoverySteps, step' \in RecoverySteps \ {"inventory"}, wellFormed,
           WorkTypeOK', UNCHANGED <<call, observation, error>>,
           NEW t \in Seq(Event), Offer(t),
           NEW stage \in Nat, NEW mismatch \in Nat, NEW failure \in Nat,
           IsTally(t, stage, 0, 0, mismatch, failure),
           mismatches' = mismatches + mismatch,
           step # "inventory" \/ stage > 0,
           incomplete => incomplete',
           ~ incomplete' => failure = 0
    PROVE  IInv'
<1>1. TypeOK /\ RefusedAtOnce /\ FallbackOfStep /\ BeforeRecovery /\ DuringRecovery
  BY DEF IInv
<1>2. offered \in Seq(Event) /\ mismatches \in Nat
  BY <1>1 DEF TypeOK
<1>3. /\ offered' \in Seq(Event)
      /\ Offered(StageEvents)' = Offered(StageEvents) + stage
      /\ Offered(RecoveryNames)' = Offered(RecoveryNames)
      /\ Offered(StartupEventNames)' = Offered(StartupEventNames)
      /\ Offered(MismatchNames)' = Offered(MismatchNames) + mismatch
      /\ Offered(FailureNames)' = Offered(FailureNames) + failure
  BY <1>2, OfferedAfter, OfferedTypes DEF IsTally
<1>4. /\ Offered(StageEvents) \in Nat
      /\ Offered(RecoveryNames) = 0 /\ Offered(StartupEventNames) = 0
      /\ Offered(MismatchNames) = mismatches
      /\ ~ incomplete => Offered(FailureNames) = 0
      /\ ~ handled
      /\ step # "inventory" => Offered(StageEvents) > 0
  BY <1>1, <1>2, OfferedTypes DEF DuringRecovery
<1>5. /\ entry' = entry /\ observability' = observability /\ wellFormed' = wellFormed
      /\ recovery' = recovery /\ fallback' = fallback /\ handled' = handled /\ error' = error
  BY DEF call, observation
<1>6. TypeOK'
  BY <1>1, <1>2, <1>3, <1>5 DEF TypeOK, Steps
<1>7. DuringRecovery'
  BY <1>2, <1>3, <1>4, <1>5 DEF DuringRecovery
<1>8. RefusedAtOnce' /\ ComposedOnly' /\ FallbackOfStep' /\ BeforeRecovery'
  <2>1. observability = "valid"
    BY <1>1 DEF TypeOK, RefusedAtOnce, RecoverySteps
  <2>2. fallback = "unavailable_rebuild"
    BY <1>1 DEF FallbackOfStep
  <2> QED
    BY <1>5, <2>1, <2>2 DEF RefusedAtOnce, ComposedOnly, FallbackOfStep, BeforeRecovery,
                            RecoverySteps
<1>9. AfterRecovery' /\ WhenFailing' /\ AtTheEnd'
  BY DEF AfterRecovery, WhenFailing, AtTheEnd, ExactlyOneTerminal, MismatchToldOnce,
         TerminalTellsResult, Ended, RecoverySteps
<1> QED
  BY <1>6, <1>7, <1>8, <1>9 DEF IInv

\* A recovery ends with its stage, the mismatch it met and its terminal event.
LEMMA FinishKeepsInvariant ==
    ASSUME IInv, step \in RecoverySteps, WorkTypeOK',
           NEW readiness \in {"ready", "degraded", "unavailable"}, NEW reason \in Reasons,
           NEW n \in StageEvents, Finish(readiness, reason, Stage(n)),
           readiness = "ready" => ~ incomplete /\ n \notin FailureNames,
           readiness # "unavailable" =>
               wellFormed /\ reason # "unavailable_embedding_configuration"
    PROVE  IInv'
<1>1. TypeOK /\ RefusedAtOnce /\ FallbackOfStep /\ DuringRecovery
  BY DEF IInv
<1>2. offered \in Seq(Event) /\ mismatches \in Nat /\ wellFormed \in BOOLEAN
  BY <1>1 DEF TypeOK
<1>3. /\ recovery' = <<readiness, reason>> /\ OfferResult(<<Stage(n)>>, reason)
      /\ mismatches' = IF reason = "unavailable_embedding_configuration"
                       THEN mismatches + 1 ELSE mismatches
      /\ step' = "recovered"
      /\ UNCHANGED <<call, fallback, handled, error>>
  BY DEF Finish, Goto
<1>4. /\ entry' = entry /\ observability' = observability /\ wellFormed' = wellFormed
      /\ fallback' = fallback /\ handled' = handled /\ error' = error
  BY <1>3 DEF call
<1> DEFINE c == reason = "unavailable_embedding_configuration"
<1>5. /\ offered' \in Seq(Event)
      /\ Offered(StageEvents)' = Offered(StageEvents) + 1
      /\ Offered(RecoveryNames)' = Offered(RecoveryNames) + (IF wellFormed THEN 1 ELSE 0)
      /\ Offered(StartupEventNames)' = Offered(StartupEventNames)
      /\ Offered(MismatchNames)' = Offered(MismatchNames) + (IF c THEN 1 ELSE 0)
      /\ n \notin FailureNames /\ ~ c => Offered(FailureNames)' = Offered(FailureNames)
      /\ Offered(RecoveryNames) = 0 => InOrder(offered')
      /\ wellFormed => Last(offered')[1] \in RecoveryNames
  <2> DEFINE s == <<Stage(n)>>
             failure == IF n \in FailureNames THEN 1 ELSE 0
  <2>1. s \in Seq(Event) /\ InOrder(s) /\ IsTally(s, 1, 0, 0, 0, failure)
    BY StageTally
  <2>2. OfferResult(s, reason) /\ failure \in Nat /\ (n \notin FailureNames => failure = 0)
    BY <1>3
  <2> HIDE DEF s, failure
  <2> QED
    BY <1>2, <2>1, <2>2, ResultOffered
<1>6. /\ Offered(StageEvents) \in Nat
      /\ Offered(RecoveryNames) = 0 /\ Offered(StartupEventNames) = 0
      /\ Offered(MismatchNames) = mismatches
      /\ ~ incomplete => Offered(FailureNames) = 0
      /\ ~ handled
  BY <1>1, <1>2, OfferedTypes DEF DuringRecovery
<1>7. TypeOK'
  <2>1. recovery' \in {"ready", "degraded", "unavailable"} \X Reasons
    BY <1>3
  <2>2. mismatches' \in Nat /\ step' \in Steps
    BY <1>2, <1>3 DEF Steps
  <2> QED
    BY <1>1, <1>4, <1>5, <2>1, <2>2 DEF TypeOK
<1>8. AfterRecovery'
  <2>1. /\ recovery' \in {"ready", "degraded", "unavailable"} \X Reasons
        /\ recovery'[1] = readiness /\ recovery'[2] = reason
    BY <1>3
  <2>2. /\ Offered(StageEvents)' > 0
        /\ Offered(RecoveryNames)' = IF wellFormed' THEN 1 ELSE 0
        /\ Offered(StartupEventNames)' = 0 /\ Offered(MismatchNames)' = mismatches'
        /\ InOrder(offered') /\ (wellFormed' => Last(offered')[1] \in RecoveryNames)
    BY <1>2, <1>3, <1>4, <1>5, <1>6
  <2>3. readiness = "ready" => Offered(FailureNames)' = 0
    BY <1>5, <1>6
  <2>4. reason = "unavailable_embedding_configuration" => mismatches' > 0
    BY <1>2, <1>3
  <2>5. ~ handled'
    BY <1>4, <1>6
  <2>6. InOrder(offered)' <=> InOrder(offered')
    BY DEF InOrder
  <2> QED
    BY <1>3, <1>4, <2>1, <2>2, <2>3, <2>4, <2>5, <2>6 DEF AfterRecovery
<1>9. RefusedAtOnce' /\ ComposedOnly' /\ FallbackOfStep' /\ BeforeRecovery' /\ DuringRecovery'
  <2>1. observability = "valid"
    BY <1>1 DEF TypeOK, RefusedAtOnce, RecoverySteps
  <2>2. fallback = "unavailable_rebuild"
    BY <1>1 DEF FallbackOfStep
  <2> QED
    BY <1>3, <1>4, <2>1, <2>2 DEF RefusedAtOnce, ComposedOnly, FallbackOfStep, BeforeRecovery,
                                  DuringRecovery, RecoverySteps
<1>10. WhenFailing' /\ AtTheEnd'
  BY <1>3 DEF WhenFailing, AtTheEnd, ExactlyOneTerminal, MismatchToldOnce,
              TerminalTellsResult, Ended
<1> QED
  BY <1>7, <1>8, <1>9, <1>10 DEF IInv

\* What a forgetting told of its adoption.
LEMMA AdoptedTally ==
    ASSUME NEW adopted \in {<<>>, <<Stage("storage_completed")>>}
    PROVE  /\ adopted \in Seq(Event)
           /\ \E k \in Nat : IsTally(adopted, k, 0, 0, 0, 0)
<1>1. CASE adopted = <<>>
  BY <1>1, None DEF IsTally
<1>2. CASE adopted = <<Stage("storage_completed")>>
  <2> DEFINE n == "storage_completed"
  <2>1. n \in StageEvents /\ n \notin FailureNames
    BY DEF StageEvents, FailureNames
  <2>2. adopted = <<Stage(n)>>
    BY <1>2
  <2> HIDE DEF n
  <2> QED
    BY <2>1, <2>2, StageTally
<1> QED
  BY <1>1, <1>2

\* What a forgetting told before it failed.
LEMMA CleanupTally ==
    ASSUME NEW stages \in CleanupStages
    PROVE  /\ stages \in Seq(Event) /\ InOrder(stages)
           /\ \E k \in Nat, f \in Nat : IsTally(stages, k, 0, 0, 0, f)
<1>1. PICK adopted \in {<<>>, <<Stage("storage_completed")>>},
           failed \in {<<>>, <<Stage("storage_failed")>>} : stages = adopted \o failed
  BY DEF CleanupStages
<1>2. PICK k \in Nat : adopted \in Seq(Event) /\ IsTally(adopted, k, 0, 0, 0, 0)
  BY AdoptedTally
<1>3. /\ failed \in Seq(Event) /\ InOrder(failed)
      /\ \E j \in Nat, f \in Nat : IsTally(failed, j, 0, 0, 0, f)
  <2>1. CASE failed = <<>>
    BY <2>1, None DEF IsTally
  <2>2. CASE failed = <<Stage("storage_failed")>>
    <3> DEFINE n == "storage_failed"
    <3>1. n \in StageEvents /\ failed = <<Stage(n)>>
      BY <2>2 DEF StageEvents
    <3> HIDE DEF n
    <3> QED
      BY <3>1, StageTally
  <2> QED
    BY <2>1, <2>2
<1>4. PICK j \in Nat, f \in Nat : IsTally(failed, j, 0, 0, 0, f)
  BY <1>3
<1>5. /\ Count(adopted, StageEvents) = k /\ Count(adopted, RecoveryNames) = 0
      /\ Count(adopted, StartupEventNames) = 0 /\ Count(adopted, MismatchNames) = 0
      /\ Count(adopted, FailureNames) = 0
      /\ Count(failed, StageEvents) = j /\ Count(failed, RecoveryNames) = 0
      /\ Count(failed, StartupEventNames) = 0 /\ Count(failed, MismatchNames) = 0
      /\ Count(failed, FailureNames) = f
  BY <1>2, <1>4 DEF IsTally
<1>6. /\ adopted \o failed \in Seq(Event) /\ InOrder(adopted \o failed)
      /\ IsTally(adopted \o failed, k + j, 0, 0, 0, f)
  <2> DEFINE u == adopted
             w == failed
  <2>1. u \in Seq(Event) /\ w \in Seq(Event) /\ InOrder(w)
    BY <1>2, <1>3
  <2>2. /\ Count(u, StageEvents) = k /\ Count(w, StageEvents) = j
        /\ Count(u, RecoveryNames) = 0 /\ Count(w, RecoveryNames) = 0
        /\ Count(u, StartupEventNames) = 0 /\ Count(w, StartupEventNames) = 0
        /\ Count(u, MismatchNames) = 0 /\ Count(w, MismatchNames) = 0
        /\ Count(u, FailureNames) = 0 /\ Count(w, FailureNames) = f
    BY <1>5
  <2> HIDE DEF u, w
  <2>3. u \o w \in Seq(Event) /\ InOrder(u \o w)
    BY <2>1, <2>2, Joined
  <2>4. /\ Count(u \o w, StageEvents) = k + j /\ Count(u \o w, RecoveryNames) = 0
        /\ Count(u \o w, StartupEventNames) = 0 /\ Count(u \o w, MismatchNames) = 0
        /\ Count(u \o w, FailureNames) = f
    BY <2>1, <2>2, Joined
  <2>5. IsTally(u \o w, k + j, 0, 0, 0, f)
    BY <2>4 DEF IsTally
  <2> QED
    BY <2>3, <2>5 DEF u, w
<1>7. k + j \in Nat
  OBVIOUS
<1> QED
  BY <1>1, <1>6, <1>7

\* An inventory is the first stage of a recovery, and of its verification.
LEMMA TakeInventoryKeepsInvariant ==
    ASSUME IInv, TakeInventory PROVE IInv'
<1> DEFINE n == "storage_completed"
           t == <<Stage(n)>>
<1>1. /\ step \in {"inventory", "verify"} /\ wellFormed /\ Offer(t)
      /\ step' \in {"reconcile", "reconcile_again"}
      /\ inventory' \in {"ready", "degraded"}
      /\ UNCHANGED <<call, cleanups, rebuilt, incomplete, observation, error, mismatches>>
  BY DEF TakeInventory, Goto
<1>2. TypeOK
  BY DEF IInv
<1>3. WorkTypeOK'
  BY <1>1, <1>2 DEF TypeOK, WorkTypeOK
<1>4. n \in StageEvents /\ n \notin FailureNames
  BY DEF StageEvents, FailureNames
<1>5. step \in RecoverySteps /\ step' \in RecoverySteps \ {"inventory"}
  BY <1>1 DEF RecoverySteps
<1> HIDE DEF n
<1>6. t \in Seq(Event) /\ IsTally(t, 1, 0, 0, 0, 0)
  BY <1>4, StageTally
<1>7. mismatches' = mismatches + 0
  BY <1>1, <1>2 DEF TypeOK
<1>8. UNCHANGED <<call, observation, error>> /\ (incomplete => incomplete')
  BY <1>1
<1> HIDE DEF t
<1> QED
  BY <1>1, <1>3, <1>5, <1>6, <1>7, <1>8, StageKeepsInvariant

\* A reconciliation with cleanups or a publication behind it goes on; one
\* without ends the recovery.
LEMMA ReconcileKeepsInvariant ==
    ASSUME IInv, Reconcile PROVE IInv'
<1> DEFINE n == "indexing_completed"
           t == <<Stage(n)>>
<1>1. PICK published \in BOOLEAN :
         /\ rebuilt' = published
         /\ IF cleanups > 0 \/ published
            THEN /\ Goto(IF cleanups > 0 THEN "cleanup" ELSE "verify")
                 /\ Offer(t)
                 /\ UNCHANGED <<call, observation, error, mismatches>>
            ELSE Finish(Result(FALSE)[1], Result(FALSE)[2], Stage(n))
  BY DEF Reconcile
<1>2. step = "reconcile" /\ UNCHANGED <<inventory, cleanups, incomplete>>
  BY DEF Reconcile
<1>3. TypeOK /\ DuringRecovery
  BY DEF IInv
<1>4. WorkTypeOK' /\ wellFormed
  BY <1>1, <1>2, <1>3 DEF TypeOK, WorkTypeOK, DuringRecovery, RecoverySteps
<1>5. n \in StageEvents /\ n \notin FailureNames /\ step \in RecoverySteps
  BY <1>2 DEF StageEvents, FailureNames, RecoverySteps
<1> HIDE DEF n
<1>6. t \in Seq(Event) /\ IsTally(t, 1, 0, 0, 0, 0)
  BY <1>5, StageTally
<1> HIDE DEF t
<1>7. CASE cleanups > 0 \/ published
  <2>1. /\ Offer(t) /\ UNCHANGED <<call, observation, error>> /\ mismatches' = mismatches
        /\ step' = IF cleanups > 0 THEN "cleanup" ELSE "verify"
    BY <1>1, <1>7 DEF Goto
  <2>2. mismatches' = mismatches + 0
    BY <1>3, <2>1 DEF TypeOK
  <2>3. step' \in RecoverySteps \ {"inventory"}
    BY <2>1 DEF RecoverySteps
  <2>4. incomplete => incomplete'
    BY <1>2
  <2> QED
    BY <1>4, <1>5, <1>6, <2>1, <2>2, <2>3, <2>4, StageKeepsInvariant
<1>8. CASE ~ (cleanups > 0 \/ published)
  <2> DEFINE readiness == Result(FALSE)[1]
             reason == Result(FALSE)[2]
  <2>1. Finish(readiness, reason, Stage(n))
    BY <1>1, <1>8
  <2>2. /\ readiness \in {"ready", "degraded", "unavailable"} /\ reason \in Reasons
        /\ (readiness = "ready" => ~ incomplete)
        /\ reason # "unavailable_embedding_configuration"
    BY DEF Result, Reasons
  <2> HIDE DEF readiness, reason
  <2> QED
    BY <1>4, <1>5, <2>1, <2>2, FinishKeepsInvariant
<1> QED
  BY <1>7, <1>8

\* The verification of a recovery ends it.
LEMMA ReconcileAgainKeepsInvariant ==
    ASSUME IInv, ReconcileAgain PROVE IInv'
<1> DEFINE n == "indexing_completed"
<1>1. PICK published \in BOOLEAN :
          Finish(Result(rebuilt \/ published)[1], Result(rebuilt \/ published)[2], Stage(n))
  BY DEF ReconcileAgain
<1>2. step = "reconcile_again" /\ UNCHANGED work
  BY DEF ReconcileAgain
<1>3. TypeOK /\ DuringRecovery
  BY DEF IInv
<1>4. WorkTypeOK'
  BY <1>2, <1>3 DEF TypeOK, WorkTypeOK, work
<1>5. wellFormed /\ step \in RecoverySteps
  BY <1>2, <1>3 DEF DuringRecovery, RecoverySteps
<1>6. n \in StageEvents /\ n \notin FailureNames
  BY DEF StageEvents, FailureNames
<1> DEFINE readiness == Result(rebuilt \/ published)[1]
           reason == Result(rebuilt \/ published)[2]
<1>7. /\ readiness \in {"ready", "degraded", "unavailable"} /\ reason \in Reasons
      /\ (readiness = "ready" => ~ incomplete)
      /\ reason # "unavailable_embedding_configuration"
  BY DEF Result, Reasons
<1>8. Finish(readiness, reason, Stage(n))
  BY <1>1
<1> HIDE DEF n, readiness, reason
<1> QED
  BY <1>4, <1>5, <1>6, <1>7, <1>8, FinishKeepsInvariant

\* So does a failure of its inventory, or of a reconciliation.
LEMMA UnavailableKeepsInvariant ==
    ASSUME IInv, InventoryUnavailable \/ ReconcileFails PROVE IInv'
<1>1. PICK n \in StageEvents, reason \in Reasons : Finish("unavailable", reason, Stage(n))
  <2>1. CASE InventoryUnavailable
    <3>1. "storage_completed" \in StageEvents
      BY DEF StageEvents
    <3>2. PICK reason \in InventoryReasons :
              Finish("unavailable", reason, Stage("storage_completed"))
      BY <2>1 DEF InventoryUnavailable, InventoryReasons
    <3> QED
      BY <3>1, <3>2 DEF Reasons
  <2>2. CASE ReconcileFails
    <3>1. "indexing_failed" \in StageEvents
      BY DEF StageEvents
    <3>2. PICK reason \in ReconcileReasons :
              Finish("unavailable", reason, Stage("indexing_failed"))
      BY <2>2 DEF ReconcileFails
    <3> QED
      BY <3>1, <3>2 DEF Reasons
  <2> QED
    BY <2>1, <2>2
<1>2. step \in {"inventory", "verify", "reconcile", "reconcile_again"} /\ UNCHANGED work
  BY DEF InventoryUnavailable, ReconcileFails
<1>3. WorkTypeOK' /\ step \in RecoverySteps
  BY <1>2 DEF IInv, TypeOK, WorkTypeOK, work, RecoverySteps
<1> DEFINE readiness == "unavailable"
<1>4. /\ Finish(readiness, reason, Stage(n))
      /\ readiness \in {"ready", "degraded", "unavailable"}
      /\ readiness # "ready" /\ ~ (readiness # "unavailable")
  BY <1>1
<1> HIDE DEF readiness
<1> QED
  BY <1>3, <1>4, FinishKeepsInvariant

\* A cleanup that goes on tells of a stage, or of nothing.
LEMMA CleanUpKeepsInvariant ==
    ASSUME IInv, CompleteForgetting \/ PassOver PROVE IInv'
<1>1. TypeOK /\ DuringRecovery /\ step = "cleanup"
  BY DEF IInv, CompleteForgetting, PassOver
<1>2. wellFormed /\ step \in RecoverySteps
  BY <1>1 DEF DuringRecovery, RecoverySteps
<1>3. CASE CompleteForgetting
  <2> DEFINE n == "storage_completed"
             s == <<Stage(n)>>
  <2>1. PICK adopted \in {<<>>, <<Stage("storage_completed")>>} : Offer(adopted \o s)
    BY <1>3 DEF CompleteForgetting
  <2>2. /\ cleanups > 0 /\ cleanups' = cleanups - 1
        /\ step' \in {"verify", "cleanup"}
        /\ UNCHANGED <<call, inventory, rebuilt, incomplete, observation, error, mismatches>>
    BY <1>1, <1>3 DEF CompleteForgetting, Goto
  <2>3. n \in StageEvents /\ n \notin FailureNames
    BY DEF StageEvents, FailureNames
  <2> HIDE DEF n
  <2>4. s \in Seq(Event) /\ IsTally(s, 1, 0, 0, 0, 0)
    BY <2>3, StageTally
  <2> HIDE DEF s
  <2>5. PICK k \in Nat : adopted \in Seq(Event) /\ IsTally(adopted, k, 0, 0, 0, 0)
    BY AdoptedTally
  <2> DEFINE t == adopted \o s
             stage == k + 1
  <2>6. t \in Seq(Event) /\ IsTally(t, stage, 0, 0, 0, 0) /\ stage \in Nat
    BY <2>4, <2>5, Joined DEF IsTally
  <2>7. Offer(t)
    BY <2>1
  <2> HIDE DEF t, stage
  <2>8. WorkTypeOK'
    BY <1>1, <2>2 DEF TypeOK, WorkTypeOK
  <2>9. step' \in RecoverySteps \ {"inventory"} /\ step # "inventory"
    BY <1>1, <2>2 DEF RecoverySteps
  <2>10. mismatches' = mismatches + 0
    BY <1>1, <2>2 DEF TypeOK
  <2>11. UNCHANGED <<call, observation, error>> /\ (incomplete => incomplete')
    BY <2>2
  <2> QED
    BY <1>2, <2>6, <2>7, <2>8, <2>9, <2>10, <2>11, StageKeepsInvariant
<1>4. CASE PassOver
  <2>1. /\ step' = "verify" /\ step = "cleanup"
        /\ UNCHANGED <<call, work, observation, error, mismatches, offered>>
    BY <1>4 DEF PassOver, Goto
  <2> DEFINE t == <<>>
  <2>2. Offer(t)
    BY <1>1, <2>1 DEF Offer, TypeOK
  <2>3. t \in Seq(Event) /\ IsTally(t, 0, 0, 0, 0, 0)
    BY None DEF IsTally
  <2> HIDE DEF t
  <2>4. WorkTypeOK'
    BY <1>1, <2>1 DEF TypeOK, WorkTypeOK, work
  <2>5. step' \in RecoverySteps \ {"inventory"} /\ step # "inventory"
    BY <2>1 DEF RecoverySteps
  <2>6. mismatches' = mismatches + 0
    BY <1>1, <2>1 DEF TypeOK
  <2>7. UNCHANGED <<call, observation, error>> /\ (incomplete => incomplete')
    BY <2>1 DEF work
  <2> QED
    BY <1>2, <2>2, <2>3, <2>4, <2>5, <2>6, <2>7, StageKeepsInvariant
<1> QED
  BY <1>3, <1>4

\* A cleanup that fails is incomplete, whatever it told of its failure.
LEMMA CleanUpFailsKeepsInvariant ==
    ASSUME IInv, CleanUpFails PROVE IInv'
<1>1. TypeOK /\ DuringRecovery /\ step = "cleanup" /\ step' = "verify"
  BY DEF IInv, CleanUpFails, Goto
<1>2. wellFormed /\ step \in RecoverySteps /\ mismatches \in Nat
  BY <1>1 DEF TypeOK, DuringRecovery, RecoverySteps
<1>3. PICK stages \in CleanupStages :
          \/ Offer(stages) /\ UNCHANGED mismatches
          \/ Offer(stages \o <<ConfigurationFailed>>) /\ mismatches' = mismatches + 1
  BY DEF CleanUpFails
<1>4. PICK k \in Nat, f \in Nat : stages \in Seq(Event) /\ IsTally(stages, k, 0, 0, 0, f)
  BY CleanupTally
<1>5. \E t \in Seq(Event), stage \in Nat, mismatch \in Nat, failure \in Nat :
          /\ Offer(t) /\ IsTally(t, stage, 0, 0, mismatch, failure)
          /\ mismatches' = mismatches + mismatch
  <2>1. CASE Offer(stages) /\ UNCHANGED mismatches
    <3>1. mismatches' = mismatches + 0
      BY <1>2, <2>1
    <3> QED
      BY <1>4, <2>1, <3>1
  <2>2. CASE Offer(stages \o <<ConfigurationFailed>>) /\ mismatches' = mismatches + 1
    <3> DEFINE m == MismatchIf(TRUE)
    <3>1. m = <<ConfigurationFailed>>
      BY DEF MismatchIf
    <3>2. m \in Seq(Event) /\ IsTally(m, 0, 0, 0, 1, 1)
      BY MismatchTally DEF IsTally
    <3> HIDE DEF m
    <3>3. stages \o m \in Seq(Event) /\ IsTally(stages \o m, k, 0, 0, 1, f + 1)
      BY <1>4, <3>2, Joined DEF IsTally
    <3>4. Offer(stages \o m) /\ f + 1 \in Nat
      BY <2>2, <3>1
    <3> QED
      BY <2>2, <3>3, <3>4
  <2> QED
    BY <1>3, <2>1, <2>2
<1>6. PICK t \in Seq(Event), stage \in Nat, mismatch \in Nat, failure \in Nat :
          /\ Offer(t) /\ IsTally(t, stage, 0, 0, mismatch, failure)
          /\ mismatches' = mismatches + mismatch
  BY <1>5
<1>7. incomplete' /\ UNCHANGED <<call, inventory, cleanups, rebuilt, observation, error>>
  BY DEF CleanUpFails
<1>8. WorkTypeOK'
  <2>1. incomplete' \in BOOLEAN
    BY DEF CleanUpFails
  <2> QED
    BY <1>1, <1>7, <2>1 DEF TypeOK, WorkTypeOK
<1>9. step' \in RecoverySteps \ {"inventory"} /\ step # "inventory"
  BY <1>1 DEF RecoverySteps
<1> QED
  BY <1>2, <1>6, <1>7, <1>8, <1>9, StageKeepsInvariant

\* What the end of an invocation has to show.
LEMMA EndOfInvocation ==
    ASSUME Offered(MismatchNames)' = mismatches',
           wellFormed' =>
               /\ Offered(StartupEventNames)' = IF entry' = "recover" THEN 0 ELSE 1
               /\ Offered(RecoveryNames)' = IF Offered(StageEvents)' > 0 THEN 1 ELSE 0
               /\ Last(offered')[1] \in
                      IF entry' = "recover" THEN RecoveryNames ELSE StartupEventNames
               /\ InOrder(offered')
    PROVE  ExactlyOneTerminal' /\ MismatchToldOnce'
<1>1. MismatchToldOnce'
  BY DEF MismatchToldOnce, MismatchNames
<1>2. Terminal' = IF entry' = "recover" THEN RecoveryNames ELSE StartupEventNames
  BY DEF Terminal, RecoveryNames
<1>3. Offered({"recovery_completed"})' = Offered(RecoveryNames)'
  BY DEF RecoveryNames
<1>4. InOrder(offered') =>
          (\A i, j \in DOMAIN offered :
               offered[i][1] = "recovery_completed" /\ offered[j][1] \in StageEvents => j < i)'
  BY DEF InOrder, RecoveryNames
<1>5. ExactlyOneTerminal'
  BY <1>2, <1>3, <1>4 DEF ExactlyOneTerminal
<1> QED
  BY <1>1, <1>5

\* An exception the recovery does not classify is told as its result, and
\* leaves it, or goes to the start-up around it.
LEMMA RecoveryRaisesKeepsInvariant ==
    ASSUME IInv, RecoveryRaises PROVE IInv'
<1>1. TypeOK /\ RefusedAtOnce /\ DuringRecovery
  BY DEF IInv
<1>2. /\ step \in RecoverySteps
      /\ step \in {"inventory", "verify"} => wellFormed
      /\ UNCHANGED <<call, work, recovery, fallback>>
      /\ step' = IF entry = "recover" THEN "raised" ELSE "failing"
  BY DEF RecoveryRaises, RecoverySteps, Goto
<1>3. PICK class \in {"configuration", "other"}, stages \in StagesOfFailure, reason \in Reasons :
          /\ error' = <<class, Null>>
          /\ mismatches' = IF class = "configuration" THEN mismatches + 1 ELSE mismatches
          /\ handled' = (class = "configuration")
          /\ reason = "unavailable_embedding_configuration" <=> class = "configuration"
          /\ OfferResult(stages, reason)
  <2> DEFINE told(class) == IF class = "configuration"
                            THEN "unavailable_embedding_configuration" ELSE "unavailable_rebuild"
  <2>1. PICK class \in {"configuration", "other"} :
            /\ error' = <<class, Null>>
            /\ mismatches' = IF class = "configuration" THEN mismatches + 1 ELSE mismatches
            /\ handled' = (class = "configuration")
            /\ \E stages \in StagesOfFailure : OfferResult(stages, told(class))
    BY DEF RecoveryRaises
  <2>2. /\ told(class) \in Reasons
        /\ told(class) = "unavailable_embedding_configuration" <=> class = "configuration"
    BY DEF Reasons, InventoryReasons, ReconcileReasons
  <2> HIDE DEF told
  <2> QED
    BY <2>1, <2>2
<1>4. /\ entry' = entry /\ observability' = observability /\ wellFormed' = wellFormed
      /\ recovery' = recovery /\ fallback' = fallback
      /\ entry \in {"recover", "recovered", "local"} /\ observability = "valid"
      /\ wellFormed
  BY <1>1, <1>2 DEF TypeOK, RefusedAtOnce, DuringRecovery, RecoverySteps, call
<1>5. offered \in Seq(Event) /\ mismatches \in Nat /\ wellFormed \in BOOLEAN
  BY <1>1 DEF TypeOK
<1> DEFINE c == reason = "unavailable_embedding_configuration"
<1>6. /\ stages \in Seq(Event) /\ InOrder(stages)
      /\ \E stage \in Nat, failure \in Nat :
            /\ IsTally(stages, stage, 0, 0, 0, failure)
            /\ stage > 0 \/ step = "cleanup"
  <2>1. CASE step = "cleanup"
    <3>1. stages \in CleanupStages
      BY <2>1 DEF StagesOfFailure
    <3> QED
      BY <2>1, <3>1, CleanupTally
  <2>2. CASE step # "cleanup"
    <3>1. PICK n \in StageEvents : stages = <<Stage(n)>>
      <4>1. step \in {"inventory", "verify", "reconcile", "reconcile_again"}
        BY <2>2 DEF RecoveryRaises
      <4> QED
        BY <4>1 DEF StagesOfFailure, StageEvents
    <3> DEFINE f == IF n \in FailureNames THEN 1 ELSE 0
    <3>2. f \in Nat /\ 1 \in Nat /\ 1 > 0
      OBVIOUS
    <3>3. stages \in Seq(Event) /\ InOrder(stages) /\ IsTally(stages, 1, 0, 0, 0, f)
      BY <3>1, StageTally
    <3> HIDE DEF f
    <3> QED
      BY <3>2, <3>3
  <2> QED
    BY <2>1, <2>2
<1>7. PICK stage \in Nat, failure \in Nat :
          /\ IsTally(stages, stage, 0, 0, 0, failure)
          /\ stage > 0 \/ step = "cleanup"
  BY <1>6
<1>8. /\ offered' \in Seq(Event)
      /\ Offered(StageEvents)' = Offered(StageEvents) + stage
      /\ Offered(RecoveryNames)' = Offered(RecoveryNames) + (IF wellFormed THEN 1 ELSE 0)
      /\ Offered(StartupEventNames)' = Offered(StartupEventNames)
      /\ Offered(MismatchNames)' = Offered(MismatchNames) + (IF c THEN 1 ELSE 0)
      /\ Offered(RecoveryNames) = 0 => InOrder(offered')
      /\ wellFormed => Last(offered')[1] \in RecoveryNames
  BY <1>3, <1>5, <1>6, <1>7, ResultOffered
<1>9. /\ Offered(StageEvents) \in Nat /\ (step = "cleanup" => Offered(StageEvents) > 0)
      /\ Offered(RecoveryNames) = 0 /\ Offered(StartupEventNames) = 0
      /\ Offered(MismatchNames) = mismatches
  BY <1>1, <1>2, <1>5, OfferedTypes DEF DuringRecovery
<1>10. /\ Offered(StageEvents)' > 0 /\ Offered(RecoveryNames)' = 1
      /\ Offered(StartupEventNames)' = 0 /\ Offered(MismatchNames)' = mismatches'
      /\ InOrder(offered') /\ Last(offered')[1] \in RecoveryNames
      /\ (class = "configuration" => Offered(MismatchNames)' > 0)
  BY <1>3, <1>4, <1>5, <1>8, <1>9, <1>7
<1>11. TypeOK'
  <2>1. WorkTypeOK'
    BY <1>1, <1>2 DEF TypeOK, WorkTypeOK, work
  <2>2. handled' \in BOOLEAN /\ mismatches' \in Nat
    BY <1>3, <1>5
  <2>3. step' \in Steps
    BY <1>2 DEF Steps
  <2>4. error' \in {"configuration", "unavailable", "other"} \X (Reasons \cup {Null})
    BY <1>3
  <2> QED
    BY <1>1, <1>4, <1>8, <2>1, <2>2, <2>3, <2>4 DEF TypeOK
<1>12. RefusedAtOnce' /\ ComposedOnly' /\ FallbackOfStep' /\ BeforeRecovery' /\ DuringRecovery'
       /\ AfterRecovery'
  BY <1>2, <1>4 DEF RefusedAtOnce, ComposedOnly, FallbackOfStep, BeforeRecovery, DuringRecovery,
                    AfterRecovery, RecoverySteps
<1>13. CASE entry = "recover"
  <2>1. step' = "raised" /\ entry' = "recover"
    BY <1>2, <1>4, <1>13
  <2>2. ExactlyOneTerminal' /\ MismatchToldOnce'
    BY <1>10, <2>1, EndOfInvocation
  <2>3. TerminalTellsResult' /\ WhenFailing'
    BY <2>1 DEF TerminalTellsResult, WhenFailing
  <2> QED
    BY <1>11, <1>12, <2>2, <2>3 DEF IInv, AtTheEnd
<1>14. CASE entry # "recover"
  <2>1. step' = "failing"
    BY <1>2, <1>14
  <2>2. AtTheEnd'
    BY <2>1 DEF AtTheEnd, ExactlyOneTerminal, MismatchToldOnce, TerminalTellsResult, Ended
  <2>3. error'[1] = class
    BY <1>3
  <2>4. ~ ReportsMismatch(FailureReason)'
    BY <1>3, <2>3 DEF ReportsMismatch
  <2>5. error' \in {"configuration", "unavailable", "other"} \X (Reasons \cup {Null})
    BY <1>3
  <2>6. mismatches' = Offered(MismatchNames)'
                          + (IF ReportsMismatch(FailureReason)' THEN 1 ELSE 0)
    BY <1>3, <1>5, <1>10, <2>4
  <2>7. InOrder(offered)' <=> InOrder(offered')
    BY DEF InOrder
  <2>8. WhenFailing'
    BY <1>10, <2>3, <2>5, <2>6, <2>7 DEF WhenFailing
  <2> QED
    BY <1>11, <1>12, <2>2, <2>8 DEF IInv
<1> QED
  BY <1>13, <1>14

LEMMA ConfigurationMismatchIsNoReason == "configuration_mismatch" \notin Reasons
BY DEF Reasons, InventoryReasons, ReconcileReasons

\* The start-up goes on with a result, or is failing with the reason of the
\* recovery; a mismatch it knows of was told.
LEMMA RecoveryDoneKeepsInvariant ==
    ASSUME IInv, RecoveryDone PROVE IInv'
<1>1. TypeOK /\ RefusedAtOnce /\ FallbackOfStep /\ AfterRecovery
  BY DEF IInv
<1>2. /\ step = "recovered" /\ entry # "recover"
      /\ handled' = (recovery[2] = "unavailable_embedding_configuration")
      /\ UNCHANGED <<call, work, recovery, mismatches, offered>>
      /\ \/ /\ recovery[1] = "unavailable" /\ error' = <<"unavailable", recovery[2]>>
            /\ step' = "failing" /\ fallback' = fallback
         \/ /\ recovery[1] # "unavailable" /\ error' = error /\ step' = "index"
            /\ fallback' = "unavailable_post_publication_verification"
  BY DEF RecoveryDone, Goto
<1>3. /\ entry' = entry /\ observability' = observability /\ wellFormed' = wellFormed
      /\ recovery' = recovery /\ mismatches' = mismatches /\ offered' = offered
      /\ observability = "valid" /\ fallback = "unavailable_rebuild"
  BY <1>1, <1>2 DEF TypeOK, RefusedAtOnce, FallbackOfStep, call
<1>4. /\ recovery \in {"ready", "degraded", "unavailable"} \X Reasons
      /\ Offered(StageEvents) > 0
      /\ Offered(RecoveryNames) = IF wellFormed THEN 1 ELSE 0
      /\ Offered(StartupEventNames) = 0 /\ Offered(MismatchNames) = mismatches
      /\ InOrder(offered) /\ (wellFormed => Last(offered)[1] \in RecoveryNames)
      /\ recovery[1] # "unavailable" =>
            wellFormed /\ recovery[2] # "unavailable_embedding_configuration"
      /\ recovery[2] = "unavailable_embedding_configuration" => mismatches > 0
      /\ recovery[1] = "ready" => Offered(FailureNames) = 0
  BY <1>1, <1>2 DEF AfterRecovery
<1>5. /\ Offered(StageEvents)' = Offered(StageEvents)
      /\ Offered(RecoveryNames)' = Offered(RecoveryNames)
      /\ Offered(StartupEventNames)' = Offered(StartupEventNames)
      /\ Offered(MismatchNames)' = Offered(MismatchNames)
      /\ Offered(FailureNames)' = Offered(FailureNames)
      /\ InOrder(offered)' <=> InOrder(offered)
      /\ Last(offered)' = Last(offered)
  BY <1>3 DEF Offered, InOrder, Last
<1>6. TypeOK'
  <2>1. WorkTypeOK'
    BY <1>1, <1>2 DEF TypeOK, WorkTypeOK, work
  <2>2. handled' \in BOOLEAN /\ step' \in Steps
    BY <1>2 DEF Steps
  <2>3. fallback' \in Reasons
    BY <1>1, <1>2 DEF TypeOK, Reasons, ReconcileReasons
  <2>4. error' \in {Null} \cup ({"configuration", "unavailable", "other"} \X (Reasons \cup {Null}))
    BY <1>1, <1>2, <1>4 DEF TypeOK
  <2> QED
    BY <1>1, <1>3, <2>1, <2>2, <2>3, <2>4 DEF TypeOK
<1>7. RefusedAtOnce' /\ ComposedOnly' /\ FallbackOfStep' /\ BeforeRecovery' /\ DuringRecovery'
  BY <1>2, <1>3 DEF RefusedAtOnce, ComposedOnly, FallbackOfStep, BeforeRecovery, DuringRecovery,
                    RecoverySteps
<1>8. AtTheEnd'
  BY <1>2 DEF AtTheEnd, ExactlyOneTerminal, MismatchToldOnce, TerminalTellsResult, Ended
<1>9. AfterRecovery'
  <2>1. CASE step' = "failing"
    BY <2>1 DEF AfterRecovery
  <2>2. CASE step' = "index"
    <3>1. recovery[1] # "unavailable" /\ ~ handled'
      BY <1>2, <1>4, <2>2
    <3> QED
      BY <1>3, <1>4, <1>5, <2>2, <3>1 DEF AfterRecovery
  <2> QED
    BY <1>2, <2>1, <2>2
<1>10. WhenFailing'
  <2>1. CASE step' = "index"
    BY <2>1 DEF WhenFailing
  <2>2. CASE step' = "failing"
    <3>1. error' = <<"unavailable", recovery[2]>> /\ fallback' = fallback
      BY <1>2, <2>2
    <3>2. FailureReason' = IF recovery[2] # Null THEN recovery[2] ELSE fallback
      BY <3>1 DEF FailureReason
    <3>3. ~ ReportsMismatch(FailureReason)'
      BY <1>2, <1>3, <3>1, <3>2 DEF ReportsMismatch
    <3>4. error' \in {"configuration", "unavailable", "other"} \X (Reasons \cup {Null})
      BY <1>4, <3>1
    <3>5. mismatches' = Offered(MismatchNames)'
                            + (IF ReportsMismatch(FailureReason)' THEN 1 ELSE 0)
      BY <1>1, <1>3, <1>4, <1>5, <3>3 DEF TypeOK
    <3>6. error'[1] # "configuration"
      BY <3>1
    <3> QED
      BY <1>3, <1>4, <1>5, <3>4, <3>5, <3>6 DEF WhenFailing
  <2> QED
    BY <1>2, <2>1, <2>2
<1> QED
  BY <1>6, <1>7, <1>8, <1>9, <1>10 DEF IInv

\* A direct recovery returns after its terminal event.
LEMMA DirectRecoveryReturnsKeepsInvariant ==
    ASSUME IInv, DirectRecoveryReturns PROVE IInv'
<1>1. TypeOK /\ RefusedAtOnce /\ AfterRecovery
  BY DEF IInv
<1>2. /\ step = "recovered" /\ entry = "recover" /\ step' = "returned"
      /\ UNCHANGED <<call, work, observation, error, mismatches, offered>>
  BY DEF DirectRecoveryReturns, Goto
<1>3. /\ entry' = entry /\ observability' = observability /\ wellFormed' = wellFormed
      /\ mismatches' = mismatches /\ offered' = offered /\ observability = "valid"
  BY <1>1, <1>2 DEF TypeOK, RefusedAtOnce, call
<1>4. TypeOK'
  <2>1. WorkTypeOK'
    BY <1>1, <1>2 DEF TypeOK, WorkTypeOK, work
  <2> QED
    BY <1>1, <1>2, <2>1 DEF TypeOK, call, observation, Steps
<1>5. /\ Offered(StageEvents)' = Offered(StageEvents)
      /\ Offered(RecoveryNames)' = Offered(RecoveryNames)
      /\ Offered(StartupEventNames)' = Offered(StartupEventNames)
      /\ Offered(MismatchNames)' = Offered(MismatchNames)
  BY <1>3 DEF Offered
<1>6. ExactlyOneTerminal' /\ MismatchToldOnce'
  <2>1. /\ Offered(StageEvents) > 0
        /\ Offered(RecoveryNames) = IF wellFormed THEN 1 ELSE 0
        /\ Offered(StartupEventNames) = 0 /\ Offered(MismatchNames) = mismatches
        /\ InOrder(offered) /\ (wellFormed => Last(offered)[1] \in RecoveryNames)
    BY <1>1, <1>2 DEF AfterRecovery
  <2> QED
    BY <1>2, <1>3, <1>5, <2>1, EndOfInvocation
<1>7. TerminalTellsResult'
  BY <1>2, <1>3 DEF TerminalTellsResult
<1>8. /\ RefusedAtOnce' /\ ComposedOnly' /\ FallbackOfStep' /\ BeforeRecovery'
      /\ DuringRecovery' /\ AfterRecovery' /\ WhenFailing'
  BY <1>2, <1>3 DEF RefusedAtOnce, ComposedOnly, FallbackOfStep, BeforeRecovery, DuringRecovery,
                    AfterRecovery, WhenFailing, RecoverySteps
<1> QED
  BY <1>4, <1>6, <1>7, <1>8 DEF IInv, AtTheEnd

\* The index is opened after a recovery that is ready or degraded.
LEMMA OpenIndexKeepsInvariant ==
    ASSUME IInv, OpenIndex PROVE IInv'
<1>1. TypeOK /\ RefusedAtOnce /\ ComposedOnly /\ AfterRecovery
  BY DEF IInv
<1>2. /\ step = "index" /\ step' = "service" /\ fallback' = "unavailable_rebuild"
      /\ UNCHANGED <<call, work, recovery, handled, error, mismatches, offered>>
  BY DEF OpenIndex, Goto
<1>3. /\ entry' = entry /\ observability' = observability /\ wellFormed' = wellFormed
      /\ recovery' = recovery /\ handled' = handled /\ error' = error
      /\ mismatches' = mismatches /\ offered' = offered
      /\ entry # "recover" /\ observability = "valid"
  BY <1>1, <1>2 DEF TypeOK, RefusedAtOnce, ComposedOnly, call
<1>4. TypeOK'
  <2>1. WorkTypeOK'
    BY <1>1, <1>2 DEF TypeOK, WorkTypeOK, work
  <2>2. fallback' \in Reasons /\ step' \in Steps
    BY <1>2 DEF Reasons, ReconcileReasons, Steps
  <2> QED
    BY <1>1, <1>3, <2>1, <2>2 DEF TypeOK
<1>5. AfterRecovery'
  <2>1. /\ Offered(StageEvents)' = Offered(StageEvents)
        /\ Offered(RecoveryNames)' = Offered(RecoveryNames)
        /\ Offered(StartupEventNames)' = Offered(StartupEventNames)
        /\ Offered(MismatchNames)' = Offered(MismatchNames)
        /\ Offered(FailureNames)' = Offered(FailureNames)
        /\ InOrder(offered)' <=> InOrder(offered)
        /\ Last(offered)' = Last(offered)
    BY <1>3 DEF Offered, InOrder, Last
  <2> QED
    BY <1>1, <1>2, <1>3, <2>1 DEF AfterRecovery
<1>6. /\ RefusedAtOnce' /\ ComposedOnly' /\ FallbackOfStep' /\ BeforeRecovery'
      /\ DuringRecovery' /\ WhenFailing' /\ AtTheEnd'
  BY <1>2, <1>3 DEF RefusedAtOnce, ComposedOnly, FallbackOfStep, BeforeRecovery, DuringRecovery,
                    WhenFailing, RecoverySteps, AtTheEnd, ExactlyOneTerminal, MismatchToldOnce,
                    TerminalTellsResult, Ended
<1> QED
  BY <1>4, <1>5, <1>6 DEF IInv

\* A service that is exposed is told with the readiness of its recovery.
LEMMA StartUpReturnsKeepsInvariant ==
    ASSUME IInv, StartUpReturns PROVE IInv'
<1>1. TypeOK /\ RefusedAtOnce /\ ComposedOnly /\ AfterRecovery
  BY DEF IInv
<1> DEFINE n == IF recovery[1] = "ready" THEN "startup_ready" ELSE "startup_degraded"
           told == recovery[2]
<1>2. /\ step = "service" /\ step' = "returned"
      /\ OfferTerminal(<<>>, <<n, told>>)
      /\ UNCHANGED <<call, work, observation, error, mismatches>>
  BY DEF StartUpReturns, Goto
<1>3. /\ entry' = entry /\ observability' = observability /\ wellFormed' = wellFormed
      /\ recovery' = recovery /\ mismatches' = mismatches
      /\ entry # "recover" /\ observability = "valid"
  BY <1>1, <1>2 DEF TypeOK, RefusedAtOnce, ComposedOnly, call, observation
<1>4. /\ recovery \in {"ready", "degraded", "unavailable"} \X Reasons
      /\ recovery[1] # "unavailable" /\ wellFormed
      /\ Offered(StageEvents) > 0 /\ Offered(RecoveryNames) = 1
      /\ Offered(StartupEventNames) = 0 /\ Offered(MismatchNames) = mismatches
      /\ InOrder(offered)
  BY <1>1, <1>2 DEF AfterRecovery
<1>5. n \in StartupEventNames /\ told \in Reasons /\ n # "startup_unavailable"
  BY <1>4 DEF StartupEventNames
<1>6. /\ n = "startup_ready" => recovery[1] = "ready"
      /\ n = "startup_degraded" => recovery[1] = "degraded"
  BY <1>4
<1> HIDE DEF n, told
<1>7. /\ offered' \in Seq(Event)
      /\ Offered(StageEvents)' = Offered(StageEvents)
      /\ Offered(RecoveryNames)' = Offered(RecoveryNames)
      /\ Offered(StartupEventNames)' = 1
      /\ Offered(MismatchNames)' = Offered(MismatchNames)
      /\ InOrder(offered') /\ Last(offered') = <<n, told>>
  <2> DEFINE c == FALSE
  <2>1. OfferTerminal(MismatchIf(c), <<n, told>>) /\ c \in BOOLEAN /\ ~ c
    BY <1>2 DEF MismatchIf
  <2>2. offered \in Seq(Event) /\ wellFormed \in BOOLEAN
    BY <1>1 DEF TypeOK
  <2>3. told \in Reasons \cup {"configuration_mismatch"}
    BY <1>5
  <2> HIDE DEF c
  <2> QED
    BY <1>4, <1>5, <2>1, <2>2, <2>3, StartUpOffered, OfferedTypes
<1>8. TypeOK'
  <2>1. WorkTypeOK'
    BY <1>1, <1>2 DEF TypeOK, WorkTypeOK, work
  <2> QED
    BY <1>1, <1>2, <1>7, <2>1 DEF TypeOK, call, observation, Steps
<1>9. ExactlyOneTerminal' /\ MismatchToldOnce'
  <2>1. Last(offered')[1] \in StartupEventNames
    BY <1>5, <1>7
  <2> QED
    BY <1>3, <1>4, <1>7, <2>1, EndOfInvocation
<1>10. TerminalTellsResult'
  <2>1. Last(offered)' = <<n, told>>
    BY <1>7 DEF Last
  <2>2. told # "configuration_mismatch"
    BY <1>5, ConfigurationMismatchIsNoReason
  <2> QED
    BY <1>2, <1>3, <1>5, <1>6, <2>1, <2>2 DEF TerminalTellsResult
<1>11. /\ RefusedAtOnce' /\ ComposedOnly' /\ FallbackOfStep' /\ BeforeRecovery'
       /\ DuringRecovery' /\ AfterRecovery' /\ WhenFailing'
  BY <1>2, <1>3 DEF RefusedAtOnce, ComposedOnly, FallbackOfStep, BeforeRecovery, DuringRecovery,
                    AfterRecovery, WhenFailing, RecoverySteps
<1> QED
  BY <1>8, <1>9, <1>10, <1>11 DEF IInv, AtTheEnd

\* An exception is told, with the mismatch that no one told before.
LEMMA StartUpRaisesKeepsInvariant ==
    ASSUME IInv, StartUpRaises PROVE IInv'
<1>1. TypeOK /\ RefusedAtOnce /\ ComposedOnly /\ WhenFailing
  BY DEF IInv
<1> DEFINE n == "startup_unavailable"
           c == ReportsMismatch(FailureReason)
           told == IF error[1] = "configuration" THEN "configuration_mismatch" ELSE FailureReason
<1>2. /\ step = "failing" /\ step' = "raised"
      /\ OfferTerminal(MismatchIf(c), <<n, told>>)
      /\ UNCHANGED <<call, work, observation, error, mismatches>>
  BY DEF StartUpRaises, FailureReason, Goto
<1>3. /\ entry' = entry /\ observability' = observability /\ wellFormed' = wellFormed
      /\ recovery' = recovery /\ mismatches' = mismatches
      /\ entry # "recover" /\ observability = "valid"
  BY <1>1, <1>2 DEF TypeOK, RefusedAtOnce, ComposedOnly, call, observation
<1>4. /\ error \in {"configuration", "unavailable", "other"} \X (Reasons \cup {Null})
      /\ wellFormed => Offered(RecoveryNames) = IF Offered(StageEvents) > 0 THEN 1 ELSE 0
      /\ Offered(StartupEventNames) = 0
      /\ mismatches = Offered(MismatchNames) + (IF c THEN 1 ELSE 0)
      /\ error[1] = "configuration" /\ handled => Offered(MismatchNames) > 0
      /\ InOrder(offered)
  BY <1>1, <1>2 DEF WhenFailing
<1>5. n \in StartupEventNames /\ n # "startup_ready" /\ n # "startup_degraded"
  BY DEF StartupEventNames
<1>6. c \in BOOLEAN
  BY DEF ReportsMismatch
<1>7. /\ FailureReason \in Reasons
      /\ told \in Reasons \cup {"configuration_mismatch"}
      /\ told = "configuration_mismatch" => error[1] = "configuration"
  <2>1. FailureReason \in Reasons
    BY <1>1, <1>4 DEF TypeOK, FailureReason
  <2> QED
    BY <2>1, ConfigurationMismatchIsNoReason
<1>8. error[1] = "configuration" /\ ~ c => handled
  BY DEF ReportsMismatch
<1>9. n = "startup_unavailable"
  OBVIOUS
<1> HIDE DEF n, c, told
<1>10. offered \in Seq(Event) /\ wellFormed \in BOOLEAN
  BY <1>1 DEF TypeOK
<1>11. /\ offered' \in Seq(Event)
       /\ Offered(StageEvents)' = Offered(StageEvents)
       /\ Offered(RecoveryNames)' = Offered(RecoveryNames)
       /\ Offered(StartupEventNames)' = Offered(StartupEventNames) + (IF wellFormed THEN 1 ELSE 0)
       /\ Offered(MismatchNames)' = Offered(MismatchNames) + (IF c THEN 1 ELSE 0)
       /\ InOrder(offered')
       /\ wellFormed => Last(offered') = <<n, told>>
  BY <1>2, <1>4, <1>5, <1>6, <1>7, <1>10, StartUpOffered
<1>12. TypeOK'
  <2>1. WorkTypeOK'
    BY <1>1, <1>2 DEF TypeOK, WorkTypeOK, work
  <2> QED
    BY <1>1, <1>2, <1>11, <2>1 DEF TypeOK, call, observation, Steps
<1>13. ExactlyOneTerminal' /\ MismatchToldOnce'
  <2>1. wellFormed => Offered(StartupEventNames)' = 1
    BY <1>4, <1>11
  <2>2. wellFormed => Last(offered')[1] \in StartupEventNames
    BY <1>5, <1>11
  <2>3. Offered(MismatchNames)' = mismatches'
    BY <1>3, <1>4, <1>11
  <2> QED
    BY <1>3, <1>4, <1>11, <2>1, <2>2, <2>3, EndOfInvocation
<1>14. TerminalTellsResult'
  <2>1. wellFormed => Last(offered)' = <<n, told>>
    BY <1>11 DEF Last
  <2>2. told = "configuration_mismatch" => Offered(MismatchNames)' > 0
    <3>1. Offered(MismatchNames) \in Nat
      BY <1>10, OfferedTypes
    <3> QED
      BY <1>4, <1>7, <1>8, <1>11, <3>1
  <2>3. Offered({"configuration_failed"})' = Offered(MismatchNames)'
    BY DEF MismatchNames
  <2> QED
    BY <1>2, <1>3, <1>5, <1>9, <2>1, <2>2, <2>3 DEF TerminalTellsResult
<1>15. /\ RefusedAtOnce' /\ ComposedOnly' /\ FallbackOfStep' /\ BeforeRecovery'
       /\ DuringRecovery' /\ AfterRecovery' /\ WhenFailing'
  BY <1>2, <1>3 DEF RefusedAtOnce, ComposedOnly, FallbackOfStep, BeforeRecovery, DuringRecovery,
                    AfterRecovery, WhenFailing, RecoverySteps
<1> QED
  BY <1>12, <1>13, <1>14, <1>15 DEF IInv, AtTheEnd

LEMMA StutterKeepsInvariant ==
    ASSUME IInv, UNCHANGED vars PROVE IInv'
<1>1. /\ entry' = entry /\ observability' = observability /\ wellFormed' = wellFormed
      /\ step' = step /\ inventory' = inventory /\ cleanups' = cleanups /\ rebuilt' = rebuilt
      /\ incomplete' = incomplete /\ recovery' = recovery /\ fallback' = fallback
      /\ handled' = handled /\ error' = error /\ mismatches' = mismatches /\ offered' = offered
  BY DEF vars, call, work, observation
<1>2. /\ TypeOK' /\ RefusedAtOnce' /\ ComposedOnly' /\ FallbackOfStep' /\ BeforeRecovery'
  BY <1>1 DEF IInv, TypeOK, WorkTypeOK, RefusedAtOnce, ComposedOnly, FallbackOfStep,
              BeforeRecovery
<1>3. DuringRecovery'
  BY <1>1 DEF IInv, DuringRecovery, Offered
<1>4. AfterRecovery'
  BY <1>1 DEF IInv, AfterRecovery, Offered, InOrder, Last
<1>5. WhenFailing'
  BY <1>1 DEF IInv, WhenFailing, Offered, InOrder, ReportsMismatch, FailureReason
<1>6. AtTheEnd'
  BY <1>1 DEF IInv, AtTheEnd, ExactlyOneTerminal, MismatchToldOnce, TerminalTellsResult, Ended,
              Terminal, Offered, Last
<1> QED
  BY <1>2, <1>3, <1>4, <1>5, <1>6 DEF IInv

LEMMA NextKeepsInvariant == IInv /\ [Next]_vars => IInv'
<1> SUFFICES ASSUME IInv, [Next]_vars PROVE IInv'
  OBVIOUS
<1>1. CASE BeginRecovery \/ BeginStartUp \/ OpenRepository \/ LoadModels
  BY <1>1, BeforeKeepsInvariant
<1>2. CASE RefuseObservability
  BY <1>2, RefuseKeepsInvariant
<1>3. CASE ConstructorFails
  BY <1>3, ConstructorFailsKeepsInvariant
<1>4. CASE TakeInventory
  BY <1>4, TakeInventoryKeepsInvariant
<1>5. CASE Reconcile
  BY <1>5, ReconcileKeepsInvariant
<1>6. CASE ReconcileAgain
  BY <1>6, ReconcileAgainKeepsInvariant
<1>7. CASE InventoryUnavailable \/ ReconcileFails
  BY <1>7, UnavailableKeepsInvariant
<1>8. CASE CompleteForgetting \/ PassOver
  BY <1>8, CleanUpKeepsInvariant
<1>9. CASE CleanUpFails
  BY <1>9, CleanUpFailsKeepsInvariant
<1>10. CASE RecoveryRaises
  BY <1>10, RecoveryRaisesKeepsInvariant
<1>11. CASE RecoveryDone
  BY <1>11, RecoveryDoneKeepsInvariant
<1>12. CASE DirectRecoveryReturns
  BY <1>12, DirectRecoveryReturnsKeepsInvariant
<1>13. CASE OpenIndex
  BY <1>13, OpenIndexKeepsInvariant
<1>14. CASE StartUpReturns
  BY <1>14, StartUpReturnsKeepsInvariant
<1>15. CASE StartUpRaises
  BY <1>15, StartUpRaisesKeepsInvariant
<1>16. CASE UNCHANGED vars
  BY <1>16, StutterKeepsInvariant
<1> QED
  BY <1>1, <1>2, <1>3, <1>4, <1>5, <1>6, <1>7, <1>8, <1>9, <1>10, <1>11, <1>12, <1>13, <1>14,
     <1>15, <1>16 DEF Next

\* What has been offered at each step of a start-up or recovery.
THEOREM StartUpInvariant == Spec => []IInv
<1>1. Init => IInv
  BY InitInvariant
<1>2. IInv /\ [Next]_vars => IInv'
  BY NextKeepsInvariant
<1> QED
  BY <1>1, <1>2, PTL DEF Spec

-----------------------------------------------------------------------------
(* What an invocation tells.                                               *)

\* Whatever fails and where, a start-up offers one start-up event, a recovery
\* it began one recovery_completed behind its stages, and the terminal event
\* comes last (composition _run_startup, recovery.py recover).
THEOREM OneTerminalEvent == Spec => []ExactlyOneTerminal
<1>1. IInv => ExactlyOneTerminal
  BY DEF IInv, AtTheEnd
<1> QED
  BY <1>1, StartUpInvariant, PTL

\* Every configuration mismatch is offered exactly once, by the recovery or by
\* the start-up around it (composition _emit_startup_failure, recovery.py
\* _emit_terminal).
THEOREM MismatchIsToldOnce == Spec => []MismatchToldOnce
<1>1. IInv => MismatchToldOnce
  BY DEF IInv, AtTheEnd
<1> QED
  BY <1>1, StartUpInvariant, PTL

\* The start-up event tells what the caller gets: a service with the readiness
\* of its recovery, or an exception (composition _run_startup).
THEOREM TerminalIsTrue == Spec => []TerminalTellsResult
<1>1. IInv => TerminalTellsResult
  BY DEF IInv, AtTheEnd
<1> QED
  BY <1>1, StartUpInvariant, PTL

\* A recovery is ready only if none of its stages told of a failure and it met
\* no mismatch (recovery.py _recover).
THEOREM ReadyTellsNoFailure == Spec => []ReadyMeansNoFailure
<1>1. IInv => ReadyMeansNoFailure
  <2> SUFFICES ASSUME IInv, recovery[1] = "ready", step = "recovered"
               PROVE  Offered(FailureNames) = 0
    BY DEF ReadyMeansNoFailure, FailureNames
  <2> QED
    BY DEF IInv, AfterRecovery
<1> QED
  BY <1>1, StartUpInvariant, PTL

-----------------------------------------------------------------------------
(* An invocation ends, whatever fails: what is left of it only shrinks.     *)

\* How many steps a start-up or a recovery has left, at most.
RankOf ==
    [resolve |-> 12, repository |-> 11, models |-> 10, inventory |-> 9, reconcile |-> 8,
     cleanup |-> 7, verify |-> 6, reconcile_again |-> 5, recovered |-> 4, index |-> 3,
     service |-> 2, failing |-> 1, returned |-> 0, raised |-> 0]
StepsLeft == RankOf[step] + cleanups

LEMMA RankType == \A s \in Steps : RankOf[s] \in Nat
BY DEF Steps, RecoverySteps, RankOf

\* A step goes on to a later one, or completes one of the pending forgettings.
GoesOn ==
    /\ step \in Steps /\ step' \in Steps
    /\ \/ cleanups' = cleanups /\ RankOf[step'] < RankOf[step]
       \/ cleanups > 0 /\ cleanups' = cleanups - 1 /\ RankOf[step'] <= RankOf[step]

LEMMA NextGoesOn == TypeOK /\ Next => GoesOn
<1> SUFFICES ASSUME TypeOK, Next PROVE GoesOn
  OBVIOUS
<1> USE DEF Goto, call, work, RankOf, Steps, RecoverySteps, GoesOn
<1>1. CASE BeginRecovery \/ RefuseObservability \/ BeginStartUp
  BY <1>1 DEF BeginRecovery, RefuseObservability, BeginStartUp
<1>2. CASE OpenRepository \/ LoadModels
  BY <1>2 DEF OpenRepository, LoadModels
<1>3. CASE ConstructorFails
  BY <1>3 DEF ConstructorFails, Fail
<1>4. CASE InventoryUnavailable \/ ReconcileFails \/ ReconcileAgain
  BY <1>4 DEF InventoryUnavailable, ReconcileFails, ReconcileAgain, Finish
<1>5. CASE TakeInventory
  BY <1>5 DEF TakeInventory
<1>6. CASE Reconcile
  <2>1. step = "reconcile" /\ cleanups' = cleanups
    BY <1>6 DEF Reconcile
  <2>2. step' \in {"cleanup", "verify", "recovered"}
    <3>1. PICK published \in BOOLEAN :
            IF cleanups > 0 \/ published
            THEN step' = IF cleanups > 0 THEN "cleanup" ELSE "verify"
            ELSE step' = "recovered"
      BY <1>6 DEF Reconcile, Finish
    <3> QED
      BY <3>1
  <2> QED
    BY <2>1, <2>2
<1>7. CASE CompleteForgetting
  BY <1>7 DEF CompleteForgetting
<1>8. CASE PassOver \/ CleanUpFails
  BY <1>8 DEF PassOver, CleanUpFails
<1>9. CASE RecoveryRaises
  BY <1>9 DEF RecoveryRaises
<1>10. CASE RecoveryDone \/ DirectRecoveryReturns
  BY <1>10 DEF RecoveryDone, DirectRecoveryReturns
<1>11. CASE OpenIndex \/ StartUpReturns \/ StartUpRaises
  BY <1>11 DEF OpenIndex, StartUpReturns, StartUpRaises
<1> QED
  BY <1>1, <1>2, <1>3, <1>4, <1>5, <1>6, <1>7, <1>8, <1>9, <1>10, <1>11 DEF Next

\* No failure, exception or pending forgetting keeps a start-up or a recovery
\* going: each step counts down what is left of it, 12 steps at the start and
\* one for each pending forgetting (composition _run_startup, recovery.py
\* _recover).
THEOREM StartUpsAreBounded == Spec => [](StepsLeft \in Nat) /\ [][StepsLeft' < StepsLeft]_vars
<1>1. IInv => StepsLeft \in Nat
  BY RankType DEF IInv, TypeOK, WorkTypeOK, StepsLeft
<1>2. IInv /\ [Next]_vars => [StepsLeft' < StepsLeft]_vars
  <2> SUFFICES ASSUME IInv, Next PROVE StepsLeft' < StepsLeft
    OBVIOUS
  <2>1. GoesOn /\ cleanups \in Nat
    BY NextGoesOn DEF IInv, TypeOK, WorkTypeOK
  <2>2. RankOf[step] \in Nat /\ RankOf[step'] \in Nat
    BY <2>1, RankType DEF GoesOn
  <2> QED
    BY <2>1, <2>2 DEF GoesOn, StepsLeft
<1> QED
  BY <1>1, <1>2, StartUpInvariant, PTL DEF Spec

=============================================================================
