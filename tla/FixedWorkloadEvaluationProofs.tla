--------------------- MODULE FixedWorkloadEvaluationProofs ---------------------
(***************************************************************************)
(* The fixed-workload command, for any number of cases.                    *)
(***************************************************************************)
EXTENDS FixedWorkloadEvaluation, TLAPS

\* A case is recorded in progress until its completed report is accepted.
Finished(c, r) ==
    /\ r \in CaseReports /\ ValidCase(c, r)
    /\ r.executed /\ r.reasons # {"prerequisite_unavailable"}
Recordable(c, r) == r \in {Null, InProgress(FALSE), InProgress(TRUE)} \/ Finished(c, r)

EvaluationTypes ==
    /\ current \in Cases
    /\ inputs \in {"intact"} \cup InputReasons
    /\ recorded \in [Cases -> CaseReports \cup {Null}]
    /\ verdict \in Verdicts \cup {Null}
    /\ error \in ErrorClasses \cup {Null}

\* The cases run in order: the ones before the current are finished.
CasesInOrder ==
    /\ \A c \in Cases : Recordable(c, recorded[c])
    /\ \A c \in Cases : c < current => Finished(c, recorded[c])

\* All cases are finished once the inputs are read again.
StepsInOrder ==
    /\ step \in {"arguments", "load", "caches", "case", "admissions", "probes",
                 "complete", "verify", "report", "failed", "done"}
    /\ step = "complete" => verdict # Null
    /\ step \in {"verify", "report"} => \A c \in Cases : Finished(c, recorded[c])

\* What is known when a step fails, and that nothing has failed before.
FailureInvariant ==
    /\ step \notin {"failed", "done"} => error = Null
    /\ step = "report" => inputs = "intact"
    /\ step = "failed" => error # Null
    /\ step = "failed" /\ error = "input" => inputs # "intact"
    /\ step = "failed" /\ error = "prerequisite" => ~ Complete(current)
    /\ step \in {"admissions", "probes"} => ~ Complete(current)
    /\ step = "arguments" => ~ Complete(current)
    /\ step # "done" => exit = Null /\ report = Null
    /\ step = "done" => SuccessIsVerified /\ FailureIsTold /\ ObservationsAreKept

EvaluationInvariant == EvaluationTypes /\ CasesInOrder /\ StepsInOrder /\ FailureInvariant

-----------------------------------------------------------------------------

LEMMA CurrentIsCase == 1 \in Cases /\ NumCases \in Cases /\ NumCases \in Nat
BY CaseAssumption DEF Cases

\* A report in progress is one CaseReport accepts, and is not complete.
LEMMA InProgressFacts ==
    ASSUME NEW e \in BOOLEAN, NEW c
    PROVE  /\ InProgress(e) \in CaseReports
           /\ InProgress(e) # Null
           /\ InProgress(e).reasons = {"prerequisite_unavailable"}
           /\ InProgress(e).executed = e
           /\ ValidCase(c, InProgress(e))
<1>1. InProgress(e) \in CaseReports
  BY DEF InProgress, CaseReport, CaseReports, ReasonCode
<1>2. ValidCase(c, InProgress(e))
  BY DEF InProgress, CaseReport, ValidCase, QualityReasons
<1> QED
  BY <1>1, <1>2, NullAssumption DEF InProgress, CaseReport

\* What the classification makes of any outcome of the checks, if CaseReport
\* accepts it, is a finished case.
LEMMA ClassifiedIsFinished ==
    ASSUME NEW c, NEW v \in Verdicts, ValidCase(c, Classify(v))
    PROVE  Classify(v) \in CaseReports /\ Finished(c, Classify(v))
<1>1. CASE v.failed # {}
  <2> DEFINE R == {ClassReason(k) : k \in v.failed}
  <2>1. Classify(v) = Completed(v, "FAIL", R)
    BY <1>1 DEF Classify
  <2>2. \A k \in v.failed : ClassReason(k) \in
          {"non_reproducible_result", "required_state_failure", "safety_violation"}
    BY DEF Verdicts, CheckClasses, ClassReason
  <2>3. R \subseteq ReasonCode /\ "prerequisite_unavailable" \notin R
    BY <2>2 DEF ReasonCode
  <2> HIDE DEF R
  <2> QED
    BY <2>1, <2>3 DEF Completed, CaseReport, CaseReports, Finished
<1>2. CASE v.failed = {} /\ v.quality # {}
  BY <1>2 DEF Classify, Completed, CaseReport, CaseReports, Finished, Verdicts, QualityReasons,
     ReasonCode
<1>3. CASE v.failed = {} /\ v.quality = {}
  BY <1>3 DEF Classify, Completed, CaseReport, CaseReports, Finished, ReasonCode
<1> QED
  BY <1>1, <1>2, <1>3

-----------------------------------------------------------------------------
(* The report of a failure.                                                *)

\* What the failed report says of one case, before its last case is replaced.
LEMMA FailedCaseFacts ==
    ASSUME EvaluationInvariant, step = "failed", NEW c \in Cases
    PROVE  /\ FailedCase(c) \in CaseReports
           /\ ValidCase(c, FailedCase(c))
           /\ FailedCase(c).executed = (recorded[c] # Null /\ recorded[c].executed)
           /\ Kept(c) => FailedCase(c) = recorded[c]
           /\ ~ Kept(c) => FailedCase(c).status = "FAIL" /\ FailedCase(c).reasons = Reasons
<1> USE DEF EvaluationInvariant, EvaluationTypes, CasesInOrder, FailureInvariant
<1>1. Reasons \subseteq ReasonCode
      /\ Reasons # {}
      /\ Reasons \cap (QualityReasons \cup {"expected_behavior_confirmed"}) = {}
  <2>1. error = "input" => inputs \in InputReasons
    OBVIOUS
  <2> QED
    BY <2>1 DEF Reasons, Reason, ReasonCode, InputReasons, QualityReasons
<1>2. CASE Kept(c)
  <2>1. Finished(c, recorded[c]) /\ recorded[c] # Null /\ recorded[c] \in CaseReports
    BY <1>2, InProgressFacts DEF Kept, Complete, Recordable
  <2> QED
    BY <1>2, <2>1 DEF FailedCase, Finished
<1>3. CASE ~ Kept(c)
  <2> DEFINE executed == recorded[c] # Null /\ recorded[c].executed
  <2>1. executed \in BOOLEAN
    BY DEF CaseReports
  <2>2. FailedCase(c) = CaseReport("FAIL", Reasons, executed, FALSE)
    BY <1>3 DEF FailedCase
  <2> HIDE DEF executed
  <2>3. /\ FailedCase(c) \in CaseReports
        /\ ValidCase(c, FailedCase(c))
        /\ FailedCase(c).executed = executed
        /\ FailedCase(c).status = "FAIL"
        /\ FailedCase(c).reasons = Reasons
    BY <1>1, <2>1, <2>2 DEF CaseReport, CaseReports, ValidCase
  <2> QED
    BY <1>3, <2>3 DEF executed
<1> QED
  BY <1>2, <1>3

\* The failed report shows the failure and keeps the observations.
LEMMA FailedReportFacts ==
    ASSUME EvaluationInvariant, step = "failed"
    PROVE  /\ \E c \in Cases : FailedReport[c].status = "FAIL"
           /\ Prerequisite => \E c \in Cases : "prerequisite_unavailable" \in FailedReport[c].reasons
           /\ \A c \in Cases :
                 /\ ValidCase(c, FailedReport[c])
                 /\ FailedReport[c].executed = (recorded[c] # Null /\ recorded[c].executed)
                 /\ Complete(c) /\ recorded[c].status = "FAIL" /\ error # "input" =>
                       FailedReport[c] = recorded[c]
<1> DEFINE cases == [c \in Cases |-> FailedCase(c)]
<1>1. \A c \in Cases : cases[c] = FailedCase(c)
  OBVIOUS
<1>2. Prerequisite => "prerequisite_unavailable" \in Reasons
  BY DEF Reasons
<1>3. \A c \in Cases : Complete(c) /\ error # "input" => Kept(c)
  BY DEF Kept, Reason, InputReasons
<1>4. Prerequisite => \E c \in Cases : ~ Kept(c)
  <2>1. CASE error = "input"
    BY <2>1, CurrentIsCase DEF Kept, Reason, EvaluationInvariant, EvaluationTypes,
       FailureInvariant
  <2>2. CASE error = "prerequisite"
    BY <2>2 DEF Kept, EvaluationInvariant, EvaluationTypes, FailureInvariant
  <2>3. CASE error \notin {"input", "prerequisite"}
    BY <2>3, CurrentIsCase DEF Prerequisite, Kept, Complete
  <2> QED
    BY <2>1, <2>2, <2>3
<1>5. CASE \E c \in Cases : cases[c].status = "FAIL"
  <2>1. FailedReport = cases
    BY <1>5 DEF FailedReport
  <2> QED
    BY <1>1, <1>2, <1>3, <1>4, <1>5, <2>1, FailedCaseFacts
<1>6. CASE ~ \E c \in Cases : cases[c].status = "FAIL"
  <2> DEFINE last == cases[NumCases]
             told == [last EXCEPT !.status = "FAIL", !.reasons = Reasons]
  <2>1. \A c \in Cases : Kept(c) /\ FailedCase(c) = recorded[c]
    BY <1>1, <1>6, FailedCaseFacts
  <2>2. last \in CaseReports /\ last.executed
    BY <1>1, <2>1, CurrentIsCase, FailedCaseFacts, InProgressFacts
       DEF Kept, Complete, Recordable, Finished, EvaluationInvariant, CasesInOrder
  <2>3. ValidCase(NumCases, told) /\ told.status = "FAIL" /\ told.reasons = Reasons
        /\ told.executed = last.executed
    BY <2>2 DEF CaseReports, ValidCase, Reasons, Reason, EvaluationInvariant, EvaluationTypes,
       FailureInvariant, InputReasons, QualityReasons
  <2>4. FailedReport = [cases EXCEPT ![NumCases] = told]
    BY <1>6, <1>1, CurrentIsCase DEF FailedReport
  <2>5. FailedReport[NumCases] = told
        /\ \A c \in Cases \ {NumCases} : FailedReport[c] = FailedCase(c)
    BY <2>4, CurrentIsCase
  <2>6. \A c \in Cases : Complete(c) => recorded[c].status # "FAIL"
    BY <1>1, <1>6, <2>1
  <2> HIDE DEF told, last, cases
  <2> QED
    BY <1>1, <1>2, <2>1, <2>2, <2>3, <2>5, <2>6, CurrentIsCase, FailedCaseFacts DEF last
<1> QED
  BY <1>5, <1>6

-----------------------------------------------------------------------------
(* Every step keeps the invariant.                                         *)

\* Records that stay are as good after a step as before it.
LEMMA RecordsStay ==
    ASSUME EvaluationInvariant, UNCHANGED <<current, recorded>>
    PROVE  /\ CasesInOrder'
           /\ \A c \in Cases : Finished(c, recorded'[c]) <=> Finished(c, recorded[c])
           /\ Complete(current)' <=> Complete(current)
<1>1. recorded' = recorded /\ current' = current
  OBVIOUS
<1>2. CasesInOrder'
  BY <1>1 DEF EvaluationInvariant, CasesInOrder, Recordable, Finished, ValidCase, InProgress,
     CaseReport
<1> QED
  BY <1>1, <1>2 DEF Complete

\* An exception, of which the invariant wants to know two things.
LEMMA Raising ==
    ASSUME EvaluationInvariant, step # "done", NEW class \in ErrorClasses, Raise(class),
           class = "input" => inputs # "intact",
           class = "prerequisite" => ~ Complete(current)
    PROVE  EvaluationInvariant'
<1>1. EvaluationTypes'
  BY DEF EvaluationInvariant, EvaluationTypes, Raise
<1>2. CasesInOrder' /\ (Complete(current)' <=> Complete(current))
  BY RecordsStay DEF Raise
<1>3. StepsInOrder'
  BY DEF Raise, Goto, StepsInOrder
<1>4. FailureInvariant'
  BY <1>2, NullAssumption DEF EvaluationInvariant, FailureInvariant, Raise, Goto
<1> QED
  BY <1>1, <1>2, <1>3, <1>4 DEF EvaluationInvariant

\* A step that goes on, and leaves the records alone.
LEMMA GoingOn ==
    ASSUME EvaluationInvariant, UNCHANGED <<current, recorded, error, report, exit>>,
           step \notin {"failed", "done"}, step' \notin {"failed", "done"},
           step' \in {"arguments", "admissions", "probes"} => step' = step,
           inputs' \in {"intact"} \cup InputReasons, step' = "report" => inputs' = "intact",
           verdict' \in Verdicts \cup {Null}, StepsInOrder'
    PROVE  EvaluationInvariant'
<1>1. EvaluationTypes'
  BY DEF EvaluationInvariant, EvaluationTypes
<1>2. CasesInOrder' /\ (Complete(current)' <=> Complete(current))
  BY RecordsStay
<1>3. FailureInvariant'
  BY <1>2 DEF EvaluationInvariant, FailureInvariant
<1> QED
  BY <1>1, <1>2, <1>3 DEF EvaluationInvariant

\* The steps that record nothing.
LEMMA PlainSteps ==
    ASSUME EvaluationInvariant,
           \/ CheckArguments \/ ChangeInputs \/ Load \/ CheckCaches \/ Probe
           \/ OperationFails \/ CleanUpFails \/ VerifyInputs
    PROVE  EvaluationInvariant'
<1> USE DEF EvaluationInvariant
<1>1. CASE step' = "failed" /\ step # "done" /\ \E class \in ErrorClasses : Raise(class)
  <2>1. PICK class \in ErrorClasses :
          /\ Raise(class)
          /\ class = "input" => inputs # "intact"
          /\ class = "prerequisite" => step \in {"arguments", "admissions", "probes"}
    BY <1>1 DEF CheckArguments, ChangeInputs, Load, CheckCaches, Probe, OperationFails,
       CleanUpFails, VerifyInputs, ErrorClasses, Goto
  <2> QED
    BY <1>1, <2>1, Raising DEF FailureInvariant
<1>2. CASE step' # "failed"
  <2>1. /\ UNCHANGED <<current, recorded, error, report, exit>>
        /\ step \notin {"failed", "done"} /\ step' # "done"
        /\ step' \in {"arguments", "admissions", "probes"} => step' = step
    BY <1>2 DEF CheckArguments, ChangeInputs, Load, CheckCaches, Probe, OperationFails,
       CleanUpFails, VerifyInputs, Raise, Goto
  <2>2. /\ inputs' \in {"intact"} \cup InputReasons
        /\ step' = "report" => inputs' = "intact"
        /\ verdict' \in Verdicts \cup {Null}
    BY <1>2 DEF CheckArguments, ChangeInputs, Load, CheckCaches, Probe, OperationFails,
       CleanUpFails, VerifyInputs, Raise, Goto, EvaluationTypes, Verdicts
  <2>3. StepsInOrder'
    <3>1. Probe => verdict' # Null
      BY NullAssumption DEF Probe, Verdicts
    <3> QED
      BY <1>2, <3>1, RecordsStay DEF CheckArguments, ChangeInputs, Load, CheckCaches, Probe,
         OperationFails, CleanUpFails, VerifyInputs, Raise, Goto, StepsInOrder
  <2> QED
    BY <1>2, <2>1, <2>2, <2>3, GoingOn
<1>3. \/ step' # "failed"
      \/ step' = "failed" /\ step # "done" /\ \E class \in ErrorClasses : Raise(class)
  BY DEF CheckArguments, ChangeInputs, Load, CheckCaches, Probe, OperationFails,
     CleanUpFails, VerifyInputs, ErrorClasses, Goto
<1> QED
  BY <1>1, <1>2, <1>3

\* A progress report replaces one in progress, or none.
LEMMA ProgressSteps ==
    ASSUME EvaluationInvariant, BeginCase \/ RetrievePrimary
    PROVE  EvaluationInvariant'
<1> USE DEF EvaluationInvariant
<1>1. CASE step = "case" /\ Raise("value")
  BY <1>1, Raising DEF ErrorClasses
<1>2. ASSUME NEW e \in BOOLEAN,
             Record(InProgress(e)), UNCHANGED <<current, inputs, verdict, error, report, exit>>,
             step \in {"case", "admissions"}, step' \in {"admissions", "probes"}
      PROVE  EvaluationInvariant'
  <2>1. /\ recorded'[current] = InProgress(e)
        /\ \A c \in Cases \ {current} : recorded'[c] = recorded[c]
    BY <1>2 DEF EvaluationTypes, Record
  <2>2. EvaluationTypes'
    BY <1>2, InProgressFacts DEF EvaluationTypes, Record
  <2>3. CasesInOrder'
    <3>1. \A c \in Cases : Recordable(c, recorded'[c])
      BY <2>1 DEF CasesInOrder, Recordable
    <3>2. \A c \in Cases : c < current => Finished(c, recorded'[c])
      BY <2>1 DEF CasesInOrder, Cases, EvaluationTypes
    <3> QED
      BY <1>2, <3>1, <3>2 DEF CasesInOrder
  <2>4. StepsInOrder'
    BY <1>2 DEF StepsInOrder
  <2>5. ~ Complete(current)'
    BY <1>2, <2>1, InProgressFacts DEF Complete
  <2>6. FailureInvariant'
    BY <1>2, <2>5 DEF FailureInvariant
  <2> QED
    BY <2>2, <2>3, <2>4, <2>6
<1> QED
  BY <1>1, <1>2 DEF BeginCase, RetrievePrimary, Goto

\* A case is finished, and the next one begins or the inputs are read again.
LEMMA CompletingACase ==
    ASSUME EvaluationInvariant, CompleteCase
    PROVE  EvaluationInvariant'
<1> USE DEF EvaluationInvariant
<1>1. CASE ~ ValidCase(current, Classify(verdict))
  BY <1>1, Raising DEF CompleteCase, ErrorClasses
<1>2. CASE ValidCase(current, Classify(verdict))
  <2> DEFINE r == Classify(verdict)
  <2>1. r \in CaseReports /\ Finished(current, r)
    BY <1>2, ClassifiedIsFinished DEF CompleteCase, EvaluationTypes, StepsInOrder
  <2>2. /\ recorded' = [recorded EXCEPT ![current] = r]
        /\ step = "complete" /\ verdict' = Null
        /\ UNCHANGED <<inputs, error, report, exit>>
        /\ \/ current = NumCases /\ step' = "verify" /\ current' = current
           \/ current # NumCases /\ step' = "case" /\ current' = current + 1
    BY <1>2 DEF CompleteCase, Record, Goto
  <2> HIDE DEF r
  <2>3. /\ recorded'[current] = r
        /\ \A c \in Cases \ {current} : recorded'[c] = recorded[c]
    BY <2>2 DEF EvaluationTypes
  <2>4. EvaluationTypes'
    BY <2>1, <2>2, CurrentIsCase DEF EvaluationTypes, Cases
  <2>5. \A c \in Cases : c <= current => Finished(c, recorded'[c])
    BY <2>1, <2>3 DEF CasesInOrder, EvaluationTypes, Cases
  <2>6. CasesInOrder'
    <3>1. \A c \in Cases : Recordable(c, recorded'[c])
      BY <2>1, <2>3 DEF CasesInOrder, Recordable
    <3>2. \A c \in Cases : c < current' => Finished(c, recorded'[c])
      BY <2>2, <2>5 DEF EvaluationTypes, Cases
    <3> QED
      BY <3>1, <3>2 DEF CasesInOrder
  <2>7. StepsInOrder'
    BY <2>2, <2>5, CurrentIsCase DEF StepsInOrder, Cases
  <2>8. FailureInvariant'
    BY <2>2 DEF FailureInvariant
  <2> QED
    BY <2>4, <2>6, <2>7, <2>8
<1> QED
  BY <1>1, <1>2

\* A run without a failure is reported as it was recorded.
LEMMA ReportingARun ==
    ASSUME EvaluationInvariant, Report
    PROVE  EvaluationInvariant'
<1> USE DEF EvaluationInvariant
<1>1. /\ report' = recorded /\ step' = "done" /\ step = "report"
      /\ exit' = IF \E c \in Cases : recorded[c].status = "FAIL" THEN 1 ELSE 0
      /\ UNCHANGED <<current, inputs, recorded, verdict, error>>
  BY DEF Report, Printed, Goto
<1>2. \A c \in Cases : Finished(c, recorded[c]) /\ recorded[c] # Null
  BY <1>1, NullAssumption DEF StepsInOrder, Finished
<1>3. EvaluationTypes' /\ CasesInOrder' /\ StepsInOrder'
  BY <1>1, RecordsStay DEF EvaluationTypes, StepsInOrder
<1>4. SuccessIsVerified'
  BY <1>1, <1>2 DEF SuccessIsVerified, FailureInvariant, Complete, Finished, ValidCase
<1>5. FailureIsTold'
  BY <1>1 DEF FailureIsTold
<1>6. ObservationsAreKept'
  BY <1>1, <1>2 DEF ObservationsAreKept, Finished, ValidCase
<1> QED
  BY <1>1, <1>3, <1>4, <1>5, <1>6 DEF FailureInvariant

LEMMA ReportingAFailure ==
    ASSUME EvaluationInvariant, ReportFailure
    PROVE  EvaluationInvariant'
<1> USE DEF EvaluationInvariant
<1>1. /\ report' = FailedReport /\ step' = "done" /\ step = "failed"
      /\ exit' = IF Prerequisite THEN 2 ELSE 1
      /\ UNCHANGED <<current, inputs, recorded, verdict, error>>
  BY DEF ReportFailure, Printed, Goto
<1>2. EvaluationTypes' /\ CasesInOrder' /\ StepsInOrder'
  BY <1>1, RecordsStay DEF EvaluationTypes, StepsInOrder
<1>3. SuccessIsVerified'
  BY <1>1 DEF SuccessIsVerified
<1>4. FailureIsTold'
  BY <1>1, FailedReportFacts DEF FailureIsTold
<1>5. ObservationsAreKept'
  BY <1>1, FailedReportFacts DEF ObservationsAreKept, Complete, ValidCase
<1> QED
  BY <1>1, <1>2, <1>3, <1>4, <1>5 DEF FailureInvariant

\* What a run of the command has recorded and printed is consistent at every
\* step.
THEOREM EvaluationInvariantHolds == Spec => []EvaluationInvariant
<1>1. Init => EvaluationInvariant
  BY NullAssumption, CurrentIsCase DEF Init, EvaluationInvariant, EvaluationTypes, CasesInOrder,
     StepsInOrder, FailureInvariant, Recordable, Complete, Cases
<1>2. EvaluationInvariant /\ [Next]_vars => EvaluationInvariant'
  <2> SUFFICES ASSUME EvaluationInvariant, [Next]_vars PROVE EvaluationInvariant'
    OBVIOUS
  <2>1. CASE UNCHANGED vars
    <3>1. CasesInOrder' /\ \A c \in Cases : Finished(c, recorded'[c]) <=> Finished(c, recorded[c])
      BY <2>1, RecordsStay DEF vars
    <3>2. EvaluationTypes' /\ StepsInOrder'
      BY <2>1, <3>1 DEF vars, EvaluationInvariant, EvaluationTypes, StepsInOrder
    <3>3. FailureInvariant'
      BY <2>1 DEF vars, EvaluationInvariant, FailureInvariant, Complete, SuccessIsVerified,
         FailureIsTold, ObservationsAreKept, ValidCase
    <3> QED
      BY <3>1, <3>2, <3>3 DEF EvaluationInvariant
  <2> QED
    BY <2>1, PlainSteps, ProgressSteps, CompletingACase, ReportingARun, ReportingAFailure DEF Next
<1> QED
  BY <1>1, <1>2, PTL DEF Spec

\* Exit code 0 is reached only with every case finished and verified, on
\* inputs that were intact to the end.
THEOREM SuccessIsAlwaysVerified == Spec => []SuccessIsVerified
<1>1. EvaluationInvariant => SuccessIsVerified
  BY NullAssumption DEF EvaluationInvariant, FailureInvariant, SuccessIsVerified
<1> QED
  BY <1>1, EvaluationInvariantHolds, PTL

\* A failure at any step shows in the report and in the exit code.
THEOREM FailureIsAlwaysTold == Spec => []FailureIsTold
<1>1. EvaluationInvariant => FailureIsTold
  BY DEF EvaluationInvariant, FailureInvariant, FailureIsTold
<1> QED
  BY <1>1, EvaluationInvariantHolds, PTL

\* The report of a failure keeps what was observed and invents nothing.
THEOREM ObservationsAreAlwaysKept == Spec => []ObservationsAreKept
<1>1. EvaluationInvariant => ObservationsAreKept
  BY DEF EvaluationInvariant, FailureInvariant, ObservationsAreKept
<1> QED
  BY <1>1, EvaluationInvariantHolds, PTL

=============================================================================
