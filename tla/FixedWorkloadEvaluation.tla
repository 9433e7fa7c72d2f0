------------------------ MODULE FixedWorkloadEvaluation ------------------------
(***************************************************************************)
(* The command evaluate-fixed-workload: the cases of the fixed workload    *)
(* one after the other, what is recorded of each while it runs, the report *)
(* made of it when something fails, and the exit code                      *)
(* (entrypoints/evaluation.py, entrypoints/cli.py).                        *)
(*                                                                         *)
(* A case passes or fails its checks as it may: that the service makes     *)
(* them pass is what the other modules are about.                          *)
(***************************************************************************)
EXTENDS Naturals

CONSTANTS
    NumCases,
    Strict,      \* cases of which an unexpected empty outcome is no result
    Null

ASSUME CaseAssumption == NumCases \in Nat \ {0} /\ Strict \subseteq 1..NumCases

VARIABLES
    step,
    current,    \* the case that runs
    inputs,     \* the files of the workload: "intact", or the reason to refuse them
    recorded,   \* the last progress report of each case, or Null
    verdict,    \* the checks of the current case: [failed, quality], or Null
    error,      \* the exception, or Null
    report,     \* the case reports that are printed, or Null
    exit        \* the exit code, or Null

vars == <<step, current, inputs, recorded, verdict, error, report, exit>>

Cases == 1..NumCases

InputReasons == {"fixture_mismatch", "baseline_mismatch"}
QualityReasons ==
    {"expected_memory_not_selected", "extra_memory_selected", "unexpected_empty_outcome"}
ReasonCode ==
    InputReasons \cup QualityReasons \cup
    {"expected_behavior_confirmed", "safety_violation", "prerequisite_unavailable",
     "required_state_failure", "unexpected_operation_failure", "non_reproducible_result"}

Init ==
    /\ step = "arguments"
    /\ current = 1
    /\ inputs \in {"intact"} \cup InputReasons
    /\ recorded = [c \in Cases |-> Null]
    /\ verdict = Null
    /\ error = Null
    /\ report = Null
    /\ exit = Null

-----------------------------------------------------------------------------
(* Reports of a case.                                                      *)

CaseReport(status, reasons, executed, verified) ==
    [status |-> status, reasons |-> reasons, executed |-> executed, verified |-> verified]

CaseReports ==
    [status : {"PASS", "PARTIAL", "FAIL"}, reasons : SUBSET ReasonCode,
     executed : BOOLEAN, verified : BOOLEAN]

\* What CaseReport.__post_init__ accepts.
ValidCase(c, r) ==
    /\ r.reasons # {}
    /\ r.status = "PASS" => r.reasons = {"expected_behavior_confirmed"}
    /\ r.status = "PARTIAL" => r.reasons \subseteq QualityReasons
    /\ r.status = "FAIL" =>
          r.reasons \cap (QualityReasons \cup {"expected_behavior_confirmed"}) = {}
    /\ ~ r.executed => r.status = "FAIL" /\ ~ r.verified
    /\ r.status # "FAIL" => r.verified
    /\ r.status = "PARTIAL" /\ c \in Strict => "unexpected_empty_outcome" \notin r.reasons

\* _incomplete_evidence: a case in progress has this reason and no other.
InProgress(executed) == CaseReport("FAIL", {"prerequisite_unavailable"}, executed, FALSE)

\* The classes of checks that may fail, and the reasons of each.
CheckClasses == {"repeatable", "restart", "state", "safety"}
ClassReason(class) ==
    IF class = "repeatable" THEN "non_reproducible_result"
    ELSE IF class = "safety" THEN "safety_violation" ELSE "required_state_failure"

Verdicts == [failed : SUBSET CheckClasses, quality : SUBSET QualityReasons]

Completed(v, status, reasons) ==
    CaseReport(status, reasons, TRUE, v.failed \cap {"repeatable", "restart"} = {})

\* _classify_completed.
Classify(v) ==
    IF v.failed # {} THEN Completed(v, "FAIL", {ClassReason(k) : k \in v.failed})
    ELSE IF v.quality # {} THEN Completed(v, "PARTIAL", v.quality)
         ELSE Completed(v, "PASS", {"expected_behavior_confirmed"})

ErrorClasses == {"input", "prerequisite", "value", "authorization", "other"}

\* Nothing recorded, judged, raised or printed is Null.
ASSUME NullAssumption ==
    Null \notin CaseReports \cup Verdicts \cup ErrorClasses \cup {0, 1, 2}

-----------------------------------------------------------------------------
(* The run of the cases.                                                   *)

Goto(s) == step' = s

\* An exception: "input" (EvaluationInputError), "prerequisite" (configuration,
\* unavailable service, missing file), "value" (ValueError, OSError),
\* "authorization" or "other".
Raise(class) ==
    /\ error' = class
    /\ Goto("failed")
    /\ UNCHANGED <<current, inputs, recorded, verdict, report, exit>>

Record(r) == recorded' = [recorded EXCEPT ![current] = r]

CheckArguments ==
    /\ step = "arguments"
    /\ \/ Goto("load") /\ UNCHANGED <<current, inputs, recorded, verdict, error, report, exit>>
       \/ Raise("prerequisite")

\* The files are changed behind the evaluation while it runs.
ChangeInputs ==
    /\ inputs = "intact" /\ step \notin {"arguments", "report", "failed", "done"}
    /\ inputs' \in InputReasons
    /\ UNCHANGED <<step, current, recorded, verdict, error, report, exit>>

Load ==
    /\ step = "load"
    /\ IF inputs = "intact"
       THEN Goto("caches") /\ UNCHANGED <<current, inputs, recorded, verdict, error, report, exit>>
       ELSE Raise("input")

CheckCaches ==
    /\ step = "caches"
    /\ \/ Goto("case") /\ UNCHANGED <<current, inputs, recorded, verdict, error, report, exit>>
       \/ Raise("value")

BeginCase ==
    /\ step = "case"
    /\ \/ /\ Record(InProgress(FALSE))
          /\ Goto("admissions")
          /\ UNCHANGED <<current, inputs, verdict, error, report, exit>>
       \/ Raise("value")

\* The service is composed, the candidates admitted, the service restarted and
\* the query asked, each with a progress report of its own.
RetrievePrimary ==
    /\ step = "admissions"
    /\ Record(InProgress(TRUE))
    /\ Goto("probes")
    /\ UNCHANGED <<current, inputs, verdict, error, report, exit>>

\* The checks of the primary, repeated and supplemental retrievals.  A memory
\* that a strict case selects fails its relevance_boundary.
Probe ==
    /\ step = "probes"
    /\ \E failed \in SUBSET CheckClasses, quality \in SUBSET QualityReasons :
         /\ current \in Strict /\ "extra_memory_selected" \in quality => "safety" \in failed
         /\ verdict' = [failed |-> failed, quality |-> quality]
    /\ Goto("complete")
    /\ UNCHANGED <<current, inputs, recorded, error, report, exit>>

OperationFails ==
    /\ step \in {"admissions", "probes"}
    /\ \E class \in {"prerequisite", "value", "authorization", "other"} : Raise(class)

CompleteCase ==
    /\ step = "complete"
    /\ IF ValidCase(current, Classify(verdict))
       THEN /\ Record(Classify(verdict))
            /\ verdict' = Null
            /\ IF current = NumCases THEN Goto("verify") /\ UNCHANGED current
               ELSE Goto("case") /\ current' = current + 1
            /\ UNCHANGED <<inputs, error, report, exit>>
       ELSE Raise("value")

\* Mutant: the files are not read again after the last case.
VerifyInputsOnce ==
    /\ step = "verify"
    /\ Goto("report")
    /\ UNCHANGED <<current, inputs, recorded, verdict, error, report, exit>>

\* The second load proves that the files did not change.
VerifyInputs ==
    /\ step = "verify"
    /\ IF inputs = "intact"
       THEN Goto("report") /\ UNCHANGED <<current, inputs, recorded, verdict, error, report, exit>>
       ELSE Raise("input")

Printed(cases, code) ==
    /\ report' = cases
    /\ exit' = code
    /\ Goto("done")
    /\ UNCHANGED <<current, inputs, recorded, verdict, error>>

Report ==
    /\ step = "report"
    /\ Printed(recorded, IF \E c \in Cases : recorded[c].status = "FAIL" THEN 1 ELSE 0)

\* The temporary stores cannot be removed, after the last case or after a
\* failure of a case, whose exception is then lost.
CleanUpFails ==
    /\ \/ step = "report"
       \/ step = "failed" /\ error # "value" /\ (error = "input" \/ recorded[1] # Null)
    /\ Raise("value")

-----------------------------------------------------------------------------
(* The report of a failure.                                                *)

Prerequisite ==
    \/ error \in {"input", "prerequisite"}
    \/ error = "value" /\ \A c \in Cases : recorded[c] = Null

Reason ==
    IF error = "input" THEN inputs
    ELSE IF Prerequisite THEN "prerequisite_unavailable"
    ELSE IF error = "authorization" THEN "safety_violation" ELSE "unexpected_operation_failure"

Reasons == {Reason} \cup (IF Prerequisite THEN {"prerequisite_unavailable"} ELSE {})

Complete(c) == recorded[c] # Null /\ recorded[c].reasons # {"prerequisite_unavailable"}

\* Mutant: only cases without a failure are kept.
KeptIfPassed(c) == Complete(c) /\ recorded[c].status # "FAIL" /\ Reason \notin InputReasons

Kept(c) == Complete(c) /\ Reason \notin InputReasons

FailedCase(c) ==
    IF Kept(c) THEN recorded[c]
    ELSE CaseReport("FAIL", Reasons, recorded[c] # Null /\ recorded[c].executed, FALSE)

\* Mutant: what was recorded is the report, whatever failed after it.
FailedReportAsRecorded == [c \in Cases |-> FailedCase(c)]

\* failed_evaluation_report: a failure after the last case is told by that case.
FailedReport ==
    LET cases == [c \in Cases |-> FailedCase(c)]
    IN IF \E c \in Cases : cases[c].status = "FAIL" THEN cases
       ELSE [cases EXCEPT ![NumCases].status = "FAIL", ![NumCases].reasons = Reasons]

ReportFailure ==
    /\ step = "failed"
    /\ Printed(FailedReport, IF Prerequisite THEN 2 ELSE 1)

Next ==
    \/ CheckArguments \/ ChangeInputs \/ Load \/ CheckCaches \/ BeginCase
    \/ RetrievePrimary \/ Probe \/ OperationFails \/ CompleteCase \/ VerifyInputs
    \/ Report \/ CleanUpFails \/ ReportFailure

Spec == Init /\ [][Next]_vars

-----------------------------------------------------------------------------

\* Exit code 0 is reached only with every case run to its end on inputs that
\* were intact throughout, with every check of safety, state and
\* repeatability passed.
SuccessIsVerified ==
    exit = 0 =>
        /\ inputs = "intact" /\ error = Null
        /\ \A c \in Cases : Complete(c) /\ report[c].status # "FAIL" /\ report[c].verified

\* A failure, even one after the last case, shows in the report: some case is
\* FAIL, and where the exit code says that a prerequisite was missing, some
\* case says so too.
FailureIsTold ==
    exit \notin {0, Null} =>
        /\ \E c \in Cases : report[c].status = "FAIL"
        /\ exit = 2 => \E c \in Cases : "prerequisite_unavailable" \in report[c].reasons

\* A failure report keeps what was observed and invents nothing: a case is
\* reported as executed if its query was answered, a case that failed its
\* checks keeps its own reasons unless the inputs were wrong, and every case
\* is one CaseReport accepts.
ObservationsAreKept ==
    report # Null => \A c \in Cases :
        /\ ValidCase(c, report[c])
        /\ report[c].executed = (recorded[c] # Null /\ recorded[c].executed)
        /\ Complete(c) /\ recorded[c].status = "FAIL" /\ error # "input" =>
              report[c] = recorded[c]

=============================================================================
