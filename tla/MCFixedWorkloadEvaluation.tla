----------------------- MODULE MCFixedWorkloadEvaluation -----------------------
(* Three of the six cases, the last of them strict as case6 is.              *)
EXTENDS FixedWorkloadEvaluation

=============================================================================
