--------------------------- MODULE MCOperationEvents ---------------------------
(***************************************************************************)
(* Two callers under one key: a plain and a targeted request, and of each  *)
(* kind one that the policy rejects.                                       *)
(***************************************************************************)
EXTENDS OperationEvents, TLC

CONSTANTS c1, c2, plain, secret, targeted, targetedSecret

Symmetry == Permutations(Callers)

=============================================================================
