------------------------- MODULE MCRetrievalSelection -------------------------
(* Three memories over a score below, at and above the threshold, and a      *)
(* budget of 0 or 1.                                                         *)
EXTENDS RetrievalSelection

=============================================================================
