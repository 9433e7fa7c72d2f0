------------------------- MODULE MCFaissVectorIndex -------------------------
(***************************************************************************)
(* Two instances of one process over one directory, and two vector ids:    *)
(* the contents <<1, 2>> and <<2, 1>> are different files of equal ids.    *)
(***************************************************************************)
EXTENDS FaissVectorIndex

CONSTANTS i1, i2

=============================================================================
