------------------------- MODULE MCMemoryRepository -------------------------
(***************************************************************************)
(* A small instance of MemoryRepository.  a, b and c are explicit memories *)
(* of one user on one slot, long enough for a chain of replacements, and b *)
(* is valid for a while only; l is a legacy row that holds c's key, so     *)
(* that c is refused once l is stored.  u2 owns nothing: its calls probe   *)
(* the owner scope of every transaction.                                   *)
(***************************************************************************)
EXTENDS MemoryRepository, TLC

CONSTANTS a, b, c, l, u1, u2, k1, k2, k3, s1

MCOwner == [m \in MemoryIds |-> u1]
MCKey == (a :> k1) @@ (b :> k2) @@ (c :> k3) @@ (l :> k3)
MCSlot == [m \in MemoryIds |-> s1]
MCValidFrom == (a :> 1) @@ (b :> 1) @@ (c :> 2) @@ (l :> Null)
MCValidUntil == (a :> Null) @@ (b :> 2) @@ (c :> Null) @@ (l :> Null)

=============================================================================
