--------------------------- MODULE MCMemoryService ---------------------------
(***************************************************************************)
(* At most two services and one retrieving thread.  a is a memory that     *)
(* expires at 2, and b the request that explicitly replaces it.  Where a   *)
(* is legacy, it may also have been stored, or forgotten and its mapping   *)
(* lost, before forgetting was recorded.  u2 owns nothing: its calls probe *)
(* the owner scope.  Where retrievals are checked, b is admitted with a    *)
(* valid_from that may still lie ahead of them.                            *)
(***************************************************************************)
EXTENDS MemoryService, TLC

CONSTANTS a, b, u1, u2, k1, k2, slot, s1, s2, r1

MCOwner == [m \in MemoryIds |-> u1]
MCKey == (a :> k1) @@ (b :> k2)
MCSlot == [m \in MemoryIds |-> slot]
MCValidFrom == [m \in MemoryIds |-> 1]
MCFutureValidFrom == (a :> 1) @@ (b :> 2)
MCValidUntil == (a :> 2) @@ (b :> Null)
MCTarget == (a :> Null) @@ (b :> a)

=============================================================================
