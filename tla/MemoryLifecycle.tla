--------------------------- MODULE MemoryLifecycle ---------------------------
(***************************************************************************)
(* What the store promises the owner of a memory: its life, as one phase,  *)
(* and the memory that replaced it.  Rows, vectors, failed publications    *)
(* and half-done clean-ups are details of the implementation.              *)
(*                                                                         *)
(* A forgotten memory shows nothing of its earlier phases any more, and    *)
(* the key of a memory stays taken after the memory is erased.             *)
(***************************************************************************)
EXTENDS Naturals

CONSTANTS MemoryIds, Users, Instants, Null, Owner, Key, Slot, Explicit, ValidUntil, Legacy

VARIABLES
    phase,       \* of each memory
    replacedBy   \* the memory that explicitly replaced it, or Null

lifeVars == <<phase, replacedBy>>

Phases == {"absent", "pending", "current", "superseded", "expired", "forgotten", "erased"}

\* A database of an older release holds pending and forgotten memories.
LifeInit ==
    /\ phase \in [MemoryIds -> {"absent", "pending", "forgotten"}]
    /\ \A m \in MemoryIds \ Legacy : phase[m] = "absent"
    /\ replacedBy = [m \in MemoryIds |-> Null]

\* A key of an owner is good for one memory, for ever.
Admit(m) ==
    /\ phase[m] = "absent"
    /\ \A n \in MemoryIds :
          Owner[n] = Owner[m] /\ Key[n] = Key[m] => phase[n] = "absent"
    /\ phase' = [phase EXCEPT ![m] = "pending"]
    /\ UNCHANGED replacedBy

BecomeCurrent(m) ==
    /\ phase[m] = "pending"
    /\ phase' = [phase EXCEPT ![m] = "current"]
    /\ UNCHANGED replacedBy

\* Both sides change in one step.  Neither tombstone stops it: a side that is
\* forgotten stays so.
Replace(r, t) ==
    /\ r # t
    /\ r \in Explicit
    /\ Owner[r] = Owner[t]
    /\ Slot[r] = Slot[t]
    /\ Slot[t] # Null
    /\ phase[r] \in {"pending", "forgotten"}
    /\ phase[t] \in {"current", "forgotten", "erased"}
    /\ replacedBy[r] = Null
    /\ replacedBy[t] = Null
    /\ \A n \in MemoryIds : replacedBy[n] # r
    /\ phase' = [phase EXCEPT ![r] = IF @ = "pending" THEN "current" ELSE @,
                              ![t] = IF @ = "current" THEN "superseded" ELSE @]
    /\ replacedBy' = [replacedBy EXCEPT ![t] = r]

\* All current memories of an owner that are past their validity, at once.
Expire(u, now) ==
    /\ phase' = [m \in MemoryIds |->
                   IF /\ phase[m] = "current"
                      /\ Owner[m] = u
                      /\ ValidUntil[m] # Null
                      /\ ValidUntil[m] <= now
                   THEN "expired" ELSE phase[m]]
    /\ UNCHANGED replacedBy

Forget(m) ==
    /\ phase[m] \in {"pending", "current", "superseded", "expired"}
    /\ phase' = [phase EXCEPT ![m] = "forgotten"]
    /\ UNCHANGED replacedBy

Erase(m) ==
    /\ phase[m] = "forgotten"
    /\ phase' = [phase EXCEPT ![m] = "erased"]
    /\ UNCHANGED replacedBy

LifeNext ==
    \/ \E m \in MemoryIds : Admit(m) \/ BecomeCurrent(m) \/ Forget(m) \/ Erase(m)
    \/ \E r, t \in MemoryIds : Replace(r, t)
    \/ \E u \in Users, now \in Instants : Expire(u, now)

LifeSpec == LifeInit /\ [][LifeNext]_lifeVars

=============================================================================
