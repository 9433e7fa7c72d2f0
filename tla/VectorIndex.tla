----------------------------- MODULE VectorIndex -----------------------------
(***************************************************************************)
(* What the vector index promises its callers.  The directory holds one    *)
(* generation, a set of vector ids, that is replaced as a whole; or no     *)
(* generation at all; or a torn pair of files that nobody accepts.  Every  *)
(* adapter instance of the process serves the generation it loaded last.   *)
(*                                                                         *)
(* One call at a time changes the directory (the callers hold the process  *)
(* write lock), but it is not one step: its generation can be durable, or  *)
(* the pair torn, long before the call is acknowledged or fails.           *)
(***************************************************************************)
EXTENDS Naturals, FiniteSets

CONSTANTS
    Ids,        \* vector ids
    Instances,  \* FaissVectorIndex objects of one process
    Recovery,   \* stands for the recovery adapter, which loads nothing
    Closed,     \* an instance that is not open
    Absent,     \* neither file exists
    Torn,       \* the files exist and do not verify, or only one exists
    Idle        \* no call is publishing

VARIABLES durable, loaded, working

indexVars == <<durable, loaded, working>>

Generations == SUBSET Ids
HasGeneration == durable \notin {Absent, Torn}
Publication(who, ids) == [by |-> who, goal |-> ids, replaced |-> 0]
Publications == [by : Instances \cup {Recovery}, goal : Generations, replaced : 0..2]

IndexTypeOK ==
    /\ durable \in {Absent, Torn} \/ durable \in Generations
    /\ loaded \in [Instances -> {Closed} \cup Generations]
    /\ working = Idle \/ working \in Publications

Init ==
    /\ durable = Absent
    /\ loaded = [i \in Instances |-> Closed]
    /\ working = Idle

-----------------------------------------------------------------------------

Begin(who, ids) ==
    /\ working = Idle
    /\ working' = Publication(who, ids)
    /\ UNCHANGED <<durable, loaded>>

\* Mutant: add starts from the memory of its instance, which may be stale.
BeginAddFromMemory(i, v) ==
    /\ loaded[i] # Closed
    /\ durable # Torn
    /\ Begin(i, loaded[i] \cup {v})

\* add starts from the directory, or from memory when the directory is empty.
BeginAdd(i, v) ==
    /\ loaded[i] # Closed
    /\ \/ HasGeneration /\ Begin(i, durable \cup {v})
       \/ durable = Absent /\ Begin(i, loaded[i] \cup {v})

\* remove always starts from the directory.
BeginRemove(i, v) ==
    /\ loaded[i] # Closed
    /\ HasGeneration
    /\ v \in durable
    /\ Begin(i, durable \ {v})

\* An id that is already absent is acknowledged without publishing.
RemoveAbsent(i, v) ==
    /\ loaded[i] # Closed
    /\ working = Idle
    /\ HasGeneration
    /\ v \notin durable
    /\ loaded' = [loaded EXCEPT ![i] = durable]
    /\ UNCHANGED <<durable, working>>

\* reconcile republishes nothing when the directory already holds the ids.
BeginReconcile(ids) == durable # ids /\ Begin(Recovery, ids)

\* The two files change one after the other.  Between the two the pair is
\* torn, unless the first file already was what it is replaced with.
ReplaceFile ==
    /\ working # Idle
    /\ working.replaced < 2
    /\ working' = [working EXCEPT !.replaced = @ + 1]
    /\ durable' \in IF working.replaced = 0 THEN {Torn, working.goal} ELSE {working.goal}
    /\ UNCHANGED loaded

Acknowledge ==
    /\ working # Idle
    /\ working.replaced = 2
    /\ loaded' = [i \in Instances |-> IF i = working.by THEN durable ELSE loaded[i]]
    /\ working' = Idle
    /\ UNCHANGED durable

\* A failed call leaves the directory as far as it got, and memory untouched.
Abandon ==
    /\ working # Idle
    /\ working' = Idle
    /\ UNCHANGED <<durable, loaded>>

Open(i) ==
    /\ loaded[i] = Closed
    /\ HasGeneration
    /\ loaded' = [loaded EXCEPT ![i] = durable]
    /\ UNCHANGED <<durable, working>>

\* The process dies: its memory goes, the directory stays.
Crash ==
    /\ loaded' = [i \in Instances |-> Closed]
    /\ working' = Idle
    /\ UNCHANGED durable

\* The files are damaged or removed behind the program's back, between calls.
Damage ==
    /\ working = Idle
    /\ durable' \in {Absent, Torn}
    /\ UNCHANGED <<loaded, working>>

Next ==
    \/ \E i \in Instances :
          \/ Open(i)
          \/ \E v \in Ids : BeginAdd(i, v) \/ BeginRemove(i, v) \/ RemoveAbsent(i, v)
    \/ \E ids \in Generations : BeginReconcile(ids)
    \/ ReplaceFile
    \/ Acknowledge
    \/ Abandon
    \/ Crash
    \/ Damage

Spec == Init /\ [][Next]_indexVars

=============================================================================
