-------------------------- MODULE FaissVectorIndex --------------------------
(***************************************************************************)
(* The copy-on-write FAISS adapter (infrastructure/faiss_index.py): two    *)
(* final files that are replaced one after the other, temporaries beside   *)
(* them, and one loaded index per adapter instance.                        *)
(*                                                                         *)
(* The content of an index file is the sequence of its ids: a vector is a  *)
(* function of its id (the embedding stored with the memory), and the same *)
(* ids in another order are other bytes.  A metadata file is the checksum  *)
(* of one content, so it is that content.  A pair of final files verifies  *)
(* when the two agree.                                                     *)
(*                                                                         *)
(* Calls that change the files come under the caller's process write lock, *)
(* one at a time; the constructor of another instance does not.            *)
(***************************************************************************)
EXTENDS Naturals, Sequences, FiniteSets, SequencesExt

CONSTANTS
    Ids,        \* vector ids
    Instances,  \* FaissVectorIndex objects of one process
    Recovery,   \* the recovery adapter
    Closed,     \* an instance that was not constructed
    Missing,    \* a final file that does not exist
    Corrupt,    \* a final file nothing can be read from
    Absent, Torn, Idle,  \* as in VectorIndex
    MaxFaults   \* bound on crashes, failed steps and damaged files

ASSUME IdsAssumption == Ids \subseteq Nat \ {0} /\ IsFiniteSet(Ids)
ASSUME BoundAssumption == MaxFaults \in Nat

VARIABLES
    finalIndex,  \* memory.faiss
    finalMeta,   \* memory.faiss.meta.json
    loaded,      \* _index of each instance
    cleaning,    \* constructors between verification and temporary clean-up
    working,     \* the call under the lock: who, what it publishes, how far
    faults,      \* faults so far
    standing     \* what the acknowledged calls say of each id, and by whom

filesVars == <<finalIndex, finalMeta>>
faissVars == <<finalIndex, finalMeta, loaded, cleaning, working, faults, standing>>

\* A call goes through these steps.
Steps == {"candidate", "written", "half replaced", "replaced"}
Temporaries == {"index", "metadata"}

Calls ==
    [by : Instances \cup {Recovery}, content : Seq(Ids), step : Steps,
     temporaries : SUBSET Temporaries]

\* What is no content, no generation, no call and no instance.
ASSUME MarksAssumption ==
    /\ Missing \notin Seq(Ids) /\ Corrupt \notin Seq(Ids) /\ Closed \notin Seq(Ids)
    /\ \A ids \in SUBSET Ids : ids \notin {Absent, Torn, Closed}
    /\ Absent # Torn /\ Missing # Corrupt
    /\ Idle \notin Calls
    /\ Idle \notin [by : Instances \cup {Recovery}, goal : SUBSET Ids, replaced : 0..2]
    /\ Instances \cap {"recovered", "absent", "unknown"} = {}

\* _validate_index: an index never holds an id twice.
IsContent(c) == c \in Seq(Ids) /\ IsInjective(c)

FaissTypeOK ==
    /\ \A file \in {finalIndex, finalMeta} : file \in {Missing, Corrupt} \/ IsContent(file)
    /\ DOMAIN loaded = Instances
    /\ \A i \in Instances : loaded[i] = Closed \/ IsContent(loaded[i])
    /\ cleaning \subseteq Instances
    /\ working # Idle => working \in Calls /\ IsContent(working.content)
    /\ faults \in 0..MaxFaults
    /\ standing \in [Ids -> Instances \cup {"recovered", "absent", "unknown"}]

Init ==
    /\ finalIndex = Missing
    /\ finalMeta = Missing
    /\ loaded = [i \in Instances |-> Closed]
    /\ cleaning = {}
    /\ working = Idle
    /\ faults = 0
    /\ standing = [v \in Ids |-> "unknown"]

-----------------------------------------------------------------------------
(* Reading the pair.                                                       *)

NoPair == finalIndex = Missing /\ finalMeta = Missing

\* _verify_pair of the final files.
Verifies == finalIndex = finalMeta /\ finalIndex \notin {Missing, Corrupt}

\* Clone and remove one id, which has at most one position.
Without(content, v) ==
    IF v \in ToSet(content)
    THEN RemoveAt(content, CHOOSE k \in DOMAIN content : content[k] = v) ELSE content
\* Mutant: the id is added without removing its older vector.
WithTwice(content, v) == Append(content, v)

\* Clone and replace one id: its vector goes last.
WithLast(content, v) == Append(Without(content, v), v)

\* recovery_inventory lists the vectors to rebuild in the order of their ids.
InOrder(ids) ==
    [k \in 1..Cardinality(ids) |->
        CHOOSE v \in ids : Cardinality({w \in ids : w < v}) = k - 1]

Serving(i) == loaded[i] # Closed /\ i \notin cleaning

-----------------------------------------------------------------------------
(* The first part of a call: read the current generation, build another.   *)

\* What was said of an id is withdrawn while a call is about to change it.
Acknowledged(v) == standing[v] \in Instances \cup {"recovered"}

Begin(who, content, asked) ==
    /\ working = Idle
    /\ working' = [by |-> who, content |-> content, step |-> "candidate", temporaries |-> {}]
    /\ standing' = [v \in Ids |->
          IF v \in asked /\ (v \in ToSet(content)) # Acknowledged(v)
          THEN "unknown" ELSE standing[v]]
    /\ UNCHANGED <<filesVars, loaded, cleaning, faults>>

\* Mutant: the instance clones its own memory, which may be stale.
BeginAddFromMemory(i, v) ==
    /\ Serving(i)
    /\ Verifies \/ NoPair
    /\ Begin(i, WithLast(loaded[i], v), {v})

\* add, _load_current_generation: memory is the source when there is no pair.
BeginAdd(i, v) ==
    /\ Serving(i)
    /\ \/ Verifies /\ Begin(i, WithLast(finalIndex, v), {v})
       \/ NoPair /\ Begin(i, WithLast(loaded[i], v), {v})

\* remove, require_durable: the pair is the only source.
BeginRemove(i, v) ==
    /\ Serving(i)
    /\ Verifies
    /\ v \in ToSet(finalIndex)
    /\ Begin(i, Without(finalIndex, v), {v})

RemoveAbsent(i, v) ==
    /\ Serving(i)
    /\ working = Idle
    /\ Verifies
    /\ v \notin ToSet(finalIndex)
    /\ loaded' = [loaded EXCEPT ![i] = finalIndex]
    /\ standing' = [standing EXCEPT ![v] = "absent"]
    /\ UNCHANGED <<filesVars, cleaning, working, faults>>

\* Mutant: recovery refuses a pair that does not verify.
BeginReconcileVerified(ids) ==
    /\ Verifies \/ NoPair
    /\ Verifies => ToSet(finalIndex) # ids
    /\ Begin(Recovery, InOrder(ids), Ids)

\* reconcile_from_inventory: reuse an exact generation, publish one otherwise.
BeginReconcile(ids) ==
    /\ Verifies => ToSet(finalIndex) # ids
    /\ Begin(Recovery, InOrder(ids), Ids)

-----------------------------------------------------------------------------
(* _persist_generation and _persist_recovery_generation.                   *)

\* Both temporaries are written, synced and verified as a pair.
WriteTemporaries ==
    /\ working # Idle
    /\ working.step = "candidate"
    /\ working' = [working EXCEPT !.step = "written", !.temporaries = Temporaries]
    /\ UNCHANGED <<filesVars, loaded, cleaning, faults, standing>>

\* os.replace moves a temporary, and needs it to be there still.
Move(file, from, to) ==
    /\ working # Idle
    /\ working.step = from
    /\ file \in working.temporaries
    /\ working' = [working EXCEPT !.step = to, !.temporaries = @ \ {file}]
    /\ UNCHANGED <<loaded, cleaning, faults, standing>>

ReplaceIndex ==
    /\ Move("index", "written", "half replaced")
    /\ finalIndex' = working.content
    /\ UNCHANGED finalMeta

ReplaceMetadata ==
    /\ Move("metadata", "half replaced", "replaced")
    /\ finalMeta' = working.content
    /\ UNCHANGED finalIndex

\* What the call in progress says of an id once it is acknowledged.
Said(v) ==
    IF v \notin ToSet(working.content) THEN "absent"
    ELSE IF working.by = Recovery THEN "recovered" ELSE working.by

\* Mutant: the instance keeps serving the index it had before the call.
FinishWithoutSwap ==
    /\ working # Idle
    /\ working.step = "replaced"
    /\ Verifies
    /\ standing' = [v \in Ids |-> IF standing[v] = "unknown" THEN Said(v) ELSE standing[v]]
    /\ working' = Idle
    /\ UNCHANGED <<filesVars, loaded, cleaning, faults>>

\* The final pair is verified again before the instance takes it as its own.
Finish ==
    /\ working # Idle
    /\ working.step = "replaced"
    /\ Verifies
    /\ loaded' = [i \in Instances |-> IF i = working.by THEN finalIndex ELSE loaded[i]]
    /\ standing' = [v \in Ids |-> IF standing[v] = "unknown" THEN Said(v) ELSE standing[v]]
    /\ working' = Idle
    /\ UNCHANGED <<filesVars, cleaning, faults>>

\* Any step may fail, and the call with it: IndexingError, RecoveryIndexError.
Fault == faults < MaxFaults /\ faults' = faults + 1

Fail ==
    /\ working # Idle
    /\ Fault
    /\ working' = Idle
    /\ UNCHANGED <<filesVars, loaded, cleaning, standing>>

\* A replacement whose temporary is gone fails without any fault.
FailMissingTemporary ==
    /\ working # Idle
    /\ \/ working.step = "written" /\ "index" \notin working.temporaries
       \/ working.step = "half replaced" /\ "metadata" \notin working.temporaries
    /\ working' = Idle
    /\ UNCHANGED <<filesVars, loaded, cleaning, faults, standing>>

-----------------------------------------------------------------------------
(* The constructor: outside the lock, in two steps.                        *)

\* Mutant: the constructor loads the index without checking its metadata.
OpenUnverified(i) ==
    /\ loaded[i] = Closed
    /\ finalIndex \notin {Missing, Corrupt}
    /\ finalMeta # Missing
    /\ loaded' = [loaded EXCEPT ![i] = finalIndex]
    /\ cleaning' = cleaning \cup {i}
    /\ UNCHANGED <<filesVars, working, faults, standing>>

OpenVerify(i) ==
    /\ loaded[i] = Closed
    /\ Verifies
    /\ loaded' = [loaded EXCEPT ![i] = finalIndex]
    /\ cleaning' = cleaning \cup {i}
    /\ UNCHANGED <<filesVars, working, faults, standing>>

\* _cleanup_stale_temporaries: every temporary of the directory is unlinked.
OpenCleanUp(i) ==
    /\ i \in cleaning
    /\ cleaning' = cleaning \ {i}
    /\ working' = IF working = Idle THEN Idle ELSE [working EXCEPT !.temporaries = {}]
    /\ UNCHANGED <<filesVars, loaded, faults, standing>>

-----------------------------------------------------------------------------
(* The environment.                                                        *)

Crash ==
    /\ Fault
    /\ loaded' = [i \in Instances |-> Closed]
    /\ cleaning' = {}
    /\ working' = Idle
    /\ UNCHANGED <<filesVars, standing>>

\* A file is removed or garbled between two calls.  When both are gone nothing said stands.
Damage ==
    /\ working = Idle
    /\ Fault
    /\ \/ finalIndex' \in {Missing, Corrupt} /\ UNCHANGED finalMeta
       \/ finalMeta' \in {Missing, Corrupt} /\ UNCHANGED finalIndex
    /\ standing' = IF NoPair' THEN [v \in Ids |-> "unknown"] ELSE standing
    /\ UNCHANGED <<loaded, cleaning, working>>

Next ==
    \/ \E i \in Instances :
          \/ OpenVerify(i)
          \/ OpenCleanUp(i)
          \/ \E v \in Ids : BeginAdd(i, v) \/ BeginRemove(i, v) \/ RemoveAbsent(i, v)
    \/ \E ids \in SUBSET Ids : BeginReconcile(ids)
    \/ WriteTemporaries
    \/ ReplaceIndex
    \/ ReplaceMetadata
    \/ Finish
    \/ Fail
    \/ FailMissingTemporary
    \/ Crash
    \/ Damage

\* The thread that holds the lock runs to the end of its call.
CallStep ==
    \/ WriteTemporaries
    \/ ReplaceIndex
    \/ ReplaceMetadata
    \/ Finish
    \/ FailMissingTemporary

\* A service that cannot be composed is composed again, and every composition
\* starts with a reconciliation.
Restart == \E ids \in SUBSET Ids : BeginReconcile(ids)

Spec ==
    /\ Init
    /\ [][Next]_faissVars
    /\ WF_faissVars(CallStep)
    /\ WF_faissVars(Restart)

-----------------------------------------------------------------------------

\* A generation that verifies holds every vector whose publication was
\* acknowledged and none whose removal was, whichever instance made the call
\* and whatever failed, crashed or was cleaned up since.
AcknowledgedIdsStand ==
    Verifies => \A v \in Ids :
        /\ standing[v] \in Instances \cup {"recovered"} => v \in ToSet(finalIndex)
        /\ standing[v] = "absent" => v \notin ToSet(finalIndex)

\* An instance serves every vector it acknowledged itself until another call
\* is about to remove it, however stale its memory is otherwise.
OwnAcknowledgementsServed ==
    \A i \in Instances, v \in Ids :
        Serving(i) /\ standing[v] = i => v \in ToSet(loaded[i])

\* A torn pair does not stay: the next startups replace it, although other
\* constructors may delete the temporaries they are about to move.
TornPairRepaired == ~Verifies /\ ~NoPair ~> Verifies

\* Start-up deletes stale temporaries only: no step of another instance takes
\* away a file that the call in progress has yet to move.
OnlyStaleTemporariesDeleted ==
    [][working # Idle /\ working' # Idle /\ working'.step = working.step =>
         working'.temporaries = working.temporaries]_faissVars

-----------------------------------------------------------------------------
(* The files as a generation.                                              *)

durableIds ==
    IF NoPair THEN Absent ELSE IF Verifies THEN ToSet(finalIndex) ELSE Torn

loadedIds == [i \in Instances |-> IF loaded[i] = Closed THEN Closed ELSE ToSet(loaded[i])]

replacedFiles ==
    CASE working.step = "half replaced" -> 1
      [] working.step = "replaced"      -> 2
      [] OTHER                          -> 0

publication ==
    IF working = Idle THEN Idle
    ELSE [by |-> working.by, goal |-> ToSet(working.content), replaced |-> replacedFiles]

Abstract == INSTANCE VectorIndex
    WITH durable <- durableIds, loaded <- loadedIds, working <- publication

\* Callers see whole generations only: a call publishes the ids it was asked
\* for over the generation it read, or leaves a pair nobody accepts.
ImplementsVectorIndex == Abstract!Spec

=============================================================================
