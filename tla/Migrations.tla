------------------------------ MODULE Migrations ------------------------------
(***************************************************************************)
(* initialize_schema (infrastructure/sqlite/migrations.py): the schema     *)
(* migrations that every SQLiteMemoryRepository constructor applies.       *)
(*                                                                         *)
(* Constructors run outside PROCESS_WRITE_LOCK.  Whether a migration was   *)
(* applied is read before BEGIN IMMEDIATE, so several constructors of a    *)
(* process can decide to apply the same one.  SQLite lets one transaction  *)
(* write; the others wait for it and may time out.  The process can be     *)
(* stopped at any step and started again with another release.             *)
(***************************************************************************)
EXTENDS Naturals, Sequences

CONSTANTS
    Starters,    \* repository constructors of one process
    Releases,    \* each the checksums of its migrations, in order
    Scripts,     \* of each version: which of its statements is DDL
    Null,
    MaxRestarts  \* bound on restarts of the process

Versions == DOMAIN Scripts
Checksums == UNION {{r[v] : v \in DOMAIN r} : r \in Releases}

ASSUME ReleaseAssumption ==
    \A r \in Releases : r \in Seq(Checksums) /\ Len(r) \in 1..Len(Scripts)

\* Every script of the package begins with a CREATE or an ALTER TABLE.
ASSUME ScriptsAssumption ==
    /\ Scripts \in Seq(Seq({"ddl", "insert"}))
    /\ \A v \in Versions : Scripts[v] # <<>> /\ Scripts[v][1] = "ddl"

ASSUME NullAssumption == Null \notin Checksums /\ Null \notin Starters

VARIABLES
    registry,  \* schema_migrations: the checksum of each applied version
    schema,    \* the statements executed for each version, by checksum
    writer,    \* the constructor whose transaction is open, or Null
    draft,     \* schema as the open transaction sees it
    starter,   \* of each constructor: its step, version and statement
    release,   \* the release the process runs
    restarts

vars == <<registry, schema, writer, draft, starter, release, restarts>>

At(s, step) == starter[s].step = step
Place(step, v, i) == [step |-> step, version |-> v, statement |-> i]
Goto(s, step, v, i) == starter' = [starter EXCEPT ![s] = Place(step, v, i)]
Unstarted == [s \in Starters |-> Place("bootstrap", 1, 1)]

Init ==
    /\ registry = [v \in Versions |-> Null]
    /\ schema = [v \in Versions |-> <<>>]
    /\ writer = Null
    /\ draft = Null
    /\ starter = Unstarted
    /\ release \in Releases
    /\ restarts = 0

-----------------------------------------------------------------------------

ReadOnly == UNCHANGED <<registry, schema, writer, draft, release, restarts>>

\* CREATE TABLE IF NOT EXISTS schema_migrations.
Bootstrap(s) ==
    /\ At(s, "bootstrap")
    /\ Goto(s, "reject", 1, 1)
    /\ ReadOnly

\* A database a newer release migrated is refused.
RejectUnknownVersions(s) ==
    /\ At(s, "reject")
    /\ IF \A v \in Versions \ DOMAIN release : registry[v] = Null
       THEN Goto(s, "lookup", 1, 1)
       ELSE Goto(s, "failed", 1, 1)
    /\ ReadOnly

AfterVersion(s, v) ==
    IF v < Len(release) THEN Goto(s, "lookup", v + 1, 1) ELSE Goto(s, "returned", v, 1)

\* Mutant: an applied version is trusted, whatever its checksum.
LookupUncompared(s) ==
    /\ At(s, "lookup")
    /\ LET v == starter[s].version
       IN IF registry[v] = Null THEN Goto(s, "begin", v, 1) ELSE AfterVersion(s, v)
    /\ ReadOnly

\* The registered checksum is read outside the transaction that would apply it.
Lookup(s) ==
    /\ At(s, "lookup")
    /\ LET v == starter[s].version
       IN CASE registry[v] = Null       -> Goto(s, "begin", v, 1)
            [] registry[v] = release[v] -> AfterVersion(s, v)
            [] OTHER                    -> Goto(s, "failed", v, 1)
    /\ ReadOnly

\* BEGIN IMMEDIATE.
Begin(s) ==
    /\ At(s, "begin")
    /\ writer = Null
    /\ writer' = s
    /\ draft' = schema
    /\ Goto(s, "statement", starter[s].version, 1)
    /\ UNCHANGED <<registry, schema, release, restarts>>

\* The lock of another constructor's transaction outlasts the busy timeout.
Busy(s) ==
    /\ starter[s].step \in {"bootstrap", "reject", "lookup", "begin"}
    /\ writer \notin {Null, s}
    /\ Goto(s, "failed", 1, 1)
    /\ ReadOnly

\* Mutant: every CREATE says IF NOT EXISTS.
NeverRefused(v, i) == FALSE

\* A table or a column that exists already is an error.
Refused(v, i) == Scripts[v][i] = "ddl" /\ Len(draft[v]) >= i

\* Mutant: each statement commits on its own, as executescript would do.
ExecuteAndCommit(s) ==
    /\ At(s, "statement")
    /\ LET v == starter[s].version
           i == starter[s].statement
       IN /\ ~ Refused(v, i)
          /\ draft' = [draft EXCEPT ![v] = Append(@, release[v])]
          /\ schema' = draft'
          /\ IF i < Len(Scripts[v]) THEN Goto(s, "statement", v, i + 1)
             ELSE Goto(s, "register", v, 1)
    /\ UNCHANGED <<registry, writer, release, restarts>>

Execute(s) ==
    /\ At(s, "statement")
    /\ LET v == starter[s].version
           i == starter[s].statement
       IN /\ ~ Refused(v, i)
          /\ draft' = [draft EXCEPT ![v] = Append(@, release[v])]
          /\ IF i < Len(Scripts[v]) THEN Goto(s, "statement", v, i + 1)
             ELSE Goto(s, "register", v, 1)
    /\ UNCHANGED <<registry, schema, writer, release, restarts>>

\* Mutant: the failed constructor leaves its transaction open.
FailWithoutRollback(s) ==
    /\ At(s, "statement")
    /\ Refused(starter[s].version, starter[s].statement)
    /\ Goto(s, "failed", 1, 1)
    /\ ReadOnly

\* Another constructor applied the version after the lookup.
FailAndRollback(s) ==
    /\ At(s, "statement")
    /\ Refused(starter[s].version, starter[s].statement)
    /\ Goto(s, "failed", 1, 1)
    /\ writer' = Null
    /\ draft' = Null
    /\ UNCHANGED <<registry, schema, release, restarts>>

RegisterAndCommit(s) ==
    /\ At(s, "register")
    /\ LET v == starter[s].version
       IN /\ registry' = [registry EXCEPT ![v] = release[v]]
          /\ AfterVersion(s, v)
    /\ schema' = draft
    /\ writer' = Null
    /\ draft' = Null
    /\ UNCHANGED <<release, restarts>>

\* The caller of a failed constructor calls it again.
Retry(s) ==
    /\ At(s, "failed")
    /\ Goto(s, "bootstrap", 1, 1)
    /\ ReadOnly

\* The process stops, its transaction is lost, and another release may start.
Restart ==
    /\ restarts < MaxRestarts
    /\ restarts' = restarts + 1
    /\ release' \in Releases
    /\ starter' = Unstarted
    /\ writer' = Null
    /\ draft' = Null
    /\ UNCHANGED <<registry, schema>>

\* What a constructor does when it is scheduled, without a timeout.
Proceed(s) ==
    \/ Bootstrap(s)
    \/ RejectUnknownVersions(s)
    \/ Lookup(s)
    \/ Begin(s)
    \/ Execute(s)
    \/ FailAndRollback(s)
    \/ RegisterAndCommit(s)
    \/ Retry(s)

Next == Restart \/ \E s \in Starters : Proceed(s) \/ Busy(s)

\* Threads are scheduled, and a failed start-up is tried again.
Spec == Init /\ [][Next]_vars /\ \A s \in Starters : WF_vars(Proceed(s))

-----------------------------------------------------------------------------

Complete(v) == [i \in DOMAIN Scripts[v] |-> registry[v]]

\* At every instant, for every crash and every race of two constructors, the
\* registry tells what the schema holds: a registered version was executed
\* once, whole and by one release, and nothing of any other version is there.
RegistryTellsSchema ==
    \A v \in Versions : schema[v] = IF registry[v] = Null THEN <<>> ELSE Complete(v)

\* A constructor that returns leaves the caller with the migrations of its own
\* release and no others, which is what recovery_inventory compares next.
ReturnedStartUpMatches ==
    \A s \in Starters : At(s, "returned") =>
        \A v \in Versions :
            registry[v] = IF v \in DOMAIN release THEN release[v] ELSE Null

\* Versions are applied in order, and what is applied is never touched again
\* by a later or a concurrent start-up: the back-fill of 0003 runs once.
MigratedOnceInOrder ==
    [][\A v \in Versions :
         schema'[v] # schema[v] =>
             /\ registry[v] = Null
             /\ \A w \in Versions : w < v => registry[w] # Null]_vars

\* Every start-up eventually returns, although it can lose its race or time
\* out, unless the database belongs to another release.
Conflict ==
    \E v \in Versions :
        registry[v] # Null /\ (v \notin DOMAIN release \/ registry[v] # release[v])

StartUpsReturn == \A s \in Starters : <>[](At(s, "returned") \/ Conflict)

=============================================================================
