-------------------------- MODULE MigrationsProofs --------------------------
(***************************************************************************)
(* Start-ups that migrate one database, for any releases, scripts, number  *)
(* of constructors and number of restarts.                                 *)
(***************************************************************************)
EXTENDS Migrations, TLAPS

Steps == {"bootstrap", "reject", "lookup", "begin", "statement", "register",
          "returned", "failed"}

MigrationTypes ==
    /\ registry \in [Versions -> Checksums \cup {Null}]
    /\ schema \in [Versions -> Seq(Checksums)]
    /\ writer \in Starters \cup {Null}
    /\ writer # Null => draft \in [Versions -> Seq(Checksums)]
    /\ release \in Releases
    /\ starter \in [Starters -> [step : Steps, version : Nat, statement : Nat]]
    /\ \A s \in Starters : starter[s].version \in DOMAIN release

\* The executed part of a script: n statements of one release.
Executed(v, n) == Len(draft[v]) = n /\ \A j \in 1..n : draft[v][j] = release[v]

\* The open transaction belongs to the constructor that is executing a script,
\* and differs from the database in what that constructor has executed.  One
\* that lost its race sees the whole script, and has executed nothing.
TransactionInvariant ==
    \A s \in Starters :
        LET v == starter[s].version
            i == starter[s].statement
        IN /\ writer = s <=> At(s, "statement") \/ At(s, "register")
           /\ writer = s => \A w \in Versions \ {v} : draft[w] = schema[w]
           /\ At(s, "statement") =>
                 /\ i \in 1..Len(Scripts[v])
                 /\ registry[v] = Null => Executed(v, i - 1)
                 /\ registry[v] # Null => i = 1 /\ draft[v] = schema[v]
           /\ At(s, "register") =>
                 /\ registry[v] = Null
                 /\ Executed(v, Len(Scripts[v]))

\* A constructor that looks a version up has seen the ones before it applied
\* by its own release, and none beyond its release.
ProgressInvariant ==
    \A s \in Starters :
        starter[s].step \in {"lookup", "begin", "statement", "register", "returned"} =>
            /\ \A v \in Versions \ DOMAIN release : registry[v] = Null
            /\ \A v \in DOMAIN release :
                  v < starter[s].version \/ At(s, "returned") => registry[v] = release[v]

MigrationInvariant ==
    /\ MigrationTypes
    /\ TransactionInvariant
    /\ ProgressInvariant
    /\ RegistryTellsSchema

-----------------------------------------------------------------------------
(* Sequences and releases.                                                 *)

LEMMA ReleaseFacts ==
    ASSUME MigrationTypes
    PROVE  /\ release \in Seq(Checksums)
           /\ DOMAIN release = 1..Len(release)
           /\ 1 \in DOMAIN release
           /\ DOMAIN release \subseteq Versions
           /\ Len(release) \in Nat
           /\ \A v \in DOMAIN release : release[v] \in Checksums /\ release[v] # Null
           /\ Versions = 1..Len(Scripts)
           /\ \A v \in Versions : DOMAIN Scripts[v] = 1..Len(Scripts[v]) /\ Len(Scripts[v]) \in Nat \ {0}
<1>1. release \in Seq(Checksums) /\ Len(release) \in 1..Len(Scripts)
  BY ReleaseAssumption DEF MigrationTypes
<1>2. Versions = 1..Len(Scripts) /\ Len(Scripts) \in Nat
  BY ScriptsAssumption DEF Versions
<1>3. \A v \in Versions : Scripts[v] \in Seq({"ddl", "insert"}) /\ Scripts[v] # <<>>
  BY ScriptsAssumption DEF Versions
<1>4. \A v \in Versions : DOMAIN Scripts[v] = 1..Len(Scripts[v]) /\ Len(Scripts[v]) \in Nat \ {0}
  BY <1>3
<1>5. \A v \in DOMAIN release : release[v] \in Checksums /\ release[v] # Null
  BY <1>1, NullAssumption
<1> QED BY <1>1, <1>2, <1>4, <1>5

LEMMA SequenceIsFunction ==
    ASSUME NEW S, NEW q \in Seq(S)
    PROVE  q = [j \in 1..Len(q) |-> q[j]]
OBVIOUS

-----------------------------------------------------------------------------
(* The steps.                                                              *)

LEMMA InitMigration == Init => MigrationInvariant
<1> SUFFICES ASSUME Init PROVE MigrationInvariant
  OBVIOUS
<1>1. MigrationTypes
  <2>1. \A r \in Releases : 1 \in DOMAIN r
    BY ReleaseAssumption
  <2> QED BY <2>1 DEF Init, MigrationTypes, Unstarted, Place, Steps
<1>2. TransactionInvariant
  BY NullAssumption DEF Init, TransactionInvariant, Unstarted, Place, At
<1>3. ProgressInvariant
  BY DEF Init, ProgressInvariant, Unstarted, Place, At
<1>4. RegistryTellsSchema
  BY DEF Init, RegistryTellsSchema
<1> QED BY <1>1, <1>2, <1>3, <1>4 DEF MigrationInvariant

\* A step that reads, or fails before its transaction began.
LEMMA ReadOnlyInvariant ==
    ASSUME MigrationInvariant, NEW s \in Starters, ReadOnly,
           NEW step \in Steps \ {"statement", "register"},
           NEW v \in DOMAIN release, Goto(s, step, v, 1),
           ~ At(s, "statement"), ~ At(s, "register"),
           step \in {"lookup", "begin", "returned"} =>
              /\ \A w \in Versions \ DOMAIN release : registry[w] = Null
              /\ \A w \in DOMAIN release :
                    w < v \/ step = "returned" => registry[w] = release[w]
    PROVE  MigrationInvariant'
<1> USE DEF ReadOnly
<1>0. MigrationTypes /\ TransactionInvariant /\ ProgressInvariant /\ RegistryTellsSchema
  BY DEF MigrationInvariant
<1>1. /\ starter'[s] = Place(step, v, 1)
      /\ \A t \in Starters \ {s} : starter'[t] = starter[t]
      /\ DOMAIN starter' = Starters
  BY <1>0 DEF Goto, MigrationTypes
<1>2. MigrationTypes'
  <2>1. v \in Nat
    BY <1>0, ReleaseFacts
  <2> QED BY <1>0, <1>1, <2>1 DEF MigrationTypes, Goto, Place
<1>3. TransactionInvariant'
  <2> SUFFICES ASSUME NEW t \in Starters
               PROVE  TransactionInvariant!(t)'
    BY DEF TransactionInvariant
  <2>1. CASE t = s
    BY <1>0, <1>1, <2>1 DEF TransactionInvariant, At, Place
  <2>2. CASE t # s
    BY <1>0, <1>1, <2>2 DEF TransactionInvariant, At, Executed
  <2> QED BY <2>1, <2>2
<1>4. ProgressInvariant'
  <2> SUFFICES ASSUME NEW t \in Starters
               PROVE  ProgressInvariant!(t)'
    BY DEF ProgressInvariant
  <2>1. CASE t = s
    BY <1>0, <1>1, <2>1 DEF ProgressInvariant, At, Place
  <2>2. CASE t # s
    BY <1>0, <1>1, <2>2 DEF ProgressInvariant, At
  <2> QED BY <2>1, <2>2
<1>5. RegistryTellsSchema'
  BY <1>0 DEF RegistryTellsSchema, Complete
<1> QED BY <1>2, <1>3, <1>4, <1>5 DEF MigrationInvariant

LEMMA BeginInvariant ==
    ASSUME MigrationInvariant, NEW s \in Starters, Begin(s)
    PROVE  MigrationInvariant'
<1> DEFINE v == starter[s].version
<1>0. MigrationTypes /\ TransactionInvariant /\ ProgressInvariant /\ RegistryTellsSchema
  BY DEF MigrationInvariant
<1>1. /\ UNCHANGED <<registry, schema, release>>
      /\ writer = Null /\ writer' = s /\ draft' = schema
      /\ At(s, "begin")
      /\ starter'[s] = Place("statement", v, 1)
      /\ \A t \in Starters \ {s} : starter'[t] = starter[t]
      /\ s # Null
  BY <1>0, NullAssumption DEF Begin, Goto, MigrationTypes
<1>2. MigrationTypes'
  BY <1>0, <1>1 DEF MigrationTypes, Begin, Goto, Place, Steps
<1>3. v \in Versions /\ Len(Scripts[v]) \in Nat \ {0}
  BY <1>0, ReleaseFacts DEF MigrationTypes
<1>4. registry[v] = Null => Len(schema[v]) = 0
  BY <1>0, <1>3 DEF RegistryTellsSchema
<1>5. TransactionInvariant'
  <2> SUFFICES ASSUME NEW t \in Starters
               PROVE  TransactionInvariant!(t)'
    BY DEF TransactionInvariant
  <2>1. CASE t = s
    BY <1>1, <1>3, <1>4, <2>1 DEF At, Place, Executed
  <2>2. CASE t # s
    BY <1>0, <1>1, <2>2, NullAssumption DEF TransactionInvariant, At
  <2> QED BY <2>1, <2>2
<1>6. ProgressInvariant'
  <2> SUFFICES ASSUME NEW t \in Starters
               PROVE  ProgressInvariant!(t)'
    BY DEF ProgressInvariant
  <2>1. CASE t = s
    BY <1>0, <1>1, <2>1 DEF ProgressInvariant, At, Place
  <2>2. CASE t # s
    BY <1>0, <1>1, <2>2 DEF ProgressInvariant, At
  <2> QED BY <2>1, <2>2
<1>7. RegistryTellsSchema'
  BY <1>0, <1>1 DEF RegistryTellsSchema, Complete
<1> QED BY <1>2, <1>5, <1>6, <1>7 DEF MigrationInvariant

\* Only a script that the database does not hold yet is executed: the first
\* statement of any other is refused.
LEMMA ExecuteFacts ==
    ASSUME MigrationInvariant, NEW s \in Starters, Execute(s)
    PROVE  LET v == starter[s].version
               i == starter[s].statement
           IN /\ registry[v] = Null
              /\ v \in Versions /\ v \in DOMAIN release
              /\ i \in 1..Len(Scripts[v])
              /\ Len(Scripts[v]) \in Nat
              /\ release[v] \in Checksums
              /\ writer = s
              /\ draft \in [Versions -> Seq(Checksums)]
              /\ Executed(v, i - 1)
<1> DEFINE v == starter[s].version
           i == starter[s].statement
<1>0. MigrationTypes /\ TransactionInvariant /\ RegistryTellsSchema
  BY DEF MigrationInvariant
<1>1. At(s, "statement") /\ ~ Refused(v, i)
  BY DEF Execute
<1>2. /\ v \in Versions /\ v \in DOMAIN release /\ release[v] \in Checksums
      /\ DOMAIN Scripts[v] = 1..Len(Scripts[v]) /\ Len(Scripts[v]) \in Nat \ {0}
  BY <1>0, ReleaseFacts DEF MigrationTypes
<1>3. /\ writer = s
      /\ i \in 1..Len(Scripts[v])
      /\ registry[v] = Null => Executed(v, i - 1)
      /\ registry[v] # Null => i = 1 /\ draft[v] = schema[v]
  BY <1>0, <1>1 DEF TransactionInvariant
<1>4. registry[v] = Null
  <2> SUFFICES ASSUME registry[v] # Null PROVE FALSE
    OBVIOUS
  <2>1. schema[v] = Complete(v)
    BY <1>0, <1>2 DEF RegistryTellsSchema
  <2>2. schema[v] \in Seq(Checksums)
    BY <1>0, <1>2 DEF MigrationTypes
  <2>3. Len(schema[v]) = Len(Scripts[v])
    BY <1>2, <2>1, <2>2 DEF Complete
  <2>4. Scripts[v][1] = "ddl"
    BY <1>2, ScriptsAssumption
  <2> QED BY <1>1, <1>2, <1>3, <2>3, <2>4 DEF Refused
<1>5. draft \in [Versions -> Seq(Checksums)]
  BY <1>0, <1>3, NullAssumption DEF MigrationTypes
<1> QED BY <1>2, <1>3, <1>4, <1>5

LEMMA ExecuteInvariant ==
    ASSUME MigrationInvariant, NEW s \in Starters, Execute(s)
    PROVE  MigrationInvariant'
<1>. PICK v, i : v = starter[s].version /\ i = starter[s].statement
  OBVIOUS
<1>0. MigrationTypes /\ TransactionInvariant /\ ProgressInvariant /\ RegistryTellsSchema
  BY DEF MigrationInvariant
<1>1. /\ registry[v] = Null
      /\ v \in Versions /\ v \in DOMAIN release
      /\ i \in 1..Len(Scripts[v])
      /\ Len(Scripts[v]) \in Nat
      /\ release[v] \in Checksums
      /\ writer = s
      /\ draft \in [Versions -> Seq(Checksums)]
      /\ Executed(v, i - 1)
  BY ExecuteFacts
<1>2. /\ UNCHANGED <<registry, schema, writer, release>>
      /\ draft' = [draft EXCEPT ![v] = Append(@, release[v])]
      /\ starter'[s] = IF i < Len(Scripts[v]) THEN Place("statement", v, i + 1) ELSE Place("register", v, 1)
      /\ \A t \in Starters \ {s} : starter'[t] = starter[t]
      /\ At(s, "statement")
  BY <1>0, <1>1 DEF Execute, Goto, MigrationTypes
<1>3. MigrationTypes'
  <2>1. draft' \in [Versions -> Seq(Checksums)]
    BY <1>1, <1>2
  <2>2. v \in Nat /\ i + 1 \in Nat
    BY <1>0, <1>1 DEF MigrationTypes
  <2>3. \/ starter' = [starter EXCEPT ![s] = Place("statement", v, i + 1)]
        \/ starter' = [starter EXCEPT ![s] = Place("register", v, 1)]
    BY DEF Execute, Goto
  <2> DEFINE Places == [step : Steps, version : Nat, statement : Nat]
  <2>a. Place("statement", v, i + 1) \in Places /\ Place("register", v, 1) \in Places
    BY <2>2 DEF Place, Steps
  <2>b. starter \in [Starters -> Places]
    BY <1>0 DEF MigrationTypes
  <2> HIDE DEF Places
  <2>4. starter' \in [Starters -> Places]
    BY <2>a, <2>b, <2>3
  <2> USE DEF Places
  <2>5. starter'[s].version = v
    BY <1>2 DEF Place
  <2>6. \A t \in Starters : starter'[t].version \in DOMAIN release'
    BY <1>0, <1>1, <1>2, <2>5 DEF MigrationTypes
  <2> QED BY <1>0, <1>2, <2>1, <2>4, <2>6 DEF MigrationTypes
<1>4. Executed(v, i)'
  <2>1. draft[v] \in Seq(Checksums) /\ draft'[v] = Append(draft[v], release[v])
    BY <1>1, <1>2
  <2>2. Len(draft[v]) = i - 1 /\ \A j \in 1..(i - 1) : draft[v][j] = release[v]
    BY <1>1 DEF Executed
  <2>3. Len(draft'[v]) = i /\ \A j \in 1..i : draft'[v][j] = release[v]
    BY <1>1, <2>1, <2>2
  <2> QED BY <1>2, <2>3 DEF Executed
<1>5. TransactionInvariant'
  <2> SUFFICES ASSUME NEW t \in Starters
               PROVE  TransactionInvariant!(t)'
    BY DEF TransactionInvariant
  <2>1. ASSUME t = s, i < Len(Scripts[v]) PROVE TransactionInvariant!(t)'
    <3>1. starter'[t] = [step |-> "statement", version |-> v, statement |-> i + 1]
      BY <1>2, <2>1 DEF Place
    <3>2. \A w \in Versions \ {v} : draft'[w] = schema'[w]
      BY <1>0, <1>1, <1>2 DEF TransactionInvariant
    <3>3. /\ At(t, "statement")' /\ ~ At(t, "register")'
          /\ starter'[t].version = v /\ starter'[t].statement = i + 1
      BY <3>1 DEF At
    <3>4. i + 1 \in 1..Len(Scripts[v]) /\ (i + 1) - 1 = i
      BY <1>1, <2>1
    <3>5. Executed(v, (i + 1) - 1)'
      BY <1>4, <3>4
    <3>6. registry'[v] = Null /\ writer' = t
      BY <1>1, <1>2, <2>1
    <3> QED BY <3>2, <3>3, <3>4, <3>5, <3>6 DEF Executed
  <2>2. ASSUME t = s, ~ (i < Len(Scripts[v])) PROVE TransactionInvariant!(t)'
    <3>1. starter'[t] = [step |-> "register", version |-> v, statement |-> 1]
      BY <1>2, <2>2 DEF Place
    <3>2. \A w \in Versions \ {v} : draft'[w] = schema'[w]
      BY <1>0, <1>1, <1>2 DEF TransactionInvariant
    <3>3. /\ At(t, "register")' /\ ~ At(t, "statement")'
          /\ starter'[t].version = v
      BY <3>1 DEF At
    <3>4. i = Len(Scripts[v])
      BY <1>1, <2>2
    <3>5. Executed(v, Len(Scripts[v]))'
      BY <1>4, <3>4
    <3>6. registry'[v] = Null /\ writer' = t
      BY <1>1, <1>2, <2>2
    <3> QED BY <3>2, <3>3, <3>5, <3>6 DEF Executed
  <2>3. CASE t # s
    BY <1>0, <1>1, <1>2, <2>3 DEF TransactionInvariant, At
  <2> QED BY <2>1, <2>2, <2>3
<1>6. ProgressInvariant'
  <2> SUFFICES ASSUME NEW t \in Starters
               PROVE  ProgressInvariant!(t)'
    BY DEF ProgressInvariant
  <2>1. CASE t = s
    BY <1>0, <1>2, <2>1 DEF ProgressInvariant, At, Place
  <2>2. CASE t # s
    BY <1>0, <1>2, <2>2 DEF ProgressInvariant, At
  <2> QED BY <2>1, <2>2
<1>7. RegistryTellsSchema'
  BY <1>0, <1>2 DEF RegistryTellsSchema, Complete
<1> QED BY <1>3, <1>5, <1>6, <1>7 DEF MigrationInvariant

\* A step that gives the transaction up: everyone else goes on or starts again.
LEMMA RollbackInvariant ==
    ASSUME MigrationInvariant, NEW s \in Starters, FailAndRollback(s)
    PROVE  MigrationInvariant'
<1>0. MigrationTypes /\ TransactionInvariant /\ ProgressInvariant /\ RegistryTellsSchema
  BY DEF MigrationInvariant
<1>1. /\ UNCHANGED <<registry, schema, release>>
      /\ writer' = Null
      /\ At(s, "statement") /\ writer = s
      /\ starter'[s] = Place("failed", 1, 1)
      /\ \A t \in Starters \ {s} : starter'[t] = starter[t]
  BY <1>0 DEF FailAndRollback, Goto, MigrationTypes, TransactionInvariant
<1>2. MigrationTypes'
  <2>1. 1 \in DOMAIN release
    BY <1>0, ReleaseFacts
  <2> QED BY <1>0, <1>1, <2>1 DEF MigrationTypes, FailAndRollback, Goto, Place, Steps
<1>3. TransactionInvariant'
  BY <1>0, <1>1, NullAssumption DEF TransactionInvariant, At, Place
<1>4. ProgressInvariant'
  BY <1>0, <1>1 DEF ProgressInvariant, At, Place
<1>5. RegistryTellsSchema'
  BY <1>0, <1>1 DEF RegistryTellsSchema, Complete
<1> QED BY <1>2, <1>3, <1>4, <1>5 DEF MigrationInvariant

LEMMA RestartInvariant ==
    ASSUME MigrationInvariant, Restart
    PROVE  MigrationInvariant'
<1>0. MigrationTypes /\ RegistryTellsSchema
  BY DEF MigrationInvariant
<1>1. \A r \in Releases : 1 \in DOMAIN r
  BY ReleaseAssumption
<1>2. MigrationTypes'
  BY <1>0, <1>1 DEF Restart, MigrationTypes, Unstarted, Place, Steps
<1>3. TransactionInvariant'
  BY NullAssumption DEF Restart, TransactionInvariant, Unstarted, Place, At
<1>4. ProgressInvariant'
  BY DEF Restart, ProgressInvariant, Unstarted, Place, At
<1>5. RegistryTellsSchema'
  BY <1>0 DEF Restart, RegistryTellsSchema, Complete
<1> QED BY <1>2, <1>3, <1>4, <1>5 DEF MigrationInvariant

LEMMA RegisterInvariant ==
    ASSUME MigrationInvariant, NEW s \in Starters, RegisterAndCommit(s)
    PROVE  MigrationInvariant'
<1>. PICK v : v = starter[s].version
  OBVIOUS
<1>0. MigrationTypes /\ TransactionInvariant /\ ProgressInvariant /\ RegistryTellsSchema
  BY DEF MigrationInvariant
<1>1. /\ v \in Versions /\ v \in DOMAIN release /\ v \in 1..Len(release)
      /\ release[v] \in Checksums /\ release[v] # Null
      /\ DOMAIN release = 1..Len(release) /\ Len(release) \in Nat
      /\ DOMAIN Scripts[v] = 1..Len(Scripts[v])
      /\ DOMAIN release \subseteq Versions
  BY <1>0, ReleaseFacts DEF MigrationTypes
<1>2. /\ At(s, "register") /\ writer = s /\ registry[v] = Null
      /\ Executed(v, Len(Scripts[v]))
      /\ \A w \in Versions \ {v} : draft[w] = schema[w]
      /\ draft \in [Versions -> Seq(Checksums)]
  <2>1. At(s, "register")
    BY DEF RegisterAndCommit
  <2>2. writer = s
    BY <1>0, <2>1 DEF TransactionInvariant
  <2>3. draft \in [Versions -> Seq(Checksums)]
    BY <1>0, <2>2, NullAssumption DEF MigrationTypes
  <2> QED BY <1>0, <2>1, <2>2, <2>3 DEF TransactionInvariant
<1>3. /\ registry' = [registry EXCEPT ![v] = release[v]]
      /\ schema' = draft /\ writer' = Null /\ UNCHANGED release
      /\ \/ v < Len(release) /\ starter' = [starter EXCEPT ![s] = Place("lookup", v + 1, 1)]
         \/ v = Len(release) /\ starter' = [starter EXCEPT ![s] = Place("returned", v, 1)]
  BY <1>1 DEF RegisterAndCommit, AfterVersion, Goto
<1>4. registry'[v] = release[v] /\ \A w \in Versions \ {v} : registry'[w] = registry[w]
  BY <1>0, <1>1, <1>3 DEF MigrationTypes
<1>5. /\ \A t \in Starters \ {s} : starter'[t] = starter[t]
      /\ ~ At(s, "statement")' /\ ~ At(s, "register")'
  <2>0. DOMAIN starter = Starters
    BY <1>0 DEF MigrationTypes
  <2>1. starter'[s].step \in {"lookup", "returned"}
    BY <1>3, <2>0 DEF Place
  <2>2. \A t \in Starters \ {s} : starter'[t] = starter[t]
    BY <1>3, <2>0
  <2> QED BY <2>1, <2>2 DEF At
<1>6. MigrationTypes'
  <2> DEFINE Places == [step : Steps, version : Nat, statement : Nat]
  <2>1. Place("lookup", v + 1, 1) \in Places /\ Place("returned", v, 1) \in Places
    BY <1>1 DEF Place, Steps
  <2>2. starter \in [Starters -> Places]
    BY <1>0 DEF MigrationTypes
  <2> HIDE DEF Places
  <2>3. starter' \in [Starters -> Places]
    BY <1>3, <2>1, <2>2
  <2> USE DEF Places
  <2>4. starter'[s].version \in DOMAIN release'
    BY <1>1, <1>3, <2>2 DEF Place
  <2>5. \A t \in Starters : starter'[t].version \in DOMAIN release'
    BY <1>0, <1>3, <1>5, <2>4 DEF MigrationTypes
  <2>6. registry' \in [Versions -> Checksums \cup {Null}]
    BY <1>0, <1>1, <1>3 DEF MigrationTypes
  <2> QED BY <1>0, <1>2, <1>3, <2>3, <2>5, <2>6 DEF MigrationTypes
<1>7. TransactionInvariant'
  <2> SUFFICES ASSUME NEW t \in Starters
               PROVE  TransactionInvariant!(t)'
    BY DEF TransactionInvariant
  <2>1. (~ At(t, "statement") /\ ~ At(t, "register")) \/ t = s
    BY <1>0, <1>2 DEF TransactionInvariant
  <2>2. ~ At(t, "statement")' /\ ~ At(t, "register")'
    BY <1>5, <2>1 DEF At
  <2>3. writer' # t
    BY <1>3, NullAssumption
  <2> QED BY <2>2, <2>3
<1>8. ProgressInvariant'
  <2> SUFFICES ASSUME NEW t \in Starters
               PROVE  ProgressInvariant!(t)'
    BY DEF ProgressInvariant
  <2>1. /\ \A w \in Versions \ DOMAIN release : registry[w] = Null
        /\ \A w \in DOMAIN release : w < v => registry[w] = release[w]
    BY <1>0, <1>2 DEF ProgressInvariant, At
  <2>2. CASE t = s
    <3>1. \A w \in DOMAIN release : w < v + 1 => registry'[w] = release[w]
      BY <1>1, <1>4, <2>1
    <3>2. \A w \in Versions \ DOMAIN release : registry'[w] = Null
      BY <1>1, <1>4, <2>1
    <3>3. CASE v < Len(release) /\ starter' = [starter EXCEPT ![s] = Place("lookup", v + 1, 1)]
      <4>1. starter'[s] = [step |-> "lookup", version |-> v + 1, statement |-> 1]
        BY <1>0, <3>3 DEF MigrationTypes, Place
      <4> QED BY <1>3, <2>2, <3>1, <3>2, <4>1 DEF At
    <3>4. CASE v = Len(release) /\ starter' = [starter EXCEPT ![s] = Place("returned", v, 1)]
      <4>1. starter'[s] = [step |-> "returned", version |-> v, statement |-> 1]
        BY <1>0, <3>4 DEF MigrationTypes, Place
      <4>2. \A w \in DOMAIN release : registry'[w] = release[w]
        BY <1>1, <3>1, <3>4
      <4> QED BY <1>3, <2>2, <3>2, <4>1, <4>2 DEF At
    <3> QED BY <1>3, <3>3, <3>4
  <2>3. CASE t # s
    <3>1. \A w \in Versions : registry'[w] = registry[w] \/ w = v
      BY <1>4
    <3> QED BY <1>0, <1>1, <1>3, <1>4, <1>5, <2>3, <3>1 DEF ProgressInvariant, At
  <2> QED BY <2>2, <2>3
<1>9. RegistryTellsSchema'
  <2>1. draft[v] = Complete(v)'
    <3>1. draft[v] \in Seq(Checksums)
      BY <1>1, <1>2
    <3>2. draft[v] = [j \in 1..Len(Scripts[v]) |-> draft[v][j]]
      BY <1>2, <3>1, SequenceIsFunction DEF Executed
    <3>3. \A j \in 1..Len(Scripts[v]) : draft[v][j] = registry'[v]
      BY <1>2, <1>4 DEF Executed
    <3> QED BY <1>1, <3>2, <3>3 DEF Complete
  <2>2. ASSUME NEW w \in Versions, w # v
        PROVE  schema'[w] = IF registry'[w] = Null THEN <<>> ELSE Complete(w)'
    <3>1. schema[w] = IF registry[w] = Null THEN <<>> ELSE Complete(w)
      BY <1>0 DEF RegistryTellsSchema
    <3>2. registry'[w] = registry[w] /\ schema'[w] = schema[w]
      BY <1>2, <1>3, <1>4, <2>2
    <3> QED BY <3>1, <3>2 DEF Complete
  <2> QED BY <1>1, <1>3, <1>4, <2>1, <2>2 DEF RegistryTellsSchema
<1> QED BY <1>6, <1>7, <1>8, <1>9 DEF MigrationInvariant

\* The steps that only look at the database.
LEMMA LookingInvariant ==
    ASSUME MigrationInvariant, NEW s \in Starters,
           \/ Bootstrap(s) \/ RejectUnknownVersions(s) \/ Lookup(s)
           \/ Busy(s) \/ Retry(s)
    PROVE  MigrationInvariant'
<1>0. MigrationTypes /\ TransactionInvariant /\ ProgressInvariant /\ RegistryTellsSchema
  BY DEF MigrationInvariant
<1>. PICK v : v = starter[s].version
  OBVIOUS
<1>1. /\ 1 \in DOMAIN release /\ v \in DOMAIN release
      /\ DOMAIN release = 1..Len(release) /\ Len(release) \in Nat
  BY <1>0, ReleaseFacts DEF MigrationTypes
<1> DEFINE Reads(step, w) ==
      /\ ReadOnly /\ Goto(s, step, w, 1)
      /\ ~ At(s, "statement") /\ ~ At(s, "register")
<1>2. CASE Bootstrap(s)
  <2>1. Reads("reject", 1)
    BY <1>2 DEF Bootstrap, At
  <2> QED BY <1>1, <2>1, ReadOnlyInvariant DEF Steps
<1>3. CASE RejectUnknownVersions(s)
  <2>1. \/ Reads("lookup", 1) /\ \A w \in Versions \ DOMAIN release : registry[w] = Null
        \/ Reads("failed", 1)
    BY <1>3 DEF RejectUnknownVersions, At
  <2>2. \A w \in DOMAIN release : ~ (w < 1)
    BY <1>1
  <2>3. CASE Reads("lookup", 1) /\ \A w \in Versions \ DOMAIN release : registry[w] = Null
    BY <1>1, <2>2, <2>3, ReadOnlyInvariant DEF Steps
  <2>4. CASE Reads("failed", 1)
    BY <1>1, <2>4, ReadOnlyInvariant DEF Steps
  <2> QED BY <2>1, <2>3, <2>4
<1>4. CASE Lookup(s)
  <2>1. /\ \A w \in Versions \ DOMAIN release : registry[w] = Null
        /\ \A w \in DOMAIN release : w < v => registry[w] = release[w]
    BY <1>0, <1>4 DEF Lookup, ProgressInvariant, At
  <2>2. \/ Reads("begin", v) \/ Reads("failed", v)
        \/ registry[v] = release[v] /\ v < Len(release) /\ Reads("lookup", v + 1)
        \/ registry[v] = release[v] /\ v = Len(release) /\ Reads("returned", v)
    BY <1>1, <1>4 DEF Lookup, AfterVersion, At
  <2>3. CASE Reads("begin", v)
    BY <1>1, <2>1, <2>3, ReadOnlyInvariant DEF Steps
  <2>4. CASE Reads("failed", v)
    BY <1>1, <2>4, ReadOnlyInvariant DEF Steps
  <2>5. CASE registry[v] = release[v] /\ v < Len(release) /\ Reads("lookup", v + 1)
    <3>1. v + 1 \in DOMAIN release
      BY <1>1, <2>5
    <3>2. \A w \in DOMAIN release : w < v + 1 => registry[w] = release[w]
      BY <1>1, <2>1, <2>5
    <3> QED BY <2>1, <2>5, <3>1, <3>2, ReadOnlyInvariant DEF Steps
  <2>6. CASE registry[v] = release[v] /\ v = Len(release) /\ Reads("returned", v)
    <3>1. \A w \in DOMAIN release : registry[w] = release[w]
      BY <1>1, <2>1, <2>6
    <3> QED BY <1>1, <2>1, <2>6, <3>1, ReadOnlyInvariant DEF Steps
  <2> QED BY <2>2, <2>3, <2>4, <2>5, <2>6
<1>5. CASE Busy(s)
  <2>1. Reads("failed", 1)
    BY <1>5 DEF Busy, At
  <2> QED BY <1>1, <2>1, ReadOnlyInvariant DEF Steps
<1>6. CASE Retry(s)
  <2>1. Reads("bootstrap", 1)
    BY <1>6 DEF Retry, At
  <2> QED BY <1>1, <2>1, ReadOnlyInvariant DEF Steps
<1> QED BY <1>2, <1>3, <1>4, <1>5, <1>6

LEMMA NextMigration == MigrationInvariant /\ [Next]_vars => MigrationInvariant'
<1> SUFFICES ASSUME MigrationInvariant, [Next]_vars PROVE MigrationInvariant'
  OBVIOUS
<1>1. CASE Restart
  BY <1>1, RestartInvariant
<1>2. ASSUME NEW s \in Starters,
             \/ Bootstrap(s) \/ RejectUnknownVersions(s) \/ Lookup(s)
             \/ Busy(s) \/ Retry(s)
      PROVE  MigrationInvariant'
  BY <1>2, LookingInvariant
<1>3. ASSUME NEW s \in Starters, Begin(s) PROVE MigrationInvariant'
  BY <1>3, BeginInvariant
<1>4. ASSUME NEW s \in Starters, Execute(s) PROVE MigrationInvariant'
  BY <1>4, ExecuteInvariant
<1>5. ASSUME NEW s \in Starters, FailAndRollback(s) PROVE MigrationInvariant'
  BY <1>5, RollbackInvariant
<1>6. ASSUME NEW s \in Starters, RegisterAndCommit(s) PROVE MigrationInvariant'
  BY <1>6, RegisterInvariant
<1>7. CASE UNCHANGED vars
  BY <1>7 DEF vars, MigrationInvariant, MigrationTypes, TransactionInvariant,
     ProgressInvariant, RegistryTellsSchema, Complete, Executed, At
<1> QED BY <1>1, <1>2, <1>3, <1>4, <1>5, <1>6, <1>7 DEF Next, Proceed

-----------------------------------------------------------------------------
(* The theorems.                                                           *)

LEMMA MigrationInvariantHolds == Spec => []MigrationInvariant
BY InitMigration, NextMigration, PTL DEF Spec

\* Whatever the constructors of a process interleave and wherever it is
\* stopped, what schema_migrations registers is what was executed
\* (initialize_schema, _apply_migration).
THEOREM RegistryIsTrue == Spec => []RegistryTellsSchema
<1>1. MigrationInvariant => RegistryTellsSchema
  BY DEF MigrationInvariant
<1> QED BY <1>1, MigrationInvariantHolds, PTL

\* A constructor that returns finds the schema of its own release.
THEOREM StartUpsMatch == Spec => []ReturnedStartUpMatches
<1>1. MigrationInvariant => ReturnedStartUpMatches
  <2> SUFFICES ASSUME MigrationInvariant, NEW s \in Starters, At(s, "returned"),
                      NEW v \in Versions
               PROVE  registry[v] = IF v \in DOMAIN release THEN release[v] ELSE Null
    BY DEF ReturnedStartUpMatches
  <2> QED BY DEF MigrationInvariant, ProgressInvariant, At
<1> QED BY <1>1, MigrationInvariantHolds, PTL

\* A version is migrated only once, after all versions before it.
THEOREM MigrationsAreOrdered == Spec => MigratedOnceInOrder
<1> DEFINE InOrder ==
      \A v \in Versions :
         schema'[v] # schema[v] =>
             /\ registry[v] = Null
             /\ \A w \in Versions : w < v => registry[w] # Null
<1>1. MigrationInvariant /\ [Next]_vars => [InOrder]_vars
  <2> SUFFICES ASSUME MigrationInvariant, Next, NEW v \in Versions, schema'[v] # schema[v]
               PROVE  /\ registry[v] = Null
                      /\ \A w \in Versions : w < v => registry[w] # Null
    OBVIOUS
  <2>0. MigrationTypes /\ TransactionInvariant /\ ProgressInvariant
    BY DEF MigrationInvariant
  <2>1. PICK s \in Starters : RegisterAndCommit(s)
    BY DEF Next, Proceed, Restart, Bootstrap, RejectUnknownVersions, Lookup, Begin,
       Busy, Execute, FailAndRollback, Retry, ReadOnly
  <2>2. At(s, "register") /\ schema' = draft
    BY <2>1 DEF RegisterAndCommit
  <2>3. v = starter[s].version /\ registry[v] = Null
    BY <2>0, <2>2 DEF TransactionInvariant
  <2>4. ASSUME NEW w \in Versions, w < v PROVE registry[w] # Null
    <3>1. /\ DOMAIN release = 1..Len(release) /\ v \in DOMAIN release
          /\ Len(release) \in Nat /\ Versions = 1..Len(Scripts)
          /\ \A u \in DOMAIN release : release[u] # Null
      BY <2>0, <2>3, ReleaseFacts DEF MigrationTypes
    <3>2. w \in DOMAIN release
      BY <2>4, <3>1, ScriptsAssumption
    <3> QED BY <2>0, <2>2, <2>3, <2>4, <3>1, <3>2 DEF ProgressInvariant, At
  <2> QED BY <2>3, <2>4
<1> QED BY <1>1, MigrationInvariantHolds, PTL DEF Spec, MigratedOnceInOrder

=============================================================================
