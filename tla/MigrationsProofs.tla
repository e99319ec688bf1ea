-------------------------- MODULE MigrationsProofs --------------------------
(***************************************************************************)
(* A database is at the revision with all that belongs to it, or has none  *)
(* of it, for any number of operators and databases.                       *)
(***************************************************************************)
EXTENDS Migrations, TLAPS

Elements(s) == {s[i] : i \in 1 .. Len(s)}

\* The head of a sequence, and the elements of its tail.
LEMMA HeadAndTail ==
  ASSUME NEW S, NEW s \in Seq(S), s # <<>>
  PROVE  /\ Tail(s) \in Seq(S) /\ Head(s) \in S
         /\ Elements(s) = {Head(s)} \cup Elements(Tail(s))
<1>1. /\ Tail(s) \in Seq(S) /\ Head(s) \in S /\ Head(s) = s[1]
      /\ Len(s) \in Nat \ {0} /\ Len(Tail(s)) = Len(s) - 1
      /\ \A i \in 1 .. Len(s) - 1 : Tail(s)[i] = s[i + 1]
  OBVIOUS
<1>2. ASSUME NEW i \in 1 .. Len(s)
      PROVE  s[i] \in {Head(s)} \cup Elements(Tail(s))
  <2>1. CASE i = 1
    BY <2>1, <1>1
  <2>2. CASE i # 1
    <3>1. i - 1 \in 1 .. Len(Tail(s)) /\ Tail(s)[i - 1] = s[i]
      BY <2>2, <1>1
    <3> QED
      BY <3>1 DEF Elements
  <2> QED
    BY <2>1, <2>2
<1>3. ASSUME NEW i \in 1 .. Len(Tail(s))
      PROVE  Tail(s)[i] \in Elements(s)
  <2>1. i + 1 \in 1 .. Len(s) /\ Tail(s)[i] = s[i + 1]
    BY <1>1
  <2> QED
    BY <2>1 DEF Elements
<1>4. Head(s) \in Elements(s)
  <2>1. 1 \in 1 .. Len(s)
    BY <1>1
  <2> QED
    BY <2>1, <1>1 DEF Elements
<1> QED
  BY <1>1, <1>2, <1>3, <1>4 DEF Elements

\* The elements of a concatenation.
LEMMA Concatenated ==
  ASSUME NEW S, NEW s \in Seq(S), NEW t \in Seq(S)
  PROVE  s \o t \in Seq(S) /\ Elements(s \o t) = Elements(s) \cup Elements(t)
<1>1. /\ s \o t \in Seq(S) /\ Len(s \o t) = Len(s) + Len(t)
      /\ Len(s) \in Nat /\ Len(t) \in Nat
      /\ \A i \in 1 .. Len(s) : (s \o t)[i] = s[i]
      /\ \A i \in Len(s) + 1 .. Len(s) + Len(t) : (s \o t)[i] = t[i - Len(s)]
  OBVIOUS
<1>2. ASSUME NEW i \in 1 .. Len(s \o t)
      PROVE  (s \o t)[i] \in Elements(s) \cup Elements(t)
  <2>1. CASE i <= Len(s)
    BY <2>1, <1>1 DEF Elements
  <2>2. CASE i > Len(s)
    <3>1. i - Len(s) \in 1 .. Len(t) /\ (s \o t)[i] = t[i - Len(s)]
      BY <2>2, <1>1
    <3> QED
      BY <3>1 DEF Elements
  <2> QED
    BY <2>1, <2>2, <1>1
<1>3. ASSUME NEW i \in 1 .. Len(s)
      PROVE  s[i] \in Elements(s \o t)
  BY <1>1 DEF Elements
<1>4. ASSUME NEW i \in 1 .. Len(t)
      PROVE  t[i] \in Elements(s \o t)
  <2>1. i + Len(s) \in 1 .. Len(s \o t) /\ (s \o t)[i + Len(s)] = t[i]
    BY <1>1
  <2> QED
    BY <2>1 DEF Elements
<1> QED
  BY <1>1, <1>2, <1>3, <1>4 DEF Elements

-----------------------------------------------------------------------------
(* The operations, and what the two programs make and drop.                *)

AllTables == DOMAIN Tables \cup {"alembic_version"}

Builders == {CreateTable(t) : t \in AllTables}
              \cup {CreateIndex(i) : i \in DOMAIN Indexes}
              \cup {CreateForeignKey, Insert}

Destroyers == {DropTable(t) : t \in AllTables}
                \cup {DropIndex(i) : i \in DOMAIN Indexes}
                \cup {DropConstraint, Delete}

Operations == Builders \cup Destroyers

\* All that distinguishes a database at the revision.
Whole == SchemaObjects \cup {Revision}

Promised(T) == UNION {Makes(o) : o \in T}

\* What is gone for certain once o has been executed.
Condemns(o) ==
  CASE o.op = "drop_table" ->
         {Table(o.on)} \cup {Foreign(o.on, fk) : fk \in Inline(o.on)}
    [] o.op = "drop_index"      -> {Index(o.name, o.on)}
    [] o.op = "drop_constraint" -> {Foreign(o.on, circular_fk)}
    [] o.op = "delete"          -> {Revision}
    [] OTHER                    -> {}

Condemned(T) == UNION {Condemns(o) : o \in T}

\* The tables and indexes of the schema.
LEMMA Names ==
  /\ DOMAIN Tables =
       {"datasets", "dataset_builds", "jobs", "attempts", "worker_sessions",
        "worker_provisioning", "steps", "worker_steps", "checkpoints",
        "events", "control_commands", "metrics"}
  /\ DOMAIN Indexes =
       {"ix_dataset_builds__dataset_id_state", "ix_jobs__state_created_at",
        "uq_attempts__one_active", "ix_attempts__job_id_created_at",
        "uq_worker_sessions__active_rank", "uq_events__attempt_runtime_seq",
        "ix_events__attempt_occurred_at",
        "ix_control_commands__state_requested_at",
        "ix_metrics__attempt_id_observed_at"}
BY DEF Tables, Indexes

\* upgrade creates every table, every index and the circular foreign key.
LEMMA UpgradeElements ==
  /\ Upgrade \in Seq(Builders)
  /\ \A t \in DOMAIN Tables : CreateTable(t) \in Elements(Upgrade)
  /\ \A i \in DOMAIN Indexes : CreateIndex(i) \in Elements(Upgrade)
  /\ CreateForeignKey \in Elements(Upgrade)
<1>1. Upgrade \in Seq(Builders)
  BY Names DEF Upgrade, Builders, AllTables
<1>2. Len(Upgrade) = 22
  BY DEF Upgrade
<1>3. \A i \in 1 .. 22 : Upgrade[i] \in Elements(Upgrade)
  BY <1>2 DEF Elements
<1>4. \A t \in DOMAIN Tables : CreateTable(t) \in Elements(Upgrade)
  <2>1. /\ Upgrade[1] = CreateTable("datasets")
        /\ Upgrade[2] = CreateTable("dataset_builds")
        /\ Upgrade[4] = CreateTable("jobs")
        /\ Upgrade[6] = CreateTable("attempts")
        /\ Upgrade[9] = CreateTable("worker_sessions")
        /\ Upgrade[11] = CreateTable("worker_provisioning")
        /\ Upgrade[12] = CreateTable("steps")
        /\ Upgrade[13] = CreateTable("worker_steps")
        /\ Upgrade[14] = CreateTable("checkpoints")
        /\ Upgrade[16] = CreateTable("events")
        /\ Upgrade[19] = CreateTable("control_commands")
        /\ Upgrade[21] = CreateTable("metrics")
    BY DEF Upgrade
  <2> QED
    BY <1>3, <2>1, Names
<1>5. \A i \in DOMAIN Indexes : CreateIndex(i) \in Elements(Upgrade)
  <2>1. /\ Upgrade[3] = CreateIndex("ix_dataset_builds__dataset_id_state")
        /\ Upgrade[5] = CreateIndex("ix_jobs__state_created_at")
        /\ Upgrade[7] = CreateIndex("uq_attempts__one_active")
        /\ Upgrade[8] = CreateIndex("ix_attempts__job_id_created_at")
        /\ Upgrade[10] = CreateIndex("uq_worker_sessions__active_rank")
        /\ Upgrade[17] = CreateIndex("uq_events__attempt_runtime_seq")
        /\ Upgrade[18] = CreateIndex("ix_events__attempt_occurred_at")
        /\ Upgrade[20] = CreateIndex("ix_control_commands__state_requested_at")
        /\ Upgrade[22] = CreateIndex("ix_metrics__attempt_id_observed_at")
    BY DEF Upgrade
  <2> QED
    BY <1>3, <2>1, Names
<1>6. CreateForeignKey \in Elements(Upgrade)
  <2>1. Upgrade[15] = CreateForeignKey
    BY DEF Upgrade
  <2> QED
    BY <1>3, <2>1
<1> QED
  BY <1>1, <1>4, <1>5, <1>6

\* downgrade drops every table, every index and the circular foreign key.
LEMMA DowngradeElements ==
  /\ Downgrade \in Seq(Destroyers)
  /\ \A t \in DOMAIN Tables : DropTable(t) \in Elements(Downgrade)
  /\ \A i \in DOMAIN Indexes : DropIndex(i) \in Elements(Downgrade)
  /\ DropConstraint \in Elements(Downgrade)
<1>1. /\ <<DropConstraint>> \in Seq(Destroyers) /\ DropTables \in Seq(Destroyers)
      /\ DropIndexes \in Seq(Destroyers)
  BY Names DEF DropTables, DropIndexes, Destroyers, AllTables
<1>2. DropConstraint \in Elements(<<DropConstraint>>)
  BY DEF Elements
<1>3. \A t \in DOMAIN Tables : DropTable(t) \in Elements(DropTables)
  <2>1. Len(DropTables) = 12
    BY DEF DropTables
  <2>2. \A i \in 1 .. 12 : DropTables[i] \in Elements(DropTables)
    BY <2>1 DEF Elements
  <2>3. /\ DropTables[1] = DropTable("metrics")
        /\ DropTables[2] = DropTable("control_commands")
        /\ DropTables[3] = DropTable("events")
        /\ DropTables[4] = DropTable("checkpoints")
        /\ DropTables[5] = DropTable("worker_steps")
        /\ DropTables[6] = DropTable("steps")
        /\ DropTables[7] = DropTable("worker_provisioning")
        /\ DropTables[8] = DropTable("worker_sessions")
        /\ DropTables[9] = DropTable("attempts")
        /\ DropTables[10] = DropTable("jobs")
        /\ DropTables[11] = DropTable("dataset_builds")
        /\ DropTables[12] = DropTable("datasets")
    BY DEF DropTables
  <2> QED
    BY <2>2, <2>3, Names
<1>4. \A i \in DOMAIN Indexes : DropIndex(i) \in Elements(DropIndexes)
  <2>1. Len(DropIndexes) = 9
    BY DEF DropIndexes
  <2>2. \A i \in 1 .. 9 : DropIndexes[i] \in Elements(DropIndexes)
    BY <2>1 DEF Elements
  <2>3. /\ DropIndexes[1] = DropIndex("ix_metrics__attempt_id_observed_at")
        /\ DropIndexes[2] = DropIndex("ix_control_commands__state_requested_at")
        /\ DropIndexes[3] = DropIndex("ix_events__attempt_occurred_at")
        /\ DropIndexes[4] = DropIndex("uq_events__attempt_runtime_seq")
        /\ DropIndexes[5] = DropIndex("uq_worker_sessions__active_rank")
        /\ DropIndexes[6] = DropIndex("ix_attempts__job_id_created_at")
        /\ DropIndexes[7] = DropIndex("uq_attempts__one_active")
        /\ DropIndexes[8] = DropIndex("ix_jobs__state_created_at")
        /\ DropIndexes[9] = DropIndex("ix_dataset_builds__dataset_id_state")
    BY DEF DropIndexes
  <2> QED
    BY <2>2, <2>3, Names
<1>5. /\ Downgrade \in Seq(Destroyers)
      /\ Elements(Downgrade) = Elements(<<DropConstraint>>)
           \cup Elements(DropIndexes) \cup Elements(DropTables)
  <2> DEFINE first == <<DropConstraint>> \o DropIndexes
  <2>1. /\ first \in Seq(Destroyers)
        /\ Elements(first) = Elements(<<DropConstraint>>) \cup Elements(DropIndexes)
    BY <1>1, Concatenated
  <2>2. Downgrade = first \o DropTables
    BY DEF Downgrade
  <2> HIDE DEF first
  <2>3. /\ first \o DropTables \in Seq(Destroyers)
        /\ Elements(first \o DropTables) = Elements(first) \cup Elements(DropTables)
    BY <1>1, <2>1, Concatenated
  <2> QED
    BY <2>1, <2>2, <2>3
<1> QED
  BY <1>2, <1>3, <1>4, <1>5

\* Each operation's effects, spelled out.
LEMMA Effects ==
  /\ \A t : Makes(CreateTable(t)) =
            {Table(t)} \cup {Foreign(t, fk) : fk \in Inline(t)}
  /\ \A i : Makes(CreateIndex(i)) = {Index(i, Indexes[i])}
  /\ Makes(CreateForeignKey) = {Foreign("attempts", circular_fk)}
  /\ Makes(Insert) = {Revision}
  /\ \A t : Condemns(DropTable(t)) =
            {Table(t)} \cup {Foreign(t, fk) : fk \in Inline(t)}
  /\ \A i : Condemns(DropIndex(i)) = {Index(i, Indexes[i])}
  /\ Condemns(DropConstraint) = {Foreign("attempts", circular_fk)}
  /\ Condemns(Delete) = {Revision}
BY DEF Makes, Condemns, CreateTable, CreateIndex, CreateForeignKey, Insert,
       DropTable, DropIndex, DropConstraint, Delete

\* Every object of the schema belongs to a table, an index, an inline foreign
\* key or is the circular one.
LEMMA ObjectCases ==
  ASSUME NEW o \in SchemaObjects
  PROVE  \/ \E t \in DOMAIN Tables :
              o \in {Table(t)} \cup {Foreign(t, fk) : fk \in Inline(t)}
         \/ \E i \in DOMAIN Indexes : o = Index(i, Indexes[i])
         \/ o = Foreign("attempts", circular_fk)
BY DEF SchemaObjects, ForeignKeys, Inline

\* A database that has executed all of upgrade has everything.
LEMMA UpgradeMakesAll ==
  ASSUME NEW T, Elements(Upgrade) \subseteq T, Insert \in T
  PROVE  Whole \subseteq Promised(T)
<1>1. Revision \in Promised(T)
  BY Effects DEF Promised
<1>2. ASSUME NEW o \in SchemaObjects
      PROVE  \E p \in T : o \in Makes(p)
  BY ObjectCases, UpgradeElements, Effects
<1> QED
  BY <1>1, <1>2 DEF Promised, Whole

\* A database that has executed all of downgrade has nothing left.
LEMMA DowngradeDropsAll ==
  ASSUME NEW T, Elements(Downgrade) \subseteq T, Delete \in T
  PROVE  Whole \subseteq Condemned(T)
<1>1. Revision \in Condemned(T)
  BY Effects DEF Condemned
<1>2. ASSUME NEW o \in SchemaObjects
      PROVE  \E p \in T : o \in Condemns(p)
  BY ObjectCases, DowngradeElements, Effects
<1> QED
  BY <1>1, <1>2 DEF Condemned, Whole

\* A reference of a table leads to a table of the schema.
LEMMA ReferencesLead ==
  /\ \A t \in DOMAIN Tables : \A fk \in Inline(t) : fk.to \in DOMAIN Tables
  /\ Inline("alembic_version") = {}
  /\ circular_fk.to \in DOMAIN Tables
<1>1. ASSUME NEW t \in DOMAIN Tables, NEW fk \in Inline(t)
      PROVE  fk.to \in {"datasets", "dataset_builds", "jobs", "attempts",
                        "worker_sessions", "steps"}
  <2>1. fk \in Tables[t].foreignKeys
    BY DEF Inline
  <2> QED
    BY <2>1, Names
       DEF Tables, ForeignKey, datasets, dataset_builds, jobs, attempts,
           worker_sessions, worker_provisioning, steps, worker_steps,
           checkpoints, events, control_commands, metrics
<1>2. Inline("alembic_version") = {}
  BY Names DEF Inline
<1> QED
  BY <1>1, <1>2, Names DEF circular_fk, ForeignKey

LockTypes == (DOMAIN Tables \cup {"alembic_version"})
               \X {"read", "write", "exclusive"}

\* What an operation makes, drops and locks is of its type.
LEMMA OperationTypes ==
  ASSUME NEW o \in Operations, NEW c \in SUBSET Objects
  PROVE  Makes(o) \subseteq Objects /\ Drops(o, c) \subseteq Objects
         /\ Locks(o) \subseteq LockTypes
<1>1. /\ \A t \in AllTables : Table(t) \in Objects
      /\ \A t \in AllTables : \A fk \in Inline(t) : Foreign(t, fk) \in Objects
      /\ \A i \in DOMAIN Indexes : Index(i, Indexes[i]) \in Objects
      /\ Foreign("attempts", circular_fk) \in Objects
      /\ Revision \in Objects
  BY Names DEF Objects, SchemaObjects, AllTables, VersionTable, Inline, ForeignKeys
<1>2. /\ \A i \in DOMAIN Indexes : Indexes[i] \in DOMAIN Tables
      /\ "attempts" \in DOMAIN Tables
  BY Names DEF Indexes
<1>3. \A t \in AllTables : \A fk \in Inline(t) : fk.to \in DOMAIN Tables
  BY ReferencesLead DEF AllTables
<1>4. CASE o \in {CreateTable(t) : t \in AllTables}
  BY <1>4, <1>1, <1>3 DEF CreateTable, Makes, Drops, Locks, LockTypes, AllTables
<1>5. CASE o \in {CreateIndex(i) : i \in DOMAIN Indexes}
  BY <1>5, <1>1, <1>2 DEF CreateIndex, Makes, Drops, Locks, LockTypes
<1>6. CASE o \in {DropTable(t) : t \in AllTables}
  BY <1>6, <1>1, <1>3 DEF DropTable, Makes, Drops, Belongings, Locks, LockTypes, AllTables
<1>7. CASE o \in {DropIndex(i) : i \in DOMAIN Indexes}
  BY <1>7, <1>1, <1>2 DEF DropIndex, Makes, Drops, Locks, LockTypes
<1>8. CASE o \in {CreateForeignKey, DropConstraint}
  BY <1>8, <1>1, <1>2, ReferencesLead
     DEF CreateForeignKey, DropConstraint, Makes, Drops, Locks, LockTypes
<1>9. CASE o \in {Insert, Delete}
  BY <1>9, <1>1 DEF Insert, Delete, Makes, Drops, Locks, LockTypes
<1> QED
  BY <1>4, <1>5, <1>6, <1>7, <1>8, <1>9 DEF Operations, Builders, Destroyers

\* Objects of different kinds differ.
LEMMA ObjectsApart ==
  /\ \A t : Revision # Table(t)
  /\ \A i, t : Revision # Index(i, t) /\ VersionTable # Index(i, t)
  /\ \A t, fk : Revision # Foreign(t, fk) /\ VersionTable # Foreign(t, fk)
BY DEF Revision, VersionTable, Table, Index, Foreign

\* Building drops nothing, and only the insertion makes the revision: into a
\* version table that is there, under a lock on its rows.
LEMMA Building ==
  ASSUME NEW o \in Builders, NEW c
  PROVE  /\ Drops(o, c) = {}
         /\ Revision \in Makes(o) =>
              /\ <<"alembic_version", "write">> \in Locks(o)
              /\ Possible(o, c) => VersionTable \in c
<1>1. CASE o = Insert
  BY <1>1 DEF Insert, Drops, Locks, Possible
<1>2. CASE o \in {CreateTable(t) : t \in AllTables}
  <2>1. PICK t \in AllTables : o = CreateTable(t)
    BY <1>2
  <2>2. Revision \notin Makes(o)
    BY <2>1, Effects, ObjectsApart
  <2> QED
    BY <2>1, <2>2 DEF CreateTable, Drops
<1>3. CASE o \in {CreateIndex(i) : i \in DOMAIN Indexes}
  BY <1>3 DEF CreateIndex, Drops, Makes, Revision, Index
<1>4. CASE o = CreateForeignKey
  BY <1>4 DEF CreateForeignKey, Drops, Makes, Revision, Foreign
<1> QED
  BY <1>1, <1>2, <1>3, <1>4 DEF Builders

\* Destroying makes nothing, and only a drop under an exclusive lock removes
\* the version table.
LEMMA Destroying ==
  ASSUME NEW o \in Destroyers, NEW c
  PROVE  /\ Makes(o) = {}
         /\ VersionTable \in Drops(o, c) =>
              <<"alembic_version", "exclusive">> \in Locks(o)
<1>1. CASE o \in {DropTable(t) : t \in AllTables}
  <2>1. PICK t \in AllTables : o = DropTable(t)
    BY <1>1
  <2>2. VersionTable \in Belongings(t, c) => t = "alembic_version"
    BY DEF Belongings, VersionTable, Table, Index, Foreign
  <2> QED
    BY <2>1, <2>2 DEF DropTable, Makes, Drops, Locks
<1>2. CASE o \in {DropIndex(i) : i \in DOMAIN Indexes}
  BY <1>2 DEF DropIndex, Drops, Makes, VersionTable, Table, Index
<1>3. CASE o = DropConstraint
  BY <1>3 DEF DropConstraint, Drops, Makes, VersionTable, Table, Foreign
<1>4. CASE o = Delete
  BY <1>4 DEF Delete, Drops, Makes, VersionTable, Table, Revision
<1> QED
  BY <1>1, <1>2, <1>3, <1>4 DEF Destroyers

\* What an operation condemns is gone once it has been executed, in a database
\* that was whole or empty of the schema.
LEMMA Condemning ==
  ASSUME NEW o \in Destroyers, NEW base, NEW gone,
         SchemaObjects \subseteq base \/ SchemaObjects \cap base = {},
         Possible(o, base \ gone)
  PROVE  Condemns(o) \subseteq gone \cup Drops(o, base \ gone)
<1>1. CASE o \in {DropTable(t) : t \in AllTables}
  <2>1. PICK t \in AllTables : o = DropTable(t)
    BY <1>1
  <2>2. Table(t) \in base
    BY <2>1 DEF DropTable, Possible
  <2>3. ASSUME NEW fk \in Inline(t)
        PROVE  Foreign(t, fk) \in base
    <3>1. t \in DOMAIN Tables
      BY ReferencesLead DEF AllTables
    <3>2. Table(t) \in SchemaObjects /\ Foreign(t, fk) \in SchemaObjects
      BY <3>1 DEF SchemaObjects, Inline, ForeignKeys
    <3> QED
      BY <2>2, <3>2
  <2>4. Condemns(o) = {Table(t)} \cup {Foreign(t, fk) : fk \in Inline(t)}
    BY <2>1, Effects
  <2>5. Drops(o, base \ gone) = Belongings(t, base \ gone)
    BY <2>1 DEF DropTable, Drops
  <2> QED
    BY <2>3, <2>4, <2>5 DEF Belongings
<1>2. CASE o \in {DropIndex(i) : i \in DOMAIN Indexes}
  BY <1>2 DEF DropIndex, Drops, Condemns
<1>3. CASE o = DropConstraint
  BY <1>3 DEF DropConstraint, Drops, Condemns
<1>4. CASE o = Delete
  BY <1>4 DEF Delete, Drops, Condemns
<1> QED
  BY <1>1, <1>2, <1>3, <1>4 DEF Destroyers

-----------------------------------------------------------------------------
(* The invariant.                                                          *)

Commands == {"upgrade", "downgrade"}

\* m makes what is not there yet and drops nothing.
Upgrading(m) ==
  /\ order[m].command = "upgrade"
  /\ dropped[m] = {} /\ Elements(todo[m]) \subseteq Builders
  /\ Whole \subseteq made[m] \cup Promised(Elements(todo[m]))

\* m drops what it has not dropped yet and makes nothing.
Downgrading(m) ==
  /\ order[m].command = "downgrade"
  /\ made[m] = {} /\ Elements(todo[m]) \subseteq Destroyers
  /\ Whole \subseteq dropped[m] \cup Condemned(Elements(todo[m]))

\* m has found nothing to do, but perhaps to make alembic's table.
Content(m) ==
  /\ order[m].command = "upgrade" <=> Revision \in seen[m]
  /\ dropped[m] = {} /\ made[m] \subseteq {VersionTable}
  /\ Elements(todo[m]) \subseteq {CreateTable("alembic_version")}

Purposeful ==
  \A m \in Migrators :
    phase[m] \notin Over => Upgrading(m) \/ Downgrading(m) \/ Content(m)

\* No two transactions on a database hold locks that exclude each other.
LocksApart ==
  \A m, n \in Migrators :
    m # n /\ target[m] = target[n] =>
      \A k \in locks[m], l \in locks[n] : ~Conflict(k, l)

\* Whoever has written the revision still sees the table it is written in,
\* and keeps others from dropping it.
VersionKept ==
  \A m \in Migrators :
    /\ Revision \in made[m] => /\ VersionTable \in View(m)
                               /\ <<"alembic_version", "write">> \in locks[m]
    /\ VersionTable \in dropped[m] =>
         <<"alembic_version", "exclusive">> \in locks[m]

\* Over and above TypeOK: programs, and that a run that is over has left
\* nothing behind.
Shape ==
  /\ order \in [Migrators -> {NULL} \cup
                  [command : Commands \cup {NULL}, setting : Settings \cup {NULL}]]
  /\ target \in [Migrators -> Databases \cup {NULL}]
  /\ todo \in [Migrators -> Seq(Operations)]
  /\ \A m \in Migrators :
       phase[m] \in Over => made[m] = {} /\ dropped[m] = {} /\ locks[m] = {}

Inv ==
  /\ TypeOK /\ Shape
  /\ Purposeful /\ LocksApart /\ VersionKept
  /\ AllOrNothing

\* Alone, locks that exclude each other are seen by both.
LEMMA ConflictSymmetric ==
  ASSUME NEW k, NEW l PROVE Conflict(k, l) <=> Conflict(l, k)
BY DEF Conflict

\* The empty databases satisfy the invariant.
LEMMA InitInv == Init => Inv
<1> SUFFICES ASSUME Init PROVE Inv
  OBVIOUS
<1>1. TypeOK
  BY DEF Init, TypeOK, Over
<1>2. Shape
  BY DEF Init, Shape
<1>3. Purposeful /\ LocksApart /\ VersionKept
  BY DEF Init, Purposeful, LocksApart, VersionKept, Over
<1>4. AllOrNothing
  BY DEF Init, AllOrNothing
<1> QED
  BY <1>1, <1>2, <1>3, <1>4 DEF Inv

\* What a run sets out to do, as its plan asks.
Sound(command, ops, d) ==
  \/ /\ command = "upgrade"
     /\ Elements(ops) \subseteq Builders /\ Whole \subseteq Promised(Elements(ops))
  \/ /\ command = "downgrade"
     /\ Elements(ops) \subseteq Destroyers /\ Whole \subseteq Condemned(Elements(ops))
  \/ /\ command = "upgrade" <=> Revision \in Versions(d)
     /\ Elements(ops) \subseteq {CreateTable("alembic_version")}

\* The elements of a short sequence.
LEMMA Singly ==
  /\ Elements(<<>>) = {}
  /\ \A a : Elements(<<a>>) = {a}
  /\ \A a, b : Elements(<<a, b>>) = {a, b}
<1>1. Elements(<<>>) = {}
  BY DEF Elements
<1>2. ASSUME NEW a PROVE Elements(<<a>>) = {a}
  <2>1. Len(<<a>>) = 1 /\ <<a>>[1] = a
    OBVIOUS
  <2> QED
    BY <2>1 DEF Elements
<1>3. ASSUME NEW a, NEW b PROVE Elements(<<a, b>>) = {a, b}
  <2>1. Len(<<a, b>>) = 2 /\ <<a, b>>[1] = a /\ <<a, b>>[2] = b
    OBVIOUS
  <2>2. 1 .. 2 = {1, 2}
    OBVIOUS
  <2> QED
    BY <2>1, <2>2 DEF Elements
<1> QED
  BY <1>1, <1>2, <1>3

\* Alembic's programs and the scripts are as the plans ask.
LEMMA Programs ==
  ASSUME NEW command \in Commands, NEW d \in Databases
  PROVE  /\ Migration(command, d) \in Seq(Operations)
         /\ Sound(command, Migration(command, d), d)
         /\ Script(command) \in Seq(Operations)
         /\ Sound(command, Script(command), d)
<1> DEFINE version == CreateTable("alembic_version")
<1>1. /\ version \in Builders /\ Insert \in Builders
      /\ Delete \in Destroyers /\ DropTable("alembic_version") \in Destroyers
      /\ Builders \subseteq Operations /\ Destroyers \subseteq Operations
  BY DEF Builders, Destroyers, Operations, AllTables
<1> HIDE DEF version
<1>2. ASSUME NEW first \in Seq(Builders),
             first = <<>> \/ first = <<version>>
      PROVE  LET ops == first \o Upgrade \o <<Insert>>
             IN  /\ ops \in Seq(Operations) /\ Elements(ops) \subseteq Builders
                 /\ Whole \subseteq Promised(Elements(ops))
  <2> DEFINE front == first \o Upgrade
  <2>1. /\ front \in Seq(Builders)
        /\ Elements(front) = Elements(first) \cup Elements(Upgrade)
    BY UpgradeElements, Concatenated
  <2> DEFINE last == <<Insert>>
  <2>2. last \in Seq(Builders) /\ Insert \in Elements(last)
    BY <1>1, Singly
  <2> HIDE DEF front, last
  <2> DEFINE ops == front \o last
  <2>3. /\ ops \in Seq(Builders)
        /\ Elements(ops) = Elements(front) \cup Elements(last)
    BY <2>1, <2>2, Concatenated
  <2>4. Elements(Upgrade) \subseteq Elements(ops) /\ Insert \in Elements(ops)
    BY <2>1, <2>2, <2>3
  <2> HIDE DEF ops
  <2>5. Elements(ops) \subseteq Builders /\ ops \in Seq(Operations)
    BY <2>3, <1>1 DEF Elements
  <2>6. Whole \subseteq Promised(Elements(ops))
    BY <2>4, UpgradeMakesAll
  <2> QED
    BY <2>5, <2>6 DEF ops, front, last
<1>3. ASSUME NEW last \in Seq(Destroyers), Delete \in Elements(last)
      PROVE  LET ops == Downgrade \o last
             IN  /\ ops \in Seq(Operations) /\ Elements(ops) \subseteq Destroyers
                 /\ Whole \subseteq Condemned(Elements(ops))
  <2> DEFINE ops == Downgrade \o last
  <2>1. /\ ops \in Seq(Destroyers)
        /\ Elements(ops) = Elements(Downgrade) \cup Elements(last)
    BY DowngradeElements, Concatenated
  <2> HIDE DEF ops
  <2>2. Elements(ops) \subseteq Destroyers /\ ops \in Seq(Operations)
    BY <2>1, <1>1 DEF Elements
  <2>3. Whole \subseteq Condemned(Elements(ops))
    BY <2>1, <1>3, DowngradeDropsAll
  <2> QED
    BY <2>2, <2>3 DEF ops
<1>4. /\ EnsureVersionTable(d) = <<>> \/ EnsureVersionTable(d) = <<version>>
      /\ EnsureVersionTable(d) \in Seq(Builders)
  BY <1>1 DEF EnsureVersionTable, version
<1>5. /\ <<Delete>> \in Seq(Destroyers) /\ Delete \in Elements(<<Delete>>)
      /\ <<Delete, DropTable("alembic_version")>> \in Seq(Destroyers)
      /\ Delete \in Elements(<<Delete, DropTable("alembic_version")>>)
  BY <1>1, Singly
<1>6. Migration(command, d) \in Seq(Operations) /\ Sound(command, Migration(command, d), d)
  <2>1. CASE command = "upgrade" /\ Revision \notin catalogue[d]
    <3>1. Migration(command, d) = EnsureVersionTable(d) \o Upgrade \o <<Insert>>
      BY <2>1 DEF Migration
    <3> QED
      BY <2>1, <3>1, <1>2, <1>4 DEF Sound
  <2>2. CASE command = "downgrade" /\ Revision \in catalogue[d]
    <3>1. Migration(command, d) = Downgrade \o <<Delete>>
      BY <2>2 DEF Migration
    <3> QED
      BY <2>2, <3>1, <1>3, <1>5 DEF Sound
  <2>3. CASE \/ command = "upgrade" /\ Revision \in catalogue[d]
             \/ command = "downgrade" /\ Revision \notin catalogue[d]
    <3>1. Migration(command, d) = EnsureVersionTable(d)
      BY <2>3 DEF Migration
    <3>2. Elements(Migration(command, d)) \subseteq {version}
      BY <3>1, <1>4, Singly
    <3>3. command = "upgrade" <=> Revision \in Versions(d)
      BY <2>3 DEF Versions
    <3>4. Migration(command, d) \in Seq(Operations)
      BY <3>1, <1>1, <1>4
    <3> QED
      BY <3>2, <3>3, <3>4 DEF Sound, version
  <2> QED
    BY <2>1, <2>2, <2>3 DEF Commands
<1>7. Script(command) \in Seq(Operations) /\ Sound(command, Script(command), d)
  <2>1. CASE command = "upgrade"
    <3>1. Script(command) = <<version>> \o Upgrade \o <<Insert>>
      BY <2>1 DEF Script, version
    <3>2. <<version>> \in Seq(Builders)
      BY <1>1
    <3> QED
      BY <2>1, <3>1, <3>2, <1>2 DEF Sound
  <2>2. CASE command = "downgrade"
    <3>1. Script(command) = Downgrade \o <<Delete, DropTable("alembic_version")>>
      BY <2>2 DEF Script
    <3> QED
      BY <2>2, <3>1, <1>3, <1>5 DEF Sound
  <2> QED
    BY <2>1, <2>2 DEF Commands
<1> QED
  BY <1>6, <1>7

-----------------------------------------------------------------------------
(* Every action keeps the invariant.                                       *)

\* A run that is refused has changed nothing.
LEMMA RefuseInv ==
  ASSUME Inv, NEW m \in Migrators, NEW setting \in Settings, Refuse(m, setting)
  PROVE  Inv'
<1> USE DEF Inv
<1>1. /\ phase'[m] = "refused" /\ phase[m] \in Over
      /\ \A n \in Migrators \ {m} : phase'[n] = phase[n] /\ order'[n] = order[n]
      /\ UNCHANGED <<catalogue, target, todo, seen, made, dropped, locks>>
  BY DEF Refuse, TypeOK, Shape
<1>2. TypeOK'
  BY <1>1 DEF TypeOK, Refuse, Over
<1>3. Shape'
  <2>1. order' \in [Migrators -> {NULL} \cup
                     [command : Commands \cup {NULL}, setting : Settings \cup {NULL}]]
    BY DEF Refuse, Shape
  <2> QED
    BY <1>1, <2>1 DEF Shape
<1>4. Purposeful'
  BY <1>1 DEF Purposeful, Over, Upgrading, Downgrading, Content
<1>5. LocksApart' /\ VersionKept' /\ AllOrNothing'
  BY <1>1 DEF LocksApart, VersionKept, View, AllOrNothing
<1> QED
  BY <1>2, <1>3, <1>4, <1>5

\* A run begins with a sound program, and with locks that nobody's exclude.
LEMMA BeginInv ==
  ASSUME Inv, NEW m \in Migrators, NEW mode \in {"online", "offline"},
         NEW command \in Commands, NEW setting \in Settings \cup {NULL},
         NEW d \in Databases, NEW ops \in Seq(Operations),
         Sound(command, ops, d), NEW held \in SUBSET LockTypes,
         Begin(m, mode, command, setting, d, ops, held)
  PROVE  Inv'
<1> USE DEF Inv
<1>1. /\ phase[m] \in Over /\ phase'[m] = mode
      /\ order'[m] = [command |-> command, setting |-> setting]
      /\ target'[m] = d /\ seen'[m] = Versions(d) /\ todo'[m] = ops
      /\ locks'[m] = held /\ made'[m] = {} /\ dropped'[m] = {}
      /\ \A n \in Migrators \ {m} :
           /\ phase'[n] = phase[n] /\ order'[n] = order[n] /\ target'[n] = target[n]
           /\ seen'[n] = seen[n] /\ todo'[n] = todo[n] /\ locks'[n] = locks[n]
      /\ catalogue' = catalogue /\ made' = made /\ dropped' = dropped
  BY DEF Begin, TypeOK, Shape
<1>2. TypeOK'
  <2>1. phase' \in [Migrators -> Over \cup {"online", "offline"}]
    BY DEF Begin, TypeOK
  <2>2. seen' \in [Migrators -> SUBSET {VersionTable, Revision}]
    BY DEF Begin, TypeOK, Versions
  <2>3. locks' \in [Migrators -> SUBSET LockTypes]
    BY DEF Begin, TypeOK, LockTypes
  <2>4. \A n \in Migrators :
          IF phase'[n] \in Over THEN todo'[n] = <<>> ELSE target'[n] \in Databases
    BY <1>1 DEF TypeOK, Over
  <2> QED
    BY <1>1, <2>1, <2>2, <2>3, <2>4 DEF TypeOK, LockTypes
<1>3. Shape'
  <2>1. order' \in [Migrators -> {NULL} \cup
                     [command : Commands \cup {NULL}, setting : Settings \cup {NULL}]]
    BY DEF Begin, Shape
  <2>2. target' \in [Migrators -> Databases \cup {NULL}]
    BY DEF Begin, Shape
  <2>3. todo' \in [Migrators -> Seq(Operations)]
    BY DEF Begin, Shape
  <2>4. \A n \in Migrators : phase'[n] \in Over =>
          made'[n] = {} /\ dropped'[n] = {} /\ locks'[n] = {}
    BY <1>1 DEF Shape, Over
  <2> QED
    BY <2>1, <2>2, <2>3, <2>4 DEF Shape
<1>4. Purposeful'
  <2>1. Upgrading(m)' \/ Downgrading(m)' \/ Content(m)'
    BY <1>1 DEF Sound, Upgrading, Downgrading, Content
  <2> QED
    BY <1>1, <2>1 DEF Purposeful, Upgrading, Downgrading, Content
<1>5. LocksApart'
  <2>1. ASSUME NEW n \in Migrators \ {m}, target'[n] = d,
               NEW k \in held, NEW l \in locks'[n]
        PROVE  ~Conflict(k, l)
    BY <1>1, <2>1 DEF Begin, Blocks
  <2> QED
    BY <1>1, <2>1, ConflictSymmetric DEF LocksApart
<1>6. VersionKept'
  BY <1>1 DEF VersionKept, View
<1>7. AllOrNothing'
  BY <1>1 DEF AllOrNothing
<1> QED
  BY <1>2, <1>3, <1>4, <1>5, <1>6, <1>7

\* A URL with another scheme leads to the same database.
LEMMA Normalised ==
  ASSUME NEW url \in Url
  PROVE  LET other == [url EXCEPT !.scheme = "postgresql+psycopg"]
         IN  /\ other.database = url.database
             /\ other.scheme = "postgresql+psycopg"
BY DEF Url

\* The URL that env.py goes by is as the operator has named it, but for the
\* scheme.
LEMMA CanonicalUrl ==
  ASSUME NEW m \in Migrators, NEW setting \in Settings
  PROVE  LET raw == IF setting # NULL THEN setting ELSE INI[m]
             url == get_canonical_database_url(setting, m)
         IN  /\ raw \in Url \cup {NULL}
             /\ raw = NULL => url = NULL
             /\ raw # NULL =>
                  /\ url # NULL /\ url.database = raw.database
                  /\ url.scheme = IF raw.scheme \in {"postgresql", "postgres"}
                                  THEN "postgresql+psycopg" ELSE raw.scheme
<1> DEFINE raw == IF setting # NULL THEN setting ELSE INI[m]
           url == get_canonical_database_url(setting, m)
<1>1. raw \in Url \cup {NULL}
  BY MigrationsAssumption
<1>2. url = IF raw # NULL /\ raw.scheme \in {"postgresql", "postgres"}
            THEN [raw EXCEPT !.scheme = "postgresql+psycopg"] ELSE raw
  BY Zenon DEF get_canonical_database_url
<1> HIDE DEF raw, url
<1>3. raw = NULL => url = NULL
  BY <1>2
<1>4. ASSUME raw # NULL PROVE url # NULL
  <2>1. [raw EXCEPT !.scheme = "postgresql+psycopg"] =
          [scheme |-> "postgresql+psycopg", database |-> raw.database]
    BY <1>1, <1>4 DEF Url, Schemes
  <2>2. [scheme |-> "postgresql+psycopg", database |-> raw.database] \in Url
    BY <1>1, <1>4 DEF Url, Schemes
  <2> QED
    BY <1>2, <1>4, <2>1, <2>2, MigrationsAssumption
<1>5. raw # NULL => /\ url.database = raw.database
                    /\ url.scheme = IF raw.scheme \in {"postgresql", "postgres"}
                                    THEN "postgresql+psycopg" ELSE raw.scheme
  BY <1>1, <1>2, Normalised
<1> QED
  BY <1>1, <1>3, <1>4, <1>5 DEF raw, url

\* Online, the first lock is a reader's.
LEMMA OnlineInv ==
  ASSUME Inv, NEW m \in Migrators, run_migrations_online(m)
  PROVE  Inv'
<1>1. PICK command \in Commands, setting \in Settings :
        LET url == get_canonical_database_url(setting, m) IN
          IF Connects(url)
          THEN Begin(m, "online", command, setting, url.database,
                     Migration(command, url.database), Reading(url.database))
          ELSE Refuse(m, setting)
  BY DEF run_migrations_online, Commands
<1> DEFINE url == get_canonical_database_url(setting, m)
<1>2. CASE Connects(url)
  <2>1. url.database \in Databases
    BY <1>2, CanonicalUrl DEF Connects, Url
  <2>2. Reading(url.database) \in SUBSET LockTypes
    BY DEF Reading, LockTypes
  <2> HIDE DEF url
  <2> QED
    BY <1>1, <1>2, <2>1, <2>2, Programs, BeginInv DEF url
<1>3. CASE ~Connects(url)
  BY <1>1, <1>3, RefuseInv
<1> QED
  BY <1>2, <1>3

\* Offline, no lock is held at first.
LEMMA OfflineInv ==
  ASSUME Inv, NEW m \in Migrators, run_migrations_offline(m)
  PROVE  Inv'
<1>1. PICK command \in Commands, setting \in Settings :
        IF Dialect(get_canonical_database_url(setting, m))
        THEN \E d \in Reachable :
               Begin(m, "offline", command, NULL, d, Script(command), {})
        ELSE Refuse(m, setting)
  BY DEF run_migrations_offline, Commands
<1>2. ASSUME NEW d \in Reachable,
             Begin(m, "offline", command, NULL, d, Script(command), {})
      PROVE  Inv'
  <2>1. d \in Databases
    BY MigrationsAssumption
  <2>2. Script(command) \in Seq(Operations) /\ Sound(command, Script(command), d)
    BY <2>1, Programs
  <2>3. /\ "offline" \in {"online", "offline"} /\ NULL \in Settings \cup {NULL}
        /\ {} \in SUBSET LockTypes
    OBVIOUS
  <2> QED
    BY <1>2, <2>1, <2>2, <2>3, BeginInv
<1> QED
  BY <1>1, <1>2, RefuseInv

\* The end of a run, given that the databases it leaves are in order, and
\* that nobody else loses the version table.
LEMMA EndInv ==
  ASSUME Inv, NEW m \in Migrators, End(m),
         catalogue' \in [Databases -> SUBSET Objects], AllOrNothing',
         \A n \in Migrators \ {m} :
           Revision \in made[n] => VersionTable \in View(n)'
  PROVE  Inv'
<1> USE DEF Inv
<1>1. /\ phase'[m] = "idle" /\ todo'[m] = <<>> /\ made'[m] = {}
      /\ dropped'[m] = {} /\ locks'[m] = {}
      /\ \A n \in Migrators \ {m} :
           /\ phase'[n] = phase[n] /\ order'[n] = order[n] /\ target'[n] = target[n]
           /\ seen'[n] = seen[n] /\ todo'[n] = todo[n] /\ locks'[n] = locks[n]
           /\ made'[n] = made[n] /\ dropped'[n] = dropped[n]
  BY DEF End, TypeOK, Shape
<1>2. TypeOK'
  <2>1. /\ phase' \in [Migrators -> Over \cup {"online", "offline"}]
        /\ seen' \in [Migrators -> SUBSET {VersionTable, Revision}]
        /\ made' \in [Migrators -> SUBSET Objects]
        /\ dropped' \in [Migrators -> SUBSET Objects]
    BY DEF End, TypeOK, Over
  <2>2. locks' \in [Migrators -> SUBSET LockTypes]
    BY DEF End, TypeOK, LockTypes
  <2>3. \A n \in Migrators :
          IF phase'[n] \in Over THEN todo'[n] = <<>> ELSE target'[n] \in Databases
    BY <1>1 DEF TypeOK, Over
  <2> QED
    BY <2>1, <2>2, <2>3 DEF TypeOK, LockTypes
<1>3. Shape'
  <2>1. /\ order' \in [Migrators -> {NULL} \cup
                        [command : Commands \cup {NULL}, setting : Settings \cup {NULL}]]
        /\ target' \in [Migrators -> Databases \cup {NULL}]
    BY DEF End, Shape
  <2>2. todo' \in [Migrators -> Seq(Operations)]
    BY DEF End, Shape
  <2> QED
    BY <1>1, <2>1, <2>2 DEF Shape
<1>4. Purposeful'
  BY <1>1 DEF Purposeful, Over, Upgrading, Downgrading, Content
<1>5. LocksApart'
  BY <1>1 DEF LocksApart
<1>6. VersionKept'
  BY <1>1 DEF VersionKept
<1> QED
  BY <1>2, <1>3, <1>4, <1>5, <1>6

\* A run that ends without a commit leaves the databases as they are.
LEMMA AbandonInv ==
  ASSUME Inv, NEW m \in Migrators, End(m), UNCHANGED catalogue
  PROVE  Inv'
<1>1. \A n \in Migrators \ {m} :
        Revision \in made[n] => VersionTable \in View(n)'
  BY DEF Inv, VersionKept, View, End, TypeOK, Shape
<1> QED
  BY <1>1, EndInv DEF Inv, TypeOK, AllOrNothing

\* An operation adds to what m has made or dropped what it takes off the
\* plan, and no lock that another's excludes.
LEMMA ExecuteInv ==
  ASSUME Inv, NEW m \in Migrators, Execute(m)
  PROVE  Inv'
<1> USE DEF Inv
<1> DEFINE o == Head(todo[m])
           c == View(m)
<1>1. /\ phase[m] \notin Over /\ todo[m] \in Seq(Operations) /\ todo[m] # <<>>
      /\ ~Waits(m) /\ Possible(o, c)
      /\ made'[m] = (made[m] \ Drops(o, c)) \cup Makes(o)
      /\ dropped'[m] = dropped[m] \cup Drops(o, c)
      /\ locks'[m] = locks[m] \cup Locks(o)
      /\ todo'[m] = Tail(todo[m])
      /\ \A n \in Migrators \ {m} :
           /\ made'[n] = made[n] /\ dropped'[n] = dropped[n]
           /\ todo'[n] = todo[n] /\ locks'[n] = locks[n]
      /\ UNCHANGED <<catalogue, phase, order, target, seen>>
  BY DEF Execute, TypeOK, Shape
<1>2. /\ Tail(todo[m]) \in Seq(Operations) /\ o \in Operations
      /\ Elements(todo[m]) = {o} \cup Elements(Tail(todo[m]))
  BY <1>1, HeadAndTail
<1>3. target[m] \in Databases /\ c \in SUBSET Objects
  BY <1>1 DEF TypeOK, View
<1>4. Makes(o) \subseteq Objects /\ Drops(o, c) \subseteq Objects
      /\ Locks(o) \subseteq LockTypes
  BY <1>2, <1>3, OperationTypes
<1> HIDE DEF o, c
<1>5. TypeOK'
  <2>1. made' \in [Migrators -> SUBSET Objects]
    BY <1>4 DEF Execute, TypeOK, o, c
  <2>2. dropped' \in [Migrators -> SUBSET Objects]
    BY <1>4 DEF Execute, TypeOK, o, c
  <2>3. locks' \in [Migrators -> SUBSET LockTypes]
    BY <1>4 DEF Execute, TypeOK, LockTypes, o
  <2>4. \A n \in Migrators :
          IF phase'[n] \in Over THEN todo'[n] = <<>> ELSE target'[n] \in Databases
    BY <1>1 DEF TypeOK
  <2> QED
    BY <1>1, <2>1, <2>2, <2>3, <2>4 DEF TypeOK, LockTypes
<1>6. Shape'
  <2>1. todo' \in [Migrators -> Seq(Operations)]
    BY <1>2 DEF Execute, Shape
  <2> QED
    BY <1>1, <2>1 DEF Shape
<1> DEFINE Planned == Upgrading(m)' \/ Downgrading(m)' \/ Content(m)'
           Kept == /\ Revision \in made'[m] =>
                        /\ VersionTable \in View(m)'
                        /\ <<"alembic_version", "write">> \in locks'[m]
                   /\ VersionTable \in dropped'[m] =>
                        <<"alembic_version", "exclusive">> \in locks'[m]
<1>7. ASSUME Upgrading(m) PROVE Planned /\ Kept
  <2>1. /\ o \in Builders /\ Drops(o, c) = {} /\ dropped'[m] = {}
        /\ made'[m] = made[m] \cup Makes(o)
    BY <1>1, <1>2, <1>7, Building DEF Upgrading
  <2>2. Promised(Elements(todo[m])) = Makes(o) \cup Promised(Elements(Tail(todo[m])))
    BY <1>2 DEF Promised
  <2>3. Upgrading(m)'
    BY <1>1, <1>2, <1>7, <2>1, <2>2 DEF Upgrading
  <2>4. Revision \in made'[m] => /\ VersionTable \in View(m)'
                                 /\ <<"alembic_version", "write">> \in locks'[m]
    BY <1>1, <1>7, <2>1, Building DEF VersionKept, View, Upgrading, c
  <2> QED
    BY <2>1, <2>3, <2>4
<1>8. ASSUME Downgrading(m) PROVE Planned /\ Kept
  <2>1. /\ o \in Destroyers /\ Makes(o) = {} /\ made'[m] = {}
    BY <1>1, <1>2, <1>8, Destroying DEF Downgrading
  <2>2. c = catalogue[target[m]] \ dropped[m]
    BY <1>8 DEF Downgrading, View, c
  <2>3. Condemns(o) \subseteq dropped'[m]
    <3>1. \/ SchemaObjects \subseteq catalogue[target[m]]
          \/ SchemaObjects \cap catalogue[target[m]] = {}
      BY <1>3 DEF AllOrNothing
    <3>2. Condemns(o) \subseteq dropped[m] \cup Drops(o, c)
      BY <1>1, <2>1, <2>2, <3>1, Condemning
    <3> QED
      BY <1>1, <3>2
  <2>4. Condemned(Elements(todo[m])) =
          Condemns(o) \cup Condemned(Elements(Tail(todo[m])))
    BY <1>2 DEF Condemned
  <2>5. Downgrading(m)'
    BY <1>1, <1>2, <1>8, <2>1, <2>3, <2>4 DEF Downgrading
  <2>6. VersionTable \in dropped'[m] =>
          <<"alembic_version", "exclusive">> \in locks'[m]
    BY <1>1, <2>1, Destroying DEF VersionKept
  <2> QED
    BY <2>1, <2>5, <2>6
<1>9. ASSUME Content(m) PROVE Planned /\ Kept
  <2>1. o = CreateTable("alembic_version") /\ o \in Builders
    BY <1>2, <1>9 DEF Content, Builders, AllTables
  <2>2. Makes(o) = {VersionTable} /\ Drops(o, c) = {}
    BY <2>1, Effects, ReferencesLead, Building DEF VersionTable
  <2>3. Content(m)' /\ dropped'[m] = {}
    BY <1>1, <1>2, <1>9, <2>2 DEF Content
  <2>4. Revision \notin made'[m]
    BY <2>3, ObjectsApart DEF Content, VersionTable
  <2> QED
    BY <2>3, <2>4
<1>10. Purposeful'
  <2>1. Planned
    BY <1>1, <1>7, <1>8, <1>9 DEF Purposeful
  <2> QED
    BY <1>1, <2>1 DEF Purposeful, Upgrading, Downgrading, Content
<1>11. LocksApart'
  <2>1. ~Taken(m)
    BY <1>1 DEF Taken, Possible, o, c
  <2>2. ASSUME NEW n \in Migrators \ {m}, target[n] = target[m],
               NEW k \in Locks(o), NEW l \in locks[n]
        PROVE  ~Conflict(k, l)
    BY <1>1, <2>1, <2>2 DEF Waits, WaitsFor, Blocks, o
  <2>3. ASSUME NEW n \in Migrators \ {m}, target[n] = target[m],
               NEW k \in locks'[m], NEW l \in locks[n]
        PROVE  ~Conflict(k, l)
    BY <1>1, <2>2, <2>3 DEF LocksApart
  <2> QED
    BY <1>1, <2>3, ConflictSymmetric DEF LocksApart
<1>12. VersionKept'
  <2>1. Kept
    BY <1>1, <1>7, <1>8, <1>9 DEF Purposeful
  <2>2. ASSUME NEW n \in Migrators \ {m} PROVE View(n)' = View(n)
    BY <1>1 DEF View
  <2> QED
    BY <1>1, <2>1, <2>2 DEF VersionKept
<1>13. AllOrNothing'
  BY <1>1 DEF AllOrNothing
<1> QED
  BY <1>5, <1>6, <1>10, <1>11, <1>12, <1>13

\* What a run that has come to its end would commit.
LEMMA Completed ==
  ASSUME Inv, NEW m \in Migrators, phase[m] \notin Over, todo[m] = <<>>
  PROVE  \/ /\ order[m].command = "upgrade"
            /\ Whole \cup {VersionTable} \subseteq View(m)
         \/ /\ order[m].command = "downgrade"
            /\ Whole \cap View(m) = {}
         \/ /\ order[m].command = "upgrade" <=> Revision \in seen[m]
            /\ \A o \in Whole : o \in View(m) <=> o \in catalogue[target[m]]
            /\ catalogue[target[m]] \subseteq View(m)
<1> USE DEF Inv
<1>1. /\ Promised(Elements(todo[m])) = {} /\ Condemned(Elements(todo[m])) = {}
  BY Singly DEF Promised, Condemned
<1>2. CASE Upgrading(m)
  <2>1. Whole \subseteq made[m]
    BY <1>1, <1>2 DEF Upgrading
  <2>2. VersionTable \in View(m)
    BY <2>1 DEF Whole, VersionKept
  <2> QED
    BY <1>2, <2>1, <2>2 DEF Upgrading, View
<1>3. CASE Downgrading(m)
  BY <1>1, <1>3 DEF Downgrading, View
<1>4. CASE Content(m)
  <2>1. VersionTable \notin Whole
    BY Names, ObjectsApart DEF Whole, SchemaObjects, VersionTable, Table
  <2> QED
    BY <1>4, <2>1 DEF Content, View
<1> QED
  BY <1>2, <1>3, <1>4 DEF Purposeful

\* A commit leaves a database with all of it or with nothing, and takes the
\* version table from nobody who has written to it.
LEMMA CommitInv ==
  ASSUME Inv, NEW m \in Migrators, Commit(m)
  PROVE  Inv'
<1> USE DEF Inv
<1>1. /\ phase[m] \notin Over /\ todo[m] = <<>> /\ target[m] \in Databases
      /\ catalogue' = [catalogue EXCEPT ![target[m]] = View(m)]
      /\ End(m)
  BY DEF Commit, TypeOK
<1>2. View(m) \in SUBSET Objects
  BY <1>1 DEF View, TypeOK
<1>3. catalogue' \in [Databases -> SUBSET Objects]
  BY <1>1, <1>2 DEF TypeOK
<1>4. catalogue'[target[m]] = View(m)
      /\ \A d \in Databases \ {target[m]} : catalogue'[d] = catalogue[d]
  BY <1>1 DEF TypeOK
<1>5. IF Revision \in View(m)
      THEN SchemaObjects \cup {VersionTable} \subseteq View(m)
      ELSE SchemaObjects \cap View(m) = {}
  BY <1>1, Completed DEF Whole, AllOrNothing
<1>6. AllOrNothing'
  BY <1>4, <1>5 DEF AllOrNothing
<1>7. ASSUME NEW n \in Migrators \ {m}, Revision \in made[n]
      PROVE  VersionTable \in View(n)'
  <2>1. target'[n] = target[n] /\ made'[n] = made[n] /\ dropped'[n] = dropped[n]
    BY <1>1 DEF End, TypeOK, Shape
  <2>2. /\ VersionTable \in View(n)
        /\ <<"alembic_version", "write">> \in locks[n]
        /\ phase[n] \notin Over
    BY <1>7 DEF VersionKept, Shape
  <2>3. target[n] \in Databases
    BY <2>2 DEF TypeOK
  <2>4. CASE target[n] # target[m]
    BY <1>4, <2>1, <2>2, <2>3, <2>4 DEF View
  <2>5. CASE target[n] = target[m]
    <3>1. VersionTable \notin dropped[m]
      <4>1. Conflict(<<"alembic_version", "write">>,
                     <<"alembic_version", "exclusive">>)
        BY DEF Conflict
      <4> QED
        BY <2>2, <2>5, <4>1 DEF LocksApart, VersionKept
    <3>2. VersionTable \in made[n] \/ VersionTable \in View(m) \ dropped[n]
      BY <2>2, <2>5, <3>1 DEF View
    <3> QED
      BY <1>4, <2>1, <2>5, <3>2 DEF View
  <2> QED
    BY <2>4, <2>5
<1> QED
  BY <1>1, <1>3, <1>6, <1>7, EndInv

\* Every step keeps the invariant.
LEMMA NextInv == Inv /\ [Next]_vars => Inv'
<1> SUFFICES ASSUME Inv, [Next]_vars PROVE Inv'
  OBVIOUS
<1>1. ASSUME NEW m \in Migrators, run_migrations_online(m) PROVE Inv'
  BY <1>1, OnlineInv
<1>2. ASSUME NEW m \in Migrators, run_migrations_offline(m) PROVE Inv'
  BY <1>2, OfflineInv
<1>3. ASSUME NEW m \in Migrators, Execute(m) PROVE Inv'
  BY <1>3, ExecuteInv
<1>4. ASSUME NEW m \in Migrators, Fail(m) \/ Victim(m) \/ Crash(m) PROVE Inv'
  BY <1>4, AbandonInv DEF Fail, Victim, Crash
<1>5. ASSUME NEW m \in Migrators, Commit(m) PROVE Inv'
  BY <1>5, CommitInv
<1>6. ASSUME UNCHANGED vars PROVE Inv'
  BY <1>6 DEF vars, Inv, TypeOK, Shape, Purposeful, Upgrading, Downgrading,
              Content, LocksApart, VersionKept, View, AllOrNothing
<1> QED
  BY <1>1, <1>2, <1>3, <1>4, <1>5, <1>6 DEF Next

-----------------------------------------------------------------------------
(* The theorems.                                                           *)

\* The invariant holds of every behaviour: for any number of operators and of
\* databases, and whatever URLs they use.
THEOREM Invariance == Spec => []Inv
BY InitInv, NextInv, PTL DEF Spec

\* The state of the migrations keeps its types.
THEOREM TypeCorrect == Spec => []TypeOK
<1>1. Inv => TypeOK
  BY DEF Inv
<1> QED
  BY <1>1, Invariance, PTL

\* No database is ever left with half a schema, or with one that it does not
\* say it has.
THEOREM AlwaysAllOrNothing == Spec => []AllOrNothing
<1>1. Inv => AllOrNothing
  BY DEF Inv
<1> QED
  BY <1>1, Invariance, PTL

\* A run that commits, and that nobody has overtaken, has brought its database
\* to where its command says.
THEOREM SuccessAlwaysMeansDone == Spec => SuccessMeansDone
<1>1. ASSUME Inv, NEW m \in Migrators, Commit(m), ~Overtaken(m)
      PROVE  order[m].command = "upgrade" <=> Revision \in catalogue'[target[m]]
  <2>1. phase[m] \notin Over /\ todo[m] = <<>> /\ target[m] \in Databases
    BY <1>1 DEF Commit, Inv, TypeOK
  <2>2. catalogue'[target[m]] = View(m)
    BY <1>1, <2>1 DEF Commit, Inv, TypeOK
  <2>3. Revision \in catalogue[target[m]] <=> Revision \in seen[m]
    BY <1>1 DEF Overtaken, Versions
  <2> QED
    BY <1>1, <2>1, <2>2, <2>3, Completed DEF Whole
<1>2. Inv =>
        [\A m \in Migrators :
           Commit(m) /\ ~Overtaken(m) =>
             (order[m].command = "upgrade" <=> Revision \in catalogue'[target[m]])]_vars
  BY <1>1
<1> QED
  BY <1>2, Invariance, PTL DEF SuccessMeansDone

\* An online run works on the database that its operator has named.
THEOREM AlwaysGoesWhereTold == Spec => []GoesWhereTold
<1>1. Init => GoesWhereTold
  BY DEF Init, GoesWhereTold
<1>2. Inv /\ GoesWhereTold /\ [Next]_vars => GoesWhereTold'
  <2> SUFFICES ASSUME Inv, GoesWhereTold, [Next]_vars
               PROVE  GoesWhereTold'
    OBVIOUS
  <2> DEFINE Told(m) ==
        /\ phase[m] = "online" => Named(m) # NULL /\ target[m] = Named(m).database
        /\ phase[m] = "refused" =>
             \/ Named(m) = NULL
             \/ Named(m).scheme \notin {"postgres", "postgresql", "postgresql+psycopg"}
  <2>1. ASSUME NEW n \in Migrators, phase'[n] = phase[n],
               order'[n] = order[n], target'[n] = target[n]
        PROVE  Told(n)'
    BY <2>1 DEF GoesWhereTold, Named
  <2>2. ASSUME NEW m \in Migrators, run_migrations_online(m)
        PROVE  GoesWhereTold'
    <3>1. PICK command \in Commands, setting \in Settings :
            LET url == get_canonical_database_url(setting, m) IN
              IF Connects(url)
              THEN Begin(m, "online", command, setting, url.database,
                         Migration(command, url.database), Reading(url.database))
              ELSE Refuse(m, setting)
      BY <2>2 DEF run_migrations_online, Commands
    <3> DEFINE url == get_canonical_database_url(setting, m)
               raw == IF setting # NULL THEN setting ELSE INI[m]
    <3>2. Told(m)'
      <4>1. CASE Connects(url)
        <5>1. /\ phase'[m] = "online" /\ order'[m].setting = setting
              /\ target'[m] = url.database
          BY <3>1, <4>1 DEF Begin, Inv, TypeOK, Shape
        <5>2. raw # NULL /\ url.database = raw.database
          BY <4>1, CanonicalUrl DEF Connects
        <5> QED
          BY <5>1, <5>2 DEF Named
      <4>2. CASE ~Connects(url)
        <5>1. phase'[m] = "refused" /\ order'[m].setting = setting
          BY <3>1, <4>2 DEF Refuse, Inv, TypeOK, Shape
        <5>2. \/ raw = NULL
              \/ raw.scheme \notin {"postgres", "postgresql", "postgresql+psycopg"}
          BY <4>2, CanonicalUrl DEF Connects
        <5> QED
          BY <5>1, <5>2 DEF Named
      <4> QED
        BY <4>1, <4>2
    <3>3. \A n \in Migrators \ {m} :
            phase'[n] = phase[n] /\ order'[n] = order[n] /\ target'[n] = target[n]
      BY <3>1 DEF Begin, Refuse, Inv, TypeOK, Shape
    <3> QED
      BY <2>1, <3>2, <3>3 DEF GoesWhereTold
  <2>3. ASSUME NEW m \in Migrators, run_migrations_offline(m)
        PROVE  GoesWhereTold'
    <3>1. PICK command \in Commands, setting \in Settings :
            IF Dialect(get_canonical_database_url(setting, m))
            THEN \E d \in Reachable :
                   Begin(m, "offline", command, NULL, d, Script(command), {})
            ELSE Refuse(m, setting)
      BY <2>3 DEF run_migrations_offline, Commands
    <3> DEFINE url == get_canonical_database_url(setting, m)
               raw == IF setting # NULL THEN setting ELSE INI[m]
    <3>2. Told(m)'
      <4>1. CASE Dialect(url)
        BY <3>1, <4>1 DEF Begin, Inv, TypeOK
      <4>2. CASE ~Dialect(url)
        <5>1. phase'[m] = "refused" /\ order'[m].setting = setting
          BY <3>1, <4>2 DEF Refuse, Inv, TypeOK, Shape
        <5>2. \/ raw = NULL
              \/ raw.scheme \notin {"postgres", "postgresql", "postgresql+psycopg"}
          BY <4>2, CanonicalUrl DEF Dialect
        <5> QED
          BY <5>1, <5>2 DEF Named
      <4> QED
        BY <4>1, <4>2
    <3>3. \A n \in Migrators \ {m} :
            phase'[n] = phase[n] /\ order'[n] = order[n] /\ target'[n] = target[n]
      BY <3>1 DEF Begin, Refuse, Inv, TypeOK, Shape
    <3> QED
      BY <2>1, <3>2, <3>3 DEF GoesWhereTold
  <2>4. ASSUME NEW m \in Migrators, Execute(m)
        PROVE  GoesWhereTold'
    BY <2>1, <2>4 DEF Execute, GoesWhereTold
  <2>5. ASSUME NEW m \in Migrators, End(m)
        PROVE  GoesWhereTold'
    <3>1. Told(m)'
      BY <2>5 DEF End, Inv, TypeOK
    <3>2. \A n \in Migrators \ {m} :
            phase'[n] = phase[n] /\ order'[n] = order[n] /\ target'[n] = target[n]
      BY <2>5 DEF End, Inv, TypeOK, Shape
    <3> QED
      BY <2>1, <3>1, <3>2 DEF GoesWhereTold
  <2>6. CASE UNCHANGED vars
    BY <2>1, <2>6 DEF vars, GoesWhereTold
  <2> QED
    BY <2>2, <2>3, <2>4, <2>5, <2>6 DEF Next, Fail, Victim, Commit, Crash
<1> QED
  BY <1>1, <1>2, Invariance, PTL DEF Spec
=============================================================================
