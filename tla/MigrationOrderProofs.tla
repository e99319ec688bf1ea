------------------------ MODULE MigrationOrderProofs ------------------------
(***************************************************************************)
(* The order in which a run of alembic works: every operation is possible  *)
(* where the one before it has left the database, and runs of alembic,     *)
(* which all begin by locking the version table, never wait for one        *)
(* another in a circle.                                                    *)
(***************************************************************************)
EXTENDS MigrationsProofs, SequenceTheorems

-----------------------------------------------------------------------------
(* Programs that work.                                                     *)

\* What an operation takes away from a catalogue that has everything.
Takes(o) == Drops(o, Objects)

Apply(o, c) == (c \ Takes(o)) \cup Makes(o)

\* What the first k operations of ops take away and make.
TakenBy(ops, k) == UNION {Takes(ops[j]) : j \in 1 .. k}
MadeBy(ops, k) == UNION {Makes(ops[j]) : j \in 1 .. k}

\* Every operation of ops is possible once those before it are done, in a
\* database that holds c at first.
Works(ops, c) ==
  \A i \in 1 .. Len(ops) :
    Possible(ops[i], (c \ TakenBy(ops, i - 1)) \cup MadeBy(ops, i - 1))

\* Operations either all build or all destroy.
OneWay(ops) == Elements(ops) \subseteq Builders \/ Elements(ops) \subseteq Destroyers

-----------------------------------------------------------------------------
(* The invariant of a run of alembic.                                      *)

\* The catalogue that m began with, given the version objects in it.
Base(m) == IF Revision \in seen[m] THEN Objects ELSE seen[m]

\* What m would see if it were alone.
Expected(m) == (Base(m) \ dropped[m]) \cup made[m]

VersionDDL == {CreateTable("alembic_version"), DropTable("alembic_version")}

\* What a run of alembic has yet to do works.
Prepared(m) ==
  phase[m] = "online" =>
    /\ DropTable("alembic_version") \notin Elements(todo[m])
    /\ Works(todo[m], Expected(m))

\* m has taken the first step of upgrade, or of downgrade: it has made the
\* first table, or dropped the constraint on attempts.
Rising(m) == Table("datasets") \in made[m]
Falling(m) == Foreign("attempts", circular_fk) \in dropped[m]

\* Either step takes a lock for which the others wait, and so keeps them from
\* moving the database to another revision.
Marked(m) ==
  /\ Rising(m) => /\ <<"datasets", "exclusive">> \in locks[m]
                  /\ Revision \notin catalogue[target[m]]
  /\ Falling(m) => /\ <<"attempts", "exclusive">> \in locks[m]
                   /\ Revision \in catalogue[target[m]]

\* The rest of a program, once there is a version table.
UpgradeProper == Upgrade \o <<Insert>>
DowngradeProper == Downgrade \o <<Delete>>

\* m has not touched the schema, and locked at most the version table.
Early(m) ==
  /\ locks[m] \subseteq {"alembic_version"} \X {"read", "exclusive"}
  /\ \/ todo[m] = <<>>
     \/ /\ todo[m] \in {UpgradeProper, DowngradeProper}
        /\ locks[m] # {}
     \/ /\ todo[m] \in {<<CreateTable("alembic_version")>>,
                        <<CreateTable("alembic_version")>> \o UpgradeProper}
        /\ locks[m] = {}

\* m has taken the first step, and holds on to the version table.
Late(m) ==
  /\ Rising(m) \/ Falling(m)
  /\ \E mode \in {"read", "write", "exclusive"} :
       <<"alembic_version", mode>> \in locks[m]
  /\ Elements(todo[m]) \cap VersionDDL = {}

Staged(m) == phase[m] = "online" => Early(m) \/ Late(m)

OrderInv ==
  Inv /\ \A m \in Migrators : Prepared(m) /\ Marked(m) /\ Staged(m)

-----------------------------------------------------------------------------
(* How programs that work are put together.                                *)

\* Operations that build take nothing away, those that destroy make nothing.
LEMMA OneWayEffects ==
  ASSUME NEW ops, OneWay(ops)
  PROVE  \/ \A j \in 1 .. Len(ops) : Takes(ops[j]) = {}
         \/ \A j \in 1 .. Len(ops) : Makes(ops[j]) = {}
<1>1. \A j \in 1 .. Len(ops) : ops[j] \in Elements(ops)
  BY DEF Elements
<1> QED
  BY <1>1, Building, Destroying DEF OneWay, Takes

\* The effects of the first operations, by the first and the rest.
LEMMA FirstEffects ==
  ASSUME NEW ops \in Seq(Operations), ops # <<>>, NEW k \in 0 .. Len(ops) - 1
  PROVE  /\ TakenBy(ops, k + 1) = Takes(Head(ops)) \cup TakenBy(Tail(ops), k)
         /\ MadeBy(ops, k + 1) = Makes(Head(ops)) \cup MadeBy(Tail(ops), k)
<1>1. /\ Head(ops) = ops[1] /\ Len(ops) \in Nat /\ Len(Tail(ops)) = Len(ops) - 1
      /\ \A i \in 1 .. Len(ops) - 1 : Tail(ops)[i] = ops[i + 1]
  OBVIOUS
<1>2. ASSUME NEW j \in 1 .. k + 1
      PROVE  j = 1 \/ \E i \in 1 .. k : Tail(ops)[i] = ops[j]
  <2>1. CASE j # 1
    <3>1. j - 1 \in 1 .. k /\ Tail(ops)[j - 1] = ops[j]
      BY <1>1, <2>1
    <3> QED
      BY <3>1
  <2> QED
    BY <2>1
<1>3. ASSUME NEW i \in 1 .. k
      PROVE  i + 1 \in 1 .. k + 1 /\ Tail(ops)[i] = ops[i + 1]
  BY <1>1
<1>4. 1 \in 1 .. k + 1
  OBVIOUS
<1>5. ASSUME NEW x
      PROVE  x \in TakenBy(ops, k + 1)
               <=> x \in Takes(Head(ops)) \cup TakenBy(Tail(ops), k)
  BY <1>1, <1>2, <1>3, <1>4 DEF TakenBy
<1>6. ASSUME NEW x
      PROVE  x \in MadeBy(ops, k + 1)
               <=> x \in Makes(Head(ops)) \cup MadeBy(Tail(ops), k)
  BY <1>1, <1>2, <1>3, <1>4 DEF MadeBy
<1> QED
  BY <1>5, <1>6

\* A program works if its first operation is possible and the rest works
\* after it.
LEMMA WorksByParts ==
  ASSUME NEW ops \in Seq(Operations), ops # <<>>, OneWay(ops), NEW c
  PROVE  Works(ops, c) <=> /\ Possible(Head(ops), c)
                           /\ Works(Tail(ops), Apply(Head(ops), c))
<1> DEFINE At(i) == (c \ TakenBy(ops, i - 1)) \cup MadeBy(ops, i - 1)
           rest == Tail(ops)
           d == Apply(Head(ops), c)
           AtRest(i) == (d \ TakenBy(rest, i - 1)) \cup MadeBy(rest, i - 1)
<1>1. /\ Head(ops) = ops[1] /\ Len(ops) \in Nat \ {0} /\ Len(rest) = Len(ops) - 1
      /\ \A i \in 1 .. Len(ops) - 1 : rest[i] = ops[i + 1]
  OBVIOUS
<1>2. At(1) = c
  BY DEF TakenBy, MadeBy
<1>3. ASSUME NEW i \in 1 .. Len(rest)
      PROVE  At(i + 1) = AtRest(i)
  <2>1. i - 1 \in 0 .. Len(ops) - 1 /\ (i - 1) + 1 = i /\ (i + 1) - 1 = i
    BY <1>1
  <2>2. /\ TakenBy(ops, i) = Takes(Head(ops)) \cup TakenBy(rest, i - 1)
        /\ MadeBy(ops, i) = Makes(Head(ops)) \cup MadeBy(rest, i - 1)
    <3> HIDE DEF rest
    <3>1. /\ TakenBy(ops, (i - 1) + 1) = Takes(Head(ops)) \cup TakenBy(rest, i - 1)
          /\ MadeBy(ops, (i - 1) + 1) = Makes(Head(ops)) \cup MadeBy(rest, i - 1)
      BY <2>1, FirstEffects DEF rest
    <3> QED
      BY <2>1, <3>1
  <2>3. ASSUME NEW j \in 1 .. i - 1
        PROVE  j + 1 \in 1 .. Len(ops) /\ rest[j] = ops[j + 1]
    BY <1>1
  <2>4. CASE \A j \in 1 .. Len(ops) : Takes(ops[j]) = {}
    <3>1. TakenBy(rest, i - 1) = {}
      BY <2>3, <2>4 DEF TakenBy
    <3> QED
      BY <2>1, <2>2, <3>1 DEF Apply
  <2>5. CASE \A j \in 1 .. Len(ops) : Makes(ops[j]) = {}
    <3>1. Makes(Head(ops)) = {}
      BY <1>1, <2>5
    <3> QED
      BY <2>1, <2>2, <3>1 DEF Apply
  <2> QED
    BY <2>4, <2>5, OneWayEffects
<1> HIDE DEF At, AtRest, rest, d
<1>4. Works(ops, c) <=> \A i \in 1 .. Len(ops) : Possible(ops[i], At(i))
  BY DEF Works, At
<1>5. Works(rest, d) <=> \A i \in 1 .. Len(rest) : Possible(rest[i], AtRest(i))
  BY DEF Works, AtRest
<1>6. ASSUME NEW i \in 1 .. Len(ops), i # 1
      PROVE  i - 1 \in 1 .. Len(rest) /\ (i - 1) + 1 = i
  BY <1>1, <1>6
<1>7. ASSUME NEW i \in 1 .. Len(rest)
      PROVE  i + 1 \in 1 .. Len(ops)
  BY <1>1
<1>8. 1 \in 1 .. Len(ops)
  BY <1>1
<1>9. ASSUME NEW i \in 1 .. Len(rest)
      PROVE  rest[i] = ops[i + 1]
  BY <1>1
<1>10. ASSUME \A i \in 1 .. Len(ops) : Possible(ops[i], At(i))
       PROVE  /\ Possible(Head(ops), c)
              /\ \A i \in 1 .. Len(rest) : Possible(rest[i], AtRest(i))
  <2>1. Possible(Head(ops), c)
    BY <1>1, <1>2, <1>8, <1>10
  <2>2. ASSUME NEW i \in 1 .. Len(rest) PROVE Possible(rest[i], AtRest(i))
    BY <1>3, <1>7, <1>9, <1>10
  <2> QED
    BY <2>1, <2>2
<1>11. ASSUME Possible(Head(ops), c),
              \A i \in 1 .. Len(rest) : Possible(rest[i], AtRest(i)),
              NEW i \in 1 .. Len(ops)
       PROVE  Possible(ops[i], At(i))
  <2>1. CASE i = 1
    BY <1>1, <1>2, <1>11, <2>1
  <2>2. CASE i # 1
    <3>1. Possible(rest[i - 1], AtRest(i - 1))
      BY <1>6, <1>11, <2>2
    <3>2. rest[i - 1] = ops[i] /\ AtRest(i - 1) = At(i)
      BY <1>3, <1>6, <1>9, <2>2
    <3> QED
      BY <3>1, <3>2
  <2> QED
    BY <2>1, <2>2
<1> QED
  BY <1>4, <1>5, <1>10, <1>11 DEF rest, d

\* A program that works may be followed by an operation that is possible
\* where it ends.
LEMMA WorksAndOneMore ==
  ASSUME NEW ops \in Seq(Operations), NEW o \in Operations, NEW c,
         Works(ops, c),
         Possible(o, (c \ TakenBy(ops, Len(ops))) \cup MadeBy(ops, Len(ops)))
  PROVE  Works(ops \o <<o>>, c)
<1> DEFINE more == ops \o <<o>>
<1>1. /\ Len(more) = Len(ops) + 1 /\ Len(ops) \in Nat
      /\ \A i \in 1 .. Len(ops) : more[i] = ops[i]
      /\ more[Len(ops) + 1] = o
  OBVIOUS
<1> HIDE DEF more
<1>2. ASSUME NEW i \in 1 .. Len(ops) + 1
      PROVE  TakenBy(more, i - 1) = TakenBy(ops, i - 1)
             /\ MadeBy(more, i - 1) = MadeBy(ops, i - 1)
  <2>1. \A j \in 1 .. i - 1 : more[j] = ops[j]
    BY <1>1
  <2> QED
    BY <2>1 DEF TakenBy, MadeBy
<1>3. ASSUME NEW i \in 1 .. Len(more)
      PROVE  Possible(more[i], (c \ TakenBy(more, i - 1)) \cup MadeBy(more, i - 1))
  <2>1. CASE i \in 1 .. Len(ops)
    BY <1>1, <1>2, <2>1 DEF Works
  <2>2. CASE i = Len(ops) + 1
    <3>1. i - 1 = Len(ops) /\ i \in 1 .. Len(ops) + 1 /\ more[i] = o
      BY <1>1, <2>2
    <3>2. /\ TakenBy(more, i - 1) = TakenBy(ops, Len(ops))
          /\ MadeBy(more, i - 1) = MadeBy(ops, Len(ops))
      BY <1>2, <3>1
    <3> QED
      BY <3>1, <3>2
  <2> QED
    BY <1>1, <2>1, <2>2
<1> QED
  BY <1>3 DEF Works, more

-----------------------------------------------------------------------------
(* The order of the two programs.                                          *)

\* Where upgrade creates each table and each index, and downgrade drops them.
CreatedAt ==
  [datasets |-> 1, dataset_builds |-> 2, jobs |-> 4, attempts |-> 6,
   worker_sessions |-> 9, worker_provisioning |-> 11, steps |-> 12,
   worker_steps |-> 13, checkpoints |-> 14, events |-> 16,
   control_commands |-> 19, metrics |-> 21]

IndexedAt ==
  [ix_dataset_builds__dataset_id_state |-> 3,
   ix_jobs__state_created_at |-> 5,
   uq_attempts__one_active |-> 7,
   ix_attempts__job_id_created_at |-> 8,
   uq_worker_sessions__active_rank |-> 10,
   uq_events__attempt_runtime_seq |-> 17,
   ix_events__attempt_occurred_at |-> 18,
   ix_control_commands__state_requested_at |-> 20,
   ix_metrics__attempt_id_observed_at |-> 22]

DroppedAt ==
  [metrics |-> 11, control_commands |-> 12, events |-> 13, checkpoints |-> 14,
   worker_steps |-> 15, steps |-> 16, worker_provisioning |-> 17,
   worker_sessions |-> 18, attempts |-> 19, jobs |-> 20, dataset_builds |-> 21,
   datasets |-> 22]

UnindexedAt ==
  [ix_metrics__attempt_id_observed_at |-> 2,
   ix_control_commands__state_requested_at |-> 3,
   ix_events__attempt_occurred_at |-> 4,
   uq_events__attempt_runtime_seq |-> 5,
   uq_worker_sessions__active_rank |-> 6,
   ix_attempts__job_id_created_at |-> 7,
   uq_attempts__one_active |-> 8,
   ix_jobs__state_created_at |-> 9,
   ix_dataset_builds__dataset_id_state |-> 10]

\* Each operation of upgrade is where these functions say.
LEMMA UpgradeOrder ==
  /\ Upgrade \in Seq(Builders) /\ Len(Upgrade) = 22
  /\ \A i \in 1 .. 22 :
       \/ \E t \in DOMAIN Tables : CreatedAt[t] = i /\ Upgrade[i] = CreateTable(t)
       \/ \E x \in DOMAIN Indexes : IndexedAt[x] = i /\ Upgrade[i] = CreateIndex(x)
       \/ i = 15 /\ Upgrade[i] = CreateForeignKey
  /\ \A t \in DOMAIN Tables :
       CreatedAt[t] \in 1 .. 22 /\ Upgrade[CreatedAt[t]] = CreateTable(t)
<1>1. Upgrade \in Seq(Builders)
  BY UpgradeElements
<1>2. Len(Upgrade) = 22
  BY DEF Upgrade
<1>3. /\ Upgrade[1] = CreateTable("datasets")
      /\ Upgrade[2] = CreateTable("dataset_builds")
      /\ Upgrade[4] = CreateTable("jobs")
      /\ Upgrade[6] = CreateTable("attempts")
      /\ Upgrade[9] = CreateTable("worker_sessions")
      /\ Upgrade[11] = CreateTable("worker_provisioning")
      /\ Upgrade[12] = CreateTable("steps")
      /\ Upgrade[13] = CreateTable("worker_steps")
      /\ Upgrade[14] = CreateTable("checkpoints")
      /\ Upgrade[16] = CreateTable("events")
      /\ Upgrade[19] = CreateTable("control_commands")
      /\ Upgrade[21] = CreateTable("metrics")
  BY DEF Upgrade
<1>4. /\ Upgrade[3] = CreateIndex("ix_dataset_builds__dataset_id_state")
      /\ Upgrade[5] = CreateIndex("ix_jobs__state_created_at")
      /\ Upgrade[7] = CreateIndex("uq_attempts__one_active")
      /\ Upgrade[8] = CreateIndex("ix_attempts__job_id_created_at")
      /\ Upgrade[10] = CreateIndex("uq_worker_sessions__active_rank")
      /\ Upgrade[17] = CreateIndex("uq_events__attempt_runtime_seq")
      /\ Upgrade[18] = CreateIndex("ix_events__attempt_occurred_at")
      /\ Upgrade[20] = CreateIndex("ix_control_commands__state_requested_at")
      /\ Upgrade[22] = CreateIndex("ix_metrics__attempt_id_observed_at")
  BY DEF Upgrade
<1>5. \A t \in DOMAIN Tables :
        CreatedAt[t] \in 1 .. 22 /\ Upgrade[CreatedAt[t]] = CreateTable(t)
  BY <1>3, Names DEF CreatedAt
<1>6. \A x \in DOMAIN Indexes : Upgrade[IndexedAt[x]] = CreateIndex(x)
  BY <1>4, Names DEF IndexedAt
<1>7. ASSUME NEW i \in 1 .. 22
      PROVE  \/ \E t \in DOMAIN Tables : CreatedAt[t] = i
             \/ \E x \in DOMAIN Indexes : IndexedAt[x] = i
             \/ i = 15
  BY Names DEF CreatedAt, IndexedAt
<1>8. Upgrade[15] = CreateForeignKey
  BY DEF Upgrade
<1>9. ASSUME NEW i \in 1 .. 22
      PROVE
       \/ \E t \in DOMAIN Tables : CreatedAt[t] = i /\ Upgrade[i] = CreateTable(t)
       \/ \E x \in DOMAIN Indexes : IndexedAt[x] = i /\ Upgrade[i] = CreateIndex(x)
       \/ i = 15 /\ Upgrade[i] = CreateForeignKey
  BY <1>5, <1>6, <1>7, <1>8
<1> QED
  BY <1>1, <1>2, <1>5, <1>9

\* Each operation of downgrade is where these functions say.
LEMMA DowngradeOrder ==
  /\ Downgrade \in Seq(Destroyers) /\ Len(Downgrade) = 22
  /\ \A i \in 1 .. 22 :
       \/ \E t \in DOMAIN Tables : DroppedAt[t] = i /\ Downgrade[i] = DropTable(t)
       \/ \E x \in DOMAIN Indexes : UnindexedAt[x] = i /\ Downgrade[i] = DropIndex(x)
       \/ i = 1 /\ Downgrade[i] = DropConstraint
  /\ \A t \in DOMAIN Tables :
       DroppedAt[t] \in 11 .. 22 /\ Downgrade[DroppedAt[t]] = DropTable(t)
  /\ \A x \in DOMAIN Indexes : UnindexedAt[x] \in 2 .. 10
  /\ Downgrade[1] = DropConstraint
<1>1. Downgrade \in Seq(Destroyers)
  BY DowngradeElements
<1>2. Len(Downgrade) = 22
  BY DEF Downgrade, DropIndexes, DropTables
<1>3. Downgrade[1] = DropConstraint
  BY DEF Downgrade, DropIndexes, DropTables
<1>4. /\ Downgrade[11] = DropTable("metrics")
      /\ Downgrade[12] = DropTable("control_commands")
      /\ Downgrade[13] = DropTable("events")
      /\ Downgrade[14] = DropTable("checkpoints")
      /\ Downgrade[15] = DropTable("worker_steps")
      /\ Downgrade[16] = DropTable("steps")
      /\ Downgrade[17] = DropTable("worker_provisioning")
      /\ Downgrade[18] = DropTable("worker_sessions")
      /\ Downgrade[19] = DropTable("attempts")
      /\ Downgrade[20] = DropTable("jobs")
      /\ Downgrade[21] = DropTable("dataset_builds")
      /\ Downgrade[22] = DropTable("datasets")
  BY DEF Downgrade, DropIndexes, DropTables
<1>5. /\ Downgrade[2] = DropIndex("ix_metrics__attempt_id_observed_at")
      /\ Downgrade[3] = DropIndex("ix_control_commands__state_requested_at")
      /\ Downgrade[4] = DropIndex("ix_events__attempt_occurred_at")
      /\ Downgrade[5] = DropIndex("uq_events__attempt_runtime_seq")
      /\ Downgrade[6] = DropIndex("uq_worker_sessions__active_rank")
      /\ Downgrade[7] = DropIndex("ix_attempts__job_id_created_at")
      /\ Downgrade[8] = DropIndex("uq_attempts__one_active")
      /\ Downgrade[9] = DropIndex("ix_jobs__state_created_at")
      /\ Downgrade[10] = DropIndex("ix_dataset_builds__dataset_id_state")
  BY DEF Downgrade, DropIndexes, DropTables
<1>6. \A t \in DOMAIN Tables :
        DroppedAt[t] \in 11 .. 22 /\ Downgrade[DroppedAt[t]] = DropTable(t)
  BY <1>4, Names DEF DroppedAt
<1>7. \A x \in DOMAIN Indexes :
        UnindexedAt[x] \in 2 .. 10 /\ Downgrade[UnindexedAt[x]] = DropIndex(x)
  BY <1>5, Names DEF UnindexedAt
<1>8. ASSUME NEW i \in 1 .. 22
      PROVE  \/ \E t \in DOMAIN Tables : DroppedAt[t] = i
             \/ \E x \in DOMAIN Indexes : UnindexedAt[x] = i
             \/ i = 1
  BY Names DEF DroppedAt, UnindexedAt
<1>9. ASSUME NEW i \in 1 .. 22
      PROVE
       \/ \E t \in DOMAIN Tables : DroppedAt[t] = i /\ Downgrade[i] = DropTable(t)
       \/ \E x \in DOMAIN Indexes : UnindexedAt[x] = i /\ Downgrade[i] = DropIndex(x)
       \/ i = 1 /\ Downgrade[i] = DropConstraint
  BY <1>3, <1>6, <1>7, <1>8
<1> QED
  BY <1>1, <1>2, <1>3, <1>6, <1>7, <1>9

\* A table is created after those it refers to and dropped before them, an
\* index is created after its table, and the circular foreign key, which no
\* table has in its definition, after both of its tables.
LEMMA ReferencesLeadBack ==
  /\ \A t \in DOMAIN Tables : \A fk \in Inline(t) :
       \/ fk.to = t
       \/ /\ fk.to \in DOMAIN Tables
          /\ CreatedAt[fk.to] < CreatedAt[t] /\ DroppedAt[t] < DroppedAt[fk.to]
  /\ \A x \in DOMAIN Indexes :
       Indexes[x] \in DOMAIN Tables /\ CreatedAt[Indexes[x]] < IndexedAt[x]
  /\ CreatedAt["attempts"] < 15 /\ CreatedAt[circular_fk.to] < 15
  /\ \A t \in DOMAIN Tables : circular_fk \notin Inline(t)
<1>1. ASSUME NEW t \in DOMAIN Tables, NEW fk \in Inline(t)
      PROVE  /\ \/ fk.to = t
                \/ /\ fk.to \in DOMAIN Tables
                   /\ CreatedAt[fk.to] < CreatedAt[t]
                   /\ DroppedAt[t] < DroppedAt[fk.to]
             /\ fk.to # "checkpoints"
  <2>1. fk \in Tables[t].foreignKeys
    BY DEF Inline
  <2> QED
    BY <2>1, Names
       DEF Tables, ForeignKey, datasets, dataset_builds, jobs, attempts,
           worker_sessions, worker_provisioning, steps, worker_steps,
           checkpoints, events, control_commands, metrics, CreatedAt, DroppedAt
<1>2. circular_fk.to = "checkpoints"
  BY DEF circular_fk, ForeignKey
<1>3. \A x \in DOMAIN Indexes :
        Indexes[x] \in DOMAIN Tables /\ CreatedAt[Indexes[x]] < IndexedAt[x]
  BY Names DEF Indexes, CreatedAt, IndexedAt
<1>4. CreatedAt["attempts"] < 15 /\ CreatedAt["checkpoints"] < 15
  BY DEF CreatedAt
<1> QED
  BY <1>1, <1>2, <1>3, <1>4

\* Objects of the same kind differ as their names do, and those of different
\* kinds always.
LEMMA ObjectsDiffer ==
  /\ \A s, t : Table(s) = Table(t) => s = t
  /\ \A x, y, s, t : Index(x, s) = Index(y, t) => x = y
  /\ \A s, t, x : Table(s) # Index(x, t)
  /\ \A s, t, fk : Table(s) # Foreign(t, fk)
  /\ \A s, t, x, fk : Index(x, s) # Foreign(t, fk)
  /\ \A s, t, f, g : Foreign(s, f) = Foreign(t, g) => s = t /\ f = g
BY DEF Table, Index, Foreign

\* When each operation is possible, spelled out.
LEMMA Possibilities ==
  ASSUME NEW c
  PROVE  /\ \A t : Possible(CreateTable(t), c) <=>
              /\ Table(t) \notin c
              /\ \A fk \in Inline(t) : fk.to = t \/ Table(fk.to) \in c
         /\ \A x : Possible(CreateIndex(x), c) <=>
              Table(Indexes[x]) \in c /\ Index(x, Indexes[x]) \notin c
         /\ Possible(CreateForeignKey, c) <=>
              Table("attempts") \in c /\ Table(circular_fk.to) \in c
         /\ Possible(Insert, c) <=> VersionTable \in c /\ Revision \notin c
         /\ \A t : Possible(DropTable(t), c) <=>
              Table(t) \in c /\ ~ReferredTo(t, c)
         /\ \A x : Possible(DropIndex(x), c) <=> Index(x, Indexes[x]) \in c
         /\ Possible(DropConstraint, c) <=> Foreign("attempts", circular_fk) \in c
         /\ Possible(Delete, c) <=> VersionTable \in c /\ Revision \in c
<1>1. /\ \A t : Possible(CreateTable(t), c) <=>
            /\ Table(t) \notin c
            /\ \A fk \in Inline(t) : fk.to = t \/ Table(fk.to) \in c
      /\ \A t : Possible(DropTable(t), c) <=>
            Table(t) \in c /\ ~ReferredTo(t, c)
  BY DEF Possible, CreateTable, DropTable
<1>2. /\ \A x : Possible(CreateIndex(x), c) <=>
              Table(Indexes[x]) \in c /\ Index(x, Indexes[x]) \notin c
      /\ \A x : Possible(DropIndex(x), c) <=> Index(x, Indexes[x]) \in c
  BY DEF Possible, CreateIndex, DropIndex
<1>3. /\ Possible(CreateForeignKey, c) <=>
              Table("attempts") \in c /\ Table(circular_fk.to) \in c
      /\ Possible(DropConstraint, c) <=> Foreign("attempts", circular_fk) \in c
  BY DEF Possible, CreateForeignKey, DropConstraint
<1>4. /\ Possible(Insert, c) <=> VersionTable \in c /\ Revision \notin c
      /\ Possible(Delete, c) <=> VersionTable \in c /\ Revision \in c
  BY DEF Possible, Insert, Delete
<1> QED
  BY <1>1, <1>2, <1>3, <1>4

\* What each operation of downgrade takes away, spelled out.
LEMMA Takings ==
  /\ \A t : Takes(DropTable(t)) = Belongings(t, Objects)
  /\ \A x : Takes(DropIndex(x)) = {Index(x, Indexes[x])}
  /\ Takes(DropConstraint) = {Foreign("attempts", circular_fk)}
  /\ Takes(Delete) = {Revision}
BY DEF Takes, Drops, DropTable, DropIndex, DropConstraint, Delete

\* upgrade works in a database that has a version table and nothing else:
\* its foreign keys lead back, its indexes follow their tables, and nothing is
\* made twice.
LEMMA UpgradeWorks == Works(UpgradeProper, {VersionTable})
<1> DEFINE Before(i) == ({VersionTable} \ TakenBy(Upgrade, i - 1))
                          \cup MadeBy(Upgrade, i - 1)
<1>1. /\ Upgrade \in Seq(Operations) /\ Insert \in Operations
      /\ \A j \in 1 .. 22 : Upgrade[j] \in Builders
  <2>1. Upgrade \in Seq(Builders)
    BY UpgradeOrder
  <2>2. Builders \subseteq Operations /\ Insert \in Builders
    BY DEF Operations, Builders
  <2>3. \A j \in 1 .. Len(Upgrade) : Upgrade[j] \in Builders
    BY <2>1
  <2>4. Upgrade \in Seq(Operations)
    BY <2>1, <2>2
  <2> QED
    BY <2>2, <2>3, <2>4, UpgradeOrder
<1>2. ASSUME NEW i \in 1 .. 23
      PROVE  Before(i) = {VersionTable} \cup MadeBy(Upgrade, i - 1)
  <2>1. TakenBy(Upgrade, i - 1) = {}
    <3>1. ASSUME NEW j \in 1 .. i - 1 PROVE Takes(Upgrade[j]) = {}
      <4>1. j \in 1 .. 22
        OBVIOUS
      <4>2. Upgrade[j] \in Builders
        BY <1>1, <4>1
      <4> QED
        BY <4>2, Building DEF Takes
    <3> QED
      BY <3>1 DEF TakenBy
  <2> QED
    BY <2>1
<1>3. ASSUME NEW i \in 1 .. 23, NEW x
      PROVE  x \in MadeBy(Upgrade, i - 1) <=>
               \E j \in 1 .. i - 1 : x \in Makes(Upgrade[j])
  BY DEF MadeBy
<1> HIDE DEF Before
<1>4. ASSUME NEW i \in 1 .. 23, NEW t \in DOMAIN Tables
      PROVE  Table(t) \in Before(i) <=> CreatedAt[t] < i
  <2>1. Table(t) # VersionTable
    BY Names, ObjectsDiffer DEF VersionTable
  <2>2. ASSUME CreatedAt[t] < i PROVE Table(t) \in Before(i)
    <3>1. CreatedAt[t] \in 1 .. 22 /\ Upgrade[CreatedAt[t]] = CreateTable(t)
      BY UpgradeOrder
    <3>2. CreatedAt[t] \in 1 .. i - 1
      BY <2>2, <3>1
    <3>3. Table(t) \in Makes(Upgrade[CreatedAt[t]])
      BY <3>1, Effects
    <3> QED
      BY <1>2, <1>3, <3>2, <3>3
  <2>3. ASSUME NEW j \in 1 .. i - 1, Table(t) \in Makes(Upgrade[j])
        PROVE  CreatedAt[t] < i
    <3>1. j \in 1 .. 22
      OBVIOUS
    <3>2. CASE \E s \in DOMAIN Tables : CreatedAt[s] = j /\ Upgrade[j] = CreateTable(s)
      BY <2>3, <3>2, Effects, ObjectsDiffer
    <3>3. CASE \E x \in DOMAIN Indexes : Upgrade[j] = CreateIndex(x)
      BY <2>3, <3>3, Effects, ObjectsDiffer
    <3>4. CASE Upgrade[j] = CreateForeignKey
      BY <2>3, <3>4, Effects, ObjectsDiffer
    <3> QED
      BY <3>1, <3>2, <3>3, <3>4, UpgradeOrder
  <2> QED
    BY <1>2, <1>3, <2>1, <2>2, <2>3
<1>5. ASSUME NEW i \in 1 .. 23, NEW x \in DOMAIN Indexes,
             Index(x, Indexes[x]) \in Before(i)
      PROVE  IndexedAt[x] < i
  <2>1. PICK j \in 1 .. i - 1 : Index(x, Indexes[x]) \in Makes(Upgrade[j])
    BY <1>2, <1>3, <1>5, ObjectsApart
  <2>2. j \in 1 .. 22
    OBVIOUS
  <2>3. CASE \E s \in DOMAIN Tables : Upgrade[j] = CreateTable(s)
    BY <2>1, <2>3, Effects, ObjectsDiffer
  <2>4. CASE \E y \in DOMAIN Indexes : IndexedAt[y] = j /\ Upgrade[j] = CreateIndex(y)
    BY <2>1, <2>4, Effects, ObjectsDiffer
  <2>5. CASE Upgrade[j] = CreateForeignKey
    BY <2>1, <2>5, Effects, ObjectsDiffer
  <2> QED
    BY <2>2, <2>3, <2>4, <2>5, UpgradeOrder
<1>6. ASSUME NEW i \in 1 .. 22 PROVE Possible(Upgrade[i], Before(i))
  <2>1. i \in 1 .. 23
    OBVIOUS
  <2>2. CASE \E t \in DOMAIN Tables : CreatedAt[t] = i /\ Upgrade[i] = CreateTable(t)
    <3>1. PICK t \in DOMAIN Tables : CreatedAt[t] = i /\ Upgrade[i] = CreateTable(t)
      BY <2>2
    <3>2. Table(t) \notin Before(i)
      BY <1>4, <2>1, <3>1
    <3>3. ASSUME NEW fk \in Inline(t) PROVE fk.to = t \/ Table(fk.to) \in Before(i)
      BY <1>4, <2>1, <3>1, ReferencesLeadBack
    <3> QED
      BY <3>1, <3>2, <3>3, Possibilities
  <2>3. CASE \E x \in DOMAIN Indexes : IndexedAt[x] = i /\ Upgrade[i] = CreateIndex(x)
    <3>1. PICK x \in DOMAIN Indexes : IndexedAt[x] = i /\ Upgrade[i] = CreateIndex(x)
      BY <2>3
    <3>2. Table(Indexes[x]) \in Before(i)
      BY <1>4, <2>1, <3>1, ReferencesLeadBack
    <3>3. Index(x, Indexes[x]) \notin Before(i)
      BY <1>5, <2>1, <3>1
    <3>4. Possible(CreateIndex(x), Before(i))
      BY <3>2, <3>3, Possibilities
    <3> QED
      BY <3>1, <3>4
  <2>4. CASE i = 15 /\ Upgrade[i] = CreateForeignKey
    <3>1. "attempts" \in DOMAIN Tables /\ circular_fk.to \in DOMAIN Tables
      BY Names, ReferencesLead
    <3>2. Table("attempts") \in Before(i) /\ Table(circular_fk.to) \in Before(i)
      BY <1>4, <2>1, <2>4, <3>1, ReferencesLeadBack
    <3> QED
      BY <2>4, <3>2, Possibilities
  <2> QED
    BY <2>2, <2>3, <2>4, UpgradeOrder
<1>7. VersionTable \in Before(23) /\ Revision \notin Before(23)
  <2>1. ASSUME NEW j \in 1 .. 22 PROVE Revision \notin Makes(Upgrade[j])
    <3>1. CASE \E s \in DOMAIN Tables : Upgrade[j] = CreateTable(s)
      BY <3>1, Effects, ObjectsApart
    <3>2. CASE \E x \in DOMAIN Indexes : Upgrade[j] = CreateIndex(x)
      BY <3>2, Effects, ObjectsApart
    <3>3. CASE Upgrade[j] = CreateForeignKey
      BY <3>3, Effects, ObjectsApart
    <3> QED
      BY <3>1, <3>2, <3>3, UpgradeOrder
  <2>2. Before(23) = {VersionTable} \cup MadeBy(Upgrade, 22)
    BY <1>2
  <2>3. Revision \notin MadeBy(Upgrade, 22)
    BY <2>1 DEF MadeBy
  <2> QED
    BY <2>2, <2>3, ObjectsApart DEF VersionTable
<1>8. Works(Upgrade, {VersionTable})
  BY <1>6, UpgradeOrder DEF Works, Before
<1>9. Possible(Insert, ({VersionTable} \ TakenBy(Upgrade, Len(Upgrade)))
                         \cup MadeBy(Upgrade, Len(Upgrade)))
  <2>1. Len(Upgrade) = 23 - 1
    BY UpgradeOrder
  <2> QED
    BY <1>7, <2>1, Possibilities DEF Before
<1> QED
  BY <1>1, <1>8, <1>9, WorksAndOneMore DEF UpgradeProper

\* downgrade works in a database that has everything: what it drops is still
\* there, and a table that another refers to is dropped after the other.
LEMMA DowngradeWorks == Works(DowngradeProper, Objects)
<1> DEFINE Before(i) == (Objects \ TakenBy(Downgrade, i - 1))
                          \cup MadeBy(Downgrade, i - 1)
<1>1. /\ Downgrade \in Seq(Operations) /\ Delete \in Operations
      /\ \A j \in 1 .. 22 : Downgrade[j] \in Destroyers
  <2>1. Downgrade \in Seq(Destroyers)
    BY DowngradeOrder
  <2>2. Destroyers \subseteq Operations /\ Delete \in Destroyers
    BY DEF Operations, Destroyers
  <2>3. \A j \in 1 .. Len(Downgrade) : Downgrade[j] \in Destroyers
    BY <2>1
  <2>4. Downgrade \in Seq(Operations)
    BY <2>1, <2>2
  <2> QED
    BY <2>2, <2>3, <2>4, DowngradeOrder
<1>2. ASSUME NEW i \in 1 .. 23
      PROVE  Before(i) = Objects \ TakenBy(Downgrade, i - 1)
  <2>1. MadeBy(Downgrade, i - 1) = {}
    <3>1. ASSUME NEW j \in 1 .. i - 1 PROVE Makes(Downgrade[j]) = {}
      <4>1. j \in 1 .. 22
        OBVIOUS
      <4>2. Downgrade[j] \in Destroyers
        BY <1>1, <4>1
      <4> QED
        BY <4>2, Destroying
    <3> QED
      BY <3>1 DEF MadeBy
  <2> QED
    BY <2>1
<1>3. ASSUME NEW i \in 1 .. 23, NEW x
      PROVE  x \in TakenBy(Downgrade, i - 1) <=>
               \E j \in 1 .. i - 1 : x \in Takes(Downgrade[j])
  BY DEF TakenBy
<1> HIDE DEF Before
<1>4. ASSUME NEW j \in 1 .. 22, NEW t \in AllTables, Table(t) \in Takes(Downgrade[j])
      PROVE  t \in DOMAIN Tables /\ DroppedAt[t] = j
  <2>1. CASE \E s \in DOMAIN Tables : DroppedAt[s] = j /\ Downgrade[j] = DropTable(s)
    <3>1. PICK s \in DOMAIN Tables : DroppedAt[s] = j /\ Downgrade[j] = DropTable(s)
      BY <2>1
    <3>2. Table(t) \in Belongings(s, Objects)
      BY <1>4, <3>1, Takings
    <3>3. s = t
      BY <3>2, ObjectsDiffer DEF Belongings
    <3> QED
      BY <3>1, <3>3
  <2>2. CASE \E x \in DOMAIN Indexes : Downgrade[j] = DropIndex(x)
    BY <1>4, <2>2, Takings, ObjectsDiffer
  <2>3. CASE Downgrade[j] = DropConstraint
    BY <1>4, <2>3, Takings, ObjectsDiffer
  <2> QED
    BY <2>1, <2>2, <2>3, DowngradeOrder
<1>5. ASSUME NEW i \in 1 .. 23, NEW t \in DOMAIN Tables, i <= DroppedAt[t]
      PROVE  Table(t) \in Before(i)
  <2>1. Table(t) \in Objects /\ t \in AllTables
    BY DEF Objects, SchemaObjects, AllTables
  <2>2. ASSUME NEW j \in 1 .. i - 1 PROVE Table(t) \notin Takes(Downgrade[j])
    <3>1. DroppedAt[t] \in 11 .. 22
      BY DowngradeOrder
    <3>2. j \in 1 .. 22 /\ j # DroppedAt[t]
      BY <1>5, <3>1
    <3> QED
      BY <1>4, <2>1, <3>2
  <2> QED
    BY <1>2, <1>3, <2>1, <2>2
<1>6. ASSUME NEW x \in DOMAIN Indexes
      PROVE  Index(x, Indexes[x]) \in Before(UnindexedAt[x])
  <2>1. UnindexedAt[x] \in 2 .. 10 /\ UnindexedAt[x] \in 1 .. 23
    BY DowngradeOrder
  <2>2. Index(x, Indexes[x]) \in Objects
    BY DEF Objects, SchemaObjects
  <2>3. ASSUME NEW j \in 1 .. UnindexedAt[x] - 1
        PROVE  Index(x, Indexes[x]) \notin Takes(Downgrade[j])
    <3>1. j \in 1 .. 22 /\ j < 11 /\ j < UnindexedAt[x]
      BY <2>1
    <3>2. CASE \E s \in DOMAIN Tables : DroppedAt[s] = j
      <4>1. PICK s \in DOMAIN Tables : DroppedAt[s] = j
        BY <3>2
      <4>2. DroppedAt[s] \in 11 .. 22
        BY DowngradeOrder
      <4> QED
        BY <3>1, <4>1, <4>2
    <3>3. CASE \E y \in DOMAIN Indexes : UnindexedAt[y] = j /\ Downgrade[j] = DropIndex(y)
      BY <3>1, <3>3, <2>1, Takings, ObjectsDiffer
    <3>4. CASE Downgrade[j] = DropConstraint
      BY <3>4, Takings, ObjectsDiffer
    <3> QED
      BY <3>1, <3>2, <3>3, <3>4, DowngradeOrder
  <2> QED
    BY <1>2, <1>3, <2>1, <2>2, <2>3
<1>7. ASSUME NEW t \in DOMAIN Tables
      PROVE  ~ReferredTo(t, Before(DroppedAt[t]))
  <2>1. DroppedAt[t] \in 11 .. 22 /\ DroppedAt[t] \in 1 .. 23
    BY DowngradeOrder
  <2>2. ASSUME NEW s \in DOMAIN Tables \ {t}, NEW fk \in Inline(s), fk.to = t,
               Foreign(s, fk) \in Objects
        PROVE  Foreign(s, fk) \in TakenBy(Downgrade, DroppedAt[t] - 1)
    <3>1. DroppedAt[s] < DroppedAt[t]
      BY <2>2, ReferencesLeadBack
    <3>2. DroppedAt[s] \in 11 .. 22 /\ Downgrade[DroppedAt[s]] = DropTable(s)
      BY DowngradeOrder
    <3>3. DroppedAt[s] \in 1 .. DroppedAt[t] - 1
      BY <2>1, <3>1, <3>2
    <3>4. Foreign(s, fk) \in Takes(Downgrade[DroppedAt[s]])
      BY <2>2, <3>2, Takings DEF Belongings
    <3> QED
      BY <1>3, <2>1, <3>3, <3>4
  <2>3. ASSUME NEW s \in DOMAIN Tables \ {t}, Foreign(s, circular_fk) \in Objects
        PROVE  Foreign(s, circular_fk) \in TakenBy(Downgrade, DroppedAt[t] - 1)
    <3>1. s = "attempts"
      BY <2>3, ObjectsDiffer, ObjectsApart, ReferencesLeadBack
         DEF Objects, SchemaObjects, VersionTable, ForeignKeys, Inline
    <3>2. Foreign(s, circular_fk) \in Takes(Downgrade[1])
      BY <3>1, DowngradeOrder, Takings
    <3>3. 1 \in 1 .. DroppedAt[t] - 1
      BY <2>1
    <3> QED
      BY <1>3, <2>1, <3>2, <3>3
  <2>4. Before(DroppedAt[t]) = Objects \ TakenBy(Downgrade, DroppedAt[t] - 1)
    BY <1>2, <2>1
  <2> QED
    BY <2>2, <2>3, <2>4 DEF ReferredTo
<1>8. ASSUME NEW i \in 1 .. 22 PROVE Possible(Downgrade[i], Before(i))
  <2>1. i \in 1 .. 23
    OBVIOUS
  <2>2. CASE \E t \in DOMAIN Tables : DroppedAt[t] = i /\ Downgrade[i] = DropTable(t)
    <3>1. PICK t \in DOMAIN Tables : DroppedAt[t] = i /\ Downgrade[i] = DropTable(t)
      BY <2>2
    <3>2. Table(t) \in Before(i) /\ ~ReferredTo(t, Before(i))
      BY <1>5, <1>7, <2>1, <3>1
    <3>3. Possible(DropTable(t), Before(i))
      BY <3>2, Possibilities
    <3> QED
      BY <3>1, <3>3
  <2>3. CASE \E x \in DOMAIN Indexes : UnindexedAt[x] = i /\ Downgrade[i] = DropIndex(x)
    <3>1. PICK x \in DOMAIN Indexes : UnindexedAt[x] = i /\ Downgrade[i] = DropIndex(x)
      BY <2>3
    <3>2. Possible(DropIndex(x), Before(i))
      BY <1>6, <3>1, Possibilities
    <3> QED
      BY <3>1, <3>2
  <2>4. CASE i = 1 /\ Downgrade[i] = DropConstraint
    <3>1. Before(1) = Objects
      <4>1. TakenBy(Downgrade, 1 - 1) = {}
        BY DEF TakenBy
      <4> QED
        BY <1>2, <2>1, <2>4, <4>1
    <3>2. Foreign("attempts", circular_fk) \in Objects
      BY Names DEF Objects, SchemaObjects, ForeignKeys
    <3> QED
      BY <2>4, <3>1, <3>2, Possibilities
  <2> QED
    BY <2>2, <2>3, <2>4, DowngradeOrder
<1>9. VersionTable \in Before(23) /\ Revision \in Before(23)
  <2>1. Before(23) = Objects \ TakenBy(Downgrade, 22)
    BY <1>2
  <2>2. VersionTable \in Objects /\ Revision \in Objects
    BY DEF Objects
  <2>3. ASSUME NEW j \in 1 .. 22 PROVE VersionTable \notin Takes(Downgrade[j])
    BY <1>4, Names DEF VersionTable, AllTables
  <2>4. ASSUME NEW j \in 1 .. 22 PROVE Revision \notin Takes(Downgrade[j])
    <3>1. CASE \E s \in DOMAIN Tables : Downgrade[j] = DropTable(s)
      BY <3>1, Takings, ObjectsApart DEF Belongings
    <3>2. CASE \E x \in DOMAIN Indexes : Downgrade[j] = DropIndex(x)
      BY <3>2, Takings, ObjectsApart
    <3>3. CASE Downgrade[j] = DropConstraint
      BY <3>3, Takings, ObjectsApart
    <3> QED
      BY <3>1, <3>2, <3>3, DowngradeOrder
  <2> QED
    BY <2>1, <2>2, <2>3, <2>4 DEF TakenBy
<1>10. Works(Downgrade, Objects)
  BY <1>8, DowngradeOrder DEF Works, Before
<1>11. Possible(Delete, (Objects \ TakenBy(Downgrade, Len(Downgrade)))
                          \cup MadeBy(Downgrade, Len(Downgrade)))
  <2>1. Len(Downgrade) = 23 - 1
    BY DowngradeOrder
  <2> QED
    BY <1>9, <2>1, Possibilities DEF Before
<1> QED
  BY <1>1, <1>10, <1>11, WorksAndOneMore DEF DowngradeProper

-----------------------------------------------------------------------------
(* What a run of alembic sets out to do.                                   *)

\* The elements of a sequence with one more at its end.
LEMMA OneMoreElement ==
  ASSUME NEW S, NEW s \in Seq(S), NEW o \in S
  PROVE  s \o <<o>> \in Seq(S) /\ Elements(s \o <<o>>) = Elements(s) \cup {o}
<1> DEFINE last == <<o>>
<1>1. last \in Seq(S) /\ Elements(last) = {o}
  BY Singly
<1> HIDE DEF last
<1>2. s \o last \in Seq(S) /\ Elements(s \o last) = Elements(s) \cup Elements(last)
  BY <1>1, Concatenated
<1> QED
  BY <1>1, <1>2 DEF last

\* The two programs proper: no operation on the version table but on its row.
LEMMA ProperElements ==
  /\ UpgradeProper \in Seq(Operations) /\ DowngradeProper \in Seq(Operations)
  /\ UpgradeProper # <<>> /\ DowngradeProper # <<>>
  /\ Head(UpgradeProper) = CreateTable("datasets")
  /\ Head(DowngradeProper) = DropConstraint
  /\ Elements(UpgradeProper) \subseteq Builders
  /\ Elements(DowngradeProper) \subseteq Destroyers
  /\ Elements(UpgradeProper) \cap VersionDDL = {}
  /\ Elements(DowngradeProper) \cap VersionDDL = {}
<1>1. /\ Upgrade \in Seq(Builders) /\ <<Insert>> \in Seq(Builders)
      /\ Downgrade \in Seq(Destroyers) /\ <<Delete>> \in Seq(Destroyers)
      /\ Insert \in Builders /\ Delete \in Destroyers
      /\ Builders \subseteq Operations /\ Destroyers \subseteq Operations
  <2>1. Insert \in Builders /\ Delete \in Destroyers
        /\ Builders \subseteq Operations /\ Destroyers \subseteq Operations
    BY DEF Builders, Destroyers, Operations
  <2> QED
    BY <2>1, UpgradeOrder, DowngradeOrder
<1>2. /\ UpgradeProper \in Seq(Builders)
      /\ Elements(UpgradeProper) = Elements(Upgrade) \cup {Insert}
  BY <1>1, OneMoreElement DEF UpgradeProper
<1>3. /\ DowngradeProper \in Seq(Destroyers)
      /\ Elements(DowngradeProper) = Elements(Downgrade) \cup {Delete}
  BY <1>1, OneMoreElement DEF DowngradeProper
<1>4. UpgradeProper \in Seq(Operations) /\ DowngradeProper \in Seq(Operations)
  BY <1>1, <1>2, <1>3
<1>5. /\ Elements(UpgradeProper) \subseteq Builders
      /\ Elements(DowngradeProper) \subseteq Destroyers
  BY <1>2, <1>3 DEF Elements
<1>6. /\ UpgradeProper # <<>> /\ Head(UpgradeProper) = CreateTable("datasets")
      /\ DowngradeProper # <<>> /\ Head(DowngradeProper) = DropConstraint
  <2>1. /\ UpgradeProper[1] = CreateTable("datasets")
        /\ Len(UpgradeProper) > 0
    BY DEF UpgradeProper, Upgrade
  <2>2. /\ DowngradeProper[1] = DropConstraint
        /\ Len(DowngradeProper) > 0
    BY DEF DowngradeProper, Downgrade, DropIndexes, DropTables
  <2> QED
    BY <1>4, <2>1, <2>2
<1>7. Elements(UpgradeProper) \cap VersionDDL = {}
  <2>1. ASSUME NEW o \in Elements(Upgrade) PROVE o \notin VersionDDL
    <3>1. PICK i \in 1 .. 22 : o = Upgrade[i]
      BY UpgradeOrder DEF Elements
    <3>2. CASE \E t \in DOMAIN Tables : o = CreateTable(t)
      BY <3>2, Names DEF VersionDDL, CreateTable, DropTable
    <3>3. CASE \E x \in DOMAIN Indexes : o = CreateIndex(x)
      BY <3>3 DEF VersionDDL, CreateTable, DropTable, CreateIndex
    <3>4. CASE o = CreateForeignKey
      BY <3>4 DEF VersionDDL, CreateTable, DropTable, CreateForeignKey
    <3> QED
      BY <3>1, <3>2, <3>3, <3>4, UpgradeOrder
  <2>2. Insert \notin VersionDDL
    BY DEF Insert, VersionDDL, CreateTable, DropTable
  <2> QED
    BY <1>2, <2>1, <2>2
<1>8. Elements(DowngradeProper) \cap VersionDDL = {}
  <2>1. ASSUME NEW o \in Elements(Downgrade) PROVE o \notin VersionDDL
    <3>1. PICK i \in 1 .. 22 : o = Downgrade[i]
      BY DowngradeOrder DEF Elements
    <3>2. CASE \E t \in DOMAIN Tables : o = DropTable(t)
      BY <3>2, Names DEF VersionDDL, CreateTable, DropTable
    <3>3. CASE \E x \in DOMAIN Indexes : o = DropIndex(x)
      BY <3>3 DEF VersionDDL, CreateTable, DropTable, DropIndex
    <3>4. CASE o = DropConstraint
      BY <3>4 DEF VersionDDL, CreateTable, DropTable, DropConstraint
    <3> QED
      BY <3>1, <3>2, <3>3, <3>4, DowngradeOrder
  <2>2. Delete \notin VersionDDL
    BY DEF Delete, VersionDDL, CreateTable, DropTable
  <2> QED
    BY <1>3, <2>1, <2>2
<1> QED
  BY <1>4, <1>5, <1>6, <1>7, <1>8

\* The things that a run of alembic may find to do.
LEMMA MigrationCases ==
  ASSUME NEW command \in Commands, NEW d \in Databases
  PROVE  LET version == CreateTable("alembic_version")
             ops == Migration(command, d)
         IN  \/ ops = <<>>
             \/ ops = <<version>> /\ Versions(d) = {}
             \/ ops = <<version>> \o UpgradeProper /\ Versions(d) = {}
             \/ ops = UpgradeProper /\ Versions(d) = {VersionTable}
             \/ ops = DowngradeProper /\ Revision \in Versions(d)
<1> DEFINE version == CreateTable("alembic_version")
           ops == Migration(command, d)
<1>1. CASE command = "upgrade" /\ Revision \notin catalogue[d]
  <2>1. ops = (EnsureVersionTable(d) \o Upgrade) \o <<Insert>>
    BY <1>1 DEF Migration
  <2>2. CASE Versions(d) = {}
    <3>1. EnsureVersionTable(d) = <<version>>
      BY <2>2 DEF EnsureVersionTable
    <3>2. <<version>> \in Seq(Operations) /\ <<Insert>> \in Seq(Operations)
      BY DEF Operations, Builders, AllTables
    <3>3. Upgrade \in Seq(Operations)
      BY UpgradeOrder DEF Operations
    <3>4. (<<version>> \o Upgrade) \o <<Insert>> = <<version>> \o UpgradeProper
      BY <3>2, <3>3, ConcatAssociative DEF UpgradeProper
    <3> QED
      BY <2>1, <2>2, <3>1, <3>4
  <2>3. CASE Versions(d) # {}
    <3>1. EnsureVersionTable(d) = <<>>
      BY <2>3 DEF EnsureVersionTable
    <3>2. <<>> \o Upgrade = Upgrade
      BY UpgradeOrder, ConcatEmptySeq
    <3>3. Versions(d) = {VersionTable}
      BY <1>1, <2>3 DEF Versions
    <3> QED
      BY <2>1, <3>1, <3>2, <3>3 DEF UpgradeProper
  <2> QED
    BY <2>2, <2>3
<1>2. CASE command = "downgrade" /\ Revision \in catalogue[d]
  BY <1>2 DEF Migration, DowngradeProper, Versions
<1>3. CASE \/ command = "upgrade" /\ Revision \in catalogue[d]
           \/ command = "downgrade" /\ Revision \notin catalogue[d]
  BY <1>3 DEF Migration, EnsureVersionTable
<1> QED
  BY <1>1, <1>2, <1>3 DEF Commands

\* A run of alembic begins with a program that works, and has locked the
\* version table if there is one.
LEMMA Plans ==
  ASSUME NEW command \in Commands, NEW d \in Databases, AllOrNothing
  PROVE  LET version == CreateTable("alembic_version")
             ops == Migration(command, d)
         IN  /\ DropTable("alembic_version") \notin Elements(ops)
             /\ Works(ops, IF Revision \in Versions(d) THEN Objects ELSE Versions(d))
             /\ Reading(d) \subseteq {"alembic_version"} \X {"read", "exclusive"}
             /\ \/ ops = <<>>
                \/ ops \in {UpgradeProper, DowngradeProper} /\ Reading(d) # {}
                \/ ops \in {<<version>>, <<version>> \o UpgradeProper} /\ Reading(d) = {}
<1> DEFINE version == CreateTable("alembic_version")
           ops == Migration(command, d)
           base == IF Revision \in Versions(d) THEN Objects ELSE Versions(d)
<1>1. /\ Reading(d) \subseteq {"alembic_version"} \X {"read", "exclusive"}
      /\ Versions(d) = {} => Reading(d) = {}
      /\ VersionTable \in Versions(d) => Reading(d) # {}
      /\ Revision \in Versions(d) => VersionTable \in Versions(d)
  <2>1. Revision \in catalogue[d] => VersionTable \in catalogue[d]
    BY DEF AllOrNothing
  <2>2. CASE VersionTable \in catalogue[d]
    <3>1. Reading(d) = {<<"alembic_version", "read">>}
      BY <2>2 DEF Reading
    <3>2. VersionTable \in Versions(d)
      BY <2>2 DEF Versions
    <3> QED
      BY <3>1, <3>2
  <2>3. CASE VersionTable \notin catalogue[d]
    <3>1. Reading(d) = {}
      BY <2>3 DEF Reading
    <3>2. VersionTable \notin Versions(d) /\ Revision \notin Versions(d)
      BY <2>1, <2>3 DEF Versions
    <3> QED
      BY <3>1, <3>2
  <2> QED
    BY <2>2, <2>3
<1>2. version # DropTable("alembic_version")
  BY DEF CreateTable, DropTable
<1>3. /\ version \in Operations /\ version \in Builders
      /\ Possible(version, {}) /\ Apply(version, {}) = {VersionTable}
  <2>1. version \in Builders /\ version \in Operations
    BY DEF Builders, AllTables, Operations
  <2>2. Possible(version, {})
    BY Possibilities, ReferencesLead
  <2>3. Makes(version) = {VersionTable}
    BY Effects, ReferencesLead DEF VersionTable
  <2> QED
    BY <2>1, <2>2, <2>3 DEF Apply
<1> HIDE DEF version
<1>4. Works(<<>>, base) /\ Elements(<<>>) = {}
  BY Singly DEF Works
<1>5. CASE ops = <<version>> /\ Versions(d) = {}
  <2>1. /\ <<version>> \in Seq(Operations) /\ Elements(<<version>>) = {version}
        /\ Head(<<version>>) = version /\ Tail(<<version>>) = <<>>
    BY <1>3, Singly
  <2>2. OneWay(<<version>>)
    BY <1>3, <2>1 DEF OneWay
  <2>3. Works(<<>>, {VersionTable})
    BY DEF Works
  <2>4. <<version>> # <<>>
    OBVIOUS
  <2>5. Works(<<version>>, {})
    BY <1>3, <2>1, <2>2, <2>3, <2>4, WorksByParts
  <2> QED
    BY <1>1, <1>2, <1>5, <2>1, <2>5 DEF version
<1>6. CASE ops = <<version>> \o UpgradeProper /\ Versions(d) = {}
  <2> DEFINE all == <<version>> \o UpgradeProper
  <2>1. /\ all \in Seq(Operations) /\ all # <<>>
        /\ Head(all) = version /\ Tail(all) = UpgradeProper
    BY <1>3, ProperElements
  <2>2. Elements(all) = {version} \cup Elements(UpgradeProper)
    BY <2>1, HeadAndTail
  <2>3. OneWay(all)
    BY <1>3, <2>2, ProperElements DEF OneWay
  <2> HIDE DEF all
  <2>4. Works(all, {})
    BY <1>3, <2>1, <2>3, UpgradeWorks, WorksByParts
  <2>5. DropTable("alembic_version") \notin Elements(all)
    BY <1>2, <2>2, ProperElements DEF VersionDDL
  <2> QED
    BY <1>1, <1>6, <2>4, <2>5 DEF all, version
<1>7. CASE ops = UpgradeProper /\ Versions(d) = {VersionTable}
  BY <1>1, <1>7, UpgradeWorks, ProperElements, ObjectsApart
     DEF VersionDDL, VersionTable
<1>8. CASE ops = DowngradeProper /\ Revision \in Versions(d)
  BY <1>1, <1>8, DowngradeWorks, ProperElements DEF VersionDDL
<1>9. CASE ops = <<>>
  BY <1>1, <1>4, <1>9
<1> QED
  BY <1>5, <1>6, <1>7, <1>8, <1>9, MigrationCases DEF version

-----------------------------------------------------------------------------
(* Every action keeps the invariant.                                       *)

\* A run that nothing has happened to is where it was.
LEMMA Untouched ==
  ASSUME NEW n \in Migrators, Prepared(n), Marked(n), Staged(n),
         phase'[n] = phase[n], target'[n] = target[n], todo'[n] = todo[n],
         seen'[n] = seen[n], made'[n] = made[n], dropped'[n] = dropped[n],
         locks'[n] = locks[n],
         Rising(n) => Revision \notin catalogue'[target[n]],
         Falling(n) => Revision \in catalogue'[target[n]]
  PROVE  Prepared(n)' /\ Marked(n)' /\ Staged(n)'
<1>1. Prepared(n)'
  BY DEF Prepared, Expected, Base
<1>2. Marked(n)'
  BY DEF Marked, Rising, Falling
<1>3. Staged(n)'
  BY DEF Staged, Early, Late, Rising, Falling
<1> QED
  BY <1>1, <1>2, <1>3

\* At first nobody is at work.
LEMMA InitOrder == Init => OrderInv
<1> SUFFICES ASSUME Init PROVE OrderInv
  OBVIOUS
<1>1. ASSUME NEW m \in Migrators PROVE Prepared(m) /\ Marked(m) /\ Staged(m)
  BY DEF Init, Prepared, Marked, Rising, Falling, Staged
<1> QED
  BY <1>1, InitInv DEF OrderInv

\* A run begins with the plan of alembic or with a script.
LEMMA BeginOrder ==
  ASSUME OrderInv, NEW m \in Migrators, NEW mode \in {"online", "offline"},
         NEW command \in Commands, NEW setting, NEW d \in Databases,
         NEW ops, NEW held,
         mode = "online" => ops = Migration(command, d) /\ held = Reading(d),
         Begin(m, mode, command, setting, d, ops, held)
  PROVE  \A n \in Migrators : Prepared(n)' /\ Marked(n)' /\ Staged(n)'
<1> USE DEF OrderInv
<1>1. /\ phase[m] \in Over /\ phase'[m] = mode
      /\ target'[m] = d /\ seen'[m] = Versions(d) /\ todo'[m] = ops
      /\ locks'[m] = held /\ made'[m] = {} /\ dropped'[m] = {}
      /\ \A n \in Migrators \ {m} :
           /\ phase'[n] = phase[n] /\ target'[n] = target[n]
           /\ seen'[n] = seen[n] /\ todo'[n] = todo[n] /\ locks'[n] = locks[n]
      /\ catalogue' = catalogue /\ made' = made /\ dropped' = dropped
  BY DEF Begin, Inv, TypeOK, Shape
<1>2. Marked(m)'
  BY <1>1 DEF Marked, Rising, Falling
<1>3. ASSUME mode = "online" PROVE Prepared(m)' /\ Staged(m)'
  <2>1. Expected(m)' = IF Revision \in Versions(d) THEN Objects ELSE Versions(d)
    BY <1>1 DEF Expected, Base
  <2>2. AllOrNothing
    BY DEF Inv
  <2>3. Prepared(m)'
    BY <1>1, <1>3, <2>1, <2>2, Plans DEF Prepared
  <2>4. Early(m)'
    BY <1>1, <1>3, <2>2, Plans DEF Early
  <2> QED
    BY <2>3, <2>4 DEF Staged
<1>4. ASSUME mode = "offline" PROVE Prepared(m)' /\ Staged(m)'
  BY <1>1, <1>4 DEF Prepared, Staged
<1>5. ASSUME NEW n \in Migrators \ {m}
      PROVE  Prepared(n)' /\ Marked(n)' /\ Staged(n)'
  BY <1>1, Untouched DEF Marked
<1> QED
  BY <1>2, <1>3, <1>4, <1>5

\* An operation that destroys, other than the one that drops the version
\* table, is possible only where there is some of the schema or the revision.
LEMMA FindsSomething ==
  ASSUME NEW o \in Destroyers, NEW c, Possible(o, c),
         o # DropTable("alembic_version")
  PROVE  Whole \cap c # {}
<1>1. /\ \A t \in DOMAIN Tables : Table(t) \in Whole
      /\ \A x \in DOMAIN Indexes : Index(x, Indexes[x]) \in Whole
      /\ Foreign("attempts", circular_fk) \in Whole
      /\ Revision \in Whole
  BY Names DEF Whole, SchemaObjects, ForeignKeys
<1>2. CASE \E t \in DOMAIN Tables : o = DropTable(t)
  BY <1>1, <1>2, Possibilities
<1>3. CASE \E x \in DOMAIN Indexes : o = DropIndex(x)
  BY <1>1, <1>3, Possibilities
<1>4. CASE o = DropConstraint
  BY <1>1, <1>4, Possibilities
<1>5. CASE o = Delete
  BY <1>1, <1>5, Possibilities
<1> QED
  BY <1>2, <1>3, <1>4, <1>5 DEF Destroyers, AllTables

\* A database with anything of the revision has everything.
LEMMA WholeIsAll ==
  ASSUME TypeOK, AllOrNothing, NEW d \in Databases, Whole \cap catalogue[d] # {}
  PROVE  catalogue[d] = Objects
<1>1. Revision \in catalogue[d]
  BY DEF AllOrNothing, Whole
<1>2. catalogue[d] \subseteq Objects
  BY DEF TypeOK
<1> QED
  BY <1>1, <1>2 DEF AllOrNothing, Objects

\* What is gone when an operation has been executed on what is left.
LEMMA LeftAndGone ==
  ASSUME NEW o \in Destroyers, NEW gone
  PROVE  gone \cup Drops(o, Objects \ gone) = gone \cup Takes(o)
<1>1. CASE \E t \in AllTables : o = DropTable(t)
  BY <1>1 DEF Takes, Drops, DropTable, Belongings
<1>2. CASE \E x \in DOMAIN Indexes : o = DropIndex(x)
  BY <1>2 DEF Takes, Drops, DropIndex
<1>3. CASE o = DropConstraint
  BY <1>3 DEF Takes, Drops, DropConstraint
<1>4. CASE o = Delete
  BY <1>4 DEF Takes, Drops, Delete
<1> QED
  BY <1>1, <1>2, <1>3, <1>4 DEF Destroyers

\* The program of a run builds or destroys, as its plan asks.
LEMMA PlansOneWay ==
  ASSUME Inv, NEW m \in Migrators, phase[m] \notin Over
  PROVE  /\ OneWay(todo[m])
         /\ \/ dropped[m] = {} /\ Elements(todo[m]) \subseteq Builders
            \/ made[m] = {} /\ Elements(todo[m]) \subseteq Destroyers
<1>1. CreateTable("alembic_version") \in Builders
  BY DEF Builders, AllTables
<1> QED
  BY <1>1 DEF Inv, Purposeful, Upgrading, Downgrading, Content, OneWay

\* What an operation that m executes does to m.
LEMMA Executed ==
  ASSUME Inv, NEW m \in Migrators, Execute(m)
  PROVE  LET o == Head(todo[m])
             c == View(m)
         IN  /\ phase[m] \notin Over /\ todo[m] \in Seq(Operations) /\ todo[m] # <<>>
             /\ target[m] \in Databases
             /\ ~Waits(m) /\ Possible(o, c) /\ o \in Operations
             /\ Elements(todo[m]) = {o} \cup Elements(Tail(todo[m]))
             /\ made'[m] = (made[m] \ Drops(o, c)) \cup Makes(o)
             /\ dropped'[m] = dropped[m] \cup Drops(o, c)
             /\ locks'[m] = locks[m] \cup Locks(o)
             /\ todo'[m] = Tail(todo[m])
             /\ \A n \in Migrators \ {m} :
                  /\ made'[n] = made[n] /\ dropped'[n] = dropped[n]
                  /\ todo'[n] = todo[n] /\ locks'[n] = locks[n]
             /\ UNCHANGED <<catalogue, phase, order, target, seen>>
<1> DEFINE o == Head(todo[m])
           c == View(m)
<1>1. /\ phase[m] \notin Over /\ todo[m] \in Seq(Operations) /\ todo[m] # <<>>
      /\ target[m] \in Databases
      /\ ~Waits(m) /\ Possible(o, c)
      /\ made'[m] = (made[m] \ Drops(o, c)) \cup Makes(o)
      /\ dropped'[m] = dropped[m] \cup Drops(o, c)
      /\ locks'[m] = locks[m] \cup Locks(o)
      /\ todo'[m] = Tail(todo[m])
      /\ \A n \in Migrators \ {m} :
           /\ made'[n] = made[n] /\ dropped'[n] = dropped[n]
           /\ todo'[n] = todo[n] /\ locks'[n] = locks[n]
      /\ UNCHANGED <<catalogue, phase, order, target, seen>>
  BY DEF Execute, Inv, TypeOK, Shape
<1>2. o \in Operations /\ Elements(todo[m]) = {o} \cup Elements(Tail(todo[m]))
  BY <1>1, HeadAndTail
<1> QED
  BY <1>1, <1>2

\* The rest of a program works once its first operation has been executed.
LEMMA ExecutePrepared ==
  ASSUME OrderInv, NEW m \in Migrators, Execute(m)
  PROVE  Prepared(m)'
<1> USE DEF OrderInv
<1> SUFFICES ASSUME phase[m] = "online" PROVE Prepared(m)'
  BY Executed DEF Prepared
<1> DEFINE o == Head(todo[m])
           c == View(m)
<1>1. /\ phase[m] \notin Over /\ todo[m] \in Seq(Operations) /\ todo[m] # <<>>
      /\ target[m] \in Databases /\ Possible(o, c)
      /\ Elements(todo[m]) = {o} \cup Elements(Tail(todo[m]))
      /\ made'[m] = (made[m] \ Drops(o, c)) \cup Makes(o)
      /\ dropped'[m] = dropped[m] \cup Drops(o, c)
      /\ todo'[m] = Tail(todo[m])
      /\ UNCHANGED <<catalogue, phase, seen>>
  BY Executed
<1>2. /\ DropTable("alembic_version") \notin Elements(todo[m])
      /\ Works(todo[m], Expected(m)) /\ OneWay(todo[m])
  BY <1>1, PlansOneWay DEF Prepared
<1>3. /\ Possible(o, Expected(m))
      /\ Works(Tail(todo[m]), Apply(o, Expected(m)))
  BY <1>1, <1>2, WorksByParts
<1> HIDE DEF o, c
<1>4. Base(m)' = Base(m)
  BY <1>1 DEF Base
<1>5. ASSUME dropped[m] = {}, Elements(todo[m]) \subseteq Builders
      PROVE  Expected(m)' = Apply(o, Expected(m))
  <2>1. Drops(o, c) = {} /\ Takes(o) = {}
    BY <1>1, <1>5, Building DEF Takes
  <2> QED
    BY <1>1, <1>4, <1>5, <2>1 DEF Expected, Apply
<1>6. ASSUME made[m] = {}, Elements(todo[m]) \subseteq Destroyers
      PROVE  Expected(m)' = Apply(o, Expected(m))
  <2>1. o \in Destroyers /\ o # DropTable("alembic_version") /\ Makes(o) = {}
    BY <1>1, <1>2, <1>6, Destroying
  <2>2. catalogue[target[m]] = Objects
    <3>1. Whole \cap c # {}
      BY <1>1, <2>1, FindsSomething
    <3>2. Whole \cap catalogue[target[m]] # {}
      BY <1>6, <3>1 DEF View, c
    <3> QED
      BY <1>1, <3>2, WholeIsAll DEF Inv
  <2>3. Base(m) = Objects
    <3>1. Whole \cap Base(m) # {}
      <4>1. Whole \cap Expected(m) # {}
        BY <1>3, <2>1, FindsSomething
      <4> QED
        BY <1>6, <4>1 DEF Expected
    <3>2. VersionTable \notin Whole
      BY Names, ObjectsApart DEF Whole, SchemaObjects, VersionTable, Table
    <3>3. seen[m] \subseteq {VersionTable, Revision}
      BY DEF Inv, TypeOK
    <3> QED
      BY <3>1, <3>2, <3>3 DEF Base
  <2>4. dropped'[m] = dropped[m] \cup Takes(o)
    <3>1. c = Objects \ dropped[m]
      BY <1>6, <2>2 DEF View, c
    <3> QED
      BY <1>1, <2>1, <3>1, LeftAndGone
  <2>5. made'[m] = {}
    BY <1>1, <1>6, <2>1
  <2> QED
    BY <1>4, <1>6, <2>1, <2>3, <2>4, <2>5 DEF Expected, Apply
<1>7. Expected(m)' = Apply(o, Expected(m))
  BY <1>1, <1>5, <1>6, PlansOneWay
<1> QED
  BY <1>1, <1>2, <1>3, <1>7 DEF Prepared

\* Locks of the first steps, and of the version table.
LEMMA FirstLocks ==
  /\ Locks(CreateTable("alembic_version")) = {<<"alembic_version", "exclusive">>}
  /\ Locks(CreateTable("datasets")) = {<<"datasets", "exclusive">>}
  /\ Locks(DropConstraint) =
       {<<"attempts", "exclusive">>, <<"checkpoints", "exclusive">>}
<1>1. Inline("alembic_version") = {} /\ Inline("datasets") = {}
  BY ReferencesLead, Names DEF Inline, Tables, datasets
<1>2. circular_fk.to = "checkpoints"
  BY DEF circular_fk, ForeignKey
<1> QED
  BY <1>1, <1>2 DEF Locks, CreateTable, DropConstraint

\* Only the first step of upgrade makes the table datasets.
LEMMA OnlyRising ==
  ASSUME NEW o \in Operations, Table("datasets") \in Makes(o)
  PROVE  o = CreateTable("datasets")
<1>1. CASE \E t \in AllTables : o = CreateTable(t)
  BY <1>1, Effects, ObjectsDiffer
<1>2. CASE \E x \in DOMAIN Indexes : o = CreateIndex(x)
  BY <1>2, Effects, ObjectsDiffer
<1>3. CASE o = CreateForeignKey
  BY <1>3, Effects, ObjectsDiffer
<1>4. CASE o = Insert
  BY <1>4, Effects, ObjectsApart
<1>5. CASE o \in Destroyers
  BY <1>5, Destroying
<1> QED
  BY <1>1, <1>2, <1>3, <1>4, <1>5 DEF Operations, Builders

\* The circular foreign key goes with its constraint or with its table, both
\* of which lock the table attempts, and only if it is there.
LEMMA OnlyFalling ==
  ASSUME NEW o \in Operations, NEW c, Possible(o, c),
         Foreign("attempts", circular_fk) \in Drops(o, c)
  PROVE  /\ o \in Destroyers /\ Foreign("attempts", circular_fk) \in c
         /\ <<"attempts", "exclusive">> \in Locks(o)
<1>1. o \in Destroyers
  BY Building DEF Operations
<1>2. CASE \E t \in AllTables : o = DropTable(t)
  <2>1. PICK t \in AllTables : o = DropTable(t)
    BY <1>2
  <2>2. Foreign("attempts", circular_fk) \in Belongings(t, c)
    BY <2>1 DEF Drops, DropTable
  <2>3. t = "attempts" /\ Foreign("attempts", circular_fk) \in c
    BY <2>2, ObjectsDiffer DEF Belongings
  <2>4. <<"attempts", "exclusive">> \in Locks(o)
    BY <2>1, <2>3 DEF Locks, DropTable
  <2> QED
    BY <1>1, <2>3, <2>4
<1>3. CASE \E x \in DOMAIN Indexes : o = DropIndex(x)
  BY <1>3, ObjectsDiffer DEF Drops, DropIndex
<1>4. CASE o = DropConstraint
  BY <1>1, <1>4, FirstLocks, Possibilities
<1>5. CASE o = Delete
  BY <1>5, ObjectsApart DEF Drops, Delete
<1> QED
  BY <1>1, <1>2, <1>3, <1>4, <1>5 DEF Destroyers

\* The first step of upgrade finds no revision, that of downgrade finds one.
LEMMA ExecuteMarked ==
  ASSUME OrderInv, NEW m \in Migrators, Execute(m)
  PROVE  Marked(m)'
<1> USE DEF OrderInv
<1> DEFINE o == Head(todo[m])
           c == View(m)
           circular == Foreign("attempts", circular_fk)
<1>1. /\ phase[m] \notin Over /\ target[m] \in Databases
      /\ Possible(o, c) /\ o \in Operations /\ o \in Elements(todo[m])
      /\ made'[m] = (made[m] \ Drops(o, c)) \cup Makes(o)
      /\ dropped'[m] = dropped[m] \cup Drops(o, c)
      /\ locks'[m] = locks[m] \cup Locks(o)
      /\ UNCHANGED <<catalogue, target>>
  BY Executed
<1>2. \/ dropped[m] = {} /\ Elements(todo[m]) \subseteq Builders
      \/ made[m] = {} /\ Elements(todo[m]) \subseteq Destroyers
  BY <1>1, PlansOneWay
<1> HIDE DEF o, c
<1>3. ASSUME Table("datasets") \in Makes(o)
      PROVE  /\ <<"datasets", "exclusive">> \in locks'[m]
             /\ Revision \notin catalogue[target[m]]
  <2>1. o = CreateTable("datasets")
    BY <1>1, <1>3, OnlyRising
  <2>2. Table("datasets") \notin c
    BY <1>1, <2>1, Possibilities
  <2>3. dropped[m] = {}
    BY <1>1, <1>2, <1>3, Destroying
  <2>4. Table("datasets") \notin catalogue[target[m]]
    BY <2>2, <2>3 DEF View, c
  <2>5. Table("datasets") \in SchemaObjects
    BY Names DEF SchemaObjects
  <2>6. Revision \notin catalogue[target[m]]
    BY <1>1, <2>4, <2>5 DEF Inv, AllOrNothing
  <2> QED
    BY <1>1, <2>1, <2>6, FirstLocks
<1>4. ASSUME circular \in Drops(o, c)
      PROVE  /\ <<"attempts", "exclusive">> \in locks'[m]
             /\ Revision \in catalogue[target[m]]
  <2>1. o \in Destroyers /\ circular \in c /\ <<"attempts", "exclusive">> \in Locks(o)
    BY <1>1, <1>4, OnlyFalling
  <2>2. made[m] = {}
    BY <1>1, <1>2, <1>4, Building
  <2>3. circular \in catalogue[target[m]]
    BY <2>1, <2>2 DEF View, c
  <2>4. circular \in SchemaObjects
    BY Names DEF SchemaObjects, ForeignKeys
  <2>5. Revision \in catalogue[target[m]]
    BY <1>1, <2>3, <2>4 DEF Inv, AllOrNothing
  <2> QED
    BY <1>1, <2>1, <2>5
<1>5. Rising(m)' => Rising(m) \/ Table("datasets") \in Makes(o)
  BY <1>1 DEF Rising
<1>6. Falling(m)' => Falling(m) \/ circular \in Drops(o, c)
  BY <1>1 DEF Falling
<1> QED
  BY <1>1, <1>3, <1>4, <1>5, <1>6 DEF Marked

\* A run makes the version table first, if it has to, and takes the first
\* step of its program with the version table locked.
LEMMA ExecuteStaged ==
  ASSUME OrderInv, NEW m \in Migrators, Execute(m)
  PROVE  Staged(m)'
<1> USE DEF OrderInv
<1> SUFFICES ASSUME phase[m] = "online" PROVE Early(m)' \/ Late(m)'
  BY Executed DEF Staged
<1> DEFINE o == Head(todo[m])
           c == View(m)
           version == CreateTable("alembic_version")
           Held == \E mode \in {"read", "write", "exclusive"} :
                     <<"alembic_version", mode>> \in locks[m]
<1>1. /\ phase[m] \notin Over /\ todo[m] \in Seq(Operations) /\ todo[m] # <<>>
      /\ Elements(todo[m]) = {o} \cup Elements(Tail(todo[m]))
      /\ made'[m] = (made[m] \ Drops(o, c)) \cup Makes(o)
      /\ dropped'[m] = dropped[m] \cup Drops(o, c)
      /\ locks'[m] = locks[m] \cup Locks(o)
      /\ todo'[m] = Tail(todo[m])
  BY Executed
<1>2. version \in Operations
  BY DEF Operations, Builders, AllTables
<1>3. Early(m) \/ Late(m)
  BY DEF Staged
<1>4. ASSUME Held, Rising(m)' \/ Falling(m)', Elements(todo[m]) \cap VersionDDL = {}
      PROVE  Late(m)'
  BY <1>1, <1>4 DEF Late
<1>5. CASE Late(m)
  <2>1. Rising(m)' \/ Falling(m)'
    <3>1. CASE Rising(m)
      <4>1. dropped[m] = {} /\ Elements(todo[m]) \subseteq Builders
        BY <1>1, <3>1, PlansOneWay DEF Rising
      <4>2. Drops(o, c) = {}
        BY <1>1, <4>1, Building
      <4> QED
        BY <1>1, <3>1, <4>2 DEF Rising
    <3>2. CASE Falling(m)
      BY <1>1, <3>2 DEF Falling
    <3> QED
      BY <1>5, <3>1, <3>2 DEF Late
  <2> QED
    BY <1>4, <1>5, <2>1 DEF Late
<1>6. CASE Early(m) /\ todo[m] \in {UpgradeProper, DowngradeProper} /\ locks[m] # {}
  <2>1. Held
    BY <1>6 DEF Early
  <2>2. Elements(todo[m]) \cap VersionDDL = {}
    BY <1>6, ProperElements
  <2>3. CASE todo[m] = UpgradeProper
    <3>1. Table("datasets") \in Makes(o)
      BY <2>3, ProperElements, Effects
    <3> QED
      BY <1>1, <1>4, <2>1, <2>2, <3>1 DEF Rising
  <2>4. CASE todo[m] = DowngradeProper
    <3>1. Foreign("attempts", circular_fk) \in Drops(o, c)
      <4>1. o = DropConstraint
        BY <2>4, ProperElements
      <4> QED
        BY <4>1 DEF Drops, DropConstraint
    <3> QED
      BY <1>1, <1>4, <2>1, <2>2, <3>1 DEF Falling
  <2> QED
    BY <1>6, <2>3, <2>4
<1>7. CASE /\ Early(m) /\ locks[m] = {}
           /\ todo[m] \in {<<version>>, <<version>> \o UpgradeProper}
  <2>1. o = version /\ Tail(todo[m]) \in {<<>>, UpgradeProper}
    <3> HIDE DEF version
    <3>1. Head(<<version>>) = version /\ Tail(<<version>>) = <<>>
      OBVIOUS
    <3>2. /\ Head(<<version>> \o UpgradeProper) = version
          /\ Tail(<<version>> \o UpgradeProper) = UpgradeProper
      BY <1>2, ProperElements
    <3> QED
      BY <1>7, <3>1, <3>2
  <2>2. locks'[m] = {<<"alembic_version", "exclusive">>}
    BY <1>1, <1>7, <2>1, FirstLocks
  <2>3. /\ locks'[m] # {}
        /\ locks'[m] \subseteq {"alembic_version"} \X {"read", "exclusive"}
    BY <2>2
  <2>4. todo'[m] \in {<<>>, UpgradeProper}
    BY <1>1, <2>1
  <2> QED
    BY <2>3, <2>4 DEF Early
<1> QED
  BY <1>1, <1>3, <1>5, <1>6, <1>7 DEF Early

\* Nobody but m has moved the database while m is past its first step.
LEMMA CommitMarked ==
  ASSUME OrderInv, NEW m \in Migrators, Commit(m), NEW n \in Migrators \ {m}
  PROVE  /\ Rising(n) => Revision \notin catalogue'[target[n]]
         /\ Falling(n) => Revision \in catalogue'[target[n]]
<1> USE DEF OrderInv
<1>1. /\ phase[m] \notin Over /\ todo[m] = <<>> /\ target[m] \in Databases
      /\ catalogue' = [catalogue EXCEPT ![target[m]] = View(m)]
  BY DEF Commit, Inv, TypeOK
<1>2. /\ catalogue'[target[m]] = View(m)
      /\ \A d \in Databases \ {target[m]} : catalogue'[d] = catalogue[d]
  BY <1>1 DEF Inv, TypeOK
<1> SUFFICES ASSUME Rising(n) \/ Falling(n), target[n] = target[m]
             PROVE  Revision \in View(m) <=> Revision \in catalogue[target[m]]
  <2>1. phase[n] \notin Over => target[n] \in Databases
    BY DEF Inv, TypeOK
  <2>2. Rising(n) \/ Falling(n) => phase[n] \notin Over
    BY DEF Rising, Falling, Inv, Shape
  <2> QED
    BY <1>2, <2>1, <2>2 DEF Marked
<1>3. ~(Rising(n) /\ Rising(m)) /\ ~(Falling(n) /\ Falling(m))
  <2>1. \A t : Conflict(<<t, "exclusive">>, <<t, "exclusive">>)
    BY DEF Conflict
  <2> QED
    BY <2>1 DEF Marked, Inv, LocksApart
<1>4. /\ Table("datasets") \in Whole /\ Foreign("attempts", circular_fk) \in Whole
      /\ Table("datasets") \in SchemaObjects
      /\ Foreign("attempts", circular_fk) \in SchemaObjects /\ Revision \in Whole
  BY Names DEF Whole, SchemaObjects, ForeignKeys
<1>5. CASE Whole \cup {VersionTable} \subseteq View(m)
  <2>1. Revision \in catalogue[target[m]]
    <3>1. CASE Rising(n)
      <4>1. Table("datasets") \in catalogue[target[m]]
        BY <1>3, <1>4, <1>5, <3>1 DEF View, Rising
      <4> QED
        BY <1>1, <1>4, <4>1 DEF Inv, AllOrNothing
    <3>2. CASE Falling(n)
      BY <3>2 DEF Marked
    <3> QED
      BY <3>1, <3>2
  <2> QED
    BY <1>4, <1>5, <2>1
<1>6. CASE Whole \cap View(m) = {}
  <2>1. Revision \notin catalogue[target[m]]
    <3>1. CASE Rising(n)
      BY <3>1 DEF Marked
    <3>2. CASE Falling(n)
      <4>1. Foreign("attempts", circular_fk) \notin catalogue[target[m]]
        BY <1>3, <1>4, <1>6, <3>2 DEF View, Falling
      <4> QED
        BY <1>1, <1>4, <4>1 DEF Inv, AllOrNothing
    <3> QED
      BY <3>1, <3>2
  <2> QED
    BY <1>4, <1>6, <2>1
<1>7. CASE \A o \in Whole : o \in View(m) <=> o \in catalogue[target[m]]
  BY <1>4, <1>7
<1> QED
  BY <1>1, <1>5, <1>6, <1>7, Completed

\* A refusal changes nothing for the others.
LEMMA RefuseOrder ==
  ASSUME OrderInv, NEW m \in Migrators, NEW setting, Refuse(m, setting),
         NEW n \in Migrators
  PROVE  Prepared(n)' /\ Marked(n)' /\ Staged(n)'
<1> USE DEF OrderInv
<1>1. /\ phase'[m] = "refused"
      /\ \A i \in Migrators \ {m} : phase'[i] = phase[i]
      /\ UNCHANGED <<catalogue, target, todo, seen, made, dropped, locks>>
  BY DEF Refuse, Inv, TypeOK
<1>2. CASE n = m
  BY <1>1, <1>2 DEF Prepared, Staged, Marked, Rising, Falling
<1>3. CASE n # m
  BY <1>1, <1>3, Untouched DEF Marked
<1> QED
  BY <1>2, <1>3

\* The end of a run, given that those past their first step find the database
\* where it was.
LEMMA EndOrder ==
  ASSUME OrderInv, NEW m \in Migrators, End(m), NEW n \in Migrators,
         n # m => /\ Rising(n) => Revision \notin catalogue'[target[n]]
                  /\ Falling(n) => Revision \in catalogue'[target[n]]
  PROVE  Prepared(n)' /\ Marked(n)' /\ Staged(n)'
<1> USE DEF OrderInv
<1>1. /\ phase'[m] = "idle" /\ made'[m] = {} /\ dropped'[m] = {}
      /\ \A i \in Migrators \ {m} :
           /\ phase'[i] = phase[i] /\ target'[i] = target[i] /\ todo'[i] = todo[i]
           /\ seen'[i] = seen[i] /\ made'[i] = made[i] /\ dropped'[i] = dropped[i]
           /\ locks'[i] = locks[i]
  BY DEF End, Inv, TypeOK, Shape
<1>2. CASE n = m
  BY <1>1, <1>2 DEF Prepared, Staged, Marked, Rising, Falling
<1>3. CASE n # m
  BY <1>1, <1>3, Untouched
<1> QED
  BY <1>2, <1>3

\* Every step keeps the invariant.
LEMMA NextOrder == OrderInv /\ [Next]_vars => OrderInv'
<1> SUFFICES ASSUME OrderInv, [Next]_vars
             PROVE  \A n \in Migrators : Prepared(n)' /\ Marked(n)' /\ Staged(n)'
  BY NextInv DEF OrderInv
<1> DEFINE Keeps(n) == Prepared(n)' /\ Marked(n)' /\ Staged(n)'
<1>1. ASSUME NEW m \in Migrators, run_migrations_online(m), NEW n \in Migrators
      PROVE  Keeps(n)
  <2>1. PICK command \in Commands, setting \in Settings :
          LET url == get_canonical_database_url(setting, m) IN
            IF Connects(url)
            THEN Begin(m, "online", command, setting, url.database,
                       Migration(command, url.database), Reading(url.database))
            ELSE Refuse(m, setting)
    BY <1>1 DEF run_migrations_online, Commands
  <2> DEFINE url == get_canonical_database_url(setting, m)
  <2>2. CASE Connects(url)
    <3>1. url.database \in Databases
      BY <2>2, CanonicalUrl DEF Connects, Url
    <3> HIDE DEF url
    <3> QED
      BY <2>1, <2>2, <3>1, BeginOrder DEF url
  <2>3. CASE ~Connects(url)
    BY <2>1, <2>3, RefuseOrder
  <2> QED
    BY <2>2, <2>3
<1>2. ASSUME NEW m \in Migrators, run_migrations_offline(m), NEW n \in Migrators
      PROVE  Keeps(n)
  <2>1. PICK command \in Commands, setting \in Settings :
          IF Dialect(get_canonical_database_url(setting, m))
          THEN \E d \in Reachable :
                 Begin(m, "offline", command, NULL, d, Script(command), {})
          ELSE Refuse(m, setting)
    BY <1>2 DEF run_migrations_offline, Commands
  <2>2. ASSUME NEW d \in Reachable,
               Begin(m, "offline", command, NULL, d, Script(command), {})
        PROVE  Keeps(n)
    <3>1. d \in Databases /\ "offline" \in {"online", "offline"}
      BY MigrationsAssumption
    <3> QED
      BY <2>2, <3>1, BeginOrder
  <2> QED
    BY <2>1, <2>2, RefuseOrder
<1>3. ASSUME NEW m \in Migrators, Execute(m), NEW n \in Migrators
      PROVE  Keeps(n)
  <2>1. CASE n = m
    BY <1>3, <2>1, ExecutePrepared, ExecuteMarked, ExecuteStaged
  <2>2. CASE n # m
    <3>1. /\ phase'[n] = phase[n] /\ target'[n] = target[n] /\ todo'[n] = todo[n]
          /\ seen'[n] = seen[n] /\ made'[n] = made[n] /\ dropped'[n] = dropped[n]
          /\ locks'[n] = locks[n] /\ catalogue' = catalogue
      BY <1>3, <2>2, Executed DEF OrderInv
    <3> QED
      BY <3>1, Untouched DEF OrderInv, Marked
  <2> QED
    BY <2>1, <2>2
<1>4. ASSUME NEW m \in Migrators, Fail(m) \/ Victim(m) \/ Crash(m),
             NEW n \in Migrators
      PROVE  Keeps(n)
  <2>1. End(m) /\ UNCHANGED catalogue
    BY <1>4 DEF Fail, Victim, Crash
  <2> QED
    BY <2>1, EndOrder DEF OrderInv, Marked
<1>5. ASSUME NEW m \in Migrators, Commit(m), NEW n \in Migrators
      PROVE  Keeps(n)
  <2>1. End(m)
    BY <1>5 DEF Commit
  <2> QED
    BY <1>5, <2>1, EndOrder, CommitMarked
<1>6. ASSUME UNCHANGED vars, NEW n \in Migrators PROVE Keeps(n)
  BY <1>6, Untouched DEF vars, OrderInv, Marked
<1> QED
  BY <1>1, <1>2, <1>3, <1>4, <1>5, <1>6 DEF Next

-----------------------------------------------------------------------------
(* The theorems.                                                           *)

\* The programs of all runs of alembic stay in order, in every behaviour.
THEOREM OrderInvariance == Spec => []OrderInv
BY InitOrder, NextOrder, PTL DEF Spec

\* A run of alembic that nobody has overtaken sees what it would see if it
\* were alone, so that its next operation is possible.
THEOREM OnlyTheOvertakenFail == Spec => []OvertakenOrPossible
<1>1. ASSUME OrderInv, NEW m \in Migrators, phase[m] = "online",
             todo[m] # <<>>, ~Overtaken(m)
      PROVE  Possible(Head(todo[m]), View(m))
  <2>1. /\ phase[m] \notin Over /\ target[m] \in Databases
        /\ todo[m] \in Seq(Operations)
        /\ catalogue[target[m]] \subseteq Objects
    BY <1>1 DEF OrderInv, Inv, TypeOK, Shape, Over
  <2>2. catalogue[target[m]] = Base(m)
    <3>1. catalogue[target[m]] \cap {VersionTable, Revision} = seen[m]
      BY <1>1 DEF Overtaken, Versions
    <3>2. CASE Revision \in seen[m]
      <4>1. Whole \cap catalogue[target[m]] # {}
        BY <3>1, <3>2 DEF Whole
      <4> QED
        BY <1>1, <2>1, <3>2, <4>1, WholeIsAll DEF OrderInv, Inv, Base
    <3>3. CASE Revision \notin seen[m]
      <4>1. SchemaObjects \cap catalogue[target[m]] = {}
        BY <1>1, <2>1, <3>1, <3>3 DEF OrderInv, Inv, AllOrNothing
      <4> QED
        BY <2>1, <3>1, <3>3, <4>1 DEF Base, Objects
    <3> QED
      BY <3>2, <3>3
  <2>3. View(m) = Expected(m)
    BY <2>2 DEF View, Expected
  <2>4. Works(todo[m], Expected(m)) /\ OneWay(todo[m])
    BY <1>1, <2>1, PlansOneWay DEF OrderInv, Prepared
  <2> QED
    BY <1>1, <2>1, <2>3, <2>4, WorksByParts
<1>2. OrderInv => OvertakenOrPossible
  BY <1>1 DEF OvertakenOrPossible
<1> QED
  BY <1>2, OrderInvariance, PTL

\* But for the creation and the drop of the version table, an operation locks
\* no more of it than a row.
LEMMA VersionLocks ==
  ASSUME NEW o \in Operations, o \notin VersionDDL,
         NEW k \in Locks(o), k[1] = "alembic_version"
  PROVE  k[2] = "write"
<1>1. "alembic_version" \notin DOMAIN Tables /\ "attempts" \in DOMAIN Tables
  BY Names
<1>2. CASE \E t \in AllTables : o = CreateTable(t) \/ o = DropTable(t)
  <2>1. PICK t \in AllTables : o = CreateTable(t) \/ o = DropTable(t)
    BY <1>2
  <2>2. t \in DOMAIN Tables
    BY <2>1 DEF VersionDDL, AllTables
  <2>3. k \in {<<s, "exclusive">> : s \in {t} \cup {fk.to : fk \in Inline(t)}}
    BY <2>1 DEF Locks, CreateTable, DropTable
  <2>4. k[1] \in DOMAIN Tables
    BY <2>2, <2>3, ReferencesLead
  <2> QED
    BY <1>1, <2>4
<1>3. CASE \E x \in DOMAIN Indexes : o = CreateIndex(x) \/ o = DropIndex(x)
  <2>1. k[1] \in DOMAIN Tables
    BY <1>3, ReferencesLeadBack DEF Locks, CreateIndex, DropIndex
  <2> QED
    BY <1>1, <2>1
<1>4. CASE o \in {CreateForeignKey, DropConstraint}
  <2>1. k[1] \in DOMAIN Tables
    BY <1>1, <1>4, ReferencesLead DEF Locks, CreateForeignKey, DropConstraint
  <2> QED
    BY <1>1, <2>1
<1>5. CASE o \in {Insert, Delete}
  BY <1>5 DEF Locks, Insert, Delete
<1> QED
  BY <1>2, <1>3, <1>4, <1>5 DEF Operations, Builders, Destroyers

\* At most one run on a database is past its first step.
LEMMA OneLate ==
  ASSUME OrderInv, NEW m \in Migrators, NEW n \in Migrators, m # n,
         target[m] = target[n], Late(m), Late(n)
  PROVE  FALSE
<1>1. \A t : Conflict(<<t, "exclusive">>, <<t, "exclusive">>)
  BY DEF Conflict
<1>2. ~(Rising(m) /\ Rising(n)) /\ ~(Falling(m) /\ Falling(n))
  BY <1>1 DEF OrderInv, Marked, Inv, LocksApart
<1>3. ~(Rising(m) /\ Falling(n)) /\ ~(Falling(m) /\ Rising(n))
  BY DEF OrderInv, Marked
<1> QED
  BY <1>2, <1>3 DEF Late

\* Runs of alembic that wait for one another in a circle do not exist: at most
\* one is past its first step, and it does not wait for the others; they wait
\* only to create the version table, before they lock anything.
THEOREM OnlineRunsNeverDeadlock == Spec => []OnlineNeverDeadlocks
<1>1. ASSUME OrderInv, NEW D \in SUBSET Migrators, Circle(D),
             \A n \in D : phase[n] # "offline"
      PROVE  FALSE
  <2> DEFINE o(d) == Head(todo[d])
  <2>1. ASSUME NEW d \in D
        PROVE  /\ todo[d] # <<>> /\ todo[d] \in Seq(Operations)
               /\ o(d) \in Operations /\ o(d) \in Elements(todo[d])
               /\ Early(d) \/ Late(d)
    <3>1. todo[d] # <<>> /\ todo[d] \in Seq(Operations)
      BY <1>1 DEF Circle, WaitsFor, OrderInv, Inv, Shape
    <3>2. phase[d] = "online"
      BY <1>1, <3>1 DEF OrderInv, Inv, TypeOK, Over
    <3> QED
      BY <1>1, <3>1, <3>2, HeadAndTail DEF OrderInv, Staged
  <2>2. ASSUME NEW d \in D, NEW n \in D, WaitsFor(d, n)
        PROVE  /\ d # n /\ target[d] = target[n]
               /\ \E k \in Locks(o(d)), l \in locks[n] : Conflict(k, l)
    BY <2>2 DEF WaitsFor, Blocks
  <2> HIDE DEF o
  <2>3. ASSUME NEW d \in D, Late(d) PROVE FALSE
    <3>1. PICK n \in D : WaitsFor(d, n)
      BY <1>1 DEF Circle
    <3>2. PICK k \in Locks(o(d)), l \in locks[n] : Conflict(k, l)
      BY <2>2, <3>1
    <3>3. Early(n)
      BY <1>1, <2>1, <2>2, <2>3, <3>1, OneLate
    <3>4. l[1] = "alembic_version" /\ l[2] \in {"read", "exclusive"}
      BY <3>3 DEF Early
    <3>5. k[2] = "write"
      <4>1. k[1] = "alembic_version"
        BY <3>2, <3>4 DEF Conflict
      <4>2. o(d) \notin VersionDDL
        BY <2>1, <2>3 DEF Late
      <4> QED
        BY <2>1, <4>1, <4>2, VersionLocks
    <3>6. l[2] = "exclusive"
      BY <3>2, <3>4, <3>5 DEF Conflict
    <3>7. PICK mode \in {"read", "write", "exclusive"} :
            <<"alembic_version", mode>> \in locks[d]
      BY <2>3 DEF Late
    <3>8. Conflict(<<"alembic_version", mode>>, l)
      BY <3>4, <3>6 DEF Conflict
    <3> QED
      BY <1>1, <2>2, <3>1, <3>7, <3>8 DEF OrderInv, Inv, LocksApart
  <2>4. ASSUME NEW d \in D PROVE locks[d] = {}
    <3>1. PICK n \in D : WaitsFor(d, n)
      BY <1>1 DEF Circle
    <3>2. PICK k \in Locks(o(d)), l \in locks[n] : Conflict(k, l)
      BY <2>2, <3>1
    <3>3. Early(d) /\ Early(n)
      BY <2>1, <2>3
    <3>4. k[1] = "alembic_version"
      BY <3>2, <3>3 DEF Early, Conflict
    <3>5. CASE todo[d] = UpgradeProper
      BY <3>4, <3>5, ProperElements, FirstLocks DEF o
    <3>6. CASE todo[d] = DowngradeProper
      BY <3>4, <3>6, ProperElements, FirstLocks DEF o
    <3> QED
      BY <2>1, <3>3, <3>5, <3>6 DEF Early
  <2>5. PICK d \in D, n \in D : WaitsFor(d, n)
    BY <1>1 DEF Circle
  <2> QED
    BY <2>2, <2>4, <2>5
<1>2. OrderInv => OnlineNeverDeadlocks
  BY <1>1 DEF OnlineNeverDeadlocks
<1> QED
  BY <1>2, OrderInvariance, PTL

=============================================================================
