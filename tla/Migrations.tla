----------------------------- MODULE Migrations -----------------------------
(***************************************************************************)
(* Concurrent runs of the migration: alembic processes (migrations/env.py, *)
(* online), and operators who feed psql the script that alembic prints     *)
(* offline.  Each works through the operations of upgrade or downgrade in  *)
(* one transaction; PostgreSQL's DDL is transactional, locks the tables it *)
(* touches until the transaction ends, and sees what has been committed.   *)
(*                                                                         *)
(* An operator says which database is meant with DATABASE_URL, which may   *)
(* be unset or empty, or leaves it to the alembic.ini at hand.  A URL is a *)
(* record of its scheme and of the database that the rest of it leads to.  *)
(*                                                                         *)
(* The catalogue of a database is a set of objects: its tables, indexes    *)
(* and foreign keys, and the row of alembic_version that names the         *)
(* revision.                                                               *)
(***************************************************************************)
EXTENDS Schema

CONSTANTS
  Migrators,
  Databases,
  Reachable,  \* the databases that scripts are fed to
  Settings,   \* what DATABASE_URL may hold: URLs, or NULL
  INI         \* INI[m]: sqlalchemy.url in the alembic.ini of m, or NULL

\* The schemes that env.py and SQLAlchemy tell apart.  There is no driver for
\* "another": the migration is for PostgreSQL, and URLs of SQLite, the driver
\* of which comes with Python, are left out.
Schemes == {"postgres", "postgresql", "postgresql+psycopg",
            "postgresql+psycopg2", "another"}

Url == [scheme : Schemes, database : Databases]

ASSUME MigrationsAssumption ==
  /\ Reachable \subseteq Databases /\ NULL \notin Url
  /\ \A m \in Migrators : INI[m] \in Url \cup {NULL}
  /\ \A url \in Settings : url \in Url \cup {NULL}

VARIABLES
  catalogue,  \* catalogue[d]: the committed objects of database d
  phase,      \* phase[m]: "idle", "online", "offline", or "refused"
  order,      \* order[m]: the command that m was given, and DATABASE_URL
  target,     \* target[m]: the database that m works on
  todo,       \* todo[m]: the operations m has yet to execute
  seen,       \* seen[m]: the version objects committed when m began
  made,       \* made[m], dropped[m]: what m's transaction has changed
  dropped,
  locks       \* locks[m]: the tables m has locked, with the mode

vars == <<catalogue, phase, order, target, todo, seen, made, dropped, locks>>

-----------------------------------------------------------------------------
(* The objects of a catalogue.                                             *)

Table(t) == <<"table", t>>
Index(i, t) == <<"index", i, t>>
Foreign(t, fk) == <<"foreign key", t, fk>>
VersionTable == Table("alembic_version")
Revision == <<"version", "0001_initial_schema">>

\* Each index of the migration and its table.
Indexes ==
  [ix_dataset_builds__dataset_id_state |-> "dataset_builds",
   ix_jobs__state_created_at |-> "jobs",
   uq_attempts__one_active |-> "attempts",
   ix_attempts__job_id_created_at |-> "attempts",
   uq_worker_sessions__active_rank |-> "worker_sessions",
   uq_events__attempt_runtime_seq |-> "events",
   ix_events__attempt_occurred_at |-> "events",
   ix_control_commands__state_requested_at |-> "control_commands",
   ix_metrics__attempt_id_observed_at |-> "metrics"]

\* All that the revision stands for.
SchemaObjects ==
  {Table(t) : t \in DOMAIN Tables}
    \cup {Index(i, Indexes[i]) : i \in DOMAIN Indexes}
    \cup UNION {{Foreign(t, fk) : fk \in ForeignKeys(t)} : t \in DOMAIN Tables}

\* All that these scripts can make.
Objects == SchemaObjects \cup {VersionTable, Revision}

-----------------------------------------------------------------------------
(* The operations: what each needs, makes, drops and locks.                *)

CreateTable(t) == [op |-> "create_table", on |-> t]
DropTable(t) == [op |-> "drop_table", on |-> t]
CreateIndex(i) == [op |-> "create_index", on |-> Indexes[i], name |-> i]
DropIndex(i) == [op |-> "drop_index", on |-> Indexes[i], name |-> i]
CreateForeignKey == [op |-> "create_foreign_key", on |-> "attempts"]
DropConstraint == [op |-> "drop_constraint", on |-> "attempts"]
Insert == [op |-> "insert", on |-> "alembic_version"]
Delete == [op |-> "delete", on |-> "alembic_version"]

\* The foreign keys in the definition of a table.
Inline(t) == IF t \in DOMAIN Tables THEN Tables[t].foreignKeys ELSE {}

\* The objects of table t in catalogue c that go when t goes.
Belongings(t, c) ==
  {Table(t)} \cup {o \in c : \E i \in DOMAIN Indexes : o = Index(i, t)}
             \cup {o \in c : \E fk \in Inline(t) \cup {circular_fk} : o = Foreign(t, fk)}

\* A foreign key of another table refers to t.
ReferredTo(t, c) ==
  \E s \in DOMAIN Tables \ {t} : \E fk \in Inline(s) \cup {circular_fk} :
     fk.to = t /\ Foreign(s, fk) \in c

Possible(o, c) ==
  CASE o.op = "create_table" -> /\ Table(o.on) \notin c
                                /\ \A fk \in Inline(o.on) :
                                     fk.to = o.on \/ Table(fk.to) \in c
    [] o.op = "drop_table"   -> Table(o.on) \in c /\ ~ReferredTo(o.on, c)
    [] o.op = "create_index" -> Table(o.on) \in c /\ Index(o.name, o.on) \notin c
    [] o.op = "drop_index"   -> Index(o.name, o.on) \in c
    [] o.op = "create_foreign_key" ->
         {Table(o.on), Table(circular_fk.to)} \subseteq c
    [] o.op = "drop_constraint" -> Foreign(o.on, circular_fk) \in c
    [] o.op = "insert"       -> VersionTable \in c /\ Revision \notin c
    [] o.op = "delete"       -> VersionTable \in c /\ Revision \in c

Makes(o) ==
  CASE o.op = "create_table" ->
         {Table(o.on)} \cup {Foreign(o.on, fk) : fk \in Inline(o.on)}
    [] o.op = "create_index" -> {Index(o.name, o.on)}
    [] o.op = "create_foreign_key" -> {Foreign(o.on, circular_fk)}
    [] o.op = "insert"       -> {Revision}
    [] OTHER                 -> {}

Drops(o, c) ==
  CASE o.op = "drop_table"      -> Belongings(o.on, c)
    [] o.op = "drop_index"      -> {Index(o.name, o.on)}
    [] o.op = "drop_constraint" -> {Foreign(o.on, circular_fk)}
    [] o.op = "delete"          -> {Revision}
    [] OTHER                    -> {}

\* The locks an operation takes: DDL locks its table and, for a foreign key,
\* the other end; a row of alembic_version is written under a weaker lock.
Locks(o) ==
  CASE o.op \in {"create_table", "drop_table"} ->
         {<<t, "exclusive">> : t \in {o.on} \cup {fk.to : fk \in Inline(o.on)}}
    [] o.op \in {"create_foreign_key", "drop_constraint"} ->
         {<<o.on, "exclusive">>, <<circular_fk.to, "exclusive">>}
    [] o.op \in {"create_index", "drop_index"} -> {<<o.on, "exclusive">>}
    [] o.op \in {"insert", "delete"} -> {<<o.on, "write">>}

\* Readers do not disturb readers or writers of rows.
Conflict(k, l) ==
  k[1] = l[1] /\ ("exclusive" \in {k[2], l[2]} \/ {k[2], l[2]} = {"write"})

-----------------------------------------------------------------------------
(* The revision's two programs.                                            *)

Upgrade ==
  << CreateTable("datasets"),
     CreateTable("dataset_builds"),
     CreateIndex("ix_dataset_builds__dataset_id_state"),
     CreateTable("jobs"),
     CreateIndex("ix_jobs__state_created_at"),
     CreateTable("attempts"),
     CreateIndex("uq_attempts__one_active"),
     CreateIndex("ix_attempts__job_id_created_at"),
     CreateTable("worker_sessions"),
     CreateIndex("uq_worker_sessions__active_rank"),
     CreateTable("worker_provisioning"),
     CreateTable("steps"),
     CreateTable("worker_steps"),
     CreateTable("checkpoints"),
     CreateForeignKey,
     CreateTable("events"),
     CreateIndex("uq_events__attempt_runtime_seq"),
     CreateIndex("ix_events__attempt_occurred_at"),
     CreateTable("control_commands"),
     CreateIndex("ix_control_commands__state_requested_at"),
     CreateTable("metrics"),
     CreateIndex("ix_metrics__attempt_id_observed_at") >>

DropIndexes ==
  << DropIndex("ix_metrics__attempt_id_observed_at"),
     DropIndex("ix_control_commands__state_requested_at"),
     DropIndex("ix_events__attempt_occurred_at"),
     DropIndex("uq_events__attempt_runtime_seq"),
     DropIndex("uq_worker_sessions__active_rank"),
     DropIndex("ix_attempts__job_id_created_at"),
     DropIndex("uq_attempts__one_active"),
     DropIndex("ix_jobs__state_created_at"),
     DropIndex("ix_dataset_builds__dataset_id_state") >>

\* Defect: one table is forgotten.
DropTablesButCommands ==
  << DropTable("metrics"), DropTable("events"), DropTable("checkpoints"),
     DropTable("worker_steps"), DropTable("steps"),
     DropTable("worker_provisioning"), DropTable("worker_sessions"),
     DropTable("attempts"), DropTable("jobs"), DropTable("dataset_builds"),
     DropTable("datasets") >>

\* Defect: sessions are dropped before the contributions that refer to them.
DropTablesSwapped ==
  << DropTable("metrics"), DropTable("control_commands"), DropTable("events"),
     DropTable("checkpoints"), DropTable("worker_sessions"),
     DropTable("worker_steps"), DropTable("steps"),
     DropTable("worker_provisioning"), DropTable("attempts"),
     DropTable("jobs"), DropTable("dataset_builds"), DropTable("datasets") >>

DropTables ==
  << DropTable("metrics"), DropTable("control_commands"), DropTable("events"),
     DropTable("checkpoints"), DropTable("worker_steps"), DropTable("steps"),
     DropTable("worker_provisioning"), DropTable("worker_sessions"),
     DropTable("attempts"), DropTable("jobs"), DropTable("dataset_builds"),
     DropTable("datasets") >>

Downgrade == <<DropConstraint>> \o DropIndexes \o DropTables

-----------------------------------------------------------------------------
(* Which database: migrations/env.py.                                      *)

\* Defect: what alembic.ini says goes before the environment.
get_url_ini_first(setting, m) ==
  LET raw == IF INI[m] = NULL THEN setting ELSE INI[m] IN
    IF raw # NULL /\ raw.scheme \in {"postgresql", "postgres"}
    THEN [raw EXCEPT !.scheme = "postgresql+psycopg"] ELSE raw

\* NULL is the RuntimeError that nothing is configured.
get_canonical_database_url(setting, m) ==
  LET raw_url == IF setting = NULL THEN INI[m] ELSE setting IN
    IF raw_url # NULL /\ raw_url.scheme \in {"postgresql", "postgres"}
    THEN [raw_url EXCEPT !.scheme = "postgresql+psycopg"] ELSE raw_url

\* SQLAlchemy knows "postgresql", the driver psycopg2 for which is not
\* installed, with or without the name of a driver, and no "postgres".
Dialect(url) == /\ url # NULL
                /\ url.scheme \in {"postgresql", "postgresql+psycopg", "postgresql+psycopg2"}
\* Any URL is handed on (74); psycopg is the one driver installed for Schemes.
Connects(url) == url # NULL /\ url.scheme = "postgresql+psycopg"

-----------------------------------------------------------------------------

Over == {"idle", "refused"}

Init ==
  /\ catalogue = [d \in Databases |-> {}]
  /\ phase = [m \in Migrators |-> "idle"]
  /\ order = [m \in Migrators |-> NULL]
  /\ target = [m \in Migrators |-> NULL]
  /\ todo = [m \in Migrators |-> <<>>]
  /\ seen = [m \in Migrators |-> {}]
  /\ made = [m \in Migrators |-> {}]
  /\ dropped = [m \in Migrators |-> {}]
  /\ locks = [m \in Migrators |-> {}]

View(m) == (catalogue[target[m]] \ dropped[m]) \cup made[m]

\* What alembic goes by: its table and the revision in it.
Versions(d) == catalogue[d] \cap {VersionTable, Revision}

\* m would have to wait for n's locks.
Blocks(n, d, held) ==
  target[n] = d /\ \E k \in held, l \in locks[n] : Conflict(k, l)

Begin(m, mode, command, setting, d, ops, held) ==
  /\ phase[m] \in Over
  /\ \A n \in Migrators \ {m} : ~Blocks(n, d, held)
  /\ phase' = [phase EXCEPT ![m] = mode]
  /\ order' = [order EXCEPT ![m] = [command |-> command, setting |-> setting]]
  /\ target' = [target EXCEPT ![m] = d]
  /\ seen' = [seen EXCEPT ![m] = Versions(d)]
  /\ todo' = [todo EXCEPT ![m] = ops]
  /\ locks' = [locks EXCEPT ![m] = held]
  /\ UNCHANGED <<catalogue, made, dropped>>

\* env.py or SQLAlchemy raises before any database is met.
Refuse(m, setting) ==
  /\ phase[m] \in Over
  /\ phase' = [phase EXCEPT ![m] = "refused"]
  /\ order' = [order EXCEPT ![m] = [command |-> NULL, setting |-> setting]]
  /\ UNCHANGED <<catalogue, target, todo, seen, made, dropped, locks>>

\* An online run first reads the version table, if there is one, in its
\* transaction, and so keeps it from being dropped.
Reading(d) == IF VersionTable \in catalogue[d]
              THEN {<<"alembic_version", "read">>} ELSE {}

\* Alembic creates its version table when it finds no revision and no table.
EnsureVersionTable(d) ==
  IF Versions(d) # {} THEN <<>> ELSE <<CreateTable("alembic_version")>>

\* Defect: the version table is dropped as well.
MigrationDroppingVersion(command, d) ==
  CASE command = "upgrade" /\ Revision \notin catalogue[d] ->
         EnsureVersionTable(d) \o Upgrade \o <<Insert>>
    [] command = "downgrade" /\ Revision \in catalogue[d] ->
         Downgrade \o <<Delete, DropTable("alembic_version")>>
    [] OTHER -> EnsureVersionTable(d)

\* "alembic upgrade head" has nothing to do if the revision is there, and
\* "alembic downgrade base" if it is not.
Migration(command, d) ==
  CASE command = "upgrade" /\ Revision \notin catalogue[d] ->
         EnsureVersionTable(d) \o Upgrade \o <<Insert>>
    [] command = "downgrade" /\ Revision \in catalogue[d] ->
         Downgrade \o <<Delete>>
    [] OTHER -> EnsureVersionTable(d)

\* The scripts that "--sql" prints look at no database.
Script(command) ==
  IF command = "upgrade"
  THEN <<CreateTable("alembic_version")>> \o Upgrade \o <<Insert>>
  ELSE Downgrade \o <<Delete, DropTable("alembic_version")>>

run_migrations_online(m) ==
  \E command \in {"upgrade", "downgrade"}, setting \in Settings :
    LET url == get_canonical_database_url(setting, m) IN
      IF Connects(url)
      THEN Begin(m, "online", command, setting, url.database,
                 Migration(command, url.database), Reading(url.database))
      ELSE Refuse(m, setting)

\* The URL only names the dialect of the script; the operator who has it
\* feeds it to whatever database is in reach.
run_migrations_offline(m) ==
  \E command \in {"upgrade", "downgrade"}, setting \in Settings :
    IF Dialect(get_canonical_database_url(setting, m))
    THEN \E d \in Reachable :
           Begin(m, "offline", command, NULL, d, Script(command), {})
    ELSE Refuse(m, setting)

\* A table cannot be made where there is one: PostgreSQL says so at once.
Taken(m) ==
  LET o == Head(todo[m]) IN o.op = "create_table" /\ Table(o.on) \in View(m)

\* The next operation of m has to wait for n.
WaitsFor(m, n) ==
  /\ n # m /\ todo[m] # <<>> /\ ~Taken(m)
  /\ Blocks(n, target[m], Locks(Head(todo[m])))

Waits(m) == \E n \in Migrators : WaitsFor(m, n)

\* The members of D all wait for one another.
Circle(D) == D # {} /\ \A d \in D : \E n \in D : WaitsFor(d, n)

Deadlocked(m) == \E D \in SUBSET Migrators : m \in D /\ Circle(D)

Execute(m) ==
  LET o == Head(todo[m]) IN
    /\ phase[m] \notin Over /\ todo[m] # <<>>
    /\ ~Waits(m) /\ Possible(o, View(m))
    /\ made' = [made EXCEPT ![m] = (@ \ Drops(o, View(m))) \cup Makes(o)]
    /\ dropped' = [dropped EXCEPT ![m] = @ \cup Drops(o, View(m))]
    /\ locks' = [locks EXCEPT ![m] = @ \cup Locks(o)]
    /\ todo' = [todo EXCEPT ![m] = Tail(@)]
    /\ UNCHANGED <<catalogue, phase, order, target, seen>>

\* Defect: what was left to do outlives the run.
EndKeepingWork(m) ==
  /\ phase' = [phase EXCEPT ![m] = "idle"]
  /\ order' = [order EXCEPT ![m] = NULL]
  /\ target' = [target EXCEPT ![m] = NULL]
  /\ seen' = [seen EXCEPT ![m] = {}]
  /\ made' = [made EXCEPT ![m] = {}]
  /\ dropped' = [dropped EXCEPT ![m] = {}]
  /\ locks' = [locks EXCEPT ![m] = {}]
  /\ UNCHANGED todo

\* The transaction of m ends, and the connection is closed.
End(m) ==
  /\ phase' = [phase EXCEPT ![m] = "idle"]
  /\ order' = [order EXCEPT ![m] = NULL]
  /\ target' = [target EXCEPT ![m] = NULL]
  /\ todo' = [todo EXCEPT ![m] = <<>>]
  /\ seen' = [seen EXCEPT ![m] = {}]
  /\ made' = [made EXCEPT ![m] = {}]
  /\ dropped' = [dropped EXCEPT ![m] = {}]
  /\ locks' = [locks EXCEPT ![m] = {}]

\* An operation fails: alembic stops, psql runs into ROLLBACK at the end.
Fail(m) ==
  /\ phase[m] \notin Over /\ todo[m] # <<>>
  /\ ~Waits(m) /\ ~Possible(Head(todo[m]), View(m))
  /\ End(m)
  /\ UNCHANGED catalogue

\* PostgreSQL detects a deadlock and makes m its victim.
Victim(m) ==
  /\ Deadlocked(m)
  /\ End(m)
  /\ UNCHANGED catalogue

\* Defect: the transaction is never committed.
CommitNothing(m) ==
  /\ phase[m] \notin Over /\ todo[m] = <<>>
  /\ End(m)
  /\ UNCHANGED catalogue

\* Defect: the connection stays open after the commit, and holds its locks.
CommitHoldingLocks(m) ==
  /\ phase[m] \notin Over /\ todo[m] = <<>>
  /\ catalogue' = [catalogue EXCEPT ![target[m]] = View(m)]
  /\ phase' = [phase EXCEPT ![m] = "idle"]
  /\ order' = [order EXCEPT ![m] = NULL]
  /\ seen' = [seen EXCEPT ![m] = {}]
  /\ made' = [made EXCEPT ![m] = {}]
  /\ dropped' = [dropped EXCEPT ![m] = {}]
  /\ UNCHANGED <<target, todo, locks>>

Commit(m) ==
  /\ phase[m] \notin Over /\ todo[m] = <<>>
  /\ catalogue' = [catalogue EXCEPT ![target[m]] = View(m)]
  /\ End(m)

\* The process is killed, or its connection is lost.
Crash(m) ==
  /\ phase[m] \notin Over
  /\ End(m)
  /\ UNCHANGED catalogue

Next ==
  \E m \in Migrators :
    \/ run_migrations_online(m) \/ run_migrations_offline(m)
    \/ Execute(m) \/ Fail(m) \/ Victim(m) \/ Commit(m) \/ Crash(m)

\* A migrator that has begun goes on unless it is killed; PostgreSQL queues
\* those who wait for a lock, so nobody is passed over for ever.
Fairness ==
  \A m \in Migrators : SF_vars(Execute(m) \/ Fail(m) \/ Victim(m) \/ Commit(m))

Spec == Init /\ [][Next]_vars /\ Fairness

-----------------------------------------------------------------------------
(* Properties.                                                             *)

\* The types: a run that is over has nothing left to do, and one that is not
\* works on a database.
TypeOK ==
  /\ catalogue \in [Databases -> SUBSET Objects]
  /\ phase \in [Migrators -> Over \cup {"online", "offline"}]
  /\ seen \in [Migrators -> SUBSET {VersionTable, Revision}]
  /\ made \in [Migrators -> SUBSET Objects]
  /\ dropped \in [Migrators -> SUBSET Objects]
  /\ locks \in [Migrators -> SUBSET ((DOMAIN Tables \cup {"alembic_version"})
                                      \X {"read", "write", "exclusive"})]
  /\ \A m \in Migrators :
       IF phase[m] \in Over THEN todo[m] = <<>> ELSE target[m] \in Databases

\* A database is at the revision with everything the revision stands for, or
\* it has none of it: concurrent upgrades and downgrades, kills between two
\* operations and scripts applied to the wrong database leave no half schema.
AllOrNothing ==
  \A d \in Databases :
    IF Revision \in catalogue[d]
    THEN SchemaObjects \cup {VersionTable} \subseteq catalogue[d]
    ELSE SchemaObjects \cap catalogue[d] = {}

\* Somebody has changed the version objects since m began.
Overtaken(m) == Versions(target[m]) # seen[m]

\* A run that ends with success has brought the database to where its
\* command says, unless it was overtaken: what env.py has done in its
\* transaction is committed, and the script's operations are all there.
SuccessMeansDone ==
  [][\A m \in Migrators :
       Commit(m) /\ ~Overtaken(m) =>
         (order[m].command = "upgrade" <=> Revision \in catalogue'[target[m]])]_vars

\* The database that an operator names with DATABASE_URL or, failing that, in
\* alembic.ini.
Named(m) == IF order[m].setting # NULL THEN order[m].setting ELSE INI[m]

\* An online run works on the database its operator has named, and on no
\* other, whatever else is configured; and it is refused only if none is
\* named, or with a driver that is not installed (env.py 44-74).
GoesWhereTold ==
  \A m \in Migrators :
    /\ phase[m] = "online" => Named(m) # NULL /\ target[m] = Named(m).database
    /\ phase[m] = "refused" =>
         \/ Named(m) = NULL
         \/ Named(m).scheme \notin {"postgres", "postgresql", "postgresql+psycopg"}

\* A run of alembic fails only if somebody has overtaken it: as long as the
\* version objects are what they were when the run began, its next operation
\* is possible, whoever else is at work.  In particular, upgrade and downgrade
\* are in an order that works, and each works after the other.
OvertakenOrPossible ==
  \A m \in Migrators :
    /\ phase[m] = "online" /\ todo[m] # <<>>
    /\ ~Overtaken(m)
    => Possible(Head(todo[m]), View(m))

\* Runs of alembic never deadlock among themselves, although upgrade and
\* downgrade lock the tables in opposite orders: in every circle of runs that
\* wait for one another there is a script.
OnlineNeverDeadlocks ==
  \A D \in SUBSET Migrators :
    Circle(D) => \E n \in D : phase[n] = "offline"

\* Every run ends: no migrator waits for ever for another.
RunsEnd == \A m \in Migrators : phase[m] \notin Over ~> phase[m] \in Over
=============================================================================
