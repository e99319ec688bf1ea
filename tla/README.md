# A verification project for PBL4 distributed training

TLA+ modules, TLC configurations and TLAPS proofs for the code of this
repository that has behaviour today. Paths below are from the repository's
root.

## 1. Inventory

The repository is an architecture scaffold. The packages that will train
models (`src/pbl4/runtime`, `worker`, `protocol`, `transport`, `adapter`,
`dataset_manager`, `management_backend`, `management_protocol`) consist of
docstrings, signatures and `raise NotImplementedError`; what their docstrings
promise is not modelled, because nothing implements it. The parts that are
implemented are these.

| Part | State | Operations | Interaction | What is hard |
|---|---|---|---|---|
| Schema (`migrations/versions/0001_initial_schema.py`, upgrade) | the rows of 12 tables | what clients do to rows: insert, update, delete, commit, rollback | concurrent connections of the Management Backend and its tools, through PostgreSQL | interleaved transactions, duplicates, retries after reconnects, deletions under references, crashes |
| Migration runs (`migrations/env.py`, upgrade and downgrade) | the catalogue of each database and alembic's version table in it; one transaction per run | choose and normalise the URL, refuse; upgrade, downgrade, online or as a printed script | operators share a database; DDL locks; `DATABASE_URL` and `alembic.ini` | concurrent runs, stale reads of the revision, opposite lock orders, kills, a run that works on another database than was meant |
| Architecture checker (`scripts/check_architecture.py`) | none (reads the tree) | 11 import rules over the syntax trees | run by the workflow and by the scaffold verifier | what Python's import statements really load |
| Scaffold verifier and workflow (`scripts/verify_scaffold.py`, `.github/workflows/ci.yml`) | the branch main, pull requests, verdicts | check a pull request, check main after a merge | two pull requests and one branch, through git's merges | verdicts that are stale when a pull request is merged; merges of two texts, renames |
| Skill verifier (`.agents/scripts/verify_skills.py`) | vendored files, a manifest, two reports | verify, write reports | its reports are inputs of its next run | kill between two reports or inside one, escaping |
| Cluster planner and entrypoints (`scripts/run_local_cluster.py`, `*/entrypoint.py`, `cli/pblctl.py`) | none | print commands; parse arguments | the planner prints what the entrypoints parse | values one side prints and the other refuses |
| Shared helpers (`common/ids.py`, `hashing.py`, `logging.py`, `time.py`) | the root logger | construct identifiers, hash, set up logging | used by all packages | files that change while they are hashed, records logged while logging is set up |

What makes each part correct:

* Schema: one active attempt in the system, one live session per rank, one
  contribution per worker and step, one record per numbered event; nothing
  refused for another reason; lineage, contributions and checkpoints that
  never lose what they refer to; all of this at every commit of every
  interleaving.
* Migration runs: the schema is there with its revision or not at all; a run
  fails only if another has overtaken it, and has done what its command says
  if it succeeds; it works on the database its operator named and on no other;
  runs end, and online runs never deadlock.
* Checker, verifier, workflow: a main that was checked, as a merge or after it,
  keeps the rules, whatever merges went before; and although pull requests are
  merged into another main than they were checked against, no merge loses a
  required file or brings back an obsolete path.
* Skill verifier: a pass means that no vendored text is active; the reports a
  run leaves say what is on disk, and make the next run fail only if one was cut
  inside a character or quotes a link target spelt with fence marks.
* Planner and entrypoints: the printed commands mean to the parsers what they
  mean to the planner; nothing unconfigured starts; no worker is given a rank.
* Helpers: a digest belongs to a version of the file; no record is lost or
  written twice, and none is lost for being logged near a set-up that does not
  cross it; every session number that is stored is one `SessionId` accepts.

`PROJECT.json` lists every hazard at its line, with the property that covers
it or the reason why none does yet.

## 2. Modules

| Module | What it is |
|---|---|
| `Schema` | the schema as data and predicates: one definition per table, per CHECK and per partial unique index; `Entries` (what a row occupies in unique indexes), `Refs` (what it refers to), `Consistent` |
| `RowLedger` | the abstract specification: one set of rows that moves from consistent set to consistent set |
| `Database` | concurrent READ COMMITTED transactions against the schema |
| `Integrity` | the properties, in the words of the domain; the range of `SessionId`; the refinement mapping to `RowLedger`; the inductive invariant `Inv` |
| `IntegrityProofs` | the theorems about `Integrity` and their proofs |
| `Migrations` | concurrent runs of upgrade and downgrade, and which database each works on |
| `MigrationsProofs` | the theorems about `Migrations` that look at whole runs |
| `MigrationOrderProofs` | the theorems about `Migrations` that look at the order of the operations: what is possible, and who waits for whom |
| `ImportRules`, `Scaffold` | the checker and the verifier as predicates on a source tree |
| `GitMerge` | what git makes of two branches: a three-way merge of trees, with renames and merged texts |
| `Gate` | pull requests checked and merged, and main checked after a merge, under those predicates; properties, `Inv` |
| `GateProofs` | the theorems about `Gate` |
| `SkillReports` | runs of the skill verifier over a directory that is edited meanwhile and that holds the reports of earlier runs |
| `SkillReportsProofs` | the theorems about `SkillReports` |
| `Cluster` | the planner's commands, shells that carry them out, and the parsers of the five entrypoints |
| `ClusterProofs` | the theorems about `Cluster` |
| `FileDigest`, `FileDigestProofs` | `sha256_file` reading a file that others write, and its theorems |
| `RootLogger` | `setup_logging` replacing the root logger's handlers while threads log |
| `RootLoggerProofs` | the theorems about `RootLogger` |
| `MCLifecycle`, `MCWorkers`, `MCEvents`, `MCMigrations`, `MCGate`, `MCSkillReports`, `MCCluster`, `MCFileDigest`, `MCRootLogger` | instances for TLC |

`Database` extends `Schema`, `Migrations` extends `Schema` too (it takes the
foreign keys of the tables from there), `Scaffold` extends `ImportRules`,
`Gate` extends `Scaffold` and `GitMerge`. A definition under a comment that begins with
`Defect:` is no part of a model: it is the form a definition would have after a
plausible mistake in the code, and each property of a passing run is shown to
notice one of them.

### How the models correspond to the code

**Schema and Database.** A row is a record with its table's name; it keeps the
columns some constraint mentions. The constraints are translated one by one
from the calls in `upgrade`; the circular foreign key is added by
`ForeignKeys`, as `op.create_foreign_key` adds it. PostgreSQL is not in the
repository: `Database` models what the schema relies on it for, namely that a
statement waits for another transaction's conflicting entry of a unique index,
takes a key-share lock on each row it newly refers to, waits for deletions of
those rows, refuses to delete a row that is referred to, sees committed rows
and its own (a new snapshot for each statement), and that a refused statement
undoes its transaction. A statement that waits is an action that is not
enabled. A crash of the client, a lost connection, a rollback and the victim of
a deadlock are one action, `Rollback`. Statements that affect several rows are
sequences of steps of one transaction. `session_id` is a BIGINT, so a row with a
number above its largest is refused; that whatever is stored is also a
`SessionId` is a property of CHECK, type and helper together.

**Migrations.** A URL is its scheme and the database that the rest of it leads
to. `get_canonical_database_url` takes `DATABASE_URL` unless it is unset or
empty, else `sqlalchemy.url` of the `alembic.ini` at hand, and gives `postgres`
and `postgresql` the driver psycopg. A run for which nothing is configured, or
whose driver is not installed, is refused before it meets a database (`Refuse`);
schemes other than PostgreSQL's stand for those without an installed driver.
Printing a script needs a dialect only; the operator who has the script may feed
it to any database in `Reachable`, whatever the URL said. The catalogue of a
database is a set of tables, indexes and foreign keys plus the row of
`alembic_version`. `Upgrade` and `Downgrade` are the code's
operations in their order, each with what it needs, makes, drops and locks. The
two modes are those of `env.py`: an online run reads the version first, inside
its transaction, and only then decides what to do; a script printed offline
does all its operations without looking. DDL is transactional in PostgreSQL,
and `context.begin_transaction()` puts a run into one transaction, so a kill or
a failure leaves nothing behind.

**ImportRules, Scaffold, GitMerge, Gate.** Modules and paths are sequences of
components, so that `imp == prefix or imp.startswith(prefix + ".")` is "is a
prefix of". A tree is a function from files to texts, and of a text there is
left whether it can be parsed, what it imports and what it declares. Git is not
in the repository: `Merges` gives what a three-way merge without conflict may
come to. A removed file and an added one may be one file renamed, in every way
they can be paired, because that depends on how alike they look; a change on one
side follows the file to where the other side has moved it; a text that both
sides have changed may become any text of `Texts`, a broken one or one with a
line in another table included. `Gate` adds the life of a pull request: push
(which invalidates the verdict), check (of the merge with main as it is then),
merge (which needs a green verdict but no new check), close; and the run of the
workflow on main after each merge, when it is too late to refuse. A branch into
which main is merged counts as a new pull request.

**SkillReports.** A run is a sequence of steps, in the script's order: skills,
manifest, inventory, links, scan, then each report truncated and filled, then
the verdict. Each step reads the files as they are by then; people edit, add
and remove files and manifest entries between any two steps, a kill may come
anywhere, and a file that is gone or is not UTF-8 makes the run raise where it
is read. A line of a file is what the script looks for in it: a match of the
scan, links, fence marks; the target of a link may be spelt with fence marks
too. A row of a report is a line again. The scan report escapes the line it
quotes, so that its rows have neither links nor fence marks; the other report
writes targets as they are spelt, so that its rows have the marks of their
targets (and no links: what `LINK` takes for a target has no closing
parenthesis). The next run reads both like any other Markdown. That this matters
is on record: `.agents/VERIFICATION_COMMANDS.json` line 76 keeps the output of a
run that failed on links in the report of an earlier one. A report that is not
written to its end holds some of its rows and a part of another, with some of
its marks and perhaps some of the bytes of its last character (`Cuts`); one that
is removed while it is open is lost. Assumed of the tree: names of files hold no
markup, nobody writes the reports by hand, and as committed they can be read and
hold neither links nor fence marks. Of a run: one step reads all its files at
once. Nothing is assumed of what vendored pages hold.

**Cluster.** A command is a program and its words. `plan_topology` builds them
as the planner prints them; a shell splits an unquoted label into words and
takes `<...>` for a redirection; each entrypoint's parser is its table of
options (required, numeric, default), from which `Accepts` and `Namespace`
follow as argparse would have them. `ClusterAssumption` keeps words of different
kinds apart: no host and no port is a placeholder, and no port looks like an
option. Nor does the planner's own parser let a host or a label through that
does. The form `--flag=value`, abbreviated options and `--help`, which argparse
adds by itself, are left out.

**FileDigest.** A name leads to a version of the file (an inode). Writers append
to a version, write into it, or rename a new version over the name; `sha256_file`
opens a version once and reads it chunk by chunk until a read returns nothing.
SHA-256 is kept as the bytes that went into it.

**RootLogger.** The three statements at the end of `setup_logging` are three
actions. A record walks the list of handlers by index, as a Python loop over a
list does, without the lock that only guards changes to the list. Nothing in the
repository calls `setup_logging` yet; the model has one thread call it again and
again. An unknown level name counts as INFO.

## 3. What the runs check

| Run | Instance and bounds | Shows |
|---|---|---|
| `lifecycle` | 2 connections, 10 candidate rows over 5 tables, at most 2 rows written or removed per transaction | `OneActiveAttempt`, `LineageKept`, `CompleteIsRestorable`, `EndedFreesTheSlot`; `Inv` is inductive evidence for the proofs; `ImplementsLedger` |
| `workers` | 2 connections, 10 rows: a self-cloned job, an attempt, sessions 0 to 3 of which a BIGINT holds 0 to 2, a step, one contribution under either session | `OneLiveSession`, `LostFreesTheRank`, `ContributesOnce`, `ContributionGrounded`, `SessionsAreIdentified` |
| `events` | 2 connections, 8 rows: two attempts, the same number twice in one and once in the other, numbers without an attempt | `RecordedOnce`, `OnlyDuplicatesRefused` |
| `session_ids` | 2 connections, two attempts that number their sessions from 1 | finding: `SessionIdPerAttempt` does not hold |
| `migrations` | 2 operators, any number of runs; 2 databases of which scripts reach one; 3 settings of `DATABASE_URL`; one `alembic.ini` without a URL and one that names the second database | `GoesWhereTold`, `SuccessMeansDone`, `AllOrNothing`, `OvertakenOrPossible`, `OnlineNeverDeadlocks`, `RunsEnd` |
| `gate` | 2 pull requests at a time, 12 changes (3 of them renames), 2 texts that a merge may come to, at most 2 merges | `RulesHoldOnMain`, `ToolingConfined`, `CheckedMainIsWhole`, `PathsHoldOnMain` |
| `skill_reports` | one wrapper, up to 8 files, 6 contents, 2 edits, any number of runs and kills | `NoOtherHarm`, `PassMeansInactive`, `ReportsAreComplete` |
| `cluster` | plans of at most 2 nodes, 3 labels (one with a space), 2 hosts, 2 ports or none, 8 additions to a command; one launch | `PlanIsUnderstood`, `NothingUnconfiguredStarts`, `RankIsNeverGiven` |
| `file_digest` | files of at most 4 bytes, chunks of 2, 2 writes | `HashesAPrefix`, `DigestsTheWholeFile` |
| `root_logger` | 2 threads of 2 records each, 3 set-ups, 3 levels | `NeverTwice`, `LatestSetupRules` |
| `gate_names`, `gate_relative` | 2 pull requests, 3 import statements each | findings: see below |

Why the bounds are enough. Every constraint relates two rows of one table, or a
row to the row it refers to; two transactions suffice to break one, and a
transaction that writes two rows can write a row and its parent, replace one
row and delete another, or insert two that conflict. Candidates include rows
that a CHECK refuses and rows that differ only in the state. Longer histories
are chains of commits, which are not bounded. The theorems of section 4 have no
bounds. For migrations, a conflict over a lock or over the revision is
one between two runs; each operator may start another run when one is over. A
second database and three settings give every way in which environment and file
can disagree, and a driver that is missing; that scripts reach one database only
keeps the product of the two small. `MaxBigint = 2` stands for 2^63 - 1: rows on
both sides of it are tried. For the gate, what two
pull requests break together takes one change of each, and two merges: the
second is the one that can be overtaken. The changes include a rename that takes
an import the new place forbids, two that empty a directory together, and two of
`pyproject.toml` that merge into a broken text or one that declares tooling where
none may be. For the skill verifier, two edits suffice to make a file and its
manifest entry disagree, or to make a report stale under a kill; one puts a file
that is not UTF-8, or a target with fence marks, on disk; runs are not bounded. Processes of a cluster do not meet, so one launch at a time shows what
each makes of its words. A file of two chunks and a rest, or of exactly two
chunks, has every boundary the reading loop has. Three set-ups let a record
that began under the first end under the third.

Symmetry is used only in runs without liveness properties, over connections,
pull requests and logging threads, which no definition tells apart.

Fairness is assumed in `Migrations` only. A run that has begun goes on, and
PostgreSQL queues the sessions that wait for a lock: strong fairness of a run's
next operation, failure, commit, or choice as the victim of a deadlock.
Starting a run and being killed are not fair. The queue itself is not modelled,
so with three operators two of them could pass a read lock on the version table
back and forth for ever; that is why the run has two.

### Findings

* `SessionIdPerAttempt`: `common/ids.py` calls a session number unique "within
  an attempt"; the schema makes it unique in the database.
* `SynchronizationIsolated`: `from pbl4.runtime import checkpoint` passes rule
  8 of the checker, because the names an import takes are not looked at.
* `ProtocolWireOnly`: `from ..runtime.snapshot import x` passes rule 1, because
  the dots of a relative import are ignored.

The rules also enforce less than the contract says (`worker` may import
`pbl4.runtime`); that is listed under the hazards and has no run.

## 4. What is proved

All theorems are about the specifications as TLC checks them, for every value
of the constants: any set of candidate rows, any number of connections and any
transaction size (`IntegrityProofs`); any tree, any changes and any
results of merging two texts, any number of pull requests and merges
(`GateProofs`); any files, manifest and number of edits
(`SkillReportsProofs`); any chunk size and number of writes
(`FileDigestProofs`); any number of operators, databases and settings
(`MigrationsProofs`, `MigrationOrderProofs`); any labels, hosts, ports and
additions (`ClusterProofs`); any threads, levels and set-ups
(`RootLoggerProofs`). `TypeOK` is proved for every specification.

*Database.* That the committed rows are consistent is not inductive: a commit
merges what two transactions decided under different snapshots. `Inv`
strengthens it with what holds while transactions are in flight:

* `NoLostUpdate`: what a transaction has replaced or deleted is still there,
  and no other transaction has replaced or deleted it;
* `WritesUnique`: what it has written is valid and clashes neither with the
  rows it leaves alone nor with what others have written;
* `ViewsResolved`: what it sees is closed under references, and nobody else has
  deleted what its new rows refer to;
* `ParentsLocked`: it holds a key-share lock on every key its new rows refer
  to, unless the row it replaced referred to it already.

Together they say that every transaction could commit at once and leave the
database consistent. One lemma per kind of statement (`InsertInv`, `UpdateInv`,
`DeleteInv`, `CommitInv`, `UndoInv`) shows that it is preserved; `Invariance`
and `Refinement` follow, and from `Consistent(committed)` the domain properties:
`OneActiveAttempt` and its like because two offending rows would share an entry
of a unique index, `LineageKept` and its like by following foreign keys, and
`EndedFreesTheSlot` and its like by a case analysis of which entries can be
shared (`ClashCases`). `SessionsStayIdentified` needs the CHECK on
`session_id` and the bound of BIGINT together.

*Migrations.* `AllOrNothing` says nothing of runs under way. The invariant
relates each of them to the catalogue it will commit into:

* every run upgrades, downgrades, or has found nothing to do; what it has made
  or dropped, and what its remaining operations will, cover the schema and its
  revision (`Purposeful`; `UpgradeMakesAll` and `DowngradeDropsAll` are the facts
  about the two programs);
* two runs on one database hold no locks that exclude each other (`LocksApart`);
* a run that has written the revision still sees the table it is written in,
  and keeps others from dropping it (`VersionKept`).

A commit therefore adds the whole schema with its revision, removes both, or
leaves them alone, and what two runs do to the version table cannot cross.
`SuccessAlwaysMeansDone` follows from `Purposeful` once nothing is left to do,
`AlwaysGoesWhereTold` from `CanonicalUrl`, the cases of the URL's choice.

*The order of a migration.* `MigrationOrderProofs` is about single operations,
for which the invariant above is too coarse. `OrderInv` adds three parts for
runs of alembic, which TLC has agreed to on the instance of `migrations`:

* what a run has yet to do works where it stands (`Prepared`): each operation is
  possible once those before it are done (`Works`) in the catalogue that the run
  would see if it were alone (`Expected`). `UpgradeWorks` and `DowngradeWorks`
  show this for the two programs, with functions that say at which place each
  table and index is created and dropped (`UpgradeOrder`, `DowngradeOrder`), and
  with `ReferencesLeadBack`: a table is created after, and dropped before, the
  tables it refers to; only the circular foreign key leads forward, which upgrade
  adds last and downgrade drops first;
* a run that has taken the first step of its program holds a lock for which
  every other first step would wait, and the database is at the revision that
  step found (`Marked`). So at most one run per database is past it (`OneLate`),
  and no run that commits meanwhile moves the revision;
* before that step a run has locked at most the version table, and after it it
  neither creates nor drops that table (`Staged`).

`OnlyTheOvertakenFail` follows because a run that has not been overtaken sees
what it would see alone. `OnlineRunsNeverDeadlock`: a run past its first step
waits for no online run, because the others hold no locks but on the version
table, and none there that excludes a change of its row while the run itself
holds that table. A circle would therefore consist of runs before their first
step. Such a run waits only to create the version table, when it holds no lock
yet, so that nobody waits for it.

*Cluster.* `Inv` says that what is on the screen was printed by the planner,
and that a process comes from a printed command or has no plan behind it
(`Traced`). Each printed command has six words if its label is one word;
`SixWords` and `ThreeOptions` show that a parser takes them apart as the planner
put them together. `RankIsNeverEverGiven` looks at where a word stands: at an
odd place it must be an option, and the worker has none of that name; at an even
one a value, which it cannot be. `TypeCorrect` has to know that the value an
option ends up with was one of those on the line (`ValuesFit`): an option that is
given more than once has its last value, and that a finite set of places has a
last one (`LastGiven`) is the well-foundedness of the natural numbers, counted
from the end of the line.

*Root logger.* The list of handlers has at most one element, none between
`Clear` and `AddHandler` (`HandlersFollowSetup`), and a walk has seen at most one
(`WalksAreShort`): its index is past the only handler there can be.

*Gate.* The verdict of a pull request says nothing of main as it will be when
it is merged: a file renamed in one and an import added in another, or two texts
merged into a third, break rules that both have passed. Between such a merge and
the run on main that follows it, the rules, the tooling and the directories may
all be wrong; the counterexample that `CheckedMainIsWhole` has against
`MergeAnywhere` is one. `Inv` keeps what is true nevertheless. A merge onto the
main that was checked is the tree that was checked, so that a main is either
overtaken or passes (`Vouched`). And `PathsInOrder` is kept by every merge of
green pull requests, whichever renames git finds: a file of the base is in the
merge exactly if both sides have it (`MergeKeepsOld`), and the merge has no path
that neither side has (`MergeAddsNothing`), so that a merge of orderly sides is
orderly (`MergeIsInOrder`). That the branch of a green pull request is orderly by
itself is what its check says of the merge, read backwards (`CheckedIsInOrder`):
what a branch adds is in the merge (`MergeKeepsNew`).

*Skill verifier.* `ReportsDoNoOtherHarm` rests on one invariant, `Fit`: whatever
there is of a report, whole or cut short, has no links, and fence marks only in
rows of the exclusion report whose targets have some. A report that can be
decoded and quotes no such target is therefore in order, whatever else is in the
tree.
`PassAlwaysMeansInactive` is carried by `SInv`, which says for each step what
the steps before it have established as long as nobody has edited anything.
`ReportsAreAlwaysComplete` has an invariant of the same form, `Noted`: what a run
has collected is what is on disk, and what it has written is what it has
collected, as long as nobody edits; reports it writes itself do not count
(`SavedApart`).

*File digest.* `DInv` says that what has been hashed is a prefix of the version
that is open, as long as that version has only been appended to. The digest is
returned on an empty read, which for a prefix means that nothing is left:
`AlwaysDigestsTheWholeFile`.

Assumptions, each named in the module that declares its constants and evaluated
by TLC in a run: candidate rows belong to tables of the schema
(`RowsAssumption`); the largest BIGINT is positive (`BigintAssumption`); URLs
have the form they are built with, and scripts are fed to databases
(`MigrationsAssumption`); bounds are natural numbers and levels numbers
(`LoggerAssumption`); the first tree on main passes the gate
(`InitialAssumption`), no pull request turns a required file into a directory
and import statements name modules (`ChangesAssumption`), the number of merges
is a natural number (`BoundAssumption`); reports lie at the top of the skill
verifier's tree, and can be read and hold neither links nor fence marks as
committed (`ReportsAssumption`); what is committed is within the constants
(`CommittedAssumption`); words of different kinds
differ (`ClusterAssumption`); chunks are not empty.

Only model-checked: liveness (`RunsEnd`) and the findings. `RunsEnd` rests on
fairness and ENABLED, which are out of the prover's reach. A finding is one
counterexample, for which a run is enough.

## 5. Not modelled

* The scaffold packages and the web UI: there is no behaviour to translate.
* Columns of payload data, defaults and types of columns beyond NOT NULL, and
  the plain indexes, which do not restrict rows (they are objects of the
  catalogue in `Migrations`).
* Isolation levels above READ COMMITTED: no code asks for them.
* URLs of SQLite, whose driver comes with Python: the migration is for
  PostgreSQL, and what SQLite would make of it is not.
* Directories that git finds renamed (it reports a conflict), and merges by other
  means than merging or squashing.
* The frontend job, formatting and linting in the workflow.
* The other identifiers of `common/ids.py` (value classes without behaviour) and
  `common/time.py` (one call of the standard library).

## 6. Plan

1. Done: schema, database, integrity; migrations with the choice of their
   database; the gate; the skill verifier; planner and entrypoints; hashing; the
   root logger; and the proofs about each of them.
2. Done: a theorem for every invariant and every action property that a run
   checks.
3. The queue in which PostgreSQL keeps sessions that wait for a lock, and with
   it `RunsEnd` for three operators.
4. The scaffold packages, as they come to have behaviour: the registry and the
   coordinator against the schema's one active attempt and one live session per
   rank first, then the barrier of `StrictBSP` and the frames of DTP/1.
