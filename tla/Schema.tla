------------------------------- MODULE Schema -------------------------------
(***************************************************************************)
(* The PostgreSQL schema that the initial migration creates                *)
(* (migrations/versions/0001_initial_schema.py, upgrade): which rows a     *)
(* table accepts, which entries a row occupies in the unique indexes, and  *)
(* which rows it refers to.                                                *)
(*                                                                         *)
(* A row is a record whose field "table" names its table.  A table keeps   *)
(* the columns some constraint mentions; the payload columns that no       *)
(* constraint mentions beyond NOT NULL are abstracted away.  An entry of a *)
(* unique index is a pair <<index, key>>; the index of a primary key bears *)
(* the name of its table.  Every foreign key of the schema refers to a     *)
(* primary key, so what a row refers to is a set of entries.               *)
(***************************************************************************)
EXTENDS Integers, Sequences

CONSTANTS
  NULL,      \* SQL NULL
  MaxBigint  \* the largest BIGINT, 2^63 - 1

ASSUME BigintAssumption == MaxBigint \in Nat \ {0}

Bigint == (-MaxBigint - 1) .. MaxBigint

ForeignKey(columns, table) == [columns |-> columns, to |-> table]

-----------------------------------------------------------------------------
(* Datasets and their builds.                                              *)

datasets ==
  [columns |-> {"dataset_id"}, nullable |-> {},
   primaryKey |-> <<"dataset_id">>, foreignKeys |-> {}]

dataset_builds ==
  [columns |-> {"dataset_build_id", "dataset_id", "state"}, nullable |-> {},
   primaryKey |-> <<"dataset_build_id">>,
   foreignKeys |-> {ForeignKey(<<"dataset_id">>, "datasets")}]

ck_dataset_builds(r) ==
  r.state \in {"CREATED", "QUEUED", "IMPORTING", "VALIDATING",
               "PREPROCESSING", "MATERIALIZING", "VERIFYING", "REGISTERING",
               "READY", "FAILED", "DEPRECATED", "DELETING", "DELETED"}

-----------------------------------------------------------------------------
(* Jobs.                                                                   *)

jobs ==
  [columns |-> {"job_id", "state", "resolved_contract", "contract_hash",
                "cloned_from_job_id", "frozen_at"},
   nullable |-> {"resolved_contract", "contract_hash", "cloned_from_job_id",
                 "frozen_at"},
   primaryKey |-> <<"job_id">>,
   foreignKeys |-> {ForeignKey(<<"cloned_from_job_id">>, "jobs")}]

ck_jobs(r) ==
  /\ r.state \in {"DRAFT", "READY", "ARCHIVED"}
  /\ r.state = "READY" => /\ r.resolved_contract # NULL
                          /\ r.contract_hash # NULL
                          /\ r.frozen_at # NULL

-----------------------------------------------------------------------------
(* Attempts.  The reference to the checkpoint an attempt resumes from is   *)
(* added after the table checkpoints exists (circular_fk below).           *)

attempts ==
  [columns |-> {"attempt_id", "job_id", "contract_hash", "execution_mode",
                "state", "resume_from_checkpoint_id"},
   nullable |-> {"resume_from_checkpoint_id"},
   primaryKey |-> <<"attempt_id">>,
   foreignKeys |-> {ForeignKey(<<"job_id">>, "jobs")}]

AttemptStates ==
  {"CREATED", "WAITING_WORKERS", "PROVISIONING", "INITIALIZING", "RUNNING",
   "COMPLETING", "COMPLETED", "FAILED", "ABORTED"}

ck_attempts(r) ==
  /\ r.execution_mode \in {"FRESH", "RETRY_FROM_START", "RESUME"}
  /\ r.state \in AttemptStates
  /\ \/ r.execution_mode = "RESUME" /\ r.resume_from_checkpoint_id # NULL
     \/ /\ r.execution_mode \in {"FRESH", "RETRY_FROM_START"}
        /\ r.resume_from_checkpoint_id = NULL

\* Defect: a COMPLETING attempt no longer occupies the index.
one_active_but_completing(r) ==
  IF /\ r.table = "attempts"
     /\ r.state \in {"CREATED", "WAITING_WORKERS", "PROVISIONING",
                     "INITIALIZING", "RUNNING"}
  THEN {<<"uq_attempts__one_active", <<1>>>>} ELSE {}

\* Defect: the index has lost its WHERE clause.
one_active_unconditional(r) ==
  IF r.table = "attempts" THEN {<<"uq_attempts__one_active", <<1>>>>} ELSE {}

\* A unique index on the constant 1 over the rows of the active states.
uq_attempts__one_active(r) ==
  IF /\ r.table = "attempts"
     /\ r.state \in {"CREATED", "WAITING_WORKERS", "PROVISIONING",
                     "INITIALIZING", "RUNNING", "COMPLETING"}
  THEN {<<"uq_attempts__one_active", <<1>>>>} ELSE {}

-----------------------------------------------------------------------------
(* Worker sessions and the provisioning of a worker's shard.               *)

worker_sessions ==
  [columns |-> {"session_id", "attempt_id", "worker_id", "state"},
   nullable |-> {},
   primaryKey |-> <<"session_id">>,
   foreignKeys |-> {ForeignKey(<<"attempt_id">>, "attempts")}]

\* Defect: the CHECK that the number is positive is missing.
ck_worker_sessions_any_number(r) ==
  /\ r.session_id \in Bigint
  /\ r.state \in {"CONNECTING", "REGISTERING", "PROVISIONING", "SHARD_READY",
                  "MODEL_SYNCING", "READY", "DISCONNECTED", "FAILED"}

\* With the range of the column's type.
ck_worker_sessions(r) ==
  /\ r.session_id \in Bigint /\ r.session_id > 0
  /\ r.state \in {"CONNECTING", "REGISTERING", "PROVISIONING", "SHARD_READY",
                  "MODEL_SYNCING", "READY", "DISCONNECTED", "FAILED"}

\* Defect: the index only covers sessions that have become READY.
active_rank_when_ready(r) ==
  IF r.table = "worker_sessions" /\ r.state = "READY"
  THEN {<<"uq_worker_sessions__active_rank", <<r.attempt_id, r.worker_id>>>>}
  ELSE {}

\* Defect: a DISCONNECTED session keeps its rank.
active_rank_until_failed(r) ==
  IF r.table = "worker_sessions" /\ r.state # "FAILED"
  THEN {<<"uq_worker_sessions__active_rank", <<r.attempt_id, r.worker_id>>>>}
  ELSE {}

uq_worker_sessions__active_rank(r) ==
  IF r.table = "worker_sessions" /\ r.state \notin {"DISCONNECTED", "FAILED"}
  THEN {<<"uq_worker_sessions__active_rank", <<r.attempt_id, r.worker_id>>>>}
  ELSE {}

worker_provisioning ==
  [columns |-> {"attempt_id", "worker_id", "dataset_build_id", "state"},
   nullable |-> {},
   primaryKey |-> <<"attempt_id", "worker_id">>,
   foreignKeys |-> {ForeignKey(<<"attempt_id">>, "attempts"),
                    ForeignKey(<<"dataset_build_id">>, "dataset_builds")}]

ck_worker_provisioning(r) ==
  r.state \in {"PENDING", "DOWNLOADING", "VERIFYING", "READY", "FAILED"}

-----------------------------------------------------------------------------
(* Steps and the contribution of each worker to a step.                    *)

steps ==
  [columns |-> {"attempt_id", "step_id", "state"}, nullable |-> {},
   primaryKey |-> <<"attempt_id", "step_id">>,
   foreignKeys |-> {ForeignKey(<<"attempt_id">>, "attempts")}]

ck_steps(r) ==
  r.state \in {"CREATED", "DISPATCHED", "COLLECTING_GRADIENTS", "AGGREGATING",
               "UPDATING", "BROADCASTING", "WAITING_PARAMETER_APPLIED",
               "CHECKPOINTING", "COMMITTED"}

\* Defect: the session is part of the key of a contribution.
worker_steps_by_session ==
  [columns |-> {"attempt_id", "step_id", "worker_id", "session_id"},
   nullable |-> {},
   primaryKey |-> <<"attempt_id", "step_id", "worker_id", "session_id">>,
   foreignKeys |-> {ForeignKey(<<"attempt_id">>, "attempts"),
                    ForeignKey(<<"attempt_id", "step_id">>, "steps"),
                    ForeignKey(<<"session_id">>, "worker_sessions")}]

\* Defect: the composite reference to the step is missing.
worker_steps_without_step ==
  [columns |-> {"attempt_id", "step_id", "worker_id", "session_id"},
   nullable |-> {},
   primaryKey |-> <<"attempt_id", "step_id", "worker_id">>,
   foreignKeys |-> {ForeignKey(<<"attempt_id">>, "attempts"),
                    ForeignKey(<<"session_id">>, "worker_sessions")}]

worker_steps ==
  [columns |-> {"attempt_id", "step_id", "worker_id", "session_id"},
   nullable |-> {},
   primaryKey |-> <<"attempt_id", "step_id", "worker_id">>,
   foreignKeys |-> {ForeignKey(<<"attempt_id">>, "attempts"),
                    ForeignKey(<<"attempt_id", "step_id">>, "steps"),
                    ForeignKey(<<"session_id">>, "worker_sessions")}]

-----------------------------------------------------------------------------
(* Checkpoints.                                                            *)

\* What ck_checkpoints__complete_requirements asks of a COMPLETE checkpoint.
CompleteColumns ==
  {"contract_hash", "dataset_build_id", "dataset_manifest_hash",
   "parameter_manifest_hash", "model_path", "metadata_path", "model_sha256",
   "metadata_sha256", "completed_at"}

checkpoints ==
  [columns |-> {"checkpoint_id", "created_by_attempt_id", "state"}
                 \cup CompleteColumns,
   nullable |-> CompleteColumns,
   primaryKey |-> <<"checkpoint_id">>,
   foreignKeys |-> {ForeignKey(<<"created_by_attempt_id">>, "attempts"),
                    ForeignKey(<<"dataset_build_id">>, "dataset_builds")}]

\* Defect: the build is not among the requirements.
ck_checkpoints_without_build(r) ==
  /\ r.state \in {"WRITING", "COMPLETE", "FAILED"}
  /\ r.state = "COMPLETE"
       => \A c \in CompleteColumns \ {"dataset_build_id"} : r[c] # NULL

ck_checkpoints(r) ==
  /\ r.state \in {"WRITING", "COMPLETE", "FAILED"}
  /\ r.state = "COMPLETE" => \A c \in CompleteColumns : r[c] # NULL

\* attempts.resume_from_checkpoint_id -> checkpoints, created last.
circular_fk == ForeignKey(<<"resume_from_checkpoint_id">>, "checkpoints")

-----------------------------------------------------------------------------
(* Events, control commands and metrics.                                   *)

events ==
  [columns |-> {"event_id", "attempt_id", "runtime_event_seq", "severity"},
   nullable |-> {"attempt_id", "runtime_event_seq"},
   primaryKey |-> <<"event_id">>,
   foreignKeys |-> {ForeignKey(<<"attempt_id">>, "attempts")}]

ck_events(r) == r.severity \in {"INFO", "WARNING", "ERROR", "CRITICAL"}

\* Defect: the sequence number is taken to be unique over all attempts.
runtime_seq_global(r) ==
  IF /\ r.table = "events"
     /\ r.attempt_id # NULL /\ r.runtime_event_seq # NULL
  THEN {<<"uq_events__attempt_runtime_seq", <<r.runtime_event_seq>>>>}
  ELSE {}

\* Defect: the key includes the row's own number and excludes nothing.
runtime_seq_per_row(r) ==
  IF r.table = "events"
  THEN {<<"uq_events__attempt_runtime_seq", <<r.event_id>>>>} ELSE {}

uq_events__attempt_runtime_seq(r) ==
  IF /\ r.table = "events"
     /\ r.attempt_id # NULL /\ r.runtime_event_seq # NULL
  THEN {<<"uq_events__attempt_runtime_seq",
          <<r.attempt_id, r.runtime_event_seq>>>>}
  ELSE {}

control_commands ==
  [columns |-> {"command_id", "command_type", "target_type", "state"},
   nullable |-> {},
   primaryKey |-> <<"command_id">>, foreignKeys |-> {}]

ck_control_commands(r) ==
  /\ r.command_type \in {"CREATE_DATASET_BUILD", "REBUILD_DATASET_BUILD",
                         "DELETE_DATASET_BUILD", "START_ATTEMPT",
                         "ABORT_ATTEMPT", "REQUEST_CHECKPOINT"}
  /\ r.target_type \in {"DATASET_BUILD", "ATTEMPT"}
  /\ r.state \in {"PENDING", "ACCEPTED", "DEFERRED", "SUCCEEDED", "REJECTED",
                  "FAILED"}

metrics ==
  [columns |-> {"metric_id", "attempt_id"}, nullable |-> {},
   primaryKey |-> <<"metric_id">>,
   foreignKeys |-> {ForeignKey(<<"attempt_id">>, "attempts")}]

-----------------------------------------------------------------------------
(* The schema as a whole.                                                  *)

Tables ==
  [datasets |-> datasets, dataset_builds |-> dataset_builds, jobs |-> jobs,
   attempts |-> attempts, worker_sessions |-> worker_sessions,
   worker_provisioning |-> worker_provisioning, steps |-> steps,
   worker_steps |-> worker_steps, checkpoints |-> checkpoints,
   events |-> events, control_commands |-> control_commands,
   metrics |-> metrics]

Checks(r) ==
  /\ r.table = "dataset_builds" => ck_dataset_builds(r)
  /\ r.table = "jobs" => ck_jobs(r)
  /\ r.table = "attempts" => ck_attempts(r)
  /\ r.table = "worker_sessions" => ck_worker_sessions(r)
  /\ r.table = "worker_provisioning" => ck_worker_provisioning(r)
  /\ r.table = "steps" => ck_steps(r)
  /\ r.table = "checkpoints" => ck_checkpoints(r)
  /\ r.table = "events" => ck_events(r)
  /\ r.table = "control_commands" => ck_control_commands(r)

\* r satisfies the NOT NULL and CHECK constraints of its table.
Valid(r) ==
  /\ \A c \in Tables[r.table].columns \ Tables[r.table].nullable : r[c] # NULL
  /\ Checks(r)

\* The values of columns in row r, in order.
Project(r, columns) == [i \in DOMAIN columns |-> r[columns[i]]]

\* The entry of r in the index of its primary key.
Key(r) == <<r.table, Project(r, Tables[r.table].primaryKey)>>

\* Every entry of r in a unique index.
Entries(r) == {Key(r)} \cup uq_attempts__one_active(r)
                       \cup uq_worker_sessions__active_rank(r)
                       \cup uq_events__attempt_runtime_seq(r)

\* Defect: the circular foreign key was never created.
ForeignKeysButCircular(table) == Tables[table].foreignKeys

\* The foreign keys of a table once the whole migration has run.
ForeignKeys(table) ==
  Tables[table].foreignKeys \cup (IF table = "attempts" THEN {circular_fk} ELSE {})

\* The primary keys r refers to: a foreign key with a NULL column refers to
\* nothing (MATCH SIMPLE).
Refs(r) ==
  {<<fk.to, Project(r, fk.columns)>> :
     fk \in {f \in ForeignKeys(r.table) :
               \A i \in DOMAIN f.columns : r[f.columns[i]] # NULL}}

\* r and s claim the same entry of a unique index; an index is of one table.
Clash(r, s) == r.table = s.table /\ Entries(r) \cap Entries(s) # {}

\* What the schema asks of the rows of a database: they are valid, no two of
\* them share an entry of a unique index, and each refers to rows among them.
Consistent(S) ==
  /\ \A r \in S : Valid(r)
  /\ \A r, s \in S : r # s => ~Clash(r, s)
  /\ \A r \in S : \A e \in Refs(r) : \E p \in S : Key(p) = e
=============================================================================
