---------------------------- MODULE MCLifecycle -----------------------------
(* Two connections over a job, two attempts, a checkpoint and its build.   *)
EXTENDS Integrity, TLC

CONSTANTS t1, t2

Attempt(id, mode, state, checkpoint) ==
  [table |-> "attempts", attempt_id |-> id, job_id |-> "j1",
   contract_hash |-> "h", execution_mode |-> mode, state |-> state,
   resume_from_checkpoint_id |-> checkpoint]

Checkpoint(state, build, complete) ==
  [c \in CompleteColumns |-> IF complete THEN "v" ELSE NULL] @@
  [table |-> "checkpoints", checkpoint_id |-> "c1",
   created_by_attempt_id |-> "a1", state |-> state]

\* Candidates for every table of the lifecycle, one or two of them refused
\* by a CHECK: a COMPLETE checkpoint without its build and an attempt that
\* resumes from nothing.
MCRows ==
  { [table |-> "datasets", dataset_id |-> "d1"],
    [table |-> "dataset_builds", dataset_build_id |-> "b1",
     dataset_id |-> "d1", state |-> "READY"],
    [table |-> "jobs", job_id |-> "j1", state |-> "READY",
     resolved_contract |-> "r", contract_hash |-> "h", frozen_at |-> "t",
     cloned_from_job_id |-> NULL],
    Attempt("a1", "FRESH", "COMPLETING", NULL),
    Attempt("a1", "FRESH", "COMPLETED", NULL),
    Attempt("a2", "RESUME", "CREATED", "c1"),
    Attempt("a2", "RESUME", "CREATED", NULL),
    [Checkpoint("WRITING", NULL, FALSE) EXCEPT !.state = "WRITING"],
    [Checkpoint("COMPLETE", "b1", TRUE) EXCEPT !.dataset_build_id = "b1"],
    [Checkpoint("COMPLETE", NULL, TRUE) EXCEPT !.dataset_build_id = NULL] }

MCTxns == {t1, t2}

Symmetry == Permutations(MCTxns)
=============================================================================
