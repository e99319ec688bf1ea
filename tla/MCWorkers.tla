----------------------------- MODULE MCWorkers ------------------------------
(* Two connections over one attempt, its sessions, a step and the          *)
(* contributions to it: rank 0 reconnects and reports the step again.      *)
EXTENDS Integrity, TLC

CONSTANTS t1, t2

Session(id, attempt, state) ==
  [table |-> "worker_sessions", session_id |-> id, attempt_id |-> attempt,
   worker_id |-> 0, state |-> state]

Contribution(session) ==
  [table |-> "worker_steps", attempt_id |-> "a1", step_id |-> 7,
   worker_id |-> 0, session_id |-> session]

Job == [table |-> "jobs", job_id |-> "j1", state |-> "ARCHIVED",
        resolved_contract |-> NULL, contract_hash |-> NULL,
        frozen_at |-> NULL, cloned_from_job_id |-> "j1"]

Attempt(id, state) ==
  [table |-> "attempts", attempt_id |-> id, job_id |-> "j1",
   contract_hash |-> "h", execution_mode |-> "FRESH", state |-> state,
   resume_from_checkpoint_id |-> NULL]

\* A job that is its own clone, an attempt, session numbers 0 and 3
\* (refused by a CHECK, and as a BIGINT of that size), 1 and 2, and one
\* contribution under either session.
MCRows ==
  { Job, Attempt("a1", "RUNNING"),
    Session(0, "a1", "CONNECTING"), Session(3, "a1", "CONNECTING"),
    Session(1, "a1", "READY"), Session(1, "a1", "DISCONNECTED"),
    Session(2, "a1", "CONNECTING"),
    [table |-> "steps", attempt_id |-> "a1", step_id |-> 7,
     state |-> "COLLECTING_GRADIENTS"],
    Contribution(1), Contribution(2) }

\* Two attempts of a job, each numbering its sessions from 1.
TwoAttempts ==
  { Job, Attempt("a1", "FAILED"), Attempt("a2", "RUNNING"),
    Session(1, "a1", "FAILED"), Session(1, "a2", "CONNECTING"),
    Session(2, "a2", "FAILED") }

MCTxns == {t1, t2}

Symmetry == Permutations(MCTxns)
=============================================================================
