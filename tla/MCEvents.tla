------------------------------ MODULE MCEvents ------------------------------
(* Two connections record the events of two attempts, a few of them twice. *)
EXTENDS Integrity, TLC

CONSTANTS t1, t2

Event(id, attempt, seq) ==
  [table |-> "events", event_id |-> id, attempt_id |-> attempt,
   runtime_event_seq |-> seq, severity |-> "INFO"]

Attempt(id, state) ==
  [table |-> "attempts", attempt_id |-> id, job_id |-> "j1",
   contract_hash |-> "h", execution_mode |-> "RETRY_FROM_START",
   state |-> state, resume_from_checkpoint_id |-> NULL]

\* Event 1 of a1 arrives twice, as rows 1 and 2; row 3 is event 1 of a2; rows
\* 4 and 5 are numbered but belong to no attempt.
MCRows ==
  { [table |-> "jobs", job_id |-> "j1", state |-> "DRAFT",
     resolved_contract |-> NULL, contract_hash |-> NULL, frozen_at |-> NULL,
     cloned_from_job_id |-> NULL],
    Attempt("a1", "ABORTED"), Attempt("a2", "WAITING_WORKERS"),
    Event(1, "a1", 1), Event(2, "a1", 1), Event(3, "a2", 1),
    Event(4, NULL, 1), Event(5, NULL, 1) }

MCTxns == {t1, t2}

Symmetry == Permutations(MCTxns)
=============================================================================
