----------------------------- MODULE Integrity ------------------------------
(***************************************************************************)
(* What the training system relies on its database for, in the words of    *)
(* the domain: attempts, sessions, contributions, checkpoints, events.     *)
(* Nothing here mentions an index or a constraint of the schema.           *)
(***************************************************************************)
EXTENDS Database

Of(table) == {r \in committed : r.table = table}

Ended == {"COMPLETED", "FAILED", "ABORTED"}

-----------------------------------------------------------------------------
(* Attempts and checkpoints.                                               *)

\* At most one attempt is under way in the whole system, however many
\* transactions start, end or delete attempts at the same time (the comment
\* above uq_attempts__one_active calls it the V1 invariant).
OneActiveAttempt ==
  \A a, b \in Of("attempts") :
    a.state \notin Ended /\ b.state \notin Ended => a = b

\* An attempt that resumes has its checkpoint in the database, the attempt
\* that wrote the checkpoint, and the jobs of both; an attempt that starts
\* afresh names no checkpoint.
LineageKept ==
  \A a \in Of("attempts") :
    /\ \E j \in Of("jobs") : j.job_id = a.job_id
    /\ a.execution_mode = "RESUME" =>
         \E c \in Of("checkpoints") :
           /\ c.checkpoint_id = a.resume_from_checkpoint_id
           /\ \E w \in Of("attempts") : w.attempt_id = c.created_by_attempt_id
    /\ a.execution_mode # "RESUME" => a.resume_from_checkpoint_id = NULL

\* A COMPLETE checkpoint can be restored: its model and metadata are known,
\* and the build it was trained on, with the build's dataset, cannot
\* disappear while the checkpoint is there.
CompleteIsRestorable ==
  \A c \in Of("checkpoints") : c.state = "COMPLETE" =>
    /\ \A col \in {"contract_hash", "model_path", "metadata_path",
                   "model_sha256", "metadata_sha256", "completed_at"} :
         c[col] # NULL
    /\ \E b \in Of("dataset_builds") :
         /\ b.dataset_build_id = c.dataset_build_id
         /\ \E d \in Of("datasets") : d.dataset_id = b.dataset_id

\* x's insertion of r would be refused for another row's sake.
Obstructed(x, r) == EntryTaken(r, View(x))

\* An ended attempt never stands in the way of a new one: a new attempt is
\* refused only if its identifier is taken, or if it is to be active and
\* another attempt is.
EndedFreesTheSlot ==
  \A x \in Txns, r \in Rows :
    r.table = "attempts" /\ Obstructed(x, r) =>
      \E a \in View(x) : /\ a.table = "attempts"
                         /\ \/ a.attempt_id = r.attempt_id
                            \/ r.state \notin Ended /\ a.state \notin Ended

-----------------------------------------------------------------------------
(* Workers.                                                                *)

Lost == {"DISCONNECTED", "FAILED"}

\* Two live sessions never hold the same rank of an attempt: a worker that
\* reconnects while its old session is still live cannot register twice.
OneLiveSession ==
  \A s, t \in Of("worker_sessions") :
    /\ s.attempt_id = t.attempt_id /\ s.worker_id = t.worker_id
    /\ s.state \notin Lost /\ t.state \notin Lost
    => s = t

\* A lost session never keeps its rank: a session is refused only if its
\* number is taken, or if a live session holds the rank.
LostFreesTheRank ==
  \A x \in Txns, r \in Rows :
    r.table = "worker_sessions" /\ Obstructed(x, r) =>
      \E s \in View(x) : /\ s.table = "worker_sessions"
                         /\ \/ s.session_id = r.session_id
                            \/ /\ s.attempt_id = r.attempt_id
                               /\ s.worker_id = r.worker_id
                               /\ s.state \notin Lost

\* A worker contributes once to a step, also when it reports the step again
\* under a new session after a reconnect.
ContributesOnce ==
  \A v, w \in Of("worker_steps") :
    /\ v.attempt_id = w.attempt_id
    /\ v.step_id = w.step_id /\ v.worker_id = w.worker_id
    => v = w

\* A contribution belongs to a recorded step and to a recorded session: no
\* transaction can delete either from under it.
ContributionGrounded ==
  \A w \in Of("worker_steps") :
    /\ \E s \in Of("steps") :
         s.attempt_id = w.attempt_id /\ s.step_id = w.step_id
    /\ \E s \in Of("worker_sessions") : s.session_id = w.session_id

\* SessionId.__post_init__ in src/pbl4/common/ids.py, for an integer.
SessionId(value) == ~(value <= 0 \/ value > MaxBigint)

\* Every session in the database has a number that SessionId accepts, so that
\* whoever reads it, from there or from a contribution to a step, can hold it
\* as one: although the wire has numbers of 64 bits without a sign, and the
\* column has them with one.
SessionsAreIdentified ==
  \A s \in Of("worker_sessions") \cup Of("worker_steps") : SessionId(s.session_id)

\* "Unique worker session identifier within an attempt" (SessionId in
\* src/pbl4/common/ids.py): a session whose number is new in its attempt is
\* refused only because its rank is taken.
SessionIdPerAttempt ==
  \A x \in Txns, r \in Rows :
    r.table = "worker_sessions" /\ Obstructed(x, r) =>
      \E s \in View(x) : /\ s.table = "worker_sessions"
                         /\ s.attempt_id = r.attempt_id
                         /\ \/ s.session_id = r.session_id
                            \/ s.worker_id = r.worker_id

-----------------------------------------------------------------------------
(* Events.                                                                 *)

\* An event the runtime numbers is recorded once, however often it is
\* delivered and whichever transaction records it first.
RecordedOnce ==
  \A e, f \in Of("events") :
    /\ e.attempt_id = f.attempt_id /\ e.attempt_id # NULL
    /\ e.runtime_event_seq = f.runtime_event_seq /\ e.runtime_event_seq # NULL
    => e = f

\* No event is taken for a duplicate of an event of another attempt, nor an
\* event without a number for a duplicate of anything.
OnlyDuplicatesRefused ==
  \A x \in Txns, r \in Rows :
    r.table = "events" /\ Obstructed(x, r) =>
      \E e \in View(x) : /\ e.table = "events"
                         /\ \/ e.event_id = r.event_id
                            \/ /\ r.attempt_id # NULL
                               /\ r.runtime_event_seq # NULL
                               /\ e.attempt_id = r.attempt_id
                               /\ e.runtime_event_seq = r.runtime_event_seq

-----------------------------------------------------------------------------
(* Transactions.                                                           *)

\* The row versions x leaves as they are.
Untouched(x) == committed \ removed[x]

\* No update is lost: what a transaction has replaced or deleted is still
\* there, and no other transaction has replaced or deleted it as well.
NoLostUpdate ==
  \A x \in Txns :
    /\ removed[x] \subseteq committed
    /\ \A y \in Others(x) : removed[x] \cap removed[y] = {}

\* What a transaction has written is valid and has its entries of the unique
\* indexes to itself, among all the rows it sees and all that is in flight.
WritesUnique ==
  \A x \in Txns : \A r \in added[x] :
    /\ Valid(r)
    /\ \A s \in Untouched(x) \cup (added[x] \ {r}) : ~Clash(r, s)
    /\ \A y \in Others(x) : \A s \in added[y] : ~Clash(r, s)

\* Whatever a transaction sees, it sees with everything it refers to, and no
\* other transaction has deleted what its new rows refer to.
ViewsResolved ==
  \A x \in Txns :
    /\ \A r \in View(x) : \A e \in Refs(r) : \E p \in View(x) : Key(p) = e
    /\ \A r \in added[x] : ~ParentHeld(x, Refs(r))

\* A reference of a new row is locked, unless it was there before.
ParentsLocked ==
  \A x \in Txns : \A r \in added[x] : \A e \in Refs(r) :
    e \in share[x] \/ \E o \in removed[x] : e \in Refs(o)

L == INSTANCE RowLedger WITH rows <- committed

\* Concurrent transactions leave the database as the ledger would: every
\* commit leads from one consistent set of rows to another.
ImplementsLedger == L!Spec

\* Together, an inductive invariant: the database is consistent, and every
\* transaction in flight could commit at once and leave it consistent.
Inv ==
  /\ TypeOK
  /\ Consistent(committed)
  /\ NoLostUpdate
  /\ WritesUnique
  /\ ViewsResolved
  /\ ParentsLocked
=============================================================================
