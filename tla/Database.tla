------------------------------ MODULE Database ------------------------------
(***************************************************************************)
(* Concurrent transactions against the schema: the Management Backend and  *)
(* its tools talk to PostgreSQL through psycopg connections, and the       *)
(* schema's constraints are what PostgreSQL enforces under its default     *)
(* isolation, READ COMMITTED.                                              *)
(*                                                                         *)
(* PostgreSQL is not in this repository.  The statements below are its     *)
(* documented behaviour for the constraints the migration declares: a      *)
(* unique index makes a conflicting statement wait for the other           *)
(* transaction; a foreign key takes a key-share lock on the referenced row *)
(* and, having no ON DELETE clause, refuses to delete a referenced row at  *)
(* the end of the statement; a refused statement undoes its transaction    *)
(* and releases its locks.  A statement that has to wait is not enabled.   *)
(***************************************************************************)
EXTENDS Schema, FiniteSets

CONSTANTS
  Rows,      \* the rows clients may ask for
  Txns,      \* connections, each with at most one open transaction
  MaxRows    \* bound: rows a transaction writes or removes

ASSUME RowsAssumption == \A r \in Rows : r.table \in DOMAIN Tables

ASSUME MaxRowsAssumption == MaxRows \in Nat

VARIABLES
  committed, \* the rows of the database
  added,     \* added[x]: row versions transaction x has written
  removed,   \* removed[x]: committed row versions x has deleted or replaced
  share      \* share[x]: primary keys of which x holds a key-share lock

vars == <<committed, added, removed, share>>

\* The types: transactions touch candidate rows, and hold locks on keys only.
TypeOK ==
  /\ committed \subseteq Rows
  /\ added \in [Txns -> SUBSET Rows]
  /\ removed \in [Txns -> SUBSET Rows]
  /\ share \in [Txns -> SUBSET UNION {Refs(r) : r \in Rows}]

-----------------------------------------------------------------------------

Init ==
  /\ committed = {}
  /\ added = [x \in Txns |-> {}]
  /\ removed = [x \in Txns |-> {}]
  /\ share = [x \in Txns |-> {}]

Others(x) == Txns \ {x}

\* What a statement of x sees: READ COMMITTED takes a new snapshot for each.
View(x) == (committed \ removed[x]) \cup added[x]

\* The primary keys x has deleted: removed with no new version.
Deleted(x) == {Key(r) : r \in removed[x]} \ {Key(r) : r \in added[x]}

\* Bound: x may go on to another statement.
Room(x) == Cardinality({Key(r) : r \in added[x] \cup removed[x]}) < MaxRows

-----------------------------------------------------------------------------
(* When a statement waits for another transaction, and when it is refused. *)

\* Defect: nobody waits for an entry of a unique index.
EntryHeldIgnored(x, r) == FALSE

\* Another transaction has written, deleted or replaced a clashing row.
EntryHeld(x, r) ==
  \E y \in Others(x) : \E s \in added[y] \cup removed[y] : Clash(r, s)

EntryTaken(r, S) == \E s \in S : Clash(r, s)

\* Another transaction has deleted a row that is to be referred to.
ParentHeld(x, refs) == \E y \in Others(x) : refs \cap Deleted(y) # {}

ParentMissing(refs, S) == \E e \in refs : \A p \in S : Key(p) # e

\* Another transaction has deleted or replaced the row version r.
RowHeld(x, r) == \E y \in Others(x) : r \in removed[y]

\* Defect: the deleting statement does not look at key-share locks.
KeyLockedIgnored(x, e) == FALSE

\* Another transaction refers to the row whose primary key is e.
KeyLocked(x, e) == \E y \in Others(x) : e \in share[y]

\* The rows in S that refer to the row p.
Children(p, S) == {r \in S \ {p} : Key(p) \in Refs(r)}

\* A child another transaction is about to delete: the check waits for it.
ChildHeld(x, p) ==
  \E y \in Others(x) : \E r \in Children(p, View(x)) \cap removed[y] :
     Key(r) \in Deleted(y)

-----------------------------------------------------------------------------
(* The statements.                                                         *)

\* Defect: what the transaction had written stays locked.
UndoKeepingLocks(x) ==
  /\ added' = [added EXCEPT ![x] = {}]
  /\ removed' = [removed EXCEPT ![x] = {}]
  /\ share' = [share EXCEPT ![x] = {Key(r) : r \in added[x]}]
  /\ UNCHANGED committed

\* A refused statement, a rollback, a crashed client or a lost connection:
\* the changes and the locks of x are gone.
Undo(x) ==
  /\ added' = [added EXCEPT ![x] = {}]
  /\ removed' = [removed EXCEPT ![x] = {}]
  /\ share' = [share EXCEPT ![x] = {}]
  /\ UNCHANGED committed

Insert(x, r) ==
  /\ Room(x)
  /\ Valid(r)
  /\ ~EntryHeld(x, r) /\ ~EntryTaken(r, View(x))
  /\ ~ParentHeld(x, Refs(r)) /\ ~ParentMissing(Refs(r), View(x) \cup {r})
  /\ added' = [added EXCEPT ![x] = @ \cup {r}]
  /\ share' = [share EXCEPT ![x] = @ \cup Refs(r)]
  /\ UNCHANGED <<committed, removed>>

RefuseInsert(x, r) ==
  /\ \/ ~Valid(r)
     \/ ~EntryHeld(x, r) /\ EntryTaken(r, View(x))
     \/ /\ ~EntryHeld(x, r) /\ ~EntryTaken(r, View(x))
        /\ ~ParentHeld(x, Refs(r))
        /\ ParentMissing(Refs(r), View(x) \cup {r})
  /\ Undo(x)

\* x is about to replace the row version o by n.  The primary key does not
\* change, so key-share locks on it do not stand in the way, and only the
\* references that do change are looked up.
Replaces(x, o, n) ==
  /\ o \in View(x) /\ n # o /\ Key(n) = Key(o)
  /\ ~RowHeld(x, o)

NewRefs(o, n) == Refs(n) \ Refs(o)

NewView(x, o, n) == (View(x) \ {o}) \cup {n}

Update(x, o, n) ==
  /\ Room(x)
  /\ Replaces(x, o, n)
  /\ Valid(n)
  /\ ~EntryHeld(x, n) /\ ~EntryTaken(n, View(x) \ {o})
  /\ ~ParentHeld(x, NewRefs(o, n))
  /\ ~ParentMissing(NewRefs(o, n), NewView(x, o, n))
  /\ added' = [added EXCEPT ![x] = (@ \ {o}) \cup {n}]
  /\ removed' = [removed EXCEPT ![x] = @ \cup ({o} \ added[x])]
  /\ share' = [share EXCEPT ![x] = @ \cup NewRefs(o, n)]
  /\ UNCHANGED committed

RefuseUpdate(x, o, n) ==
  /\ Replaces(x, o, n)
  /\ \/ ~Valid(n)
     \/ ~EntryHeld(x, n) /\ EntryTaken(n, View(x) \ {o})
     \/ /\ ~EntryHeld(x, n) /\ ~EntryTaken(n, View(x) \ {o})
        /\ ~ParentHeld(x, NewRefs(o, n))
        /\ ParentMissing(NewRefs(o, n), NewView(x, o, n))
  /\ Undo(x)

Delete(x, p) ==
  /\ Room(x)
  /\ p \in View(x)
  /\ ~RowHeld(x, p) /\ ~KeyLocked(x, Key(p))
  /\ Children(p, View(x)) = {}
  /\ added' = [added EXCEPT ![x] = @ \ {p}]
  /\ removed' = [removed EXCEPT ![x] = @ \cup ({p} \ added[x])]
  /\ UNCHANGED <<committed, share>>

RefuseDelete(x, p) ==
  /\ p \in View(x)
  /\ ~RowHeld(x, p) /\ ~KeyLocked(x, Key(p)) /\ ~ChildHeld(x, p)
  /\ Children(p, View(x)) # {}
  /\ Undo(x)

Commit(x) ==
  /\ added[x] \cup removed[x] # {}
  /\ committed' = View(x)
  /\ added' = [added EXCEPT ![x] = {}]
  /\ removed' = [removed EXCEPT ![x] = {}]
  /\ share' = [share EXCEPT ![x] = {}]

\* The client gives up, crashes or loses its connection, or PostgreSQL makes
\* it the victim of a deadlock.
Rollback(x) == Undo(x)

Next ==
  \E x \in Txns :
    \/ \E r \in Rows : Insert(x, r) \/ RefuseInsert(x, r)
    \/ \E o, n \in Rows : Update(x, o, n) \/ RefuseUpdate(x, o, n)
    \/ \E p \in Rows : Delete(x, p) \/ RefuseDelete(x, p)
    \/ Commit(x)
    \/ Rollback(x)

Spec == Init /\ [][Next]_vars
=============================================================================
