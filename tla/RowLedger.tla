---- MODULE RowLedger ----
(* What PostgreSQL promises the clients of this schema, with no transaction *)
(* in sight: one set of rows, empty after the migration, that moves in      *)
(* single steps from one consistent set to another.                         *)
CONSTANTS
  Rows,            \* the rows clients may ask for
  Consistent(_)    \* what the schema asks of a set of rows

VARIABLE rows

Init == rows = {}

\* Any number of rows comes, goes and changes at once, as long as the schema
\* accepts the outcome as a whole.
Next == rows' \in SUBSET Rows /\ Consistent(rows')

Spec == Init /\ [][Next]_rows
====
