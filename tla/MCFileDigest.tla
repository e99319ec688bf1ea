---- MODULE MCFileDigest ----
(* Files of at most four bytes, read two at a time and written twice.     *)
EXTENDS FileDigest
====
