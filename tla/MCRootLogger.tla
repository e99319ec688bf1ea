---- MODULE MCRootLogger ----
(* Two threads log while a third sets logging up three times.              *)
EXTENDS RootLogger, TLC

CONSTANTS e1, e2

MCEmitters == {e1, e2}

Symmetry == Permutations(MCEmitters)
====
