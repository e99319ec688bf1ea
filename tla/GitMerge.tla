------------------------------ MODULE GitMerge ------------------------------
(***************************************************************************)
(* What git, which is not in this repository, makes of two branches: a     *)
(* three-way merge of trees, each a function from paths to texts.          *)
(*                                                                         *)
(* A file that a side has removed and one that it has added may be taken   *)
(* for one file renamed; which ones are depends on how alike they look, so *)
(* here any choice is possible.  A text that only one side has changed     *)
(* goes where the other side has moved the file.  Where both have changed  *)
(* it, the merge is line by line and may come to any text.  Nothing moves  *)
(* with its directory: for a directory that git finds renamed it reports a *)
(* conflict.                                                               *)
(***************************************************************************)
EXTENDS Functions

CONSTANT Texts  \* what a merge of two changed texts may come to

\* A side of the merge: its tree and the renames git finds in it.
Sides(base, tree) ==
  LET gone == DOMAIN base \ DOMAIN tree
      new == DOMAIN tree \ DOMAIN base
  IN  {[tree |-> tree, renames |-> r] :
         r \in UNION {Injection(some, new) : some \in SUBSET gone}}

\* Where a file of the base is on a side, if it is there.
Place(side, f) == IF f \in DOMAIN side.renames THEN side.renames[f] ELSE f

Deleted(side, f) == Place(side, f) \notin DOMAIN side.tree

There(side, f) == side.tree[Place(side, f)]

Changed(base, side, f) == f \in DOMAIN side.renames \/ There(side, f) # base[f]

Added(base, side) == DOMAIN side.tree \ (DOMAIN base \cup Range(side.renames))

\* What one side removes the other has left alone, no file goes two ways, and
\* no two files go to one path.
Clean(base, ours, theirs) ==
  /\ \A f \in DOMAIN base :
       /\ Deleted(ours, f) => Deleted(theirs, f) \/ ~Changed(base, theirs, f)
       /\ Deleted(theirs, f) => Deleted(ours, f) \/ ~Changed(base, ours, f)
  /\ \A f \in DOMAIN ours.renames, g \in DOMAIN theirs.renames :
       ours.renames[f] = theirs.renames[g] <=> f = g
  /\ Range(ours.renames) \cap Added(base, theirs) = {}
  /\ Range(theirs.renames) \cap Added(base, ours) = {}
  /\ \A f \in Added(base, ours) \cap Added(base, theirs) :
       ours.tree[f] = theirs.tree[f]

Kept(base, ours, theirs) ==
  {f \in DOMAIN base : ~Deleted(ours, f) /\ ~Deleted(theirs, f)}

\* The place of a kept file after the merge, and which file is at a place.
Target(ours, theirs, f) ==
  IF f \in DOMAIN ours.renames THEN ours.renames[f] ELSE Place(theirs, f)

SourceOf(base, ours, theirs, q) ==
  IF q \in DOMAIN base THEN q
  ELSE CHOOSE f \in DOMAIN ours.renames \cup DOMAIN theirs.renames :
         Target(ours, theirs, f) = q

\* Both sides have changed the text, and not to the same one.
Contested(base, ours, theirs, f) ==
  /\ There(ours, f) # base[f] /\ There(theirs, f) # base[f]
  /\ There(ours, f) # There(theirs, f)

Chosen(base, ours, theirs, f) ==
  IF There(ours, f) = base[f] THEN There(theirs, f) ELSE There(ours, f)

\* Where the kept files go, and the paths of the merge.
Places(base, ours, theirs) ==
  {Target(ours, theirs, f) : f \in Kept(base, ours, theirs)}

PathsAfter(base, ours, theirs) ==
  Places(base, ours, theirs) \cup Added(base, ours) \cup Added(base, theirs)

\* The trees that a clean merge of two sides may come to.
Joined(base, ours, theirs) ==
  LET contested == {f \in Kept(base, ours, theirs) :
                      Contested(base, ours, theirs, f)}
      places == Places(base, ours, theirs)
      Outcome(choice, q) ==
        IF q \in places
        THEN LET f == SourceOf(base, ours, theirs, q) IN
               IF f \in contested THEN choice[f] ELSE Chosen(base, ours, theirs, f)
        ELSE IF q \in DOMAIN ours.tree THEN ours.tree[q] ELSE theirs.tree[q]
  IN  {[q \in PathsAfter(base, ours, theirs) |-> Outcome(choice, q)] :
         choice \in [contested -> Texts]}

\* What a merge without conflicts may come to: nothing, if there is none.
Merges(base, ours, theirs) ==
  UNION {Joined(base, s[1], s[2]) :
           s \in {t \in Sides(base, ours) \X Sides(base, theirs) :
                    Clean(base, t[1], t[2])}}
=============================================================================
