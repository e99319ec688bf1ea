----------------------------- MODULE GateProofs -----------------------------
(***************************************************************************)
(* What holds on main for every tree, any changes and any number of pull   *)
(* requests.                                                               *)
(***************************************************************************)
EXTENDS Gate, TLAPS, SequenceTheorems

-----------------------------------------------------------------------------
(* What a merge does to paths, whichever renames git finds.                *)

\* A side and the renames found in it: from files that are gone to new ones.
LEMMA SideShape ==
  ASSUME NEW b, NEW t, NEW side \in Sides(b, t)
  PROVE  /\ side.tree = t
         /\ DOMAIN side.renames \subseteq DOMAIN b \ DOMAIN t
         /\ \A f \in DOMAIN side.renames :
              side.renames[f] \in DOMAIN t \ DOMAIN b
<1>1. PICK r \in UNION {Injection(some, DOMAIN t \ DOMAIN b) :
                          some \in SUBSET (DOMAIN b \ DOMAIN t)} :
              side = [tree |-> t, renames |-> r]
  BY DEF Sides
<1>2. PICK some \in SUBSET (DOMAIN b \ DOMAIN t) : r \in Injection(some, DOMAIN t \ DOMAIN b)
  BY <1>1
<1>3. r \in [some -> DOMAIN t \ DOMAIN b]
  BY <1>2 DEF Injection
<1> QED
  BY <1>1, <1>2, <1>3

\* The paths of a merge.
LEMMA MergedPaths ==
  ASSUME NEW b, NEW t, NEW u, NEW m \in Merges(b, t, u)
  PROVE  \E ours \in Sides(b, t), theirs \in Sides(b, u) :
           /\ Clean(b, ours, theirs)
           /\ m \in Joined(b, ours, theirs)
           /\ DOMAIN m = PathsAfter(b, ours, theirs)
<1>1. PICK s \in Sides(b, t) \X Sides(b, u) :
             Clean(b, s[1], s[2]) /\ m \in Joined(b, s[1], s[2])
  BY DEF Merges
<1>2. DOMAIN m = PathsAfter(b, s[1], s[2])
  BY <1>1 DEF Joined
<1> QED
  BY <1>1, <1>2

\* A file that is everywhere stays where it is; one that the base has too can
\* be in the merge only if both sides have it.
LEMMA MergeKeepsOld ==
  ASSUME NEW b, NEW t, NEW u, NEW m \in Merges(b, t, u), NEW q \in DOMAIN b
  PROVE  q \in DOMAIN m <=> q \in DOMAIN t /\ q \in DOMAIN u
<1>1. PICK ours \in Sides(b, t), theirs \in Sides(b, u) :
             DOMAIN m = PathsAfter(b, ours, theirs)
  BY MergedPaths
<1>2. /\ ours.tree = t /\ theirs.tree = u
      /\ DOMAIN ours.renames \subseteq DOMAIN b \ DOMAIN t
      /\ \A f \in DOMAIN ours.renames : ours.renames[f] \in DOMAIN t \ DOMAIN b
      /\ DOMAIN theirs.renames \subseteq DOMAIN b \ DOMAIN u
      /\ \A f \in DOMAIN theirs.renames : theirs.renames[f] \in DOMAIN u \ DOMAIN b
  BY SideShape
<1>3. q \notin Added(b, ours) /\ q \notin Added(b, theirs)
  BY DEF Added
<1>4. ASSUME NEW f \in Kept(b, ours, theirs), q = Target(ours, theirs, f)
      PROVE  q \in DOMAIN t /\ q \in DOMAIN u
  <2>1. f \notin DOMAIN ours.renames /\ f \notin DOMAIN theirs.renames /\ f = q
    BY <1>2, <1>4 DEF Target, Place
  <2> QED
    BY <1>2, <1>4, <2>1 DEF Kept, Deleted, Place
<1>5. ASSUME q \in DOMAIN t, q \in DOMAIN u
      PROVE  q \in Kept(b, ours, theirs) /\ q = Target(ours, theirs, q)
  BY <1>2, <1>5 DEF Kept, Deleted, Place, Target
<1> QED
  BY <1>1, <1>3, <1>4, <1>5 DEF PathsAfter, Places

\* What is in a merge is in one of its sides.
LEMMA MergeAddsNothing ==
  ASSUME NEW b, NEW t, NEW u, NEW m \in Merges(b, t, u)
  PROVE  DOMAIN m \subseteq DOMAIN t \cup DOMAIN u
<1>1. PICK ours \in Sides(b, t), theirs \in Sides(b, u) :
             DOMAIN m = PathsAfter(b, ours, theirs)
  BY MergedPaths
<1>2. ours.tree = t /\ theirs.tree = u
  BY SideShape
<1>3. Added(b, ours) \subseteq DOMAIN t /\ Added(b, theirs) \subseteq DOMAIN u
  BY <1>2 DEF Added
<1>4. ASSUME NEW f \in Kept(b, ours, theirs)
      PROVE  Target(ours, theirs, f) \in DOMAIN t \cup DOMAIN u
  BY <1>2, <1>4 DEF Kept, Deleted, Target, Place
<1> QED
  BY <1>1, <1>3, <1>4 DEF PathsAfter, Places

\* What one side adds is in the merge, taken for a rename or not.
LEMMA MergeKeepsNew ==
  ASSUME NEW b, NEW t, NEW u, NEW m \in Merges(b, t, u), NEW q \in DOMAIN u \ DOMAIN b
  PROVE  q \in DOMAIN m
<1>1. PICK ours \in Sides(b, t), theirs \in Sides(b, u) :
             /\ Clean(b, ours, theirs)
             /\ DOMAIN m = PathsAfter(b, ours, theirs)
  BY MergedPaths
<1>2. /\ theirs.tree = u
      /\ DOMAIN theirs.renames \subseteq DOMAIN b \ DOMAIN u
      /\ \A f \in DOMAIN theirs.renames : theirs.renames[f] \in DOMAIN u \ DOMAIN b
  BY SideShape
<1>3. CASE q \notin Range(theirs.renames)
  BY <1>1, <1>2, <1>3 DEF Added, PathsAfter
<1>4. CASE q \in Range(theirs.renames)
  <2>1. PICK f \in DOMAIN theirs.renames : theirs.renames[f] = q
    BY <1>4 DEF Range
  <2>2. f \in DOMAIN b /\ ~Deleted(theirs, f) /\ Changed(b, theirs, f)
    BY <1>2, <2>1 DEF Deleted, Place, Changed
  <2>3. ~Deleted(ours, f)
    BY <1>1, <2>2 DEF Clean
  <2>4. f \in Kept(b, ours, theirs)
    BY <2>2, <2>3 DEF Kept
  <2>5. f \in DOMAIN ours.renames => ours.renames[f] = q
    BY <1>1, <2>1 DEF Clean
  <2>6. Target(ours, theirs, f) = q
    BY <2>1, <2>5 DEF Target, Place
  <2> QED
    BY <1>1, <2>4, <2>6 DEF PathsAfter, Places
<1> QED
  BY <1>3, <1>4

\* Every text in a merge of trees comes from them or out of the merge.
LEMMA MergeIsTree ==
  ASSUME NEW b, NEW t, NEW u, NEW m \in Merges(b, t, u),
         IsTree(b), IsTree(t), IsTree(u)
  PROVE  IsTree(m)
<1>1. PICK ours \in Sides(b, t), theirs \in Sides(b, u) :
             /\ Clean(b, ours, theirs)
             /\ m \in Joined(b, ours, theirs)
             /\ DOMAIN m = PathsAfter(b, ours, theirs)
  BY MergedPaths
<1>2. /\ ours.tree = t /\ theirs.tree = u
      /\ DOMAIN ours.renames \subseteq DOMAIN b \ DOMAIN t
      /\ \A f \in DOMAIN ours.renames : ours.renames[f] \in DOMAIN t \ DOMAIN b
      /\ DOMAIN theirs.renames \subseteq DOMAIN b \ DOMAIN u
      /\ \A f \in DOMAIN theirs.renames : theirs.renames[f] \in DOMAIN u \ DOMAIN b
  BY SideShape
<1> DEFINE contested == {f \in Kept(b, ours, theirs) : Contested(b, ours, theirs, f)}
           source(q) == SourceOf(b, ours, theirs, q)
<1>3. PICK choice \in [contested -> Texts] :
        \A q \in DOMAIN m : m[q] =
          IF q \in Places(b, ours, theirs)
          THEN IF source(q) \in contested THEN choice[source(q)]
               ELSE Chosen(b, ours, theirs, source(q))
          ELSE IF q \in DOMAIN ours.tree THEN ours.tree[q] ELSE theirs.tree[q]
  BY <1>1 DEF Joined
<1>4. ASSUME NEW q \in Places(b, ours, theirs)
      PROVE  source(q) \in Kept(b, ours, theirs)
  <2>1. PICK f \in Kept(b, ours, theirs) : Target(ours, theirs, f) = q
    BY DEF Places
  <2>2. CASE q \in DOMAIN b
    <3>1. f \notin DOMAIN ours.renames /\ f \notin DOMAIN theirs.renames /\ f = q
      BY <1>2, <2>1, <2>2 DEF Target, Place
    <3> QED
      BY <2>1, <2>2, <3>1 DEF SourceOf
  <2>3. CASE q \notin DOMAIN b
    <3>1. f \in DOMAIN ours.renames \cup DOMAIN theirs.renames
      BY <2>1, <2>3 DEF Kept, Target, Place
    <3>2. /\ source(q) \in DOMAIN ours.renames \cup DOMAIN theirs.renames
          /\ Target(ours, theirs, source(q)) = q
      BY <2>1, <2>3, <3>1 DEF SourceOf
    <3>3. ASSUME NEW g \in DOMAIN ours.renames
          PROVE  g \in Kept(b, ours, theirs)
      BY <1>1, <1>2 DEF Clean, Kept, Deleted, Changed, Place
    <3>4. ASSUME NEW g \in DOMAIN theirs.renames
          PROVE  g \in Kept(b, ours, theirs)
      BY <1>1, <1>2 DEF Clean, Kept, Deleted, Changed, Place
    <3> QED
      BY <3>2, <3>3, <3>4
  <2> QED
    BY <2>2, <2>3
<1>5. ASSUME NEW f \in Kept(b, ours, theirs)
      PROVE  Chosen(b, ours, theirs, f) \in AllTexts
  BY <1>2 DEF Kept, Deleted, Chosen, There, IsTree
<1>6. ASSUME NEW q \in DOMAIN m PROVE q \in Paths /\ m[q] \in AllTexts
  <2>1. q \in Paths
    BY MergeAddsNothing DEF IsTree
  <2>2. CASE q \in Places(b, ours, theirs)
    <3>1. source(q) \in contested => choice[source(q)] \in AllTexts
      BY <1>3 DEF AllTexts
    <3> QED
      BY <1>3, <1>4, <1>5, <2>1, <2>2, <3>1
  <2>3. CASE q \notin Places(b, ours, theirs)
    <3>1. q \in DOMAIN t \/ q \in DOMAIN u
      BY <1>1, <1>2, <2>3 DEF PathsAfter, Added
    <3> QED
      BY <1>2, <1>3, <2>1, <2>3, <3>1 DEF IsTree
  <2> QED
    BY <2>2, <2>3
<1> QED
  BY <1>6 DEF IsTree

-----------------------------------------------------------------------------
(* What a tree that passes is like.                                        *)

\* A module is inside of every package it loads on its way.
LEMMA PackagesAreSubSeqs ==
  ASSUME NEW m \in Seq(STRING), NEW p \in Packages(m)
  PROVE  Matches(m, p)
<1>1. PICK n \in 1 .. Len(m) : p = SubSeq(m, 1, n)
  BY DEF Packages
<1>2. p \in Seq(STRING) /\ Len(p) = n /\ \A k \in 1 .. n : p[k] = m[k]
  BY <1>1, SubSeqProperties
<1>3. SubSeq(p, 1, Len(p)) = p
  BY <1>2, SubSeqFull
<1> QED
  BY <1>1, <1>2, <1>3 DEF Matches, IsPrefix

\* No file of a tree that passes names a forbidden module.
LEMMA PassingObeysRules ==
  ASSUME NEW tree, PythonChecks(tree),
         NEW rule \in Rules, NEW prefix \in rule.forbidden,
         NEW f \in DOMAIN tree \cap Python, ~tree[f].broken,
         IsPrefix(SRC_ROOT \o rule.package, f),
         NEW s \in tree[f].imports, s.kind = "import" \/ s.module # <<>>
  PROVE  ~Matches(s.module, prefix)
<1> DEFINE files == get_python_files(tree, rule.package)
           broken == {g \in files : tree[g].broken}
           offending(g) == {imp \in extract_imports(tree[g]) :
                              \E q \in rule.forbidden : Matches(imp, q)}
<1>1. check_forbidden_imports(tree, rule) = {}
  BY DEF PythonChecks, ArchitecturePasses
<1>2. UNION {{<<g, imp>> : imp \in offending(g)} : g \in files \ broken} = {}
  BY <1>1 DEF check_forbidden_imports
<1>3. f \in files \ broken
  BY DEF get_python_files
<1>4. offending(f) = {}
  <2> HIDE DEF files, broken, offending
  <2> SUFFICES ASSUME NEW imp \in offending(f) PROVE FALSE
    OBVIOUS
  <2>1. <<f, imp>> \in {<<f, m>> : m \in offending(f)}
    OBVIOUS
  <2>2. {<<f, m>> : m \in offending(f)}
          \in {{<<g, m>> : m \in offending(g)} : g \in files \ broken}
    BY <1>3
  <2> QED
    BY <1>2, <2>1, <2>2
<1>5. s.module \in extract_imports(tree[f])
  BY DEF extract_imports
<1> QED
  BY <1>4, <1>5

\* A tree that passes has its paths in order.
LEMMA PassingIsInOrder ==
  ASSUME NEW tree, IsTree(tree), PythonChecks(tree)
  PROVE  PathsInOrder(tree)
<1>1. missing(tree) = {} /\ found(tree) = {}
  BY DEF PythonChecks, ScaffoldPasses
<1>2. ASSUME NEW q \in RequiredFiles PROVE q \in DOMAIN tree
  <2>1. Exists(tree, q)
    BY <1>1 DEF RequiredFiles, missing
  <2>2. \A f \in DOMAIN tree : IsPrefix(q, f) => f = q
    BY ChangesAssumption DEF IsTree
  <2> QED
    BY <2>1, <2>2 DEF Exists, IsStrictPrefix
<1> QED
  BY <1>1, <1>2 DEF PathsInOrder

\* What makes a branch fit: if it and main are in order, so is their merge.
LEMMA MergeIsInOrder ==
  ASSUME NEW b, NEW t, NEW u, NEW m \in Merges(b, t, u),
         PathsInOrder(b), PathsInOrder(t), PathsInOrder(u)
  PROVE  PathsInOrder(m)
<1>1. RequiredFiles \subseteq DOMAIN m
  BY MergeKeepsOld DEF PathsInOrder
<1>2. ASSUME NEW q \in PROHIBITED_PATHS PROVE ~Exists(m, q)
  <2>1. ~Exists(t, q) /\ ~Exists(u, q)
    BY DEF PathsInOrder, found
  <2>2. DOMAIN m \subseteq DOMAIN t \cup DOMAIN u
    BY MergeAddsNothing
  <2> QED
    BY <2>1, <2>2 DEF Exists
<1> QED
  BY <1>1, <1>2 DEF PathsInOrder, found

\* If the merge of a branch passes, its paths are in order without main.
LEMMA CheckedIsInOrder ==
  ASSUME NEW b, NEW t, NEW u, NEW m \in Merges(b, t, u),
         PathsInOrder(b), PathsInOrder(m)
  PROVE  PathsInOrder(u)
<1>1. RequiredFiles \subseteq DOMAIN u
  BY MergeKeepsOld DEF PathsInOrder
<1>2. ASSUME NEW q \in PROHIBITED_PATHS PROVE ~Exists(u, q)
  <2>1. ~Exists(b, q) /\ ~Exists(m, q)
    BY DEF PathsInOrder, found
  <2>2. \A f \in DOMAIN u : f \in DOMAIN b \/ f \in DOMAIN m
    BY MergeKeepsNew
  <2> QED
    BY <2>1, <2>2 DEF Exists
<1> QED
  BY <1>1, <1>2 DEF PathsInOrder, found

-----------------------------------------------------------------------------
(* The invariant.                                                          *)

\* The tree main starts from satisfies the invariant.
LEMMA InitInv == Init => Inv
<1> SUFFICES ASSUME Init PROVE Inv
  OBVIOUS
<1>1. IsTree(Initial)
  BY DEF IsTree, Paths, AllTexts, Range
<1>2. PythonChecks(Initial) /\ PathsInOrder(Initial)
  BY <1>1, InitialAssumption, PassingIsInOrder
<1>3. IsTree(Untested.onto) /\ IsTree(Untested.tree)
  BY DEF IsTree, Untested
<1>4. merges \in 0 .. MaxMerges
  BY BoundAssumption DEF Init
<1>5. TypeOK
  BY <1>1, <1>3, <1>4 DEF Init, TypeOK
<1> QED
  BY <1>2, <1>5 DEF Init, Inv

\* A pull request that is gone starts from main and has no verdict.
LEMMA LeaveShape ==
  ASSUME TypeOK, NEW p \in PullRequests, Leave(p), IsTree(main'),
         PathsInOrder(main')
  PROVE  /\ verdict' \in [PullRequests -> {"none", "pass", "fail"}]
         /\ DOMAIN base' = PullRequests /\ DOMAIN head' = PullRequests
         /\ DOMAIN tested' = PullRequests
         /\ base'[p] = main' /\ head'[p] = main'
         /\ verdict'[p] = "none" /\ tested'[p] = Untested
         /\ \A r \in PullRequests \ {p} :
              /\ base'[r] = base[r] /\ head'[r] = head[r]
              /\ verdict'[r] = verdict[r] /\ tested'[r] = tested[r]
         /\ \A r \in PullRequests :
              /\ IsTree(base'[r]) /\ IsTree(head'[r])
              /\ IsTree(tested'[r].onto) /\ IsTree(tested'[r].tree)
              /\ verdict'[r] # "none" => head'[r] # base'[r]
<1>1. IsTree(Untested.onto) /\ IsTree(Untested.tree)
  BY DEF IsTree, Untested
<1> QED
  BY <1>1 DEF TypeOK, Leave

\* Every step preserves the invariant.
LEMMA NextInv == Inv /\ [Next]_vars => Inv'
<1> SUFFICES ASSUME Inv, [Next]_vars PROVE Inv'
  OBVIOUS
<1>a. TypeOK /\ PathsInOrder(main)
  BY DEF Inv
<1>b. IsTree(Untested.onto) /\ IsTree(Untested.tree)
  BY DEF IsTree, Untested
<1>1. ASSUME UNCHANGED vars PROVE Inv'
  BY <1>1 DEF vars, mainVars, Inv, TypeOK, Vouched
<1>2. ASSUME NEW p \in PullRequests, Open(p) PROVE Inv'
  <2>1. /\ UNCHANGED <<mainVars, verdict, tested>>
        /\ DOMAIN base' = PullRequests /\ DOMAIN head' = PullRequests
        /\ base'[p] = main /\ head'[p] = main
        /\ \A r \in PullRequests \ {p} : base'[r] = base[r] /\ head'[r] = head[r]
    BY <1>2 DEF Open, Inv, TypeOK
  <2>2. verdict[p] = "none"
    BY <1>2 DEF Open, Inv, TypeOK
  <2>3. TypeOK'
    BY <2>1, <2>2 DEF mainVars, Inv, TypeOK
  <2> QED
    BY <2>1, <2>2, <2>3 DEF mainVars, Inv, Vouched
<1>3. ASSUME NEW p \in PullRequests, NEW c \in Changes, Push(p, c) PROVE Inv'
  <2>1. /\ UNCHANGED <<mainVars, base>>
        /\ verdict' \in [PullRequests -> {"none", "pass", "fail"}]
        /\ DOMAIN head' = PullRequests /\ DOMAIN tested' = PullRequests
        /\ head'[p] = Apply(base[p], c)
        /\ verdict'[p] = "none" /\ tested'[p] = Untested
        /\ \A r \in PullRequests \ {p} :
             /\ head'[r] = head[r] /\ verdict'[r] = verdict[r]
             /\ tested'[r] = tested[r]
    BY <1>3 DEF Push, Inv, TypeOK
  <2>2. IsTree(Apply(base[p], c))
    <3>1. IsTree(base[p])
      BY DEF Inv, TypeOK
    <3>2. /\ DOMAIN c.writes \subseteq Paths
          /\ \A f \in DOMAIN c.writes : c.writes[f] \in AllTexts
      BY DEF Paths, AllTexts, Range
    <3> QED
      BY <3>1, <3>2 DEF Apply, IsTree
  <2>3. TypeOK'
    BY <1>b, <2>1, <2>2 DEF mainVars, Inv, TypeOK
  <2> QED
    BY <2>1, <2>3 DEF mainVars, Inv, Vouched
<1>4. ASSUME NEW p \in PullRequests, Check(p) PROVE Inv'
  <2>1. PICK t \in Merges(base[p], main, head[p]) :
          IF PythonChecks(t)
          THEN /\ verdict' = [verdict EXCEPT ![p] = "pass"]
               /\ tested' = [tested EXCEPT ![p] = [onto |-> main, tree |-> t]]
          ELSE /\ verdict' = [verdict EXCEPT ![p] = "fail"]
               /\ UNCHANGED tested
    BY <1>4 DEF Check
  <2>2. IsTree(t)
    BY MergeIsTree DEF Inv, TypeOK
  <2>3. UNCHANGED <<mainVars, base, head>> /\ head[p] # base[p]
    BY <1>4 DEF Check
  <2>4. CASE PythonChecks(t)
    <3>1. /\ verdict' \in [PullRequests -> {"none", "pass", "fail"}]
          /\ DOMAIN tested' = PullRequests
          /\ verdict'[p] = "pass"
          /\ tested'[p].onto = main /\ tested'[p].tree = t
          /\ \A r \in PullRequests \ {p} :
               verdict'[r] = verdict[r] /\ tested'[r] = tested[r]
      BY <2>1, <2>4 DEF Inv, TypeOK
    <3>2. TypeOK'
      BY <2>2, <2>3, <3>1 DEF mainVars, Inv, TypeOK
    <3>3. PathsInOrder(head[p])
      BY <2>2, <2>4, PassingIsInOrder, CheckedIsInOrder DEF Inv
    <3> QED
      BY <2>3, <2>4, <3>1, <3>2, <3>3 DEF mainVars, Inv, Vouched
  <2>5. CASE ~PythonChecks(t)
    <3>1. /\ verdict' \in [PullRequests -> {"none", "pass", "fail"}]
          /\ tested' = tested
          /\ verdict'[p] = "fail"
          /\ \A r \in PullRequests \ {p} : verdict'[r] = verdict[r]
      BY <2>1, <2>5 DEF Inv, TypeOK
    <3>2. TypeOK'
      BY <2>3, <3>1 DEF mainVars, Inv, TypeOK
    <3> QED
      BY <2>3, <3>1, <3>2 DEF mainVars, Inv, Vouched
  <2> QED
    BY <2>4, <2>5
<1>5. ASSUME NEW p \in PullRequests, Merge(p) PROVE Inv'
  <2>1. /\ merges < MaxMerges /\ merges' = merges + 1
        /\ verdict[p] = "pass" /\ mainVerdict' = "none" /\ Leave(p)
        /\ overtaken' = (main # tested[p].onto)
        /\ IF main = tested[p].onto
           THEN main' = tested[p].tree
           ELSE main' \in Merges(base[p], main, head[p])
    BY <1>5 DEF Merge
  <2>2. IsTree(main') /\ PathsInOrder(main')
    <3>1. CASE main = tested[p].onto
      BY <2>1, <3>1, PassingIsInOrder DEF Inv, TypeOK
    <3>2. CASE main # tested[p].onto
      BY <2>1, <3>2, MergeIsTree, MergeIsInOrder DEF Inv, TypeOK
    <3> QED
      BY <3>1, <3>2
  <2>3. merges' \in 0 .. MaxMerges
    BY <1>a, <2>1, BoundAssumption DEF TypeOK
  <2>4. TypeOK'
    BY <1>a, <2>1, <2>2, <2>3, LeaveShape DEF TypeOK
  <2>5. Vouched' => PythonChecks(main')
    <3>1. CASE main = tested[p].onto
      BY <2>1, <3>1 DEF Inv
    <3>2. CASE main # tested[p].onto
      BY <2>1, <3>2 DEF Vouched
    <3> QED
      BY <3>1, <3>2
  <2> QED
    BY <1>a, <2>1, <2>2, <2>4, <2>5, LeaveShape DEF Inv
<1>6. ASSUME NEW p \in PullRequests, Close(p) PROVE Inv'
  <2>1. UNCHANGED mainVars /\ Leave(p)
    BY <1>6 DEF Close
  <2>2. IsTree(main') /\ PathsInOrder(main')
    BY <1>a, <2>1 DEF mainVars, TypeOK
  <2>3. TypeOK'
    BY <1>a, <2>1, <2>2, LeaveShape DEF mainVars, TypeOK
  <2> QED
    BY <1>a, <2>1, <2>2, <2>3, LeaveShape DEF mainVars, Inv, Vouched
<1>7. ASSUME CheckMain PROVE Inv'
  <2>1. TypeOK'
    BY <1>7 DEF CheckMain, Inv, TypeOK
  <2>2. Vouched' => PythonChecks(main')
    BY <1>7 DEF CheckMain, Inv, Vouched
  <2> QED
    BY <1>7, <2>1, <2>2 DEF CheckMain, Inv
<1> QED
  BY <1>1, <1>2, <1>3, <1>4, <1>5, <1>6, <1>7 DEF Next

\* Whatever git makes of a merge and in whatever order pull requests are
\* checked and merged: a main that was checked, as the merge it is or after
\* it, is one that passes, and a green pull request leaves paths in order.
THEOREM Invariance == Spec => []Inv
BY InitInv, NextInv, PTL DEF Spec

\* Trees stay trees, and only a pull request that changes something has a
\* verdict.
THEOREM TypeCorrect == Spec => []TypeOK
<1>1. Inv => TypeOK
  BY DEF Inv
<1> QED
  BY <1>1, Invariance, PTL

-----------------------------------------------------------------------------
(* The properties.                                                         *)

\* No file of a main that was checked names a module inside of a forbidden
\* package with an absolute import: what the checker compares, prefixes of
\* the name, finds every package on the way to the module.
THEOREM RulesAlwaysHold == Spec => []RulesHoldOnMain
<1>1. Inv => RulesHoldOnMain
  <2> SUFFICES ASSUME Inv, Vouched, NEW i \in StatementsOnMain, NEW rule \in Rules,
                      IsPrefix(SRC_ROOT \o rule.package, i.path),
                      i.statement.module # <<>>,
                      NEW p \in Packages(i.statement.module) \cap rule.forbidden
               PROVE  FALSE
    BY DEF RulesHoldOnMain
  <2>1. /\ i.path \in DOMAIN main \cap Python /\ ~main[i.path].broken
        /\ i.statement \in main[i.path].imports
    BY DEF StatementsOnMain
  <2>2. ~Matches(i.statement.module, p)
    BY <2>1, PassingObeysRules DEF Inv
  <2>3. i.statement.module \in Seq(STRING)
    BY <2>1, ChangesAssumption DEF Inv, TypeOK, IsTree
  <2> QED
    BY <2>2, <2>3, PackagesAreSubSeqs
<1> QED
  BY <1>1, Invariance, PTL

\* On a main that was checked, migration tooling is confined to the tables
\* that may declare it.
THEOREM ToolingStaysConfined == Spec => []ToolingConfined
<1>1. Inv => ToolingConfined
  <2> SUFFICES ASSUME Inv, Vouched, NEW d \in main[PYPROJECT].dependencies
               PROVE  /\ d.words \cap {"asyncpg", "structlog"} = {}
                      /\ d.words \cap {"sqlalchemy", "alembic"} # {} =>
                           d.table \in {Extra("management-backend"), Group("dev")}
    BY DEF ToolingConfined
  <2>1. found_forbidden(main) = {}
    BY DEF Inv, PythonChecks, ScaffoldPasses, check_pyproject_dependencies
  <2>2. d.words \cap Forbidden(d.table) = {}
    BY <2>1 DEF found_forbidden
  <2> QED
    BY <2>2 DEF Forbidden, Whitelisted, FORBIDDEN_GLOBAL_DEPENDENCIES,
                FORBIDDEN_RUNTIME_DEPENDENCIES
<1> QED
  BY <1>1, Invariance, PTL

\* A main that was checked lacks no required path, not even a directory that
\* two merges have emptied together, and has no broken source.
THEOREM CheckedMainIsAlwaysWhole == Spec => []CheckedMainIsWhole
<1>1. Inv => CheckedMainIsWhole
  <2> SUFFICES ASSUME Inv, Vouched PROVE CheckedMainIsWhole
    BY DEF CheckedMainIsWhole
  <2>1. PythonChecks(main)
    BY DEF Inv
  <2>2. \A q \in REQUIRED_PATHS : Exists(main, q)
    BY <2>1 DEF PythonChecks, ScaffoldPasses, missing
  <2>3. \A f \in DOMAIN main : main[f].broken =>
          f \notin Python \/ f[1] \notin {"src", "scripts"}
    BY <2>1 DEF PythonChecks
  <2>4. ~main[PYPROJECT].broken
    BY <2>1 DEF PythonChecks, ScaffoldPasses, check_pyproject_dependencies
  <2> QED
    BY <2>2, <2>3, <2>4 DEF CheckedMainIsWhole
<1> QED
  BY <1>1, Invariance, PTL

\* Checked or not, main keeps every required file, and no merge of green pull
\* requests brings anything back to an obsolete path.
THEOREM PathsAlwaysHold == Spec => []PathsHoldOnMain
<1>1. Inv => PathsHoldOnMain
  <2> SUFFICES ASSUME PathsInOrder(main) PROVE PathsHoldOnMain
    BY DEF Inv
  <2>1. RequiredFiles \subseteq DOMAIN main
    BY DEF PathsInOrder
  <2>2. ASSUME NEW q \in PROHIBITED_PATHS, NEW f \in DOMAIN main
        PROVE  ~IsPrefix(q, f)
    BY <2>2 DEF PathsInOrder, found, Exists, IsStrictPrefix
  <2> QED
    BY <2>1, <2>2 DEF PathsHoldOnMain
<1> QED
  BY <1>1, Invariance, PTL
=============================================================================
