-------------------------------- MODULE Gate --------------------------------
(***************************************************************************)
(* Pull requests and the branch "main" they are merged into.  The workflow *)
(* (.github/workflows/ci.yml) checks a pull request merged with main as it *)
(* is then; the verdict stays with the pull request while others go first. *)
(* It also checks main after every merge, when it is too late to refuse.   *)
(*                                                                         *)
(* GitHub is not in this repository: a pull request is merged, or squashed,*)
(* if it is green, not edited since and free of conflicts.  A branch into  *)
(* which main is merged counts as a new pull request.                      *)
(***************************************************************************)
EXTENDS Scaffold, GitMerge, FiniteSets

CONSTANTS
  Initial,        \* the tree on main at first
  Changes,        \* [writes, removes]: what pull requests may do to a tree
  PullRequests,
  MaxMerges       \* bound: merges into main

Paths == DOMAIN Initial \cup UNION {DOMAIN c.writes : c \in Changes}
AllTexts == Texts \cup Range(Initial) \cup UNION {Range(c.writes) : c \in Changes}

\* Required paths that are files.
RequiredFiles == REQUIRED_PATHS \cap DOMAIN Initial

ASSUME InitialAssumption == PythonChecks(Initial)

\* No pull request makes a directory of a required file, and the texts hold
\* import statements.
ASSUME ChangesAssumption ==
  /\ \A q \in RequiredFiles, f \in Paths : IsPrefix(q, f) => f = q
  /\ \A text \in AllTexts : \A s \in text.imports : s.module \in Seq(STRING)

ASSUME BoundAssumption == MaxMerges \in Nat

VARIABLES
  main,         \* the tree on main
  overtaken,    \* main is a merge that no workflow has seen before it was made
  mainVerdict,  \* what the workflow said of main: "none", "pass" or "fail"
  merges,       \* how many merges there have been
  base,         \* base[p]: the main that pull request p has branched off from
  head,         \* head[p]: the tree of its branch
  verdict,      \* verdict[p]: "none", "pass" or "fail"
  tested        \* tested[p]: the main it was checked with, and the merge

mainVars == <<main, overtaken, mainVerdict, merges>>
vars == <<mainVars, base, head, verdict, tested>>

IsTree(t) == /\ DOMAIN t \subseteq Paths
             /\ \A f \in DOMAIN t : t[f] \in AllTexts

Untested == [onto |-> <<>>, tree |-> <<>>]

\* The types: only a pull request that changes something has a verdict.
TypeOK ==
  /\ IsTree(main)
  /\ overtaken \in BOOLEAN
  /\ mainVerdict \in {"none", "pass", "fail"}
  /\ merges \in 0 .. MaxMerges
  /\ verdict \in [PullRequests -> {"none", "pass", "fail"}]
  /\ DOMAIN base = PullRequests /\ DOMAIN head = PullRequests
  /\ DOMAIN tested = PullRequests
  /\ \A p \in PullRequests :
       /\ IsTree(base[p]) /\ IsTree(head[p])
       /\ IsTree(tested[p].onto) /\ IsTree(tested[p].tree)
       /\ verdict[p] # "none" => head[p] # base[p]

Init ==
  /\ main = Initial
  /\ overtaken = FALSE
  /\ mainVerdict = "pass"
  /\ merges = 0
  /\ base = [p \in PullRequests |-> Initial]
  /\ head = [p \in PullRequests |-> Initial]
  /\ verdict = [p \in PullRequests |-> "none"]
  /\ tested = [p \in PullRequests |-> Untested]

-----------------------------------------------------------------------------
(* Pull requests.                                                          *)

\* A branch that nothing was committed to starts from main as it is now.
Open(p) ==
  /\ head[p] = base[p] /\ base[p] # main
  /\ base' = [base EXCEPT ![p] = main]
  /\ head' = [head EXCEPT ![p] = main]
  /\ UNCHANGED <<mainVars, verdict, tested>>

Apply(t, c) ==
  [f \in (DOMAIN t \ c.removes) \cup DOMAIN c.writes |->
     IF f \in DOMAIN c.writes THEN c.writes[f] ELSE t[f]]

\* Commits bring the branch to another change of its base: the workflow has
\* to run again.
Push(p, c) ==
  /\ merges < MaxMerges
  /\ Apply(base[p], c) # head[p]
  /\ head' = [head EXCEPT ![p] = Apply(base[p], c)]
  /\ verdict' = [verdict EXCEPT ![p] = "none"]
  /\ tested' = [tested EXCEPT ![p] = Untested]
  /\ UNCHANGED <<mainVars, base>>

\* The workflow runs on the merge with main, if there is one without conflict.
Check(p) ==
  /\ merges < MaxMerges
  /\ verdict[p] = "none"
  /\ head[p] # base[p]
  /\ \E t \in Merges(base[p], main, head[p]) :
       IF PythonChecks(t)
       THEN /\ verdict' = [verdict EXCEPT ![p] = "pass"]
            /\ tested' = [tested EXCEPT ![p] = [onto |-> main, tree |-> t]]
       ELSE /\ verdict' = [verdict EXCEPT ![p] = "fail"]
            /\ UNCHANGED tested
  /\ UNCHANGED <<mainVars, base, head>>

\* Defect: a verdict outlives the pull request it was about.
LeaveWithVerdict(p) ==
  /\ base' = [base EXCEPT ![p] = main']
  /\ head' = [head EXCEPT ![p] = main']
  /\ UNCHANGED <<verdict, tested>>

\* The pull request is gone, merged or given up.
Leave(p) ==
  /\ base' = [base EXCEPT ![p] = main']
  /\ head' = [head EXCEPT ![p] = main']
  /\ verdict' = [verdict EXCEPT ![p] = "none"]
  /\ tested' = [tested EXCEPT ![p] = Untested]

\* Defect: the merge counts as checked whichever main was checked.
MergeAnywhere(p) ==
  /\ merges < MaxMerges
  /\ verdict[p] = "pass"
  /\ main' \in Merges(base[p], main, head[p])
  /\ overtaken' = FALSE
  /\ mainVerdict' = "none"
  /\ merges' = merges + 1
  /\ Leave(p)

\* Onto the main it was checked with, the merge is the one that was checked.
Merge(p) ==
  /\ merges < MaxMerges
  /\ verdict[p] = "pass"
  /\ IF main = tested[p].onto
     THEN main' = tested[p].tree
     ELSE main' \in Merges(base[p], main, head[p])
  /\ overtaken' = (main # tested[p].onto)
  /\ mainVerdict' = "none"
  /\ merges' = merges + 1
  /\ Leave(p)

Close(p) ==
  /\ head[p] # base[p]
  /\ UNCHANGED mainVars
  /\ Leave(p)

\* The workflow runs on main itself, after a merge.
CheckMain ==
  /\ mainVerdict = "none"
  /\ mainVerdict' = IF PythonChecks(main) THEN "pass" ELSE "fail"
  /\ UNCHANGED <<main, overtaken, merges, base, head, verdict, tested>>

Next ==
  \/ \E p \in PullRequests :
       \/ Open(p)
       \/ \E c \in Changes : Push(p, c)
       \/ Check(p)
       \/ Merge(p)
       \/ Close(p)
  \/ CheckMain

Spec == Init /\ [][Next]_vars

-----------------------------------------------------------------------------
(* An inductive invariant.                                                 *)

\* What no merge of green pull requests can undo.
PathsInOrder(t) == RequiredFiles \subseteq DOMAIN t /\ found(t) = {}

\* Main has been checked: by its own run, or as the merge it is.
Vouched == mainVerdict = "pass" \/ ~overtaken

\* Every main, and with it every base, has its paths in order, and so has
\* the branch of a green pull request; a main that is vouched for is one that
\* passes.
Inv ==
  /\ TypeOK
  /\ PathsInOrder(main)
  /\ Vouched => PythonChecks(main)
  /\ \A p \in PullRequests :
       /\ PathsInOrder(base[p])
       /\ verdict[p] = "pass" =>
            PathsInOrder(head[p]) /\ PythonChecks(tested[p].tree)

-----------------------------------------------------------------------------
(* What Python makes of an import statement.                               *)

Packages(module) == {SubSeq(module, 1, n) : n \in 1 .. Len(module)}

\* The module a statement of the file at path starts from: every dot of a
\* relative import takes one component off the path.
Origin(path, s) ==
  IF s.level = 0 THEN s.module
  ELSE SubSeq(path, 2, Len(path) - s.level) \o s.module

\* Every module the statement may load: its own, those it is inside of, and
\* the names it takes, which may be modules themselves.
Loads(path, s) ==
  UNION {Packages(m) : m \in {Origin(path, s)} \cup
                             {Origin(path, s) \o <<n>> : n \in s.names}}

StatementsOnMain ==
  UNION {{[path |-> f, statement |-> s] : s \in main[f].imports} :
           f \in {g \in DOMAIN main \cap Python : ~main[g].broken}}

-----------------------------------------------------------------------------
(* Properties.  Between a merge that was overtaken and the run on main that *)
(* follows it, main may break every rule: a file is renamed in one pull    *)
(* request and gains an import in another.                                 *)

\* On a main that was checked, whatever went before, no file names a module,
\* with an absolute import, that is in a package its own package must not
\* import.
RulesHoldOnMain ==
  Vouched =>
    \A i \in StatementsOnMain, rule \in Rules :
      /\ IsPrefix(SRC_ROOT \o rule.package, i.path)
      /\ i.statement.level = 0 /\ i.statement.module # <<>>
      => Packages(i.statement.module) \cap rule.forbidden = {}

\* On a main that was checked, migration tooling is where it is allowed, and
\* what is ruled out everywhere is out.
ToolingConfined ==
  Vouched =>
    \A d \in main[PYPROJECT].dependencies :
      /\ d.words \cap {"asyncpg", "structlog"} = {}
      /\ d.words \cap {"sqlalchemy", "alembic"} # {} =>
           d.table \in {Extra("management-backend"), Group("dev")}

\* A main that was checked has every required path, the directories too,
\* which go when two pull requests each remove one of the last two files;
\* and no source in it is broken, though two texts may merge into one that
\* is.
CheckedMainIsWhole ==
  Vouched =>
    /\ \A q \in REQUIRED_PATHS : Exists(main, q)
    /\ \A f \in DOMAIN main : main[f].broken =>
         f \notin Python \/ f[1] \notin {"src", "scripts"}
    /\ ~main[PYPROJECT].broken

\* Even a main that nobody has checked since pull requests overtook each
\* other has every required file and nothing at an obsolete path: no merge
\* can lose or bring back what each of them, alone, has left in order.
PathsHoldOnMain ==
  /\ RequiredFiles \subseteq DOMAIN main
  /\ \A q \in PROHIBITED_PATHS, f \in DOMAIN main : ~IsPrefix(q, f)

\* "synchronization must not import checkpoint, transport, DB, HTTP, or
\* backend" (rule 8 of the checker), whichever import statement it uses.
SynchronizationIsolated ==
  Vouched =>
    \A i \in StatementsOnMain :
      IsPrefix(SRC_ROOT \o <<"runtime", "synchronization">>, i.path) =>
        Loads(i.path, i.statement) \cap
          {<<"pbl4", "runtime", "checkpoint">>,
           <<"pbl4", "runtime", "checkpoint_policy">>,
           <<"pbl4", "transport">>, <<"pbl4", "management_backend">>} = {}

\* "protocol must be wire-only: zero runtime/worker/backend/torch/db imports"
\* (rule 1 of the checker), also when the import is relative.
ProtocolWireOnly ==
  Vouched =>
    \A i \in StatementsOnMain :
      IsPrefix(SRC_ROOT \o <<"protocol">>, i.path) =>
        Loads(i.path, i.statement) \cap
          {<<"pbl4", "runtime">>, <<"pbl4", "worker">>,
           <<"pbl4", "management_backend">>} = {}
=============================================================================
