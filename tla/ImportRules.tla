----------------------------- MODULE ImportRules -----------------------------
(***************************************************************************)
(* The architecture checker (scripts/check_architecture.py).               *)
(*                                                                         *)
(* A path is the sequence of its components from the repository's root, a  *)
(* module the sequence of the parts of its dotted name.  A source tree is  *)
(* a function: for every file the text in it.  Of a text there is left     *)
(* whether it can be parsed, the import statements in it, and the          *)
(* dependencies it declares, which matters in pyproject.toml alone.        *)
(***************************************************************************)
EXTENDS Naturals, Sequences, SequencesExt

CONSTANT Python  \* the paths that end in ".py"

Text(broken, imports, dependencies) ==
  [broken |-> broken, imports |-> imports, dependencies |-> dependencies]

\* The nodes of Python's AST: import module, and from module import names,
\* with one dot for every level.
Import(module) ==
  [kind |-> "import", module |-> module, names |-> {}, level |-> 0]
ImportFrom(level, module, names) ==
  [kind |-> "from", module |-> module, names |-> names, level |-> level]

SRC_ROOT == <<"src", "pbl4">>

\* A file, or a directory with a file in it.
Exists(tree, path) ==
  path \in DOMAIN tree \/ \E f \in DOMAIN tree : IsStrictPrefix(path, f)

-----------------------------------------------------------------------------
(* The rules: no file under the package imports from the forbidden ones.   *)

Rule(package, forbidden) == [package |-> package, forbidden |-> forbidden]

Project(packages) == {<<"pbl4", p>> : p \in packages}
Torch == {<<"torch">>, <<"torchvision">>}
Drivers == {<<"psycopg">>, <<"psycopg_pool">>, <<"asyncpg">>, <<"sqlalchemy">>}
Web == {<<"fastapi">>, <<"uvicorn">>, <<"starlette">>}

\* Rules 1 to 3: the packages the processes are built on.
FoundationRules ==
  { Rule(<<"protocol">>,
      Project({"runtime", "worker", "management_backend", "dataset_manager"})
        \cup Torch \cup Drivers),
    Rule(<<"transport">>,
      Project({"protocol", "runtime", "worker", "management_backend",
               "dataset_manager"}) \cup Torch \cup Drivers),
    Rule(<<"common">>,
      Project({"protocol", "transport", "runtime", "worker", "adapter",
               "management_backend", "dataset_manager", "cli",
               "management_protocol"}) \cup Torch \cup Web \cup Drivers) }

\* Rules 4 to 11: the processes, their boundaries and their tools.
ProcessRules ==
  { Rule(<<"worker">>,
      Project({"management_backend", "dataset_manager"}) \cup Drivers),
    Rule(<<"management_backend">>, Project({"runtime", "worker"}) \cup Torch),
    Rule(<<"dataset_manager">>,
      Project({"runtime", "management_backend"}) \cup Torch),
    Rule(<<"runtime">>,
      Project({"management_backend"}) \cup Web \cup Drivers \cup Torch),
    Rule(<<"runtime", "synchronization">>,
      {<<"pbl4", "runtime", "checkpoint">>,
       <<"pbl4", "runtime", "checkpoint_policy">>, <<"fastapi">>}
        \cup Project({"transport", "management_backend"}) \cup Drivers),
    Rule(<<"management_protocol">>,
      Project({"runtime", "management_backend", "worker"})
        \cup Drivers \cup Torch),
    Rule(<<"adapter">>,
      Project({"management_backend", "dataset_manager", "runtime"})
        \cup Drivers),
    Rule(<<"cli">>,
      Project({"runtime", "dataset_manager", "worker"}) \cup Drivers) }

Rules == FoundationRules \cup ProcessRules

-----------------------------------------------------------------------------
(* The check.                                                              *)

\* Every name the statements of a text import from: the dots of a relative
\* import and the names it takes are not looked at.
extract_imports(text) ==
  {statement.module : statement \in {s \in text.imports :
     s.kind = "import" \/ s.module # <<>>}}

\* Defect: only the package itself is recognised, not what is inside.
MatchesExactly(imp, prefix) == imp = prefix

Matches(imp, prefix) == IsPrefix(prefix, imp)

get_python_files(tree, package) ==
  {f \in DOMAIN tree : f \in Python /\ IsPrefix(SRC_ROOT \o package, f)}

\* The violations of one rule: files that cannot be parsed, and offending
\* imports of those that can.
check_forbidden_imports(tree, rule) ==
  LET files == get_python_files(tree, rule.package)
      broken == {f \in files : tree[f].broken}
  IN  {<<f, "syntax error">> : f \in broken} \cup
      UNION {{<<f, imp>> : imp \in {i \in extract_imports(tree[f]) :
                \E prefix \in rule.forbidden : Matches(i, prefix)}} :
             f \in files \ broken}

\* The exit status of the checker is 0.
ArchitecturePasses(tree) ==
  /\ Exists(tree, SRC_ROOT)
  /\ \A rule \in Rules : check_forbidden_imports(tree, rule) = {}
=============================================================================
