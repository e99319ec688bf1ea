------------------------------ MODULE Scaffold ------------------------------
(***************************************************************************)
(* The scaffold verifier (scripts/verify_scaffold.py) and what continuous  *)
(* integration makes of it (.github/workflows/ci.yml).  Both scripts are   *)
(* the ones below as long as they are there and can be parsed.             *)
(***************************************************************************)
EXTENDS ImportRules

\* A dependency that pyproject.toml declares: in which table, and which of
\* the forbidden words occur in it.
Declares(table, words) == [table |-> table, words |-> words]

Base == <<"project", "dependencies">>
Extra(name) == <<"optional-dependencies", name>>
Group(name) == <<"dependency-groups", name>>

Under(dir, names) == {dir \o <<n>> : n \in names}

PYPROJECT == <<"pyproject.toml">>
SCRIPTS_DIR == <<"scripts">>
SKILLS == <<".agents", "skills">>

REQUIRED_PATHS ==
  Under(<<>>, {"AGENTS.md", "README.md", "CONTRIBUTING.md", ".editorconfig",
               ".gitattributes", ".node-version", "pyproject.toml"})
    \cup Under(<<"docs">>, {"IMPLEMENTATION_CONTRACT.md", "OPEN_ISSUES.md"})
    \cup {<<"migrations", "README.md">>, <<"tests", "README.md">>}
    \cup Under(SCRIPTS_DIR, {"check_architecture.py", "run_local_cluster.py",
                             "verify_scaffold.py"})
    \cup Under(SRC_ROOT, {"__init__.py", "common", "protocol", "transport",
                          "runtime", "worker", "adapter", "dataset_manager",
                          "management_backend", "management_protocol", "cli"})
    \cup {SRC_ROOT \o <<p, "entrypoint.py">> :
            p \in {"runtime", "worker", "dataset_manager", "management_backend"}}
    \cup {SRC_ROOT \o <<"cli", "pblctl.py">>}
    \cup {SRC_ROOT \o <<p, "AGENTS.md">> :
            p \in {"protocol", "runtime", "management_backend", "dataset_manager"}}
    \cup {<<"web", "AGENTS.md">>, <<"web", "package.json">>}
    \cup {SKILLS \o <<s, "SKILL.md">> :
            s \in {"architecture-guard", "protocol-change", "contract-change",
                   "distributed-debug", "distributed-verification", "doc-sync",
                   "release-gate"}}
    \cup Under(<<"web", "src">>, {"api", "app", "components", "domain",
                                  "features", "live", "pages", "strategies"})

PROHIBITED_PATHS ==
  {SRC_ROOT \o <<"backend">>} \cup
  Under(SKILLS, {"pbl4-architecture-guard", "pbl4-protocol-change",
                 "pbl4-contract-change", "pbl4-distributed-debug",
                 "pbl4-distributed-verification", "pbl4-doc-sync",
                 "pbl4-release-gate"})

FORBIDDEN_GLOBAL_DEPENDENCIES == {"asyncpg", "structlog"}

FORBIDDEN_RUNTIME_DEPENDENCIES ==
  {"sqlalchemy", "alembic", "asyncpg", "structlog"}

\* Where migration tooling may be declared: one extra and one group.
Whitelisted == {Extra("management-backend"), Group("dev")}

-----------------------------------------------------------------------------
(* The five checks.                                                        *)

missing(tree) == {p \in REQUIRED_PATHS : ~Exists(tree, p)}

\* Defect: obsolete paths are reported only in the source tree.
FoundInSources(tree) ==
  {p \in PROHIBITED_PATHS : IsPrefix(SRC_ROOT, p) /\ Exists(tree, p)}

found(tree) == {p \in PROHIBITED_PATHS : Exists(tree, p)}

\* Files of either directory that do not compile.
CompilationErrors(tree) ==
  {f \in DOMAIN tree : /\ f \in Python /\ tree[f].broken
                       /\ IsPrefix(SRC_ROOT, f) \/ IsPrefix(SCRIPTS_DIR, f)}

\* The checker runs as a process of its own, from the tree it checks.
check_architecture(tree) ==
  LET script == SCRIPTS_DIR \o <<"check_architecture.py">> IN
    /\ script \in DOMAIN tree /\ ~tree[script].broken
    /\ ArchitecturePasses(tree)

\* Defect: a whitelisted table may declare anything.
ForbiddenBesideWhitelisted(table) ==
  IF table \in Whitelisted THEN {} ELSE FORBIDDEN_RUNTIME_DEPENDENCIES

Forbidden(table) ==
  IF table \in Whitelisted THEN FORBIDDEN_GLOBAL_DEPENDENCIES
                           ELSE FORBIDDEN_RUNTIME_DEPENDENCIES

found_forbidden(tree) ==
  {d \in tree[PYPROJECT].dependencies : d.words \cap Forbidden(d.table) # {}}

check_pyproject_dependencies(tree) ==
  /\ PYPROJECT \in DOMAIN tree
  /\ ~tree[PYPROJECT].broken
  /\ found_forbidden(tree) = {}

\* The exit status of the verifier is 0: every check runs, all must pass.
ScaffoldPasses(tree) ==
  /\ missing(tree) = {}
  /\ found(tree) = {}
  /\ CompilationErrors(tree) = {}
  /\ check_architecture(tree)
  /\ check_pyproject_dependencies(tree)

\* The job "python" of the workflow, past its formatting and lint steps:
\* the sources compile, the checker passes, the verifier passes.
PythonChecks(tree) ==
  /\ \A f \in DOMAIN tree \cap Python :
       tree[f].broken => f[1] \notin {"src", "scripts"}
  /\ ArchitecturePasses(tree)
  /\ ScaffoldPasses(tree)
=============================================================================
