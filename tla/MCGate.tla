------------------------------- MODULE MCGate -------------------------------
(* Two pull requests against a tree that has every required path.          *)
EXTENDS Gate, TLC

CONSTANTS p1, p2

Source(package, name) == SRC_ROOT \o package \o <<name>>

Live(name) == <<"web", "src", "live", name>>
Header == Source(<<"protocol">>, "header.py")
Barrier == Source(<<"runtime", "synchronization">>, "barrier.py")

\* The directories among the required paths.
Directories ==
  Under(SRC_ROOT, {"common", "protocol", "transport", "runtime", "worker",
                   "adapter", "dataset_manager", "management_backend",
                   "management_protocol", "cli"})
    \cup Under(<<"web", "src">>, {"api", "app", "components", "domain",
                                  "features", "live", "pages", "strategies"})

Loop == Source(<<"worker">>, "loop.py")
Moved == Source(<<"runtime">>, "loop.py")
Obsolete == SKILLS \o <<"pbl4-doc-sync", "SKILL.md">>
Verifier == SCRIPTS_DIR \o <<"verify_scaffold.py">>

\* The texts: sources by what they import, pyproject.toml by what it declares.
Importing(statements) == Text(FALSE, statements, {})
Declaring(dependencies) == Text(FALSE, {}, dependencies)
Plain == Importing({})
Garbled == Text(TRUE, {}, {})
Timed == Importing({Import(<<"time">>)})
Trained == Importing({Import(<<"torch", "nn">>)})
Declared == Declaring({Declares(Extra("management-backend"), {"sqlalchemy"})})
Grouped == Declaring({Declares(Group("dev"), {"alembic"})})
Driven == Declaring({Declares(Extra("management-backend"), {"asyncpg"})})
Migrated == Declaring({Declares(Extra("worker"), {"alembic"})})

MCInitial ==
  LET files == (REQUIRED_PATHS \ Directories)
        \cup {d \o <<"__init__.py">> : d \in {e \in Directories : e[1] = "src"}}
        \cup {d \o <<".gitkeep">> : d \in {e \in Directories : e[1] = "web"}}
        \cup {Live("feed.ts"), Loop, Header, Barrier}
  IN  [f \in files |-> CASE f = Loop -> Timed
                        [] f = PYPROJECT -> Declared
                        [] OTHER -> Plain]

\* The paths that end in ".py" and have texts of consequence.
MCPython == {Loop, Moved, Header, Barrier, Verifier}

Writing(path, text) == [writes |-> path :> text, removes |-> {}]
Removing(path) == [writes |-> <<>>, removes |-> {path}]
Renaming(path, new, text) == [writes |-> new :> text, removes |-> {path}]

\* Changes of every kind, harmless or not.  The worker may import torch and
\* the runtime may not, so Loop may gain the import or become Moved.
MCChanges ==
  { Writing(Loop, Plain), Writing(Loop, Trained),
    Renaming(Loop, Moved, Timed), Renaming(Loop, Moved, Trained),
    Writing(PYPROJECT, Plain), Writing(PYPROJECT, Grouped),
    Writing(PYPROJECT, Driven),
    Removing(Live(".gitkeep")), Removing(Live("feed.ts")), Removing(Verifier),
    Writing(Obsolete, Plain), Renaming(Verifier, Obsolete, Plain) }
MCTexts == {Garbled, Migrated}

MCPullRequests == {p1, p2}

Symmetry == Permutations(MCPullRequests)

\* Changes that only involve import statements.
ImportChanges ==
  { Writing(Barrier, Importing({s})) :
      s \in { ImportFrom(0, <<"pbl4", "runtime">>, {"checkpoint"}),
              ImportFrom(0, <<"pbl4", "runtime", "checkpoint">>, {"x"}),
              Import(<<"threading">>) } }

RelativeChanges ==
  { Writing(Header, Importing({s})) :
      s \in { ImportFrom(2, <<"runtime", "snapshot">>, {"x"}),
              ImportFrom(0, <<"pbl4", "runtime", "snapshot">>, {"x"}),
              ImportFrom(1, <<>>, {"codec"}) } }
=============================================================================
