------------------------------ MODULE Cluster -------------------------------
(***************************************************************************)
(* scripts/run_local_cluster.py prints the commands of a local cluster and *)
(* people paste them, or commands they make up, into shells; each command  *)
(* meets the argument parser of its entrypoint, which ends the process as  *)
(* no service is implemented yet.                                          *)
(*                                                                         *)
(* A command line is a sequence of shell words.  A label goes into the     *)
(* printed command unquoted and comes out of the shell as Shell[label]:    *)
(* one word if it is plain, more if it has spaces, none if it is empty.    *)
(* argparse's --flag=value, abbreviated options and --help are left out.   *)
(***************************************************************************)
EXTENDS Naturals, Sequences, FiniteSets, FiniteSetsExt

CONSTANTS
  Hosts, Labels, Ports,  \* what the planner may be given; ports are decimal
  Shell,                 \* what a shell makes of a label
  Dashed,                \* the words that look like an option but are none
  Extras,                \* words that people add to a command
  MaxNodes, MaxLaunches,
  NULL                   \* argparse's None

VARIABLES
  screen,    \* what the planner has printed last
  launched   \* the processes that have been launched, and their ends

vars == <<screen, launched>>

-----------------------------------------------------------------------------
(* The parsers.                                                            *)

Text(flag, default) == [flag |-> flag, type |-> "str", default |-> default]
Numeral(flag) == [flag |-> flag, type |-> "int", default |-> NULL]

pbl4_runtime == {Text("--host", "127.0.0.1"), Numeral("--port"), Numeral("--management-port")}

\* Defect: the worker takes a rank.
pbl4_worker_with_rank ==
  {Text("--node-label", "node-unknown"), Text("--worker-id", NULL),
   Text("--runtime-host", "127.0.0.1"), Numeral("--runtime-port")}

pbl4_worker == {Text("--node-label", "node-unknown"),
                Text("--runtime-host", "127.0.0.1"), Numeral("--runtime-port")}

pbl4_backend == {Text("--host", "127.0.0.1"), Numeral("--port")}
pbl4_dataset_manager == {Text("--host", "127.0.0.1"), Numeral("--port")}
pblctl == {Text("--backend-url", NULL)}

Options ==
  [pbl4_runtime |-> pbl4_runtime, pbl4_worker |-> pbl4_worker,
   pbl4_backend |-> pbl4_backend, pbl4_dataset_manager |-> pbl4_dataset_manager,
   pblctl |-> pblctl]

\* The subcommands, of which at most one ends the line.
Commands(program) == IF program = "pblctl" THEN {"status", "jobs", "abort"} ELSE {}

Flags == {o.flag : o \in UNION {Options[p] : p \in DOMAIN Options}} \cup Dashed

\* Defect: ports are not converted.
FitsAny(word, type) == word \notin Flags

Fits(word, type) == word \notin Flags /\ (type = "int" => word \in Ports)

Odd(words) == {i \in DOMAIN words : i % 2 = 1}

\* The words are options, each with its value.
Pairs(options, words) ==
  /\ Len(words) % 2 = 0
  /\ \A i \in Odd(words) :
       \E o \in options : o.flag = words[i] /\ Fits(words[i + 1], o.type)

Front(words) == SubSeq(words, 1, Len(words) - 1)

Accepts(program, words) ==
  \/ Pairs(Options[program], words)
  \/ /\ words # <<>>
     /\ words[Len(words)] \in Commands(program)
     /\ Pairs(Options[program], Front(words))

\* What the parser makes of an option: the last value given, or the default.
Value(o, words) ==
  LET given == {i \in Odd(words) : words[i] = o.flag}
  IN  IF given = {} THEN o.default ELSE words[Max(given) + 1]

Namespace(program, words) ==
  [flag \in {o.flag : o \in Options[program]} |->
     Value(CHOOSE o \in Options[program] : o.flag = flag, words)]

-----------------------------------------------------------------------------
(* The planner.                                                            *)

\* Defect: a port that is not configured is taken to be 5000.
dtp_display_default(port) == IF port # NULL THEN port ELSE "5000"

dtp_display(port) == IF port # NULL THEN port ELSE "<configured-dtp-port>"
mcp_display(port) == IF port # NULL THEN port ELSE "<configured-mcp-port>"

Placeholders == {"<configured-dtp-port>", "<configured-mcp-port>"}

\* Hosts and ports are plain words, ports look like no option, and what a shell
\* makes of a label is words, none of which it would redirect.
ASSUME ClusterAssumption ==
  /\ MaxNodes \in Nat \ {0} /\ MaxLaunches \in Nat
  /\ "--worker-id" \in Dashed
  /\ Ports \cap (Flags \cup Placeholders) = {} /\ Hosts \cap Placeholders = {}
  /\ \A extra \in Extras : extra \in Seq(STRING)
  /\ \A l \in Labels :
       /\ Shell[l] \in Seq(STRING)
       /\ \A i \in DOMAIN Shell[l] : Shell[l][i] \notin Placeholders

Command(program, words) == [program |-> program, words |-> words]

RuntimeCommand(host, dtp, mcp) ==
  Command("pbl4_runtime", <<"--host", host, "--port", dtp_display(dtp),
                            "--management-port", mcp_display(mcp)>>)

\* Defect: the worker's options are named like the runtime's.
WorkerCommandLikeRuntime(host, dtp, label) ==
  Command("pbl4_worker", <<"--node-label">> \o Shell[label] \o
                         <<"--host", host, "--port", dtp_display(dtp)>>)

WorkerCommand(host, dtp, label) ==
  Command("pbl4_worker", <<"--node-label">> \o Shell[label] \o
                         <<"--runtime-host", host, "--runtime-port", dtp_display(dtp)>>)

plan_topology(host, dtp, mcp, labels) ==
  {RuntimeCommand(host, dtp, mcp)}
    \cup {WorkerCommand(host, dtp, labels[i]) : i \in DOMAIN labels}

NoPlan == [runtime_host |-> NULL, dtp_port |-> NULL, mcp_port |-> NULL,
           node_labels |-> <<>>, commands |-> {}]

\* The planner runs with given options; "--nodes" takes one label or more.
\* Neither they nor the host look like options.
Plan ==
  \E host \in Hosts \ Flags, dtp, mcp \in Ports \cup {NULL}, n \in 1 .. MaxNodes :
    \E labels \in [1 .. n -> Labels \ Flags] :
      /\ screen = NoPlan
      /\ screen' = [runtime_host |-> host, dtp_port |-> dtp, mcp_port |-> mcp,
                    node_labels |-> labels,
                    commands |-> plan_topology(host, dtp, mcp, labels)]
      /\ UNCHANGED launched

Clear == screen' = NoPlan /\ UNCHANGED launched

-----------------------------------------------------------------------------
(* The processes.                                                          *)

\* A shell reads a placeholder's angle brackets as redirections, from a file
\* that is not there, and starts nothing; a parser that refuses its words
\* exits with 2; a service that is pending exits with 1.
Exit(c) ==
  IF \E i \in DOMAIN c.words : c.words[i] \in Placeholders THEN "not started"
  ELSE IF Accepts(c.program, c.words) THEN "pending"
  ELSE "refused"

Process(c, origin) == [command |-> c, plan |-> origin, exit |-> Exit(c)]

Launch(c, origin) == /\ Cardinality(launched) < MaxLaunches
                     /\ launched' = launched \cup {Process(c, origin)}
                     /\ UNCHANGED screen

\* A command of the plan, as it is printed.
LaunchPlanned == \E c \in screen.commands : Launch(c, screen)

\* A command of the plan with more words at its end, or a command of one's own.
LaunchOther ==
  \E extra \in Extras :
     \/ \E c \in screen.commands : Launch(Command(c.program, c.words \o extra), NoPlan)
     \/ \E program \in DOMAIN Options : Launch(Command(program, extra), NoPlan)

Init == screen = NoPlan /\ launched = {}

Next == Plan \/ Clear \/ LaunchPlanned \/ LaunchOther

Spec == Init /\ [][Next]_vars

-----------------------------------------------------------------------------
(* Properties.                                                             *)

\* The parsed arguments of a process.
Args(process) == Namespace(process.command.program, process.command.words)

\* Each process has met the parser of its own program, and what passed it
\* has a port that is a number, or none.
TypeOK ==
  /\ screen.node_labels \in UNION {[1 .. n -> Labels] : n \in 0 .. MaxNodes}
  /\ \A p \in launched :
       /\ p.command.program \in DOMAIN Options
       /\ p.exit \in {"not started", "pending", "refused"}
       /\ p.exit = "pending" =>
            \A flag \in DOMAIN Args(p) \cap {"--port", "--management-port", "--runtime-port"} :
               Args(p)[flag] \in Ports \cup {NULL}

\* The planned command was printed with both ports, for labels of one word.
Sound(plan) ==
  /\ plan.dtp_port # NULL /\ plan.mcp_port # NULL
  /\ \A i \in DOMAIN plan.node_labels : Shell[plan.node_labels[i]] = <<plan.node_labels[i]>>

\* The parsers understand what the planner prints (run_local_cluster.py 46-60
\* against the two entrypoints): the runtime opens its ports where the plan
\* says, and each worker connects to the host and the DTP port that the
\* runtime of the same plan was given, under the label of one of its nodes.
PlanIsUnderstood ==
  \A p \in launched :
    p.plan # NoPlan /\ Sound(p.plan) =>
      /\ p.exit = "pending"
      /\ p.command.program = "pbl4_runtime" =>
           /\ Args(p)["--host"] = p.plan.runtime_host
           /\ Args(p)["--port"] = p.plan.dtp_port
           /\ Args(p)["--management-port"] = p.plan.mcp_port
      /\ p.command.program = "pbl4_worker" =>
           /\ Args(p)["--runtime-host"] = p.plan.runtime_host
           /\ Args(p)["--runtime-port"] = p.plan.dtp_port
           /\ \E i \in DOMAIN p.plan.node_labels :
                Args(p)["--node-label"] = p.plan.node_labels[i]

\* Nothing of a plan that lacks the DTP port gets past a parser, so that no
\* worker falls back on a port nobody configured (35; worker/entrypoint.py 38-43).
NothingUnconfiguredStarts ==
  \A p \in launched :
    p.plan # NoPlan /\ p.plan.dtp_port = NULL => p.exit = "not started"

\* Whatever a worker is started with, a rank is not among it: an attempt to
\* name one is refused (worker/entrypoint.py 8, 22-44).
RankIsNeverGiven ==
  \A p \in launched :
    /\ p.command.program = "pbl4_worker"
    /\ \E i \in DOMAIN p.command.words : p.command.words[i] = "--worker-id"
    => p.exit # "pending"
=============================================================================
