---------------------------- MODULE ClusterProofs -----------------------------
(***************************************************************************)
(* For any hosts, ports, labels and number of nodes: the printed commands  *)
(* mean to the parsers what they mean to the planner, a plan without the   *)
(* DTP port starts nothing, and no worker is given a rank.                 *)
(***************************************************************************)
EXTENDS Cluster, SequenceTheorems, WellFoundedInduction, TLAPS

Words == STRING \cup Hosts \cup Ports \cup Placeholders
           \cup {"--host", "--port", "--management-port",
                 "--node-label", "--runtime-host", "--runtime-port"}

\* The planner has printed this plan.
Printed(plan) ==
  \E host \in Hosts \ Flags, dtp, mcp \in Ports \cup {NULL}, n \in 1 .. MaxNodes :
    \E labels \in [1 .. n -> Labels \ Flags] :
      plan = [runtime_host |-> host, dtp_port |-> dtp, mcp_port |-> mcp,
              node_labels |-> labels,
              commands |-> plan_topology(host, dtp, mcp, labels)]

\* The words of a command are words, and its program is one there is.
IsCommand(c) == c.words \in Seq(Words) /\ c.program \in DOMAIN Options

\* A command has met its parser; one with a plan comes from it.
Traced(p) ==
  /\ IsCommand(p.command)
  /\ p.exit = Exit(p.command)
  /\ p.plan # NoPlan => Printed(p.plan) /\ p.command \in p.plan.commands

Inv ==
  /\ screen # NoPlan => Printed(screen)
  /\ \A c \in screen.commands : IsCommand(c)
  /\ \A p \in launched : Traced(p)

-----------------------------------------------------------------------------
(* What the planner prints is made of words.                               *)

LEMMA PortsAreWords ==
  ASSUME NEW port \in Ports \cup {NULL}
  PROVE  dtp_display(port) \in Words /\ mcp_display(port) \in Words
  BY DEF dtp_display, mcp_display, Words, Placeholders

LEMMA RuntimeWords ==
  ASSUME NEW host \in Hosts, NEW dtp \in Ports \cup {NULL}, NEW mcp \in Ports \cup {NULL}
  PROVE  RuntimeCommand(host, dtp, mcp).words \in Seq(Words)
<1>1. host \in Words /\ "--host" \in Words /\ "--port" \in Words
      /\ "--management-port" \in Words
  BY DEF Words
<1> QED
  BY <1>1, PortsAreWords DEF RuntimeCommand, Command

\* A worker's words: its label as the shell makes it, between two constants.
LEMMA WorkerWords ==
  ASSUME NEW host \in Hosts, NEW dtp \in Ports \cup {NULL}, NEW label \in Labels
  PROVE  /\ WorkerCommand(host, dtp, label).words \in Seq(Words)
         /\ Len(WorkerCommand(host, dtp, label).words) \in Nat \ {0}
         /\ WorkerCommand(host, dtp, label).words
              [Len(WorkerCommand(host, dtp, label).words)] = dtp_display(dtp)
<1> DEFINE front == <<"--node-label">> \o Shell[label]
           back == <<"--runtime-host", host, "--runtime-port", dtp_display(dtp)>>
<1>1. Shell[label] \in Seq(Words)
  BY ClusterAssumption, SeqDef DEF Words
<1>2. <<"--node-label">> \in Seq(Words)
  BY DEF Words
<1>3. host \in Words /\ "--runtime-host" \in Words /\ "--runtime-port" \in Words
  BY DEF Words
<1>4. back \in Seq(Words) /\ Len(back) = 4 /\ back[4] = dtp_display(dtp)
  BY <1>3, PortsAreWords
<1>5. front \in Seq(Words)
  BY <1>1, <1>2, ConcatProperties
<1>6. WorkerCommand(host, dtp, label).words = front \o back
  BY DEF WorkerCommand, Command
<1> HIDE DEF front, back
<1>7. /\ front \o back \in Seq(Words)
      /\ Len(front \o back) = Len(front) + Len(back)
      /\ \A i \in 1 .. Len(front) + Len(back) :
           (front \o back)[i] = IF i <= Len(front) THEN front[i] ELSE back[i - Len(front)]
  BY <1>4, <1>5, ConcatProperties
<1>8. Len(front) \in Nat
  BY <1>5, LenProperties
<1>9. (front \o back)[Len(front) + 4] = dtp_display(dtp)
  BY <1>4, <1>7, <1>8
<1>10. Len(front \o back) = Len(front) + 4 /\ Len(front \o back) \in Nat \ {0}
  BY <1>4, <1>7, <1>8
<1> QED
  BY <1>6, <1>7, <1>9, <1>10, Zenon

LEMMA PlannedCommands ==
  ASSUME NEW host \in Hosts, NEW dtp \in Ports \cup {NULL}, NEW mcp \in Ports \cup {NULL},
         NEW n \in Nat, NEW labels \in [1 .. n -> Labels],
         NEW c \in plan_topology(host, dtp, mcp, labels)
  PROVE  IsCommand(c)
<1>1. c.words \in Seq(Words)
  BY RuntimeWords, WorkerWords DEF plan_topology
<1>2. c.program \in {"pbl4_runtime", "pbl4_worker"}
  BY DEF plan_topology, RuntimeCommand, WorkerCommand, Command
<1> QED
  BY <1>1, <1>2 DEF IsCommand, Options

-----------------------------------------------------------------------------
(* The invariant.                                                          *)

LEMMA InitInv == Init => Inv
  BY DEF Init, Inv, NoPlan

LEMMA LaunchInv ==
  ASSUME Inv, NEW c, NEW origin, IsCommand(c),
         origin # NoPlan => Printed(origin) /\ c \in origin.commands,
         Launch(c, origin)
  PROVE  Inv'
<1>1. Traced(Process(c, origin))
  BY DEF Traced, Process
<1>2. \A p \in launched' : Traced(p)
  BY <1>1 DEF Launch, Inv
<1> QED
  BY <1>2 DEF Launch, Inv

LEMMA PlanInv == Inv /\ Plan => Inv'
<1> SUFFICES ASSUME Inv, Plan PROVE Inv'
  OBVIOUS
<1>1. PICK host \in Hosts \ Flags, dtp \in Ports \cup {NULL}, mcp \in Ports \cup {NULL},
           n \in 1 .. MaxNodes : \E labels \in [1 .. n -> Labels \ Flags] :
             /\ screen' = [runtime_host |-> host, dtp_port |-> dtp, mcp_port |-> mcp,
                           node_labels |-> labels,
                           commands |-> plan_topology(host, dtp, mcp, labels)]
             /\ UNCHANGED launched
  BY DEF Plan
<1>2. PICK labels \in [1 .. n -> Labels \ Flags] :
             /\ screen' = [runtime_host |-> host, dtp_port |-> dtp, mcp_port |-> mcp,
                           node_labels |-> labels,
                           commands |-> plan_topology(host, dtp, mcp, labels)]
             /\ UNCHANGED launched
  BY <1>1
<1>3. Printed(screen')
  BY <1>2 DEF Printed
<1>4. n \in Nat /\ labels \in [1 .. n -> Labels]
  BY ClusterAssumption
<1>5. \A c \in screen'.commands : IsCommand(c)
  BY <1>2, <1>4, PlannedCommands
<1> QED
  BY <1>2, <1>3, <1>5 DEF Inv

LEMMA LaunchPlannedInv == Inv /\ LaunchPlanned => Inv'
<1> SUFFICES ASSUME Inv, NEW c \in screen.commands, Launch(c, screen) PROVE Inv'
  BY DEF LaunchPlanned
<1> QED
  BY LaunchInv DEF Inv

LEMMA LaunchOtherInv == Inv /\ LaunchOther => Inv'
<1> SUFFICES ASSUME Inv, NEW extra \in Extras,
               \/ \E c \in screen.commands : Launch(Command(c.program, c.words \o extra), NoPlan)
               \/ \E program \in DOMAIN Options : Launch(Command(program, extra), NoPlan)
             PROVE Inv'
  BY DEF LaunchOther
<1>1. extra \in Seq(Words)
  BY ClusterAssumption, SeqDef DEF Words
<1>2. CASE \E c \in screen.commands : Launch(Command(c.program, c.words \o extra), NoPlan)
  <2>1. PICK c \in screen.commands : Launch(Command(c.program, c.words \o extra), NoPlan)
    BY <1>2
  <2>2. c.words \o extra \in Seq(Words) /\ c.program \in DOMAIN Options
    BY <1>1, ConcatProperties DEF Inv, IsCommand
  <2>3. IsCommand(Command(c.program, c.words \o extra))
    BY <2>2 DEF Command, IsCommand
  <2> QED
    BY <2>1, <2>3, LaunchInv
<1>3. CASE \E program \in DOMAIN Options : Launch(Command(program, extra), NoPlan)
  BY <1>1, <1>3, LaunchInv DEF Command, IsCommand
<1> QED
  BY <1>2, <1>3

LEMMA NextInv == Inv /\ [Next]_vars => Inv'
<1> SUFFICES ASSUME Inv, [Next]_vars PROVE Inv'
  OBVIOUS
<1>1. CASE UNCHANGED vars
  BY <1>1 DEF vars, Inv
<1>2. CASE Clear
  BY <1>2 DEF Clear, Inv, NoPlan
<1> QED
  BY <1>1, <1>2, PlanInv, LaunchPlannedInv, LaunchOtherInv DEF Next

-----------------------------------------------------------------------------
(* What the parsers make of words.                                         *)

\* The worker's parser refuses any line that holds "--worker-id", be it as an
\* option, which it does not have, or as a value, as which it cannot pass
\* (worker/entrypoint.py 22-36).
LEMMA RankIsRefused ==
  ASSUME NEW words \in Seq(Words), NEW i \in DOMAIN words,
         words[i] = "--worker-id", Accepts("pbl4_worker", words)
  PROVE  FALSE
<1>1. Commands("pbl4_worker") = {} /\ Options["pbl4_worker"] = pbl4_worker
  BY DEF Commands, Options
<1>2. Pairs(pbl4_worker, words)
  BY <1>1 DEF Accepts
<1>3. i \in 1 .. Len(words) /\ Len(words) \in Nat
  BY LenProperties
<1>4. CASE i % 2 = 1
  <2>1. \E o \in pbl4_worker : o.flag = "--worker-id"
    BY <1>2, <1>4 DEF Pairs, Odd
  <2> QED
    BY <2>1 DEF pbl4_worker, Text, Numeral
<1>5. CASE i % 2 = 0
  <2>1. i - 1 \in 1 .. Len(words) /\ (i - 1) % 2 = 1
    BY <1>3, <1>5
  <2>2. i - 1 \in Odd(words)
    BY <2>1 DEF Odd
  <2>3. words[i - 1 + 1] = words[i]
    BY <1>3
  <2>4. words[i] \notin Flags
    BY <1>2, <2>2, <2>3 DEF Pairs, Fits
  <2> QED
    BY <2>4, ClusterAssumption DEF Flags
<1> QED
  BY <1>3, <1>4, <1>5

\* A line of three options, each given once, is taken apart as it was put
\* together.
LEMMA ThreeOptions ==
  ASSUME NEW a, NEW b, NEW c, NEW u, NEW v, NEW w, NEW words,
         Len(words) = 6, DOMAIN words = 1 .. 6,
         words[1] = a, words[2] = u, words[3] = b,
         words[4] = v, words[5] = c, words[6] = w,
         a # b, a # c, b # c
  PROVE  /\ Odd(words) = {1, 3, 5}
         /\ \A o : o.flag = a => Value(o, words) = u
         /\ \A o : o.flag = b => Value(o, words) = v
         /\ \A o : o.flag = c => Value(o, words) = w
<1>1. DOMAIN words = 1 .. 6
  OBVIOUS
<1>2. Odd(words) = {1, 3, 5}
  BY <1>1 DEF Odd
<1>3. Max({1}) = 1 /\ Max({3}) = 3 /\ Max({5}) = 5
  BY DEF Max
<1>4. ASSUME NEW o, o.flag = a PROVE Value(o, words) = u
  <2>1. {i \in Odd(words) : words[i] = o.flag} = {1}
    BY <1>1, <1>2, <1>4
  <2> QED
    BY <1>1, <1>3, <2>1 DEF Value
<1>5. ASSUME NEW o, o.flag = b PROVE Value(o, words) = v
  <2>1. {i \in Odd(words) : words[i] = o.flag} = {3}
    BY <1>1, <1>2, <1>5
  <2> QED
    BY <1>1, <1>3, <2>1 DEF Value
<1>6. ASSUME NEW o, o.flag = c PROVE Value(o, words) = w
  <2>1. {i \in Odd(words) : words[i] = o.flag} = {5}
    BY <1>1, <1>2, <1>6
  <2> QED
    BY <1>1, <1>3, <2>1 DEF Value
<1> QED
  BY <1>2, <1>4, <1>5, <1>6

\* The words of three short sequences that are put together.
LEMMA SixWords ==
  ASSUME NEW S, NEW s \in Seq(S), NEW t \in Seq(S), NEW u \in Seq(S),
         Len(s) = 1, Len(t) = 1, Len(u) = 4
  PROVE  LET w == (s \o t) \o u IN
           /\ Len(w) = 6 /\ DOMAIN w = 1 .. 6
           /\ w[1] = s[1] /\ w[2] = t[1]
           /\ w[3] = u[1] /\ w[4] = u[2] /\ w[5] = u[3] /\ w[6] = u[4]
<1>1. /\ s \o t \in Seq(S) /\ Len(s \o t) = 2
      /\ (s \o t)[1] = s[1] /\ (s \o t)[2] = t[1]
  <2>1. /\ s \o t \in Seq(S) /\ Len(s \o t) = Len(s) + Len(t)
        /\ \A i \in 1 .. Len(s) + Len(t) :
             (s \o t)[i] = IF i <= Len(s) THEN s[i] ELSE t[i - Len(s)]
    BY ConcatProperties
  <2> QED
    BY <2>1
<1> DEFINE front == s \o t
<1>2. front \in Seq(S) /\ Len(front) = 2 /\ front[1] = s[1] /\ front[2] = t[1]
  BY <1>1
<1> HIDE DEF front
<1>3. /\ front \o u \in Seq(S) /\ Len(front \o u) = Len(front) + Len(u)
      /\ \A i \in 1 .. Len(front) + Len(u) :
           (front \o u)[i] = IF i <= Len(front) THEN front[i] ELSE u[i - Len(front)]
  BY <1>2, ConcatProperties
<1>4. Len(front \o u) = 6 /\ DOMAIN (front \o u) = 1 .. 6
  BY <1>2, <1>3
<1>5. /\ (front \o u)[1] = s[1] /\ (front \o u)[2] = t[1]
      /\ (front \o u)[3] = u[1] /\ (front \o u)[4] = u[2]
      /\ (front \o u)[5] = u[3] /\ (front \o u)[6] = u[4]
  BY <1>2, <1>3
<1> QED
  BY <1>4, <1>5 DEF front

\* A value that is given more than once is given a last time, by which the
\* parser takes it.
LEMMA LastGiven ==
  ASSUME NEW n \in Nat, NEW T \in SUBSET (1 .. n), T # {}
  PROVE  Max(T) \in T
<1> DEFINE Left == {n - i : i \in T}
           Less == OpToRel(<, Nat)
<1>1. Left \subseteq Nat /\ Left # {}
  OBVIOUS
<1>2. IsWellFoundedOn(Less, Nat)
  BY NatLessThanWellFounded
<1>3. \A x, y \in Nat : x < y => <<x, y>> \in Less
  BY DEF OpToRel
<1> HIDE DEF Left, Less
<1>4. PICK x \in Left : \A y \in Left : ~ (<<y, x>> \in Less)
  BY <1>1, <1>2, WFMin
<1> USE DEF Left
<1>5. PICK i \in T : x = n - i
  BY <1>4
<1>6. ASSUME NEW j \in T PROVE i >= j
  <2>1. n - j \in Left
    OBVIOUS
  <2>2. ~ (n - j < n - i)
    BY <1>1, <1>3, <1>4, <1>5, <2>1
  <2> QED
    BY <2>2
<1>7. \E k \in T : \A j \in T : k >= j
  BY <1>6
<1> QED
  BY <1>7 DEF Max

\* A line that passes gives an option no value but one that fits it.
LEMMA ValuesFit ==
  ASSUME NEW options, NEW words \in Seq(Words), Pairs(options, words), NEW o \in options,
         \A other \in options : other.flag = o.flag => other.type = o.type
  PROVE  Value(o, words) = o.default \/ Fits(Value(o, words), o.type)
<1> DEFINE given == {i \in Odd(words) : words[i] = o.flag}
<1>1. Value(o, words) = IF given = {} THEN o.default ELSE words[Max(given) + 1]
  BY DEF Value
<1>2. CASE given = {}
  BY <1>1, <1>2
<1>3. CASE given # {}
  <2>1. Len(words) \in Nat /\ given \in SUBSET (1 .. Len(words))
    BY LenProperties DEF Odd
  <2>2. Max(given) \in given
    BY <1>3, <2>1, LastGiven
  <2>3. PICK other \in options : /\ other.flag = words[Max(given)]
                                /\ Fits(words[Max(given) + 1], other.type)
    BY <2>2 DEF Pairs
  <2>4. other.type = o.type
    BY <2>2, <2>3
  <2> QED
    BY <1>1, <1>3, <2>3, <2>4
<1> QED
  BY <1>2, <1>3

PortFlags == {"--port", "--management-port", "--runtime-port"}

\* What passes for a port is a number, whatever is on the line.
LEMMA PortsAreNumbers ==
  ASSUME NEW program \in DOMAIN Options, NEW words \in Seq(Words),
         Accepts(program, words),
         NEW flag \in DOMAIN Namespace(program, words) \cap PortFlags
  PROVE  Namespace(program, words)[flag] \in Ports \cup {NULL}
<1>1. program \in {"pbl4_runtime", "pbl4_worker", "pbl4_backend", "pbl4_dataset_manager", "pblctl"}
  BY DEF Options
<1> DEFINE options == Options[program]
           chosen == CHOOSE o \in options : o.flag = flag
<1>2. flag \in {o.flag : o \in options} /\ flag \in PortFlags
  BY DEF Namespace
<1>3. chosen \in options /\ chosen.flag = flag
  BY <1>2
<1>4. program # "pblctl"
  BY <1>2 DEF Options, pblctl, Text, PortFlags
<1>5. \A o \in options : o.flag \in PortFlags => o.type = "int" /\ o.default = NULL
  BY <1>1, <1>4 DEF Options, pbl4_runtime, pbl4_worker, pbl4_backend, pbl4_dataset_manager,
                    Text, Numeral, PortFlags
<1>6. Pairs(options, words)
  BY <1>4 DEF Accepts, Commands
<1>7. Namespace(program, words)[flag] = Value(chosen, words)
  BY <1>2 DEF Namespace
<1> HIDE DEF options, chosen
<1>8. /\ chosen.type = "int" /\ chosen.default = NULL
      /\ \A other \in options : other.flag = chosen.flag => other.type = chosen.type
  BY <1>2, <1>3, <1>5
<1>9. Value(chosen, words) = NULL \/ Fits(Value(chosen, words), "int")
  BY <1>3, <1>6, <1>8, ValuesFit
<1> QED
  BY <1>7, <1>9 DEF Fits

\* The option of a flag is the one the entrypoint declares.
LEMMA OptionOfFlag ==
  ASSUME NEW program \in {"pbl4_runtime", "pbl4_worker"},
         NEW flag \in {o.flag : o \in Options[program]}
  PROVE  (CHOOSE o \in Options[program] : o.flag = flag).flag = flag
  OBVIOUS

LEMMA RuntimeUnderstands ==
  ASSUME NEW host \in Hosts \ Flags, NEW dtp \in Ports, NEW mcp \in Ports,
         dtp # NULL, mcp # NULL
  PROVE  LET words == RuntimeCommand(host, dtp, mcp).words IN
           /\ Accepts("pbl4_runtime", words)
           /\ \A i \in DOMAIN words : words[i] \notin Placeholders
           /\ Namespace("pbl4_runtime", words)["--host"] = host
           /\ Namespace("pbl4_runtime", words)["--port"] = dtp
           /\ Namespace("pbl4_runtime", words)["--management-port"] = mcp
<1> DEFINE words == RuntimeCommand(host, dtp, mcp).words
<1>1. words = <<"--host", host, "--port", dtp, "--management-port", mcp>>
  BY DEF RuntimeCommand, Command, dtp_display, mcp_display
<1> HIDE DEF words
<1>2. /\ Len(words) = 6 /\ DOMAIN words = 1 .. 6
      /\ words[1] = "--host" /\ words[2] = host /\ words[3] = "--port"
      /\ words[4] = dtp /\ words[5] = "--management-port" /\ words[6] = mcp
  BY <1>1
<1>3. /\ Odd(words) = {1, 3, 5}
      /\ \A o : o.flag = "--host" => Value(o, words) = host
      /\ \A o : o.flag = "--port" => Value(o, words) = dtp
      /\ \A o : o.flag = "--management-port" => Value(o, words) = mcp
  BY <1>2, ThreeOptions
<1>4. Options["pbl4_runtime"] = pbl4_runtime
  BY DEF Options
<1>5. /\ Fits(host, "str") /\ Fits(dtp, "int") /\ Fits(mcp, "int")
      /\ {host, dtp, mcp} \cap Placeholders = {}
  BY ClusterAssumption DEF Fits
<1>6. Accepts("pbl4_runtime", words)
  <2>1. \A i \in Odd(words) :
          \E o \in pbl4_runtime : o.flag = words[i] /\ Fits(words[i + 1], o.type)
    <3>1. /\ Text("--host", "127.0.0.1") \in pbl4_runtime
          /\ Text("--host", "127.0.0.1").flag = words[1]
          /\ Fits(words[2], Text("--host", "127.0.0.1").type)
      BY <1>2, <1>5 DEF pbl4_runtime, Text
    <3>2. /\ Numeral("--port") \in pbl4_runtime
          /\ Numeral("--port").flag = words[3]
          /\ Fits(words[4], Numeral("--port").type)
      BY <1>2, <1>5 DEF pbl4_runtime, Numeral
    <3>3. /\ Numeral("--management-port") \in pbl4_runtime
          /\ Numeral("--management-port").flag = words[5]
          /\ Fits(words[6], Numeral("--management-port").type)
      BY <1>2, <1>5 DEF pbl4_runtime, Numeral
    <3> QED
      BY <1>3, <3>1, <3>2, <3>3
  <2> QED
    BY <1>2, <1>4, <2>1 DEF Accepts, Pairs
<1>7. \A i \in DOMAIN words : words[i] \notin Placeholders
  <2>1. {"--host", "--port", "--management-port"} \cap Placeholders = {}
    BY DEF Placeholders
  <2>2. \A i \in 1 .. 6 : i \in {1, 2, 3, 4, 5, 6}
    OBVIOUS
  <2> QED
    BY <1>2, <1>5, <2>1, <2>2
<1>8. {"--host", "--port", "--management-port"} \subseteq {o.flag : o \in Options["pbl4_runtime"]}
  BY <1>4 DEF pbl4_runtime, Text, Numeral
<1>9. \A flag \in {"--host", "--port", "--management-port"} :
        /\ flag \in {o.flag : o \in Options["pbl4_runtime"]}
        /\ (CHOOSE o \in Options["pbl4_runtime"] : o.flag = flag).flag = flag
  BY <1>8, OptionOfFlag
<1>10. /\ Namespace("pbl4_runtime", words)["--host"] = host
       /\ Namespace("pbl4_runtime", words)["--port"] = dtp
       /\ Namespace("pbl4_runtime", words)["--management-port"] = mcp
  BY <1>3, <1>9 DEF Namespace
<1> QED
  BY <1>6, <1>7, <1>10 DEF words

LEMMA WorkerUnderstands ==
  ASSUME NEW host \in Hosts \ Flags, NEW dtp \in Ports, NEW label \in Labels \ Flags,
         dtp # NULL, Shell[label] = <<label>>
  PROVE  LET words == WorkerCommand(host, dtp, label).words IN
           /\ Accepts("pbl4_worker", words)
           /\ \A i \in DOMAIN words : words[i] \notin Placeholders
           /\ Namespace("pbl4_worker", words)["--node-label"] = label
           /\ Namespace("pbl4_worker", words)["--runtime-host"] = host
           /\ Namespace("pbl4_worker", words)["--runtime-port"] = dtp
<1> DEFINE words == WorkerCommand(host, dtp, label).words
<1>1. /\ Len(words) = 6 /\ DOMAIN words = 1 .. 6
      /\ words[1] = "--node-label" /\ words[2] = label /\ words[3] = "--runtime-host"
      /\ words[4] = host /\ words[5] = "--runtime-port" /\ words[6] = dtp
  <2> DEFINE flag == <<"--node-label">>
             back == <<"--runtime-host", host, "--runtime-port", dtp>>
  <2>1. words = (flag \o Shell[label]) \o back
    BY DEF WorkerCommand, Command, dtp_display
  <2>2. flag \in Seq(Words) /\ Len(flag) = 1 /\ flag[1] = "--node-label"
    BY DEF Words
  <2>3. Shell[label] \in Seq(Words)
    BY ClusterAssumption, SeqDef DEF Words
  <2>4. Len(Shell[label]) = 1 /\ Shell[label][1] = label
    OBVIOUS
  <2>5. /\ back \in Seq(Words) /\ Len(back) = 4 /\ back[1] = "--runtime-host"
        /\ back[2] = host /\ back[3] = "--runtime-port" /\ back[4] = dtp
    BY DEF Words
  <2> DEFINE own == Shell[label]
  <2> HIDE DEF words, flag, back, own
  <2> QED
    BY <2>1, <2>2, <2>3, <2>4, <2>5, SixWords DEF own
<1> HIDE DEF words
<1>2. /\ Odd(words) = {1, 3, 5}
      /\ \A o : o.flag = "--node-label" => Value(o, words) = label
      /\ \A o : o.flag = "--runtime-host" => Value(o, words) = host
      /\ \A o : o.flag = "--runtime-port" => Value(o, words) = dtp
  BY <1>1, ThreeOptions
<1>3. Options["pbl4_worker"] = pbl4_worker
  BY DEF Options
<1>4. label \notin Placeholders
  <2>1. 1 \in DOMAIN Shell[label] /\ Shell[label][1] = label
    OBVIOUS
  <2> QED
    BY <2>1, ClusterAssumption
<1>5. /\ Fits(label, "str") /\ Fits(host, "str") /\ Fits(dtp, "int")
      /\ {label, host, dtp} \cap Placeholders = {}
  BY <1>4, ClusterAssumption DEF Fits
<1>6. Accepts("pbl4_worker", words)
  <2>1. \A i \in Odd(words) :
          \E o \in pbl4_worker : o.flag = words[i] /\ Fits(words[i + 1], o.type)
    <3>1. /\ Text("--node-label", "node-unknown") \in pbl4_worker
          /\ Text("--node-label", "node-unknown").flag = words[1]
          /\ Fits(words[2], Text("--node-label", "node-unknown").type)
      BY <1>1, <1>5 DEF pbl4_worker, Text
    <3>2. /\ Text("--runtime-host", "127.0.0.1") \in pbl4_worker
          /\ Text("--runtime-host", "127.0.0.1").flag = words[3]
          /\ Fits(words[4], Text("--runtime-host", "127.0.0.1").type)
      BY <1>1, <1>5 DEF pbl4_worker, Text
    <3>3. /\ Numeral("--runtime-port") \in pbl4_worker
          /\ Numeral("--runtime-port").flag = words[5]
          /\ Fits(words[6], Numeral("--runtime-port").type)
      BY <1>1, <1>5 DEF pbl4_worker, Numeral
    <3> QED
      BY <1>2, <3>1, <3>2, <3>3
  <2> QED
    BY <1>1, <1>3, <2>1 DEF Accepts, Pairs
<1>7. \A i \in DOMAIN words : words[i] \notin Placeholders
  <2>1. {"--node-label", "--runtime-host", "--runtime-port"} \cap Placeholders = {}
    BY DEF Placeholders
  <2>2. \A i \in 1 .. 6 : i \in {1, 2, 3, 4, 5, 6}
    OBVIOUS
  <2> QED
    BY <1>1, <1>5, <2>1, <2>2
<1>8. {"--node-label", "--runtime-host", "--runtime-port"}
        \subseteq {o.flag : o \in Options["pbl4_worker"]}
  BY <1>3 DEF pbl4_worker, Text, Numeral
<1>9. \A flag \in {"--node-label", "--runtime-host", "--runtime-port"} :
        /\ flag \in {o.flag : o \in Options["pbl4_worker"]}
        /\ (CHOOSE o \in Options["pbl4_worker"] : o.flag = flag).flag = flag
  BY <1>8, OptionOfFlag
<1>10. /\ Namespace("pbl4_worker", words)["--node-label"] = label
       /\ Namespace("pbl4_worker", words)["--runtime-host"] = host
       /\ Namespace("pbl4_worker", words)["--runtime-port"] = dtp
  BY <1>2, <1>9 DEF Namespace
<1> QED
  BY <1>6, <1>7, <1>10 DEF words

-----------------------------------------------------------------------------
(* What the invariant says of the processes.                               *)

LEMMA TypeOKByInv == Inv => TypeOK
<1> SUFFICES ASSUME Inv PROVE TypeOK
  OBVIOUS
<1>1. screen.node_labels \in UNION {[1 .. n -> Labels] : n \in 0 .. MaxNodes}
  <2>1. CASE screen = NoPlan
    <3>1. <<>> \in [1 .. 0 -> Labels] /\ 0 \in 0 .. MaxNodes
      BY ClusterAssumption
    <3> QED
      BY <2>1, <3>1 DEF NoPlan
  <2>2. CASE screen # NoPlan
    <3>1. PICK n \in 1 .. MaxNodes : \E labels \in [1 .. n -> Labels \ Flags] :
            screen.node_labels = labels
      BY <2>2 DEF Inv, Printed
    <3>2. n \in 0 .. MaxNodes /\ screen.node_labels \in [1 .. n -> Labels]
      BY <3>1, ClusterAssumption
    <3> QED
      BY <3>2
  <2> QED
    BY <2>1, <2>2
<1>2. ASSUME NEW p \in launched
      PROVE  /\ p.command.program \in DOMAIN Options
             /\ p.exit \in {"not started", "pending", "refused"}
             /\ p.exit = "pending" =>
                  \A flag \in DOMAIN Args(p) \cap PortFlags : Args(p)[flag] \in Ports \cup {NULL}
  <2>1. IsCommand(p.command) /\ p.exit = Exit(p.command)
    BY DEF Inv, Traced
  <2>2. p.command.program \in DOMAIN Options /\ p.command.words \in Seq(Words)
    BY <2>1 DEF IsCommand
  <2>3. p.exit \in {"not started", "pending", "refused"}
    BY <2>1 DEF Exit
  <2>4. p.exit = "pending" => Accepts(p.command.program, p.command.words)
    BY <2>1 DEF Exit
  <2> QED
    BY <2>2, <2>3, <2>4, PortsAreNumbers DEF Args
<1> QED
  BY <1>1, <1>2 DEF TypeOK, PortFlags

LEMMA UnderstoodByInv == Inv => PlanIsUnderstood
<1> SUFFICES ASSUME Inv, NEW p \in launched, p.plan # NoPlan, Sound(p.plan)
             PROVE
      /\ p.exit = "pending"
      /\ p.command.program = "pbl4_runtime" =>
           /\ Args(p)["--host"] = p.plan.runtime_host
           /\ Args(p)["--port"] = p.plan.dtp_port
           /\ Args(p)["--management-port"] = p.plan.mcp_port
      /\ p.command.program = "pbl4_worker" =>
           /\ Args(p)["--runtime-host"] = p.plan.runtime_host
           /\ Args(p)["--runtime-port"] = p.plan.dtp_port
           /\ \E i \in DOMAIN p.plan.node_labels :
                Args(p)["--node-label"] = p.plan.node_labels[i]
  BY DEF PlanIsUnderstood
<1>1. p.exit = Exit(p.command) /\ Printed(p.plan) /\ p.command \in p.plan.commands
  BY DEF Inv, Traced
<1>2. PICK host \in Hosts \ Flags, dtp \in Ports \cup {NULL}, mcp \in Ports \cup {NULL},
           n \in 1 .. MaxNodes : \E labels \in [1 .. n -> Labels \ Flags] :
             p.plan = [runtime_host |-> host, dtp_port |-> dtp, mcp_port |-> mcp,
                       node_labels |-> labels,
                       commands |-> plan_topology(host, dtp, mcp, labels)]
  BY <1>1 DEF Printed
<1>3. PICK labels \in [1 .. n -> Labels \ Flags] :
             p.plan = [runtime_host |-> host, dtp_port |-> dtp, mcp_port |-> mcp,
                       node_labels |-> labels,
                       commands |-> plan_topology(host, dtp, mcp, labels)]
  BY <1>2
<1>4. /\ p.plan.runtime_host = host /\ p.plan.dtp_port = dtp /\ p.plan.mcp_port = mcp
      /\ p.plan.node_labels = labels
      /\ p.plan.commands = plan_topology(host, dtp, mcp, labels)
  BY <1>3
<1>5. /\ dtp \in Ports /\ mcp \in Ports /\ dtp # NULL /\ mcp # NULL
      /\ \A i \in DOMAIN labels : Shell[labels[i]] = <<labels[i]>>
  BY <1>4 DEF Sound
<1>6. CASE p.command = RuntimeCommand(host, dtp, mcp)
  <2>1. p.command.program = "pbl4_runtime"
    BY <1>6 DEF RuntimeCommand, Command
  <2>2. /\ Accepts("pbl4_runtime", p.command.words)
        /\ \A i \in DOMAIN p.command.words : p.command.words[i] \notin Placeholders
        /\ Args(p)["--host"] = host
        /\ Args(p)["--port"] = dtp
        /\ Args(p)["--management-port"] = mcp
    BY <1>5, <1>6, <2>1, RuntimeUnderstands DEF Args
  <2> QED
    BY <1>1, <1>4, <2>1, <2>2 DEF Exit
<1>7. CASE \E i \in DOMAIN labels : p.command = WorkerCommand(host, dtp, labels[i])
  <2>1. PICK i \in DOMAIN labels : p.command = WorkerCommand(host, dtp, labels[i])
    BY <1>7
  <2>2. p.command.program = "pbl4_worker"
    BY <2>1 DEF WorkerCommand, Command
  <2>3. labels[i] \in Labels \ Flags /\ Shell[labels[i]] = <<labels[i]>>
    BY <1>5
  <2>4. /\ Accepts("pbl4_worker", p.command.words)
        /\ \A j \in DOMAIN p.command.words : p.command.words[j] \notin Placeholders
        /\ Args(p)["--node-label"] = labels[i]
        /\ Args(p)["--runtime-host"] = host
        /\ Args(p)["--runtime-port"] = dtp
    BY <1>5, <2>1, <2>2, <2>3, WorkerUnderstands DEF Args
  <2> QED
    BY <1>1, <1>4, <2>2, <2>4 DEF Exit
<1> QED
  BY <1>1, <1>4, <1>6, <1>7 DEF plan_topology

LEMMA UnconfiguredByInv == Inv => NothingUnconfiguredStarts
<1> SUFFICES ASSUME Inv, NEW p \in launched, p.plan # NoPlan, p.plan.dtp_port = NULL
             PROVE  p.exit = "not started"
  BY DEF NothingUnconfiguredStarts
<1>1. p.exit = Exit(p.command) /\ Printed(p.plan) /\ p.command \in p.plan.commands
  BY DEF Inv, Traced
<1>2. PICK host \in Hosts \ Flags, dtp \in Ports \cup {NULL}, mcp \in Ports \cup {NULL},
           n \in 1 .. MaxNodes : \E labels \in [1 .. n -> Labels \ Flags] :
             p.plan = [runtime_host |-> host, dtp_port |-> dtp, mcp_port |-> mcp,
                       node_labels |-> labels,
                       commands |-> plan_topology(host, dtp, mcp, labels)]
  BY <1>1 DEF Printed
<1>3. PICK labels \in [1 .. n -> Labels \ Flags] :
             p.plan = [runtime_host |-> host, dtp_port |-> dtp, mcp_port |-> mcp,
                       node_labels |-> labels,
                       commands |-> plan_topology(host, dtp, mcp, labels)]
  BY <1>2
<1>4. dtp = NULL /\ p.plan.commands = plan_topology(host, dtp, mcp, labels)
  BY <1>3
<1>5. dtp_display(dtp) \in Placeholders
  BY <1>4 DEF dtp_display, Placeholders
<1>6. CASE p.command = RuntimeCommand(host, dtp, mcp)
  <2>1. p.command.words = <<"--host", host, "--port", dtp_display(dtp),
                            "--management-port", mcp_display(mcp)>>
    BY <1>6 DEF RuntimeCommand, Command
  <2>2. 4 \in DOMAIN p.command.words /\ p.command.words[4] = dtp_display(dtp)
    BY <2>1
  <2> QED
    BY <1>1, <1>5, <2>2 DEF Exit
<1>7. CASE \E i \in DOMAIN labels : p.command = WorkerCommand(host, dtp, labels[i])
  <2>1. PICK i \in DOMAIN labels : p.command = WorkerCommand(host, dtp, labels[i])
    BY <1>7
  <2>2. labels[i] \in Labels
    OBVIOUS
  <2> DEFINE words == p.command.words
  <2>3. /\ words \in Seq(Words) /\ Len(words) \in Nat \ {0}
        /\ words[Len(words)] = dtp_display(dtp)
    <3> DEFINE label == labels[i]
    <3>1. label \in Labels /\ host \in Hosts /\ words = WorkerCommand(host, dtp, label).words
      BY <2>1, <2>2
    <3> HIDE DEF label, words
    <3> QED
      BY <3>1, WorkerWords
  <2> HIDE DEF words
  <2>4. Len(words) \in DOMAIN words
    BY <2>3, LenProperties
  <2>5. \E j \in DOMAIN words : words[j] \in Placeholders
    BY <1>5, <2>3, <2>4
  <2> QED
    BY <1>1, <2>5 DEF Exit, words
<1> QED
  BY <1>1, <1>4, <1>6, <1>7 DEF plan_topology

LEMMA RankByInv == Inv => RankIsNeverGiven
<1> SUFFICES ASSUME Inv, NEW p \in launched, p.command.program = "pbl4_worker",
                    NEW i \in DOMAIN p.command.words, p.command.words[i] = "--worker-id",
                    p.exit = "pending"
             PROVE  FALSE
  BY DEF RankIsNeverGiven
<1>1. Accepts("pbl4_worker", p.command.words) /\ p.command.words \in Seq(Words)
  BY DEF Inv, Traced, IsCommand, Exit
<1> QED
  BY <1>1, RankIsRefused

-----------------------------------------------------------------------------
(* The theorems.                                                           *)

\* Every process that was ever launched is traced to its command and, if it
\* was planned, to its plan.
THEOREM Invariance == Spec => []Inv
BY InitInv, NextInv, PTL DEF Spec

\* The screen names no more labels than a plan may; every process met the parser of a program
\* there is, and what it let pass as a port is a number, whatever people type.
THEOREM TypeCorrect == Spec => []TypeOK
BY Invariance, TypeOKByInv, PTL

\* For any plan with both ports and plain labels, the parsers take the printed
\* commands as they were meant.
THEOREM PlanIsAlwaysUnderstood == Spec => []PlanIsUnderstood
BY Invariance, UnderstoodByInv, PTL

\* Nothing that was printed without the DTP port ever starts.
THEOREM NothingUnconfiguredEverStarts == Spec => []NothingUnconfiguredStarts
BY Invariance, UnconfiguredByInv, PTL

\* No worker is ever given a rank on its command line.
THEOREM RankIsNeverEverGiven == Spec => []RankIsNeverGiven
BY Invariance, RankByInv, PTL
=============================================================================
