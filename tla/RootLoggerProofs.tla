-------------------------- MODULE RootLoggerProofs --------------------------
(***************************************************************************)
(* No record is written twice, and one that meets no set-up is written by  *)
(* the latest handler: for any number of threads, set-ups and records.     *)
(***************************************************************************)
EXTENDS RootLogger, TLAPS

Records == [level : LEVELS, next : Nat, by : Seq(Nat), quiet : BOOLEAN]

\* What the three steps of a set-up leave behind them.
HandlersFollowSetup ==
  /\ setup.at = "cleared" => handlers = <<>>
  /\ setup.at = "added" => handlers = <<setups>>
  /\ setup.at = "idle" =>
       IF setups > 0 THEN handlers = <<setups>> /\ root = setup.level
                     ELSE handlers = <<>>
  /\ setup.at # "idle" => setups > 0

\* A walk has seen at most one handler, and if no set-up has crossed it, the
\* one there is.
WalksAreShort ==
  \A e \in Emitters : record[e] # NULL =>
    /\ \/ record[e].next = 1 /\ record[e].by = <<>>
       \/ record[e].next = 2 /\ Len(record[e].by) = 1
    /\ record[e].quiet =>
         /\ setup.at = "idle" /\ setups > 0 /\ record[e].level >= root
         /\ record[e].by \in {<<>>, <<setups>>}

Inv ==
  /\ TypeOK /\ record \in [Emitters -> Records \cup {NULL}]
  /\ fate \in [Emitters -> [by : Seq(Nat), level : LEVELS, quiet : BOOLEAN,
                            rule : LEVELS, setup : Nat] \cup {NULL}]
  /\ HandlersFollowSetup /\ WalksAreShort
  /\ NeverTwice /\ LatestSetupRules

\* Nothing is set up and nothing is logged yet.
LEMMA InitInv == Init => Inv
<1> SUFFICES ASSUME Init PROVE Inv
  OBVIOUS
<1>1. TypeOK
  BY LoggerAssumption DEF Init, TypeOK, Idle
<1>2. HandlersFollowSetup /\ WalksAreShort
  BY DEF Init, HandlersFollowSetup, WalksAreShort, Idle
<1>3. NeverTwice /\ LatestSetupRules
  BY DEF Init, NeverTwice, LatestSetupRules
<1> QED
  BY <1>1, <1>2, <1>3 DEF Init, Inv

\* A set-up that begins disturbs every record on its way.
LEMMA ClearInv == ASSUME Inv, Clear PROVE Inv'
<1> USE DEF Inv
<1>1. PICK name \in Names :
        setup' = [at |-> "cleared", level |-> log_level(name)]
  BY DEF Clear
<1>2. /\ setups < MaxSetups /\ setups' = setups + 1 /\ handlers' = <<>>
      /\ record' = Disturbed /\ UNCHANGED <<root, logged, fate>>
  BY DEF Clear
<1>3. log_level(name) \in LEVELS
  BY LoggerAssumption DEF log_level, Names
<1>4. /\ setups \in Nat /\ MaxSetups \in Nat
  BY LoggerAssumption DEF TypeOK
<1>5. ASSUME NEW e \in Emitters, record'[e] # NULL
      PROVE  /\ record[e] # NULL /\ record'[e] \in Records
             /\ record'[e].level = record[e].level
             /\ record'[e].next = record[e].next /\ record'[e].by = record[e].by
             /\ record'[e].quiet = FALSE
  <2>1. record[e] # NULL /\ record'[e] = [record[e] EXCEPT !.quiet = FALSE]
    BY <1>2, <1>5 DEF Disturbed
  <2>2. record[e] \in Records
    BY <2>1
  <2> QED
    BY <2>1, <2>2 DEF Records
<1>6. record' \in [Emitters -> Records \cup {NULL}]
  BY <1>2, <1>5 DEF Disturbed
<1>7. TypeOK'
  <2>1. handlers' \in Seq(1 .. setups')
    BY <1>2
  <2>2. setup' \in [at : {"idle", "cleared", "added"}, level : LEVELS]
    BY <1>1, <1>3
  <2>3. setups' \in 0 .. MaxSetups
    BY <1>2, <1>4
  <2>4. \A e \in Emitters : record'[e] # NULL => record'[e].level \in LEVELS
    BY <1>5 DEF Records
  <2> QED
    BY <1>2, <2>1, <2>2, <2>3, <2>4 DEF TypeOK
<1>8. HandlersFollowSetup'
  BY <1>1, <1>2, <1>4 DEF HandlersFollowSetup
<1>9. WalksAreShort'
  BY <1>5 DEF WalksAreShort
<1> QED
  BY <1>2, <1>6, <1>7, <1>8, <1>9 DEF NeverTwice, LatestSetupRules

\* No record that is on its way is quiet while a set-up is under way.
LEMMA AddHandlerInv == ASSUME Inv, AddHandler PROVE Inv'
<1> USE DEF Inv
<1>1. /\ setup.at = "cleared" /\ setup' = [setup EXCEPT !.at = "added"]
      /\ handlers' = Append(handlers, setups)
      /\ UNCHANGED <<root, setups, record, logged, fate>>
  BY DEF AddHandler
<1>2. handlers = <<>> /\ setups > 0 /\ setups \in Nat
  BY <1>1, LoggerAssumption DEF HandlersFollowSetup, TypeOK
<1>3. handlers' = <<setups>>
  BY <1>1, <1>2
<1>4. setup'.at = "added" /\ setup'.level = setup.level
      /\ setup' \in [at : {"idle", "cleared", "added"}, level : LEVELS]
  BY <1>1 DEF TypeOK
<1>5. TypeOK'
  BY <1>1, <1>2, <1>3, <1>4 DEF TypeOK
<1>6. HandlersFollowSetup' /\ WalksAreShort'
  BY <1>1, <1>2, <1>3, <1>4 DEF HandlersFollowSetup, WalksAreShort
<1> QED
  BY <1>1, <1>5, <1>6 DEF NeverTwice, LatestSetupRules

\* The level is the last thing that a set-up sets.
LEMMA SetLevelInv == ASSUME Inv, SetLevel PROVE Inv'
<1> USE DEF Inv
<1>1. /\ setup.at = "added" /\ setup' = [setup EXCEPT !.at = "idle"]
      /\ root' = setup.level
      /\ UNCHANGED <<handlers, setups, record, logged, fate>>
  BY DEF SetLevel
<1>2. setup'.at = "idle" /\ setup'.level = setup.level /\ setup.level \in LEVELS
      /\ setup' \in [at : {"idle", "cleared", "added"}, level : LEVELS]
  BY <1>1 DEF TypeOK
<1>3. TypeOK'
  BY <1>1, <1>2 DEF TypeOK
<1>4. HandlersFollowSetup' /\ WalksAreShort'
  BY <1>1, <1>2 DEF HandlersFollowSetup, WalksAreShort
<1> QED
  BY <1>1, <1>3, <1>4 DEF NeverTwice, LatestSetupRules

\* A record sets out under the level there is.
LEMMA LogInv == ASSUME Inv, NEW e \in Emitters, Log(e) PROVE Inv'
<1> USE DEF Inv
<1>1. PICK level \in LEVELS :
        /\ level >= root
        /\ record' = [record EXCEPT ![e] =
             [level |-> level, next |-> 1, by |-> <<>>,
              quiet |-> setup.at = "idle" /\ setups > 0]]
  BY DEF Log
<1>2. /\ logged[e] < MaxRecords /\ logged' = [logged EXCEPT ![e] = @ + 1]
      /\ UNCHANGED <<handlers, root, setup, setups, fate>>
  BY DEF Log
<1>3. record'[e] = [level |-> level, next |-> 1, by |-> <<>>,
                    quiet |-> setup.at = "idle" /\ setups > 0]
      /\ \A f \in Emitters \ {e} : record'[f] = record[f]
  BY <1>1
<1>4. record' \in [Emitters -> Records \cup {NULL}]
  <2>1. (setup.at = "idle" /\ setups > 0) \in BOOLEAN
    OBVIOUS
  <2>2. record'[e] \in Records
    BY <1>3, <2>1 DEF Records
  <2> QED
    BY <1>1, <1>3, <2>2
<1>5. TypeOK'
  <2>1. logged' \in [Emitters -> 0 .. MaxRecords]
    BY <1>2, LoggerAssumption DEF TypeOK
  <2> QED
    BY <1>2, <1>3, <2>1 DEF TypeOK
<1>6. WalksAreShort'
  BY <1>1, <1>2, <1>3 DEF WalksAreShort
<1> QED
  BY <1>2, <1>4, <1>5, <1>6 DEF HandlersFollowSetup, NeverTwice, LatestSetupRules

\* A record that has met a handler is a record.
LEMMA Met ==
  ASSUME NEW S, NEW x \in S,
         NEW r \in [level : LEVELS, next : Nat, by : S, quiet : BOOLEAN]
  PROVE  LET met == [r EXCEPT !.next = 2, !.by = x]
         IN  /\ met \in [level : LEVELS, next : Nat, by : S, quiet : BOOLEAN]
             /\ met.next = 2 /\ met.by = x
             /\ met.level = r.level /\ met.quiet = r.quiet
OBVIOUS

\* There is one handler at most, so that a walk meets one at most.
LEMMA HandleInv == ASSUME Inv, NEW e \in Emitters, Handle(e) PROVE Inv'
<1>1. /\ record[e] # NULL /\ record[e].next <= Len(handlers)
      /\ record' = [record EXCEPT ![e].next = @ + 1,
                                  ![e].by = Append(@, handlers[record[e].next])]
      /\ UNCHANGED <<handlers, root, setup, setups, logged, fate>>
  BY DEF Handle
<1>2. record[e] \in Records /\ setups \in Nat
  BY <1>1, LoggerAssumption DEF Inv, TypeOK
<1>3. handlers = <<setups>> /\ record[e].next = 1 /\ record[e].by = <<>>
  <2>1. handlers = <<>> \/ handlers = <<setups>>
    BY DEF Inv, HandlersFollowSetup, TypeOK
  <2>2. \/ record[e].next = 1 /\ record[e].by = <<>>
        \/ record[e].next = 2
    BY <1>1 DEF Inv, WalksAreShort
  <2>3. Len(<<>>) = 0 /\ Len(<<setups>>) = 1
    OBVIOUS
  <2>4. record[e].next <= Len(handlers)
    BY <1>1
  <2>5. CASE handlers = <<>>
    BY <2>2, <2>3, <2>4, <2>5
  <2>6. CASE handlers = <<setups>>
    BY <2>2, <2>3, <2>4, <2>6
  <2> QED
    BY <2>1, <2>5, <2>6
<1>4. /\ record'[e] = [record[e] EXCEPT !.next = 2, !.by = <<setups>>]
      /\ \A f \in Emitters \ {e} : record'[f] = record[f]
  <2>1. Append(<<>>, setups) = <<setups>> /\ <<setups>>[1] = setups /\ 1 + 1 = 2
    OBVIOUS
  <2>2. record \in [Emitters -> Records \cup {NULL}]
    BY DEF Inv
  <2>3. record'[e] = [record[e] EXCEPT !.next = @ + 1,
                                      !.by = Append(@, handlers[record[e].next])]
    BY <1>1, <2>2
  <2>4. record'[e] = [record[e] EXCEPT !.next = 1 + 1, !.by = Append(<<>>, <<setups>>[1])]
    BY <1>3, <2>3
  <2> QED
    BY <1>1, <2>1, <2>2, <2>4
<1>5. /\ record'[e].next = 2 /\ record'[e].by = <<setups>>
      /\ record'[e].level = record[e].level /\ record'[e].quiet = record[e].quiet
      /\ record'[e] \in Records
  <2> DEFINE S == Seq(Nat)
             x == <<setups>>
  <2>1. x \in S
    BY <1>2
  <2>2. record[e] \in [level : LEVELS, next : Nat, by : S, quiet : BOOLEAN]
    BY <1>2 DEF Records
  <2>3. record'[e] = [record[e] EXCEPT !.next = 2, !.by = x]
    BY <1>4
  <2> HIDE DEF S, x
  <2>4. /\ record'[e] \in [level : LEVELS, next : Nat, by : S, quiet : BOOLEAN]
        /\ record'[e].next = 2 /\ record'[e].by = x
        /\ record'[e].level = record[e].level /\ record'[e].quiet = record[e].quiet
    BY <2>1, <2>2, <2>3, Met
  <2> QED
    BY <2>4 DEF S, x, Records
<1>6. record' \in [Emitters -> Records \cup {NULL}]
  BY <1>1, <1>4, <1>5 DEF Inv
<1>7. TypeOK'
  BY <1>1, <1>2, <1>4, <1>5 DEF Inv, TypeOK, Records
<1>8. WalksAreShort'
  <2>1. Len(<<setups>>) = 1
    OBVIOUS
  <2> QED
    BY <1>1, <1>4, <1>5, <2>1 DEF Inv, WalksAreShort
<1> QED
  BY <1>1, <1>6, <1>7, <1>8 DEF Inv, HandlersFollowSetup, NeverTwice, LatestSetupRules

\* A record that no set-up has crossed has met the handler when it ends.
LEMMA EndInv == ASSUME Inv, NEW e \in Emitters, End(e) PROVE Inv'
<1> USE DEF Inv
<1> DEFINE by == IF record[e].by = <<>> /\ record[e].level >= WARNING
                 THEN <<0>> ELSE record[e].by
           end == [by |-> by, level |-> record[e].level, quiet |-> record[e].quiet,
                   rule |-> setup.level, setup |-> setups]
<1>1. /\ record[e] # NULL /\ record[e].next > Len(handlers)
      /\ fate' = [fate EXCEPT ![e] = end]
      /\ record' = [record EXCEPT ![e] = NULL]
      /\ UNCHANGED <<handlers, root, setup, setups, logged>>
  BY DEF End
<1>2. record[e] \in Records /\ setups \in Nat /\ setup.level \in LEVELS
  BY <1>1, LoggerAssumption DEF TypeOK
<1>3. by \in Seq(Nat) /\ Len(by) <= 1
  <2>1. /\ record[e].by \in Seq(Nat)
        /\ record[e].by = <<>> \/ Len(record[e].by) = 1
    BY <1>1, <1>2 DEF Records, WalksAreShort
  <2>2. by \in {record[e].by, <<0>>}
    OBVIOUS
  <2>3. <<0>> \in Seq(Nat) /\ Len(<<0>>) = 1 /\ Len(<<>>) = 0
    OBVIOUS
  <2> HIDE DEF by, Inv
  <2>4. CASE by = <<0>>
    BY <2>3, <2>4
  <2>5. CASE by = record[e].by
    <3>1. by \in Seq(Nat) /\ (by = <<>> \/ Len(by) = 1)
      BY <2>1, <2>5
    <3>2. Len(by) = 0 \/ Len(by) = 1
      BY <2>3, <3>1, Zenon
    <3>3. Len(by) <= 1
      BY <3>2
    <3> QED
      BY <3>1, <3>3, Zenon
  <2> QED
    BY <2>2, <2>4, <2>5
<1>4. record[e].quiet => by = <<setups>> /\ record[e].level >= setup.level
  <2>1. SUFFICES ASSUME record[e].quiet
                 PROVE  by = <<setups>> /\ record[e].level >= setup.level
    OBVIOUS
  <2>2. handlers = <<setups>> /\ root = setup.level /\ record[e].level >= root
    BY <1>1, <2>1 DEF WalksAreShort, HandlersFollowSetup
  <2>3. record[e].by = <<setups>>
    BY <1>1, <2>1, <2>2 DEF WalksAreShort
  <2> QED
    BY <2>2, <2>3
<1> HIDE DEF by
<1>5. /\ fate'[e] = end /\ \A f \in Emitters \ {e} : fate'[f] = fate[f]
      /\ fate' \in [Emitters -> [by : Seq(Nat), level : LEVELS, quiet : BOOLEAN,
                                 rule : LEVELS, setup : Nat] \cup {NULL}]
  BY <1>1, <1>2, <1>3 DEF Records
<1>6. /\ record'[e] = NULL /\ \A f \in Emitters \ {e} : record'[f] = record[f]
      /\ record' \in [Emitters -> Records \cup {NULL}]
  BY <1>1
<1>7. TypeOK' /\ HandlersFollowSetup' /\ WalksAreShort'
  BY <1>1, <1>6 DEF TypeOK, HandlersFollowSetup, WalksAreShort
<1>8. NeverTwice' /\ LatestSetupRules'
  BY <1>3, <1>4, <1>5 DEF NeverTwice, LatestSetupRules
<1> QED
  BY <1>5, <1>6, <1>7, <1>8

\* Every step keeps the invariant.
LEMMA NextInv == Inv /\ [Next]_vars => Inv'
<1> SUFFICES ASSUME Inv, [Next]_vars PROVE Inv'
  OBVIOUS
<1>1. CASE UNCHANGED vars
  BY <1>1 DEF vars, Inv, TypeOK, HandlersFollowSetup, WalksAreShort,
              NeverTwice, LatestSetupRules
<1>2. CASE Next
  BY <1>2, ClearInv, AddHandlerInv, SetLevelInv, LogInv, HandleInv, EndInv DEF Next
<1> QED
  BY <1>1, <1>2

-----------------------------------------------------------------------------
(* The theorems.                                                           *)

\* The invariant holds of every behaviour.
THEOREM Invariance == Spec => []Inv
BY InitInv, NextInv, PTL DEF Spec

\* The logging model keeps its types, the level of the root logger among them.
THEOREM TypeCorrect == Spec => []TypeOK
<1>1. Inv => TypeOK
  BY DEF Inv
<1> QED
  BY <1>1, Invariance, PTL

\* No record is ever written twice.
THEOREM IsNeverTwice == Spec => []NeverTwice
<1>1. Inv => NeverTwice
  BY DEF Inv
<1> QED
  BY <1>1, Invariance, PTL

\* The latest set-up rules what no set-up crosses.
THEOREM LatestSetupAlwaysRules == Spec => []LatestSetupRules
<1>1. Inv => LatestSetupRules
  BY DEF Inv
<1> QED
  BY <1>1, Invariance, PTL
=============================================================================
