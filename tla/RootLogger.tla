----------------------------- MODULE RootLogger -----------------------------
(***************************************************************************)
(* common/logging.py: setup_logging replaces the handlers of the root      *)
(* logger in three steps, while other threads of the process log.  logging *)
(* itself takes no lock around the list of handlers when it walks it.      *)
(***************************************************************************)
EXTENDS Naturals, Sequences

CONSTANTS
  Emitters,   \* the threads that log
  LEVELS,     \* the numeric levels
  INFO,       \* the level that stands in for an unknown name
  WARNING,    \* the level from which lastResort prints
  MaxSetups,  \* how many times logging is set up
  MaxRecords, \* how many records a thread logs
  NULL

ASSUME LoggerAssumption ==
  /\ LEVELS \subseteq Nat /\ {INFO, WARNING} \subseteq LEVELS
  /\ MaxSetups \in Nat /\ MaxRecords \in Nat

VARIABLES
  handlers,  \* root.handlers: the set-ups whose handlers they are
  root,      \* the level of the root logger
  setup,     \* the set-up under way: where it is, its number and level
  setups,    \* how many set-ups there have been
  record,    \* record[e]: what e is logging, NULL if nothing
  logged,    \* logged[e]: how many records e has logged
  fate       \* fate[e]: what became of the last of them

vars == <<handlers, root, setup, setups, record, logged, fate>>

-----------------------------------------------------------------------------
(* setup_logging, called by one thread, as often as it likes.              *)

\* NULL is a name that logging does not know.
Names == LEVELS \cup {NULL}

\* Defect: an unknown name has no level.
log_level_of_name(name) == name

log_level(name) == IF name = NULL THEN INFO ELSE name

Idle == [at |-> "idle", level |-> WARNING]

Init == /\ handlers = <<>>
        /\ root = WARNING
        /\ setup = Idle
        /\ setups = 0
        /\ record = [e \in Emitters |-> NULL]
        /\ logged = [e \in Emitters |-> 0]
        /\ fate = [e \in Emitters |-> NULL]

\* A record that is on its way has met a set-up.
Disturbed == [e \in Emitters |->
                IF record[e] = NULL THEN NULL ELSE [record[e] EXCEPT !.quiet = FALSE]]

\* Defect: the old handlers stay.
ClearNot == \E name \in Names :
  /\ setup.at = "idle"
  /\ setups < MaxSetups
  /\ setup' = [at |-> "cleared", level |-> log_level(name)]
  /\ setups' = setups + 1
  /\ record' = Disturbed
  /\ UNCHANGED <<handlers, root, logged, fate>>

Clear == \E name \in Names :
  /\ setup.at = "idle"
  /\ setups < MaxSetups
  /\ setup' = [at |-> "cleared", level |-> log_level(name)]
  /\ setups' = setups + 1
  /\ handlers' = <<>>
  /\ record' = Disturbed
  /\ UNCHANGED <<root, logged, fate>>

AddHandler == /\ setup.at = "cleared"
              /\ setup' = [setup EXCEPT !.at = "added"]
              /\ handlers' = Append(handlers, setups)
              /\ UNCHANGED <<root, setups, record, logged, fate>>

\* Defect: the level of the root logger stays.
SetLevelNot == /\ setup.at = "added"
               /\ setup' = [setup EXCEPT !.at = "idle"]
               /\ UNCHANGED <<handlers, root, setups, record, logged, fate>>

SetLevel == /\ setup.at = "added"
            /\ setup' = [setup EXCEPT !.at = "idle"]
            /\ root' = setup.level
            /\ UNCHANGED <<handlers, setups, record, logged, fate>>

-----------------------------------------------------------------------------
(* Logger.callHandlers.                                                    *)

\* A record that the level lets through starts on its way.
Log(e) == \E level \in LEVELS :
  /\ record[e] = NULL
  /\ logged[e] < MaxRecords
  /\ level >= root
  /\ record' = [record EXCEPT ![e] = [level |-> level, next |-> 1, by |-> <<>>,
                                      quiet |-> setup.at = "idle" /\ setups > 0]]
  /\ logged' = [logged EXCEPT ![e] = @ + 1]
  /\ UNCHANGED <<handlers, root, setup, setups, fate>>

\* The walk goes by index over a list that may change under it.
Handle(e) ==
  /\ record[e] # NULL
  /\ record[e].next <= Len(handlers)
  /\ record' = [record EXCEPT ![e].next = @ + 1,
                              ![e].by = Append(@, handlers[record[e].next])]
  /\ UNCHANGED <<handlers, root, setup, setups, logged, fate>>

\* A record that no handler has seen goes to lastResort, or nowhere.
End(e) ==
  /\ record[e] # NULL
  /\ record[e].next > Len(handlers)
  /\ fate' = [fate EXCEPT ![e] =
       [by |-> IF record[e].by = <<>> /\ record[e].level >= WARNING
               THEN <<0>> ELSE record[e].by,
        level |-> record[e].level, quiet |-> record[e].quiet,
        rule |-> setup.level, setup |-> setups]]
  /\ record' = [record EXCEPT ![e] = NULL]
  /\ UNCHANGED <<handlers, root, setup, setups, logged>>

Next == \/ Clear \/ AddHandler \/ SetLevel
        \/ \E e \in Emitters : Log(e) \/ Handle(e) \/ End(e)

Spec == Init /\ [][Next]_vars

-----------------------------------------------------------------------------
(* Properties.                                                             *)

\* The types; the root logger's level is always a number (logging.py 30).
TypeOK ==
  /\ handlers \in Seq(1 .. setups)
  /\ root \in LEVELS
  /\ setup \in [at : {"idle", "cleared", "added"}, level : LEVELS]
  /\ setups \in 0 .. MaxSetups
  /\ logged \in [Emitters -> 0 .. MaxRecords]
  /\ \A e \in Emitters : record[e] # NULL => record[e].level \in LEVELS

\* However set-ups and records interleave, no record is written twice: not
\* after logging has been set up again, and not by the walk of a list that
\* is replaced under it (logging.py 41-42).
NeverTwice == \A e \in Emitters : fate[e] # NULL => Len(fate[e].by) <= 1

\* A record that no set-up crosses is written exactly once, by the handler of
\* the latest set-up and only if that set-up's level lets it through
\* (logging.py 41-43).
LatestSetupRules ==
  \A e \in Emitters :
    fate[e] # NULL /\ fate[e].quiet =>
      fate[e].by = <<fate[e].setup>> /\ fate[e].level >= fate[e].rule
=============================================================================
