----------------------------- MODULE MCScheduler -----------------------------
(* TLC instance of Scheduler, with two screens, which nothing tells apart,   *)
(* and of two modules that share no state with it or with each other: the    *)
(* schedule with its tab, and the session of the control panel.  `part` says *)
(* which of the three a behaviour is one of; the others stay as they start.  *)
EXTENDS Scheduler, RulesTab, Session, TLC

CONSTANTS photos, dash

VARIABLE part

MCScreenIds == {photos, dash}
Symmetry == Permutations(MCScreenIds)

\* A rule is edited to each second tick, or to each tick and switched.  A list
\* of another client has a rule whose next() throws and names an id twice.
Rule(every) == [id |-> "a", every |-> every, on |-> TRUE]
MCLists == {<<[id |-> "b", every |-> NoneFound, on |-> TRUE], Rule(1), Rule(2)>>}
MCDrafts == {Rule(1)}

MCInit ==
  /\ part \in {"scheduler", "rules", "session"}
  /\ Init /\ TabInit /\ SessionInit
  /\ part # "scheduler" => screens = {photos}

MCNext ==
  /\ UNCHANGED part
  /\ \/ part = "scheduler" /\ Next /\ UNCHANGED <<tabVars, sessionVars>>
     \/ part = "rules" /\ TabNext /\ UNCHANGED <<vars, sessionVars>>
     \/ part = "session" /\ SessionNext /\ UNCHANGED <<vars, tabVars>>

MCSpec == MCInit /\ [][MCNext]_<<part, vars, tabVars, sessionVars>>
==============================================================================
