----------------------------- MODULE MCCronRules -----------------------------
(* TLC instance of CronRules: one rule, whose occurrences are further apart  *)
(* than setTimeout reaches.                                                  *)
EXTENDS CronRules

MCLists == {<<[id |-> "yearly", every |-> 3, on |-> TRUE]>>}
==============================================================================
