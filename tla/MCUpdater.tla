------------------------------- MODULE MCUpdater -------------------------------
(* TLC instance of Updater.  As text, the version of the first release sorts
   last.
   MCMigs      the second release brings a migration, which the third rewrites;
               that one also has a migration left to the operator
   MCForward   migrations are only added
   MCManualTwo the second release is left to the operator before its switch *)
EXTENDS Updater

CONSTANTS s1, s2

MCSlots == {s1, s2}
MCOneSlot == {s1}
Symmetry == Permutations(MCSlots)

MCMigs == <<[n \in {} |-> "a"], [n \in {1} |-> "a"],
            [n \in {1, 2} |-> IF n = 1 THEN "aa" ELSE "b"]>>
MCForward == <<[n \in {} |-> "a"], [n \in {1} |-> "a"],
               [n \in {1, 2} |-> IF n = 1 THEN "a" ELSE "b"]>>
MCManualTwo == <<[n \in {} |-> "a"], [n \in {1} |-> "a"], [n \in {} |-> "a"]>>
MCManual == {<<2, "b">>}
MCManualFirst == {<<1, "a">>}
MCNone == {}
MCNameRank == <<3, 1, 2>>
==============================================================================
