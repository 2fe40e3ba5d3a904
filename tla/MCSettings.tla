----------------------------- MODULE MCSettings -----------------------------
(* TLC instance of Settings: two screens, HA off or on one broker, and
   patches of one field.  HA is switched off in an edit of the file. *)
EXTENDS Settings, TLC

CONSTANTS clock, dash, off, broker, unset, s1, s2

MCIds == {clock, dash}
MCSlot == {s1, s2}
MCHaSettings == {off, broker}
MCPatches == [default: MCIds, ha: {unset}] \cup [default: {unset}, ha: {broker}]
Symmetry == Permutations(MCIds) \cup Permutations(MCSlot)
=============================================================================
