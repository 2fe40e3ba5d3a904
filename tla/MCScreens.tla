------------------------------ MODULE MCScreens ------------------------------
(* The TLC instance of ScreenController and, sharing no state with it, the   *)
(* Screens tab of the control panel.  `part` says which of the two a         *)
(* behaviour is one of; the other stays as it starts.                        *)
EXTENDS MCScreenController, ScreensTab

VARIABLE part

MCInit ==
  /\ part \in {"frame", "tab"}
  /\ Init /\ ScreensTabInit
  /\ part # "frame" => cap = 1
  /\ part # "tab" => Cardinality(screens) = 1

MCNext ==
  /\ UNCHANGED part
  /\ \/ part = "frame" /\ Next /\ UNCHANGED screensTabVars
     \/ part = "tab" /\ ScreensTabNext /\ UNCHANGED vars

MCSpec == MCInit /\ [][MCNext]_<<part, vars, screensTabVars>>
==============================================================================
