------------------------------ MODULE MCConfig -------------------------------
(* The TLC instance of Settings and, sharing no state with it, the Settings  *)
(* tab of the control panel.  `part` says which of the two a behaviour is    *)
(* one of; the other stays as it starts.                                     *)
EXTENDS MCSettings, SettingsTab

VARIABLE part

MCInit ==
  /\ part \in {"core", "tab"}
  /\ SettingsInit /\ SettingsTabInit
  /\ part # "core" => state.files.frame = [default |-> clock, ha |-> off]
                      /\ disk.frame = state.files.frame /\ disk.screens = {clock}

MCNext ==
  /\ UNCHANGED part
  /\ \/ part = "core" /\ SettingsNext /\ UNCHANGED settingsTabVars
     \/ part = "tab" /\ SettingsTabNext /\ UNCHANGED vars

MCSpec == MCInit /\ [][MCNext]_<<part, vars, settingsTabVars>>
==============================================================================
