------------------------------ MODULE Settings ------------------------------
(***************************************************************************)
(* ConfigStore and HaBridge as core/src/index.ts puts them together: the   *)
(* handler of "reloaded" restarts the bridge when its setting changed, and *)
(* the end of the process ends both.                                       *)
(***************************************************************************)
EXTENDS ConfigStore

CONSTANT AuthLimit    \* refusals until the client gives up, 5 in the code

ASSUME AuthAssumption == AuthLimit \in Nat \ {0}

VARIABLES cfg, booting, starting, clients, status, authFailures, hurried

Bridge == INSTANCE HaBridge

bridgeVars == <<cfg, booting, starting, clients, status, authFailures, hurried>>
vars == <<configVars, bridgeVars>>

\* In safe mode the configuration is built in and HA is off.
HaSetting(s) == s.files.frame.ha

SettingsInit == Init /\ Bridge!Init /\ cfg = HaSetting(state)

Reload == (\E t \in Slot : Install(t)) /\ Bridge!Reconfigured(HaSetting(state'))

Restart == Boot /\ Bridge!Booted(HaSetting(state'))

\* Failures of the connection are events of the outside like requests.
BrokerFails ==
  /\ events < MaxEvents
  /\ events' = events + 1
  /\ Bridge!Failure
  /\ UNCHANGED <<disk, drafts, temps, state, pending, tasks, excused, overtaken>>

\* The server listens when main comes to ha.start().
SettingsNext ==
  \/ Request /\ ~booting /\ UNCHANGED bridgeVars
  \/ FileStep /\ UNCHANGED bridgeVars
  \/ Reload
  \/ Restart
  \/ Bridge!BridgeStep /\ UNCHANGED configVars
  \/ BrokerFails

SettingsSpec == SettingsInit /\ [][SettingsNext]_vars

-----------------------------------------------------------------------------
\* The bridge's setting is that of the configuration in use, across reloads
\* that fail, safe mode and ends of the process, and one client lives for it
\* (HaBridge.OneConnection).
BridgeFollowsConfig == cfg = HaSetting(state) /\ Bridge!OneConnection

\* HaBridge.status() is what the client does, across the reloads of the joined
\* modules (HaBridge.StatusTruthful).
StatusTruthful == Bridge!StatusTruthful
=============================================================================
