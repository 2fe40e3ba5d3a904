---------------------------------- MODULE Vnc ----------------------------------
(***************************************************************************)
(* The VNC supervisor (core/src/system/vnc.ts): wayvnc and websockify,     *)
(* started and stopped together on request, and stopped after 15 minutes   *)
(* without traffic; the WebSocket proxy of /vnc/ws (core/src/api/          *)
(* server.ts) is the traffic.                                              *)
(*                                                                         *)
(* start() has a row of awaits between its check and its spawn; they are   *)
(* the steps of a slot.  The n-th spawn makes a wayvnc and a websockify    *)
(* numbered n.  Either may exit at any time (wayvnc does when its port is  *)
(* taken); one that was told to end keeps running until its exit event.    *)
(***************************************************************************)
EXTENDS Integers, FiniteSets

CONSTANTS
  VncSlots,   \* bound: start requests in flight at once
  MaxSpawns,  \* bound: pairs spawned
  Viewers     \* bound: WebSocket clients of /vnc/ws

VARIABLES
  wayvnc, websockify,   \* the handles: a number, 0 when undefined
  vncRun, sockRun,      \* the processes that run
  vncDying, sockDying,  \* those of them that were told to end
  vncStarts,  \* start requests, by slot: the await they are parked at
  confTmp,    \* wayvnc.conf.tmp is there
  idleTimer,  \* idleTimer is armed
  pairs,      \* bound: spawns so far
  viewers,    \* clients of /vnc/ws: "none", "connecting" or "open" upstream
  vncMet      \* history: a call met a start under way or a process that was
              \* still ending, or a program was missing

procVars == <<wayvnc, websockify, vncRun, sockRun, vncDying, sockDying>>
vncVars == <<procVars, vncStarts, confTmp, idleTimer, pairs, viewers, vncMet>>

Running == wayvnc # 0                       \* status().running
Under(s) == vncStarts[s] \in {"prepare", "conf", "env"}
Parked(s, step) == vncStarts' = [vncStarts EXCEPT ![s] = step]

\* start(): with wayvnc in hand it only counts as traffic.
\* Seeded fault: without the idle timer.
VncStart_fault(s) ==
  /\ vncStarts[s] = "idle" /\ pairs < MaxSpawns
  /\ IF Running THEN idleTimer' = FALSE /\ Parked(s, "ok")
                ELSE UNCHANGED idleTimer /\ Parked(s, "prepare")
  /\ UNCHANGED <<procVars, confTmp, pairs, viewers, vncMet>>
VncStart(s) ==
  /\ vncStarts[s] = "idle" /\ pairs < MaxSpawns
  /\ IF Running THEN idleTimer' = TRUE /\ Parked(s, "ok")
                ELSE UNCHANGED idleTimer /\ Parked(s, "prepare")
  /\ UNCHANGED <<procVars, confTmp, pairs, viewers, vncMet>>

\* The directory, the password and the version are known: the configuration
\* is written to a file that all starts share, and renamed.
ConfigWritten(s) ==
  /\ vncStarts[s] = "prepare" /\ confTmp' = TRUE /\ Parked(s, "conf")
  /\ UNCHANGED <<procVars, idleTimer, pairs, viewers, vncMet>>
ConfigRenamed(s) ==
  /\ vncStarts[s] = "conf" /\ confTmp' = FALSE
  /\ Parked(s, IF confTmp THEN "env" ELSE "refused")
  /\ UNCHANGED <<procVars, idleTimer, pairs, viewers, vncMet>>

\* The environment is known: both programs are spawned, whatever happened
\* meanwhile.  For a missing program there is an error event and no exit
\* event, and the handle stays.
Spawned(s) ==
  /\ vncStarts[s] = "env" /\ pairs < MaxSpawns
  /\ pairs' = pairs + 1
  /\ wayvnc' = pairs + 1 /\ websockify' = pairs + 1
  /\ \E there \in {{pairs + 1}, {}}, socket \in {{pairs + 1}, {}} :
       /\ vncRun' = vncRun \cup there /\ sockRun' = sockRun \cup socket
       /\ vncMet' = (vncMet \/ vncRun \cup sockRun # {} \/ {} \in {there, socket}
                            \/ \E o \in VncSlots \ {s} : Under(o))
  /\ idleTimer' = TRUE
  /\ Parked(s, "settle")
  /\ UNCHANGED <<vncDying, sockDying, confTmp, viewers>>

\* 300 ms later: start() answers, or throws if wayvnc has gone.
Settles(s) ==
  /\ vncStarts[s] = "settle"
  /\ Parked(s, IF Running THEN "ok" ELSE "refused")
  /\ UNCHANGED <<procVars, confTmp, idleTimer, pairs, viewers, vncMet>>

Told(dying, run, handle) == dying \cup ({handle} \cap run)

\* The exit handlers clear the handles they find.  That of wayvnc also ends
\* websockify.
WayvncExits(n) ==
  /\ n \in vncRun
  /\ vncRun' = vncRun \ {n} /\ vncDying' = vncDying \ {n}
  /\ wayvnc' = 0
  /\ sockDying' = Told(sockDying, sockRun, websockify) /\ websockify' = 0
  /\ UNCHANGED <<sockRun, vncStarts, confTmp, idleTimer, pairs, viewers, vncMet>>
\* Clients lose their upstream with it: closeBoth().
Dropped == [v \in Viewers |-> IF viewers[v] = "open" THEN "none" ELSE viewers[v]]
WebsockifyExits(n) ==
  /\ n \in sockRun
  /\ sockRun' = sockRun \ {n} /\ sockDying' = sockDying \ {n}
  /\ websockify' = 0
  /\ viewers' = Dropped
  /\ UNCHANGED <<wayvnc, vncRun, vncDying, vncStarts, confTmp, idleTimer, pairs, vncMet>>

\* stop(): from the API, from the idle timer, and on a reload with vnc.enabled
\* off.
Stopping ==
  /\ vncDying' = Told(vncDying, vncRun, wayvnc) /\ wayvnc' = 0
  /\ sockDying' = Told(sockDying, sockRun, websockify) /\ websockify' = 0
  /\ idleTimer' = FALSE
  /\ vncMet' = (vncMet \/ \E s \in VncSlots : Under(s))
  /\ UNCHANGED <<vncRun, sockRun, vncStarts, confTmp, pairs, viewers>>
VncStop == Stopping
IdleTimerFires == idleTimer /\ Stopping

\* The proxy of /vnc/ws.  What the client sends before its upstream is open
\* waits; opening the upstream and every message count as traffic.
ViewerConnects(v) ==
  /\ viewers[v] = "none"
  /\ viewers' = [viewers EXCEPT ![v] = "connecting"] /\ idleTimer' = TRUE
  /\ UNCHANGED <<procVars, vncStarts, confTmp, pairs, vncMet>>
UpstreamOpens(v) ==
  /\ viewers[v] = "connecting" /\ sockRun # {}
  /\ viewers' = [viewers EXCEPT ![v] = "open"] /\ idleTimer' = TRUE
  /\ UNCHANGED <<procVars, vncStarts, confTmp, pairs, vncMet>>
ViewerMessage(v) ==
  /\ viewers[v] # "none" /\ idleTimer' = TRUE
  /\ UNCHANGED <<procVars, vncStarts, confTmp, pairs, viewers, vncMet>>
ViewerCloses(v) ==
  /\ viewers[v] # "none" /\ viewers' = [viewers EXCEPT ![v] = "none"]
  /\ UNCHANGED <<procVars, vncStarts, confTmp, idleTimer, pairs, vncMet>>

VncInit ==
  /\ wayvnc = 0 /\ websockify = 0
  /\ vncRun = {} /\ sockRun = {} /\ vncDying = {} /\ sockDying = {}
  /\ vncStarts = [s \in VncSlots |-> "idle"] /\ confTmp = FALSE
  /\ idleTimer = FALSE /\ pairs = 0
  /\ viewers = [v \in Viewers |-> "none"] /\ vncMet = FALSE

StartSteps(s) == ConfigWritten(s) \/ ConfigRenamed(s) \/ Spawned(s) \/ Settles(s)

VncCore ==
  \/ \E s \in VncSlots : StartSteps(s)
  \/ \E n \in vncRun : WayvncExits(n)
  \/ \E n \in sockRun : WebsockifyExits(n)
  \/ IdleTimerFires
  \/ \E v \in Viewers :
       ViewerConnects(v) \/ UpstreamOpens(v) \/ ViewerMessage(v) \/ ViewerCloses(v)

------------------------------------------------------------------------------
(* Properties *)

\* Both programs keep the promise of OneChild while no call met a start under
\* way or a process that was still ending, and no program was missing.
Server == INSTANCE OneChild
  WITH Kids <- 1..MaxSpawns, Nobody <- 0, kids <- vncRun \ vncDying,
       held <- wayvnc, careful <- ~vncMet
Socket == INSTANCE OneChild
  WITH Kids <- 1..MaxSpawns, Nobody <- 0, kids <- sockRun \ sockDying,
       held <- websockify, careful <- ~vncMet
VncOneChild == Server!Spec /\ Socket!Spec

\* VncSection.tsx: "Auto-stops after 15 min idle" - what runs has its idle
\* timer armed, whoever asked for it and whatever was watched in between.
RunningIsTimed == Running => idleTimer
==============================================================================
