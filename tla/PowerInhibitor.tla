---------------------------- MODULE PowerInhibitor ----------------------------
(***************************************************************************)
(* The systemd-inhibit child that keeps the device awake                   *)
(* (core/src/system/powerInhibitor.ts).  main() awaits the first start();  *)
(* later ones come from the restart timer, and shutdown stops the          *)
(* inhibitor and ends the process after one more await.  A child keeps     *)
(* running when it is told to end, until its exit event.                   *)
(***************************************************************************)
EXTENDS Integers, FiniteSets

CONSTANTS
  MaxKids,    \* bound: children started
  Enabled     \* FRAME_POWER_INHIBIT is not "0"

VARIABLES
  child,      \* child: a number, 0 when undefined
  running,    \* the children that run
  dying,      \* those of them that were told to end
  restartTimer,   \* restartTimer is set
  checking,   \* a start() is parked at commandExists()
  inhibitStopped, \* stopped
  spawned,    \* bound: children so far
  met,        \* history: stop() met a start() that was under way
  failed      \* history: spawning failed, or the command is missing

inhibitorVars ==
  <<child, running, dying, restartTimer, checking, inhibitStopped, spawned, met, failed>>

Alive == running \ dying

\* Called by main() at boot and by the timer: nothing to do with a child in hand.
Start ==
  /\ inhibitStopped' = FALSE
  /\ checking' = (Enabled /\ child = 0)

\* commandExists() answered: the child is spawned without another look at
\* `stopped` or `child`.  A spawn that fails reports an error event, which
\* leaves no child and sets no timer.
Missing ==
  /\ checking /\ checking' = FALSE /\ failed' = TRUE
  /\ UNCHANGED <<child, running, dying, restartTimer, inhibitStopped, spawned, met>>
Spawns ==
  /\ checking /\ spawned < MaxKids
  /\ checking' = FALSE
  /\ spawned' = spawned + 1
  /\ child' = spawned + 1 /\ running' = running \cup {spawned + 1}
  /\ UNCHANGED <<dying, restartTimer, inhibitStopped, met, failed>>
SpawnFails ==
  /\ checking /\ checking' = FALSE
  /\ child' = 0 /\ failed' = TRUE
  /\ UNCHANGED <<running, dying, restartTimer, inhibitStopped, spawned, met>>

\* Seeded fault: the handler does not forget the child.
Exited_fault(p) ==
  /\ p \in running
  /\ running' = running \ {p} /\ dying' = dying \ {p}
  /\ restartTimer' = ~inhibitStopped
  /\ UNCHANGED <<child, checking, inhibitStopped, spawned, met, failed>>
\* The exit handler: it forgets the child it finds, and unless the inhibitor
\* was stopped a restart follows in 30 s.
Exited(p) ==
  /\ p \in running
  /\ running' = running \ {p} /\ dying' = dying \ {p}
  /\ child' = 0
  /\ restartTimer' = (restartTimer \/ ~inhibitStopped)
  /\ UNCHANGED <<checking, inhibitStopped, spawned, met, failed>>

\* The restart timer calls start().
RespawnTimerFires ==
  /\ restartTimer /\ restartTimer' = FALSE
  /\ Start
  /\ UNCHANGED <<child, running, dying, spawned, met, failed>>

\* stop(), called at shutdown, which can be asked for once main() has started
\* everything.  The process ends after cdp.stop(), and
\* systemd ends what is left of it.
StopInhibitor ==
  /\ ~inhibitStopped /\ ~(checking /\ spawned = 0)
  /\ inhibitStopped' = TRUE /\ restartTimer' = FALSE
  /\ child' = 0
  /\ dying' = IF child = 0 THEN dying ELSE dying \cup ({child} \cap running)
  /\ met' = (met \/ checking)
  /\ UNCHANGED <<running, checking, spawned, failed>>

InhibitorInit ==
  /\ child = 0 /\ running = {} /\ dying = {} /\ restartTimer = FALSE
  /\ checking = Enabled /\ inhibitStopped = FALSE
  /\ spawned = 0 /\ met = FALSE /\ failed = FALSE

CommandAnswered == Missing \/ Spawns \/ SpawnFails

InhibitorNext ==
  \/ CommandAnswered \/ RespawnTimerFires \/ StopInhibitor
  \/ \E p \in running : Exited(p)

InhibitorSpec == InhibitorInit /\ [][InhibitorNext]_inhibitorVars

\* Timers are called back and commands answer.
InhibitorFairness ==
  WF_inhibitorVars(RespawnTimerFires) /\ WF_inhibitorVars(CommandAnswered)

------------------------------------------------------------------------------
(* Properties *)

\* The inhibitor keeps the promise of OneChild.
Abstract == INSTANCE OneChild
  WITH Kids <- 1..MaxKids, Nobody <- 0, kids <- Alive,
       held <- child, careful <- ~met
ImplementsOneChild == Abstract!Spec

\* Sleep stays blocked: as long as the core runs and no spawn fails, a child
\* that is gone is followed by another one.
InhibitorReturns ==
  (~inhibitStopped /\ restartTimer)
    ~> (Alive # {} \/ inhibitStopped \/ failed \/ spawned = MaxKids)
==============================================================================
