---------------------------- MODULE KioskLifecycle ----------------------------
(***************************************************************************)
(* The watchdog of frame-core (core/src/system/kioskLifecycle.ts) that     *)
(* restarts the kiosk session when the shell page is lost, and the display *)
(* cycle it runs once after boot.                                          *)
(*                                                                         *)
(* Time is counted in ticks.  A timer is the number of ticks it has left;  *)
(* lastHeartbeatAt and lastRestartAt are kept as the age of the heartbeat  *)
(* (up to the timeout) and what is left of the cooldown.  A tick does not  *)
(* pass over a due timer.  The watchdog is enabled, as it is unless        *)
(* FRAME_KIOSK_WATCHDOG=0.                                                 *)
(***************************************************************************)
EXTENDS Integers

CONSTANTS
  Grace,            \* FRAME_KIOSK_DISCONNECT_GRACE_SEC
  HeartbeatTimeout, \* FRAME_KIOSK_HEARTBEAT_TIMEOUT_SEC
  Cooldown,         \* FRAME_KIOSK_RESTART_COOLDOWN_SEC
  ExitDelay,        \* the 2 s of chromiumExited
  FailDelay,        \* the 10 s of screenShowFailed
  BootDelay         \* FRAME_BOOT_DISPLAY_CYCLE_DELAY_SEC

ASSUME KioskLifecycleAssumption ==
  /\ Grace \in Nat /\ HeartbeatTimeout \in Nat /\ Cooldown \in Nat \ {0}
  /\ ExitDelay \in Nat /\ FailDelay \in Nat /\ BootDelay \in Nat

VARIABLES
  sink,            \* the bus has a shell socket
  shellOnline,
  everConnected,   \* shellEverConnected
  rendered,        \* activeScreen.renderedByShell
  hbAge,           \* ticks since lastHeartbeatAt
  cool,            \* ticks of cooldown left since lastRestartAt
  disconnectTimer,
  heartbeatTimer,
  restart,         \* restartTimer with its reason
  stopped,
  bootCycle,       \* idle, scheduled, off, on, done
  bootTimer,
  display,         \* what displayPower left the display at
  powerFailed,     \* history: a displayPower call of the cycle rejected
  served           \* history: reason of the restart run since the last sign
                   \* of life of the shell page

watch == <<sink, shellOnline, everConnected, rendered, hbAge>>
boot == <<bootCycle, bootTimer, display, powerFailed>>
vars == <<watch, cool, disconnectTimer, heartbeatTimer, restart, stopped,
          boot, served>>

NoTimer == -1
Reasons == {"shell_disconnected", "shell_heartbeat_stale", "chromium_exit",
            "screen_show_failed"}
NoReason == "none"
NoRestart == [left |-> NoTimer, reason |-> NoReason]

Larger(a, b) == IF a > b THEN a ELSE b

\* shouldWatchHeartbeat
ShouldWatch(halted, online, byShell) == ~halted /\ online /\ byShell

\* scheduleHeartbeatWatch: the timer replaces the one before.
HeartbeatWatch(halted, online, byShell, age) ==
  IF ShouldWatch(halted, online, byShell) THEN HeartbeatTimeout - age
  ELSE NoTimer

\* Seeded fault: the cooldown is ignored.
ScheduleRestart_eager(reason, delay) ==
  IF restart # NoRestart \/ stopped THEN restart
  ELSE [left |-> delay, reason |-> reason]

\* scheduleKioskRestart: a restart already pending keeps its reason and time.
ScheduleRestart(reason, delay) ==
  IF restart # NoRestart \/ stopped THEN restart
  ELSE [left |-> Larger(delay, cool), reason |-> reason]

\* The shouldRun argument of each caller, evaluated when the timer fires.
ShouldRun(reason) ==
  /\ reason = "shell_disconnected" => ~shellOnline
  /\ reason = "shell_heartbeat_stale" =>
       ShouldWatch(stopped, shellOnline, rendered) /\ hbAge = HeartbeatTimeout

------------------------------------------------------------------------------
(* Events of the shell bus, the scheduler, CDP and the process *)

ScheduleBootDisplayCycle ==
  /\ bootCycle' = IF bootCycle = "idle" THEN "scheduled" ELSE bootCycle
  /\ bootTimer' = IF bootCycle = "idle" THEN BootDelay ELSE bootTimer
  /\ UNCHANGED <<display, powerFailed>>

\* Seeded fault: a reconnecting shell leaves the pending recovery in place.
ShellConnected_pending ==
  /\ sink' = TRUE /\ stopped' = FALSE /\ shellOnline' = TRUE
  /\ everConnected' = TRUE /\ hbAge' = 0 /\ served' = NoReason
  /\ heartbeatTimer' = HeartbeatWatch(FALSE, TRUE, rendered, 0)
  /\ ScheduleBootDisplayCycle
  /\ UNCHANGED <<rendered, cool, disconnectTimer, restart>>

ShellConnected ==
  /\ sink' = TRUE /\ stopped' = FALSE /\ shellOnline' = TRUE
  /\ everConnected' = TRUE /\ hbAge' = 0 /\ served' = NoReason
  /\ disconnectTimer' = NoTimer
  /\ restart' = NoRestart
  /\ heartbeatTimer' = HeartbeatWatch(FALSE, TRUE, rendered, 0)
  /\ ScheduleBootDisplayCycle
  /\ UNCHANGED <<rendered, cool>>

\* The bus reports a disconnect only for the socket it holds.
ShellDisconnected ==
  /\ sink
  /\ sink' = FALSE /\ shellOnline' = FALSE
  /\ heartbeatTimer' = NoTimer
  /\ disconnectTimer' = Grace
  /\ UNCHANGED <<everConnected, rendered, hbAge, cool, restart, stopped, boot,
                 served>>

ShellHeartbeat ==
  /\ sink
  /\ shellOnline' = TRUE /\ everConnected' = TRUE /\ hbAge' = 0
  /\ served' = NoReason
  /\ heartbeatTimer' = HeartbeatWatch(stopped, TRUE, rendered, 0)
  /\ UNCHANGED <<sink, rendered, cool, disconnectTimer, restart, stopped,
                 boot>>

\* Seeded fault: the watch is not set up again for the new screen.
ActiveScreenChanged_unwatched(byShell) ==
  /\ rendered' = byShell
  /\ heartbeatTimer' = IF byShell THEN heartbeatTimer ELSE NoTimer
  /\ UNCHANGED <<sink, shellOnline, everConnected, hbAge, cool,
                 disconnectTimer, restart, stopped, boot, served>>

ActiveScreenChanged(byShell) ==
  /\ rendered' = byShell
  /\ heartbeatTimer' = HeartbeatWatch(stopped, shellOnline, byShell, hbAge)
  /\ UNCHANGED <<sink, shellOnline, everConnected, hbAge, cool,
                 disconnectTimer, restart, stopped, boot, served>>

\* Seeded fault: the heartbeat of a page that is gone is still watched.
ChromiumExited_watched ==
  /\ ~stopped
  /\ shellOnline' = FALSE
  /\ restart' = ScheduleRestart("chromium_exit", ExitDelay)
  /\ UNCHANGED <<sink, everConnected, rendered, hbAge, cool, disconnectTimer,
                 heartbeatTimer, stopped, boot, served>>

ChromiumExited ==
  /\ ~stopped
  /\ shellOnline' = FALSE
  /\ heartbeatTimer' = NoTimer
  /\ restart' = ScheduleRestart("chromium_exit", ExitDelay)
  /\ UNCHANGED <<sink, everConnected, rendered, hbAge, cool, disconnectTimer,
                 stopped, boot, served>>

ScreenShowFailed ==
  /\ ~stopped
  /\ restart' = ScheduleRestart("screen_show_failed", FailDelay)
  /\ UNCHANGED <<watch, cool, disconnectTimer, heartbeatTimer, stopped, boot,
                 served>>

\* The shutdown handler.  A display cycle under way goes on.
Stop ==
  /\ stopped' = TRUE
  /\ bootTimer' = NoTimer /\ disconnectTimer' = NoTimer
  /\ heartbeatTimer' = NoTimer /\ restart' = NoRestart
  /\ UNCHANGED <<watch, cool, bootCycle, display, powerFailed, served>>

------------------------------------------------------------------------------
(* Timers *)

DisconnectTimerFires ==
  /\ disconnectTimer = 0
  /\ disconnectTimer' = NoTimer
  /\ restart' = IF shellOnline THEN restart
                ELSE ScheduleRestart("shell_disconnected", 0)
  /\ UNCHANGED <<watch, cool, heartbeatTimer, stopped, boot, served>>

HeartbeatTimerFires ==
  /\ heartbeatTimer = 0
  /\ \/ /\ hbAge = HeartbeatTimeout
        /\ heartbeatTimer' = NoTimer
        /\ restart' = ScheduleRestart("shell_heartbeat_stale", 0)
     \/ /\ hbAge < HeartbeatTimeout
        /\ heartbeatTimer' =
             HeartbeatWatch(stopped, shellOnline, rendered, hbAge)
        /\ UNCHANGED restart
  /\ UNCHANGED <<watch, cool, disconnectTimer, stopped, boot, served>>

\* Whether the restart command succeeds is only logged.
RestartTimerFires ==
  /\ restart.left = 0
  /\ restart' = NoRestart
  /\ cool' = IF ShouldRun(restart.reason) THEN Cooldown ELSE cool
  /\ served' = IF ShouldRun(restart.reason) THEN restart.reason ELSE served
  /\ UNCHANGED <<watch, disconnectTimer, heartbeatTimer, stopped, boot>>

BootTimerFires ==
  /\ bootTimer = 0
  /\ bootTimer' = NoTimer
  /\ bootCycle' = "off"
  /\ UNCHANGED <<watch, cool, disconnectTimer, heartbeatTimer, restart,
                 stopped, display, powerFailed, served>>

\* Seeded fault: the display is switched on first and off last.
DisplayAnswered_swapped(ok) ==
  /\ bootCycle \in {"off", "on"}
  /\ display' = IF ~ok THEN display ELSE IF bootCycle = "on" THEN "off" ELSE "on"
  /\ bootCycle' = IF ok /\ bootCycle = "off" THEN "on" ELSE "done"
  /\ powerFailed' = (powerFailed \/ ~ok)
  /\ UNCHANGED <<watch, cool, disconnectTimer, heartbeatTimer, restart,
                 stopped, bootTimer, served>>

\* A displayPower call of the cycle ends; an error ends the cycle.  The wait
\* between the two calls is part of the second.
DisplayAnswered(ok) ==
  /\ bootCycle \in {"off", "on"}
  /\ display' = IF ok THEN bootCycle ELSE display
  /\ bootCycle' = IF ok /\ bootCycle = "off" THEN "on" ELSE "done"
  /\ powerFailed' = (powerFailed \/ ~ok)
  /\ UNCHANGED <<watch, cool, disconnectTimer, heartbeatTimer, restart,
                 stopped, bootTimer, served>>

Timers == {disconnectTimer, heartbeatTimer, restart.left, bootTimer}
Later(t) == IF t = NoTimer THEN NoTimer ELSE t - 1

Tick ==
  /\ 0 \notin Timers
  /\ disconnectTimer' = Later(disconnectTimer)
  /\ heartbeatTimer' = Later(heartbeatTimer)
  /\ restart' = [restart EXCEPT !.left = Later(@)]
  /\ bootTimer' = Later(bootTimer)
  /\ hbAge' = IF hbAge < HeartbeatTimeout THEN hbAge + 1 ELSE hbAge
  /\ cool' = IF cool > 0 THEN cool - 1 ELSE 0
  /\ UNCHANGED <<sink, shellOnline, everConnected, rendered, stopped,
                 bootCycle, display, powerFailed, served>>

Init ==
  /\ sink = FALSE /\ shellOnline = FALSE /\ everConnected = FALSE
  /\ rendered = TRUE /\ hbAge = 0 /\ cool = 0
  /\ disconnectTimer = NoTimer /\ heartbeatTimer = NoTimer
  /\ restart = NoRestart /\ stopped = FALSE
  /\ bootCycle = "idle" /\ bootTimer = NoTimer /\ display = "on"
  /\ powerFailed = FALSE /\ served = NoReason

Fires ==
  \/ DisconnectTimerFires \/ HeartbeatTimerFires \/ RestartTimerFires
  \/ BootTimerFires

Next ==
  \/ ShellConnected \/ ShellDisconnected \/ ShellHeartbeat
  \/ \E byShell \in BOOLEAN : ActiveScreenChanged(byShell)
  \/ ChromiumExited \/ ScreenShowFailed \/ Stop
  \/ Fires
  \/ \E ok \in BOOLEAN : DisplayAnswered(ok)
  \/ Tick

Spec == Init /\ [][Next]_vars

------------------------------------------------------------------------------
(* Properties *)

\* Every variable has its type; the heartbeat is watched only while it means
\* something: page online, screen rendered by it, process not stopping.
TypeOK ==
  /\ sink \in BOOLEAN /\ shellOnline \in BOOLEAN /\ everConnected \in BOOLEAN
  /\ rendered \in BOOLEAN /\ stopped \in BOOLEAN /\ powerFailed \in BOOLEAN
  /\ hbAge \in 0..HeartbeatTimeout /\ cool \in 0..Cooldown
  /\ disconnectTimer \in Nat \cup {NoTimer}
  /\ heartbeatTimer \in 0..HeartbeatTimeout \cup {NoTimer}
  /\ restart \in [left: Nat, reason: Reasons] \cup {NoRestart}
  /\ bootTimer \in Nat \cup {NoTimer}
  /\ bootCycle \in {"idle", "scheduled", "off", "on", "done"}
  /\ display \in {"on", "off"} /\ served \in Reasons \cup {NoReason}
  /\ heartbeatTimer # NoTimer => ShouldWatch(stopped, shellOnline, rendered)

\* Two restarts of the kiosk are at least the cooldown apart, whatever asked
\* for them and however often timers were set and cleared in between.
CooldownKept == [][cool' > cool => cool = 0]_vars

\* The watchdog does not restart a kiosk whose shell page is connected and
\* heard from in time: a restart for a lost or silent shell finds it so.
HealthyShellSpared ==
  [][ cool' > cool
      /\ restart.reason \in {"shell_disconnected", "shell_heartbeat_stale"}
      => ~sink \/ hbAge = HeartbeatTimeout ]_vars

\* A screen the shell page renders is never left unwatched: a heartbeat timer
\* is running, or a restart is pending, or one has run without a sign of life.
RenderedScreenWatched ==
  ShouldWatch(stopped, shellOnline, rendered) =>
    heartbeatTimer # NoTimer \/ restart # NoRestart \/ served # NoReason

\* The boot display cycle leaves the display on unless a command failed.
DisplayBackOn == display = "off" => bootCycle = "on" \/ powerFailed
==============================================================================
