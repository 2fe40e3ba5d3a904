-------------------------- MODULE KioskLifecycleProofs --------------------------
(***************************************************************************)
(* Proofs about KioskLifecycle, for every choice of its delays.            *)
(***************************************************************************)
EXTENDS KioskLifecycle, TLAPS

(* The inductive invariant, by parts.                                      *)

\* A pending restart waits out the cooldown.
RestartCool == restart # NoRestart => restart.left >= cool

\* Whatever is set up for a lost shell is gone when the shell is back.
LostIsLost ==
  disconnectTimer # NoTimer \/ restart.reason = "shell_disconnected" => ~sink

OnlineHasSink == shellOnline => sink

\* Only a stale heartbeat is without a timer.
FreshIsWatched ==
  ShouldWatch(stopped, shellOnline, rendered) =>
    heartbeatTimer # NoTimer \/ hbAge = HeartbeatTimeout

IInv ==
  /\ TypeOK /\ RestartCool /\ LostIsLost /\ OnlineHasSink /\ FreshIsWatched
  /\ RenderedScreenWatched

------------------------------------------------------------------------------

\* An age or a delay of zero is in range.
LEMMA ZeroInRange == 0 \in 0..HeartbeatTimeout /\ 0 \in 0..Cooldown
BY KioskLifecycleAssumption DEF KioskLifecycleAssumption

\* The initial state satisfies the inductive invariant.
LEMMA InitInv == Init => IInv
<1>. USE KioskLifecycleAssumption DEF KioskLifecycleAssumption
<1>. SUFFICES ASSUME Init PROVE IInv
  OBVIOUS
<1>1. TypeOK
  BY ZeroInRange DEF Init, TypeOK, NoTimer, NoRestart, NoReason, ShouldWatch
<1>2. RestartCool /\ LostIsLost /\ OnlineHasSink
  BY DEF Init, RestartCool, LostIsLost, OnlineHasSink, NoTimer, NoRestart, NoReason
<1>3. FreshIsWatched /\ RenderedScreenWatched
  BY DEF Init, FreshIsWatched, RenderedScreenWatched, ShouldWatch
<1>. QED
  BY <1>1, <1>2, <1>3 DEF IInv

\* scheduleHeartbeatWatch sets a timer within the timeout exactly when the
\* heartbeat is to be watched.
LEMMA WatchType ==
  ASSUME NEW halted \in BOOLEAN, NEW online \in BOOLEAN, NEW byShell \in BOOLEAN,
         NEW age \in 0..HeartbeatTimeout
  PROVE  /\ HeartbeatWatch(halted, online, byShell, age)
              \in 0..HeartbeatTimeout \cup {NoTimer}
         /\ HeartbeatWatch(halted, online, byShell, age) # NoTimer
              <=> ShouldWatch(halted, online, byShell)
BY KioskLifecycleAssumption DEF KioskLifecycleAssumption, HeartbeatWatch, NoTimer

\* scheduleKioskRestart keeps a pending restart and otherwise waits out the
\* cooldown; a process that is not stopping has a restart pending afterwards.
LEMMA RestartFacts ==
  ASSUME TypeOK, RestartCool, NEW r \in Reasons, NEW d \in Nat
  PROVE  LET new == ScheduleRestart(r, d)
         IN  /\ new \in [left: Nat, reason: Reasons] \cup {NoRestart}
             /\ new # NoRestart => new.left >= cool
             /\ ~stopped => new # NoRestart
             /\ new.reason \in {restart.reason, r}
<1>1. CASE restart # NoRestart \/ stopped
  BY <1>1 DEF ScheduleRestart, TypeOK, RestartCool
<1>2. CASE restart = NoRestart /\ ~stopped
  <2>1. cool \in Nat
    BY KioskLifecycleAssumption DEF KioskLifecycleAssumption, TypeOK
  <2>2. Larger(d, cool) \in Nat /\ Larger(d, cool) >= cool
    BY <2>1 DEF Larger
  <2>3. ScheduleRestart(r, d) = [left |-> Larger(d, cool), reason |-> r]
    BY <1>2 DEF ScheduleRestart
  <2>4. r # NoReason
    BY DEF Reasons, NoReason
  <2>5. ScheduleRestart(r, d) # NoRestart
    BY <2>3, <2>4 DEF NoRestart
  <2>. QED
    BY <2>2, <2>3, <2>5
<1>. QED
  BY <1>1, <1>2

\* Every step preserves the inductive invariant.
LEMMA StepInv == IInv /\ [Next]_vars => IInv'
<1>. USE KioskLifecycleAssumption DEF KioskLifecycleAssumption
<1>. SUFFICES ASSUME IInv, [Next]_vars PROVE IInv'
  OBVIOUS
<1>0. /\ TypeOK /\ RestartCool /\ LostIsLost /\ OnlineHasSink
      /\ FreshIsWatched /\ RenderedScreenWatched
  BY DEF IInv
<1>1. CASE ShellConnected
  <2>1. heartbeatTimer' \in 0..HeartbeatTimeout \cup {NoTimer}
        /\ (heartbeatTimer' # NoTimer <=> ShouldWatch(FALSE, TRUE, rendered))
    BY <1>0, <1>1, WatchType, ZeroInRange DEF ShellConnected, TypeOK
  <2>2. TypeOK'
    BY <1>0, <1>1, <2>1, ZeroInRange
    DEF TypeOK, ShellConnected, ScheduleBootDisplayCycle, NoTimer, NoReason
  <2>3. RestartCool' /\ LostIsLost' /\ OnlineHasSink'
    BY <1>1 DEF RestartCool, LostIsLost, OnlineHasSink, ShellConnected,
                NoRestart, NoReason
  <2>4. FreshIsWatched' /\ RenderedScreenWatched'
    BY <1>1, <2>1 DEF FreshIsWatched, RenderedScreenWatched, ShellConnected
  <2>. QED
    BY <2>2, <2>3, <2>4 DEF IInv
<1>2. CASE ShellDisconnected
  <2>1. TypeOK'
    BY <1>0, <1>2 DEF TypeOK, ShellDisconnected, boot, ShouldWatch
  <2>2. RestartCool' /\ LostIsLost' /\ OnlineHasSink'
    BY <1>0, <1>2 DEF RestartCool, LostIsLost, OnlineHasSink, ShellDisconnected
  <2>3. FreshIsWatched' /\ RenderedScreenWatched'
    BY <1>2 DEF FreshIsWatched, RenderedScreenWatched, ShellDisconnected,
                ShouldWatch
  <2>. QED
    BY <2>1, <2>2, <2>3 DEF IInv
<1>3. CASE ShellHeartbeat
  <2>1. heartbeatTimer' \in 0..HeartbeatTimeout \cup {NoTimer}
        /\ (heartbeatTimer' # NoTimer <=> ShouldWatch(stopped, TRUE, rendered))
    BY <1>0, <1>3, WatchType, ZeroInRange DEF ShellHeartbeat, TypeOK
  <2>2. TypeOK'
    BY <1>0, <1>3, <2>1, ZeroInRange DEF TypeOK, ShellHeartbeat, boot, NoReason
  <2>3. RestartCool' /\ LostIsLost' /\ OnlineHasSink'
    BY <1>0, <1>3 DEF RestartCool, LostIsLost, OnlineHasSink, ShellHeartbeat
  <2>4. FreshIsWatched' /\ RenderedScreenWatched'
    BY <1>3, <2>1 DEF FreshIsWatched, RenderedScreenWatched, ShellHeartbeat
  <2>. QED
    BY <2>2, <2>3, <2>4 DEF IInv
<1>4. ASSUME NEW byShell \in BOOLEAN, ActiveScreenChanged(byShell) PROVE IInv'
  <2>1. heartbeatTimer' \in 0..HeartbeatTimeout \cup {NoTimer}
        /\ (heartbeatTimer' # NoTimer
              <=> ShouldWatch(stopped, shellOnline, byShell))
    BY <1>0, <1>4, WatchType DEF ActiveScreenChanged, TypeOK
  <2>2. TypeOK'
    BY <1>0, <1>4, <2>1 DEF TypeOK, ActiveScreenChanged, boot
  <2>3. RestartCool' /\ LostIsLost' /\ OnlineHasSink'
    BY <1>0, <1>4
    DEF RestartCool, LostIsLost, OnlineHasSink, ActiveScreenChanged
  <2>4. FreshIsWatched' /\ RenderedScreenWatched'
    BY <1>4, <2>1
    DEF FreshIsWatched, RenderedScreenWatched, ActiveScreenChanged
  <2>. QED
    BY <2>2, <2>3, <2>4 DEF IInv
<1>5. CASE ChromiumExited
  <2>1. /\ restart' \in [left: Nat, reason: Reasons] \cup {NoRestart}
        /\ restart' # NoRestart => restart'.left >= cool
        /\ restart'.reason \in {restart.reason, "chromium_exit"}
    BY <1>0, <1>5, RestartFacts DEF ChromiumExited, Reasons
  <2>2. TypeOK'
    BY <1>0, <1>5, <2>1 DEF TypeOK, ChromiumExited, boot, ShouldWatch
  <2>3. RestartCool' /\ LostIsLost' /\ OnlineHasSink'
    BY <1>0, <1>5, <2>1
    DEF RestartCool, LostIsLost, OnlineHasSink, ChromiumExited
  <2>4. FreshIsWatched' /\ RenderedScreenWatched'
    BY <1>5 DEF FreshIsWatched, RenderedScreenWatched, ChromiumExited,
                ShouldWatch
  <2>. QED
    BY <2>2, <2>3, <2>4 DEF IInv
<1>6. CASE ScreenShowFailed
  <2>1. /\ restart' \in [left: Nat, reason: Reasons] \cup {NoRestart}
        /\ restart' # NoRestart => restart'.left >= cool
        /\ restart' # NoRestart
        /\ restart'.reason \in {restart.reason, "screen_show_failed"}
    BY <1>0, <1>6, RestartFacts DEF ScreenShowFailed, Reasons
  <2>2. TypeOK'
    BY <1>0, <1>6, <2>1 DEF TypeOK, ScreenShowFailed, watch, boot, ShouldWatch
  <2>3. RestartCool' /\ LostIsLost' /\ OnlineHasSink'
    BY <1>0, <1>6, <2>1
    DEF RestartCool, LostIsLost, OnlineHasSink, ScreenShowFailed, watch
  <2>4. FreshIsWatched' /\ RenderedScreenWatched'
    BY <1>0, <1>6, <2>1
    DEF FreshIsWatched, RenderedScreenWatched, ScreenShowFailed, watch,
        ShouldWatch
  <2>. QED
    BY <2>2, <2>3, <2>4 DEF IInv
<1>7. CASE Stop
  <2>1. TypeOK'
    BY <1>0, <1>7 DEF TypeOK, Stop, watch, ShouldWatch
  <2>2. RestartCool' /\ LostIsLost' /\ OnlineHasSink'
    BY <1>0, <1>7 DEF RestartCool, LostIsLost, OnlineHasSink, Stop, watch,
                      NoRestart, NoReason
  <2>3. FreshIsWatched' /\ RenderedScreenWatched'
    BY <1>7 DEF FreshIsWatched, RenderedScreenWatched, Stop, ShouldWatch
  <2>. QED
    BY <2>1, <2>2, <2>3 DEF IInv
<1>8. CASE DisconnectTimerFires
  <2>1. ~sink
    BY <1>0, <1>8 DEF DisconnectTimerFires, LostIsLost, NoTimer
  <2>2. /\ restart' \in [left: Nat, reason: Reasons] \cup {NoRestart}
        /\ restart' # NoRestart => restart'.left >= cool
        /\ restart # NoRestart => restart' # NoRestart
    BY <1>0, <1>8, RestartFacts
    DEF DisconnectTimerFires, Reasons, TypeOK, RestartCool, ScheduleRestart
  <2>3. TypeOK'
    BY <1>0, <1>8, <2>2
    DEF TypeOK, DisconnectTimerFires, watch, boot, ShouldWatch
  <2>4. RestartCool' /\ LostIsLost' /\ OnlineHasSink'
    BY <1>0, <1>8, <2>1, <2>2
    DEF RestartCool, LostIsLost, OnlineHasSink, DisconnectTimerFires, watch
  <2>5. FreshIsWatched' /\ RenderedScreenWatched'
    BY <1>0, <1>8, <2>2
    DEF FreshIsWatched, RenderedScreenWatched, DisconnectTimerFires, watch,
        ShouldWatch
  <2>. QED
    BY <2>3, <2>4, <2>5 DEF IInv
<1>9. CASE HeartbeatTimerFires
  <2>1. ShouldWatch(stopped, shellOnline, rendered) /\ ~stopped
    BY <1>0, <1>9 DEF HeartbeatTimerFires, TypeOK, ShouldWatch, NoTimer
  <2>2. CASE hbAge = HeartbeatTimeout
    <3>1. /\ restart' = ScheduleRestart("shell_heartbeat_stale", 0)
          /\ heartbeatTimer' = NoTimer
      BY <1>0, <1>9, <2>2 DEF HeartbeatTimerFires, TypeOK
    <3>2. /\ restart' \in [left: Nat, reason: Reasons] \cup {NoRestart}
          /\ restart' # NoRestart => restart'.left >= cool
          /\ restart' # NoRestart
          /\ restart'.reason \in {restart.reason, "shell_heartbeat_stale"}
      BY <1>0, <2>1, <3>1, RestartFacts DEF Reasons
    <3>3. TypeOK'
      BY <1>0, <1>9, <3>1, <3>2 DEF TypeOK, HeartbeatTimerFires, watch, boot
    <3>4. RestartCool' /\ LostIsLost' /\ OnlineHasSink'
      BY <1>0, <1>9, <3>2
      DEF RestartCool, LostIsLost, OnlineHasSink, HeartbeatTimerFires, watch
    <3>5. FreshIsWatched' /\ RenderedScreenWatched'
      BY <1>9, <2>2, <3>2
      DEF FreshIsWatched, RenderedScreenWatched, HeartbeatTimerFires, watch
    <3>. QED
      BY <3>3, <3>4, <3>5 DEF IInv
  <2>3. CASE hbAge # HeartbeatTimeout
    <3>1. /\ restart' = restart
          /\ heartbeatTimer' =
               HeartbeatWatch(stopped, shellOnline, rendered, hbAge)
      BY <1>9, <2>3 DEF HeartbeatTimerFires
    <3>2. /\ heartbeatTimer' \in 0..HeartbeatTimeout \cup {NoTimer}
          /\ heartbeatTimer' # NoTimer
      BY <1>0, <2>1, <3>1, WatchType DEF TypeOK
    <3>3. TypeOK'
      BY <1>0, <1>9, <2>1, <3>1, <3>2
      DEF TypeOK, HeartbeatTimerFires, watch, boot, ShouldWatch
    <3>4. RestartCool' /\ LostIsLost' /\ OnlineHasSink'
      BY <1>0, <1>9, <3>1
      DEF RestartCool, LostIsLost, OnlineHasSink, HeartbeatTimerFires, watch
    <3>5. FreshIsWatched' /\ RenderedScreenWatched'
      BY <3>2 DEF FreshIsWatched, RenderedScreenWatched
    <3>. QED
      BY <3>3, <3>4, <3>5 DEF IInv
  <2>. QED
    BY <2>2, <2>3
<1>10. CASE RestartTimerFires
  <2>1. restart.reason \in Reasons
    BY <1>0, <1>10 DEF RestartTimerFires, TypeOK, NoRestart, NoTimer
  <2>2. TypeOK'
    BY <1>0, <1>10, <2>1 DEF TypeOK, RestartTimerFires, watch, boot, ShouldWatch
  <2>3. RestartCool' /\ LostIsLost' /\ OnlineHasSink'
    BY <1>0, <1>10 DEF RestartCool, LostIsLost, OnlineHasSink,
                       RestartTimerFires, watch, NoRestart, NoReason
  <2>4. FreshIsWatched'
    BY <1>0, <1>10 DEF FreshIsWatched, RestartTimerFires, watch, ShouldWatch
  <2>5. RenderedScreenWatched'
    <3>1. CASE ShouldRun(restart.reason)
      BY <1>10, <2>1, <3>1 DEF RenderedScreenWatched, RestartTimerFires,
                               Reasons, NoReason
    <3>2. CASE ~ShouldRun(restart.reason)
      <4>1. CASE restart.reason = "shell_disconnected"
        BY <1>0, <3>2, <4>1 DEF ShouldRun, LostIsLost, OnlineHasSink
      <4>2. CASE restart.reason # "shell_disconnected"
        BY <1>0, <1>10, <3>2, <4>2
        DEF ShouldRun, FreshIsWatched, RenderedScreenWatched,
            RestartTimerFires, watch, ShouldWatch
      <4>. QED
        BY <4>1, <4>2
    <3>. QED
      BY <3>1, <3>2
  <2>. QED
    BY <2>2, <2>3, <2>4, <2>5 DEF IInv
<1>11. CASE BootTimerFires
  <2>1. TypeOK'
    BY <1>0, <1>11 DEF TypeOK, BootTimerFires, watch, ShouldWatch
  <2>. QED
    BY <1>0, <1>11, <2>1
    DEF IInv, RestartCool, LostIsLost, OnlineHasSink, FreshIsWatched,
        RenderedScreenWatched, BootTimerFires, watch, ShouldWatch
<1>12. ASSUME NEW ok \in BOOLEAN, DisplayAnswered(ok) PROVE IInv'
  <2>1. TypeOK'
    BY <1>0, <1>12 DEF TypeOK, DisplayAnswered, watch, ShouldWatch
  <2>. QED
    BY <1>0, <1>12, <2>1
    DEF IInv, RestartCool, LostIsLost, OnlineHasSink, FreshIsWatched,
        RenderedScreenWatched, DisplayAnswered, watch, ShouldWatch
<1>13. CASE Tick
  <2>1. /\ disconnectTimer # 0 /\ heartbeatTimer # 0 /\ restart.left # 0
        /\ bootTimer # 0
    BY <1>13 DEF Tick, Timers
  <2>2. /\ disconnectTimer' \in Nat \cup {NoTimer}
        /\ disconnectTimer' = NoTimer <=> disconnectTimer = NoTimer
        /\ heartbeatTimer' \in 0..HeartbeatTimeout \cup {NoTimer}
        /\ heartbeatTimer' = NoTimer <=> heartbeatTimer = NoTimer
        /\ bootTimer' \in Nat \cup {NoTimer}
    BY <1>0, <1>13, <2>1 DEF Tick, TypeOK, Later, NoTimer
  <2>3. hbAge' \in 0..HeartbeatTimeout /\ cool' \in 0..Cooldown
        /\ (hbAge = HeartbeatTimeout => hbAge' = HeartbeatTimeout)
        /\ cool' = (IF cool > 0 THEN cool - 1 ELSE 0)
    BY <1>0, <1>13 DEF Tick, TypeOK
  <2>4. CASE restart = NoRestart
    <3>1. restart' = NoRestart
      BY <1>13, <2>4 DEF Tick, Later, NoRestart
    <3>2. TypeOK'
      BY <1>0, <1>13, <2>2, <2>3, <3>1 DEF TypeOK, Tick, ShouldWatch
    <3>. QED
      BY <1>0, <1>13, <2>2, <2>3, <2>4, <3>1, <3>2
      DEF IInv, RestartCool, LostIsLost, OnlineHasSink, FreshIsWatched,
          RenderedScreenWatched, Tick, ShouldWatch
  <2>5. CASE restart # NoRestart
    <3>1. restart \in [left: Nat, reason: Reasons]
      BY <1>0, <2>5 DEF TypeOK
    <3>2. restart' = [restart EXCEPT !.left = restart.left - 1]
      BY <1>13, <3>1 DEF Tick, Later, NoTimer
    <3>3. /\ restart' \in [left: Nat, reason: Reasons]
          /\ restart'.left = restart.left - 1
          /\ restart'.reason = restart.reason
      BY <2>1, <3>1, <3>2
    <3>4. restart' # NoRestart
      BY <3>3 DEF NoRestart, Reasons, NoReason
    <3>5. TypeOK'
      BY <1>0, <1>13, <2>2, <2>3, <3>3 DEF TypeOK, Tick, ShouldWatch
    <3>6. RestartCool'
      BY <1>0, <2>1, <2>3, <2>5, <3>1, <3>3 DEF RestartCool, TypeOK
    <3>7. LostIsLost' /\ OnlineHasSink' /\ FreshIsWatched'
      BY <1>0, <1>13, <2>2, <2>3, <3>3
      DEF LostIsLost, OnlineHasSink, FreshIsWatched, Tick, ShouldWatch
    <3>8. RenderedScreenWatched'
      BY <3>4 DEF RenderedScreenWatched
    <3>. QED
      BY <3>5, <3>6, <3>7, <3>8 DEF IInv
  <2>. QED
    BY <2>4, <2>5
<1>14. CASE UNCHANGED vars
  BY <1>0, <1>14
  DEF IInv, vars, watch, boot, TypeOK, RestartCool, LostIsLost, OnlineHasSink,
      FreshIsWatched, RenderedScreenWatched, ShouldWatch
<1>. QED
  BY <1>1, <1>2, <1>3, <1>4, <1>5, <1>6, <1>7, <1>8, <1>9, <1>10, <1>11,
     <1>12, <1>13, <1>14
  DEF Next, Fires

\* The cooldown starts anew only when a restart is run.
LEMMA OnlyRestartsCool ==
  ASSUME TypeOK, [Next]_vars, cool' > cool
  PROVE  RestartTimerFires /\ ShouldRun(restart.reason)
<1>. USE KioskLifecycleAssumption DEF KioskLifecycleAssumption
<1>1. cool \in Nat
  BY DEF TypeOK
<1>2. cool' # cool
  BY <1>1
<1>3. ~Tick
  BY <1>1 DEF Tick
<1>4. RestartTimerFires
  BY <1>2, <1>3
  DEF Next, Fires, vars, ShellConnected, ShellDisconnected, ShellHeartbeat,
      ActiveScreenChanged, ChromiumExited, ScreenShowFailed, Stop,
      DisconnectTimerFires, HeartbeatTimerFires, BootTimerFires,
      DisplayAnswered
<1>. QED
  BY <1>2, <1>4 DEF RestartTimerFires

\* The inductive invariant holds throughout.
THEOREM Invariant == Spec => []IInv
BY InitInv, StepInv, PTL DEF Spec

\* Type correctness of the watchdog, and that it watches only a heartbeat that
\* means something.
THEOREM TypeCorrect == Spec => []TypeOK
<1>1. IInv => TypeOK
  BY DEF IInv
<1>. QED
  BY <1>1, Invariant, PTL

\* A screen rendered by the shell page is never left unwatched.
THEOREM AlwaysWatched == Spec => []RenderedScreenWatched
<1>1. IInv => RenderedScreenWatched
  BY DEF IInv
<1>. QED
  BY <1>1, Invariant, PTL

\* Restarts are the cooldown apart, for every cooldown and every delay.
THEOREM RestartsApart == Spec => CooldownKept
<1>1. IInv /\ [Next]_vars => [cool' > cool => cool = 0]_vars
  <2>. SUFFICES ASSUME IInv, [Next]_vars, cool' > cool PROVE cool = 0
    BY Zenon
  <2>1. RestartTimerFires
    BY OnlyRestartsCool DEF IInv
  <2>. QED
    BY <2>1, KioskLifecycleAssumption
    DEF KioskLifecycleAssumption, IInv, TypeOK, RestartCool, RestartTimerFires,
        NoRestart, NoTimer
<1>. QED
  BY <1>1, Invariant, PTL DEF Spec, CooldownKept

\* The watchdog spares a shell page that is connected and heard from in time.
THEOREM HealthySpared == Spec => HealthyShellSpared
<1>. DEFINE Spared ==
       cool' > cool
       /\ restart.reason \in {"shell_disconnected", "shell_heartbeat_stale"}
       => ~sink \/ hbAge = HeartbeatTimeout
<1>1. IInv /\ [Next]_vars => [Spared]_vars
  <2>. SUFFICES ASSUME IInv, [Next]_vars, cool' > cool,
                       restart.reason \in {"shell_disconnected",
                                           "shell_heartbeat_stale"}
                PROVE  ~sink \/ hbAge = HeartbeatTimeout
    BY Zenon
  <2>1. ShouldRun(restart.reason)
    BY OnlyRestartsCool DEF IInv
  <2>. QED
    BY <2>1 DEF IInv, LostIsLost, ShouldRun
<1>. QED
  BY <1>1, Invariant, PTL DEF Spec, HealthyShellSpared

(* The display cycle: only a scheduled cycle has a timer, and until its      *)
(* first command has been answered the display is as it was.                 *)
BootInv ==
  /\ bootTimer # NoTimer => bootCycle = "scheduled"
  /\ bootCycle \in {"idle", "scheduled", "off"} => display = "on"
  /\ DisplayBackOn

\* The display cycle that runs once after boot ends with the display on, for
\* every delay and wherever connects and a stop fall, unless a command failed.
THEOREM DisplayComesBack == Spec => []DisplayBackOn
<1>1. Init => BootInv
  BY DEF Init, BootInv, DisplayBackOn, NoTimer
<1>2. BootInv /\ [Next]_vars => BootInv'
  <2>. SUFFICES ASSUME BootInv, [Next]_vars PROVE BootInv'
    OBVIOUS
  <2>1. CASE UNCHANGED boot
    BY <2>1 DEF boot, BootInv, DisplayBackOn
  <2>2. CASE ScheduleBootDisplayCycle
    BY <2>2 DEF ScheduleBootDisplayCycle, BootInv, DisplayBackOn
  <2>3. CASE Stop
    BY <2>3 DEF Stop, BootInv, DisplayBackOn, NoTimer
  <2>4. CASE BootTimerFires
    BY <2>4 DEF BootTimerFires, BootInv, DisplayBackOn, NoTimer
  <2>5. ASSUME NEW ok \in BOOLEAN, DisplayAnswered(ok) PROVE BootInv'
    BY <2>5 DEF DisplayAnswered, BootInv, DisplayBackOn, NoTimer
  <2>6. CASE Tick
    BY <2>6 DEF Tick, Later, BootInv, DisplayBackOn
  <2>. QED
    BY <2>1, <2>2, <2>3, <2>4, <2>5, <2>6
    DEF Next, Fires, vars, boot, ShellConnected, ShellDisconnected,
        ShellHeartbeat, ActiveScreenChanged, ChromiumExited, ScreenShowFailed,
        DisconnectTimerFires, HeartbeatTimerFires, RestartTimerFires
<1>3. BootInv => DisplayBackOn
  BY DEF BootInv
<1>. QED
  BY <1>1, <1>2, <1>3, PTL DEF Spec

==============================================================================
