--------------------------- MODULE MCKioskLifecycle ---------------------------
(* TLC instance of KioskLifecycle and of four modules that share no state    *)
(* with it or with each other: what else frame-core does to the machine it   *)
(* runs on, and the tabs of the control panel that poll.  `part` says which  *)
(* one a behaviour is one of; the others stay as they start.  The VNC        *)
(* supervisor is there twice: with two starts at once, and with late polls.   *)
EXTENDS KioskLifecycle, Supervisors, Display

VARIABLES
  part,
  activeNow, claimsNow, pushes, socket, wire, gets, page, losses

Polled == INSTANCE VncTab
  WITH VncSlots <- {1}, Viewers <- {}, PollSlots <- {1, 2}, MaxSpawns <- 2

Now == INSTANCE NowTab WITH GetSlots <- {1}, MaxChanges <- 2, MaxLosses <- 2

kioskVars == vars
nowVars == <<activeNow, claimsNow, pushes, socket, wire, gets, page, losses>>
allVars == <<part, kioskVars, inhibitorVars, vncTabVars, displayVars, nowVars>>

\* A step of one part.
InKiosk(A) ==
  part = "kiosk" /\ A /\ UNCHANGED <<part, inhibitorVars, vncTabVars, displayVars, nowVars>>
InInhibitor(A) ==
  part = "inhibitor" /\ A /\ UNCHANGED <<part, kioskVars, vncTabVars, displayVars, nowVars>>
InVnc(A) ==
  part = "vnc" /\ A /\ UNCHANGED <<part, kioskVars, inhibitorVars, displayVars, nowVars>>
InPolled(A) ==
  part = "polled" /\ A /\ UNCHANGED <<part, kioskVars, inhibitorVars, displayVars, nowVars>>
InDisplay(A) ==
  part = "display" /\ A /\ UNCHANGED <<part, kioskVars, inhibitorVars, vncTabVars, nowVars>>
InNow(A) ==
  part = "now" /\ A /\ UNCHANGED <<part, kioskVars, inhibitorVars, vncTabVars, displayVars>>

MCInit ==
  /\ part \in {"kiosk", "inhibitor", "vnc", "polled", "display", "now"}
  /\ Init /\ InhibitorInit /\ DisplayInit /\ Now!NowInit
  /\ IF part = "polled" THEN Polled!VncTabInit ELSE VncTabInit
  /\ part # "display" => geometry = 1

MCNext ==
  \/ InKiosk(Next) \/ InInhibitor(InhibitorNext)
  \/ InVnc(VncTabNext) \/ InPolled(Polled!VncTabNext)
  \/ InDisplay(DisplayNext) \/ InNow(Now!NowNext)

\* The fairness of each part, as its module states it.
MCFairness ==
  /\ WF_allVars(InInhibitor(RespawnTimerFires))
  /\ WF_allVars(InInhibitor(CommandAnswered))
  /\ WF_allVars(InNow(Now!Poll)) /\ WF_allVars(InNow(Now!MessageArrives))
  /\ WF_allVars(InNow(Now!GetHandled(1))) /\ WF_allVars(InNow(Now!GetAnswered(1)))
  /\ \A n \in 1..2 :
       /\ WF_allVars(InPolled(Polled!Poll(n))) /\ WF_allVars(InPolled(Polled!PollHandled(n)))
       /\ WF_allVars(InPolled(Polled!PollAnswered(n)))
       /\ WF_allVars(InNow(Now!Pushed(n)))

MCSpec == MCInit /\ [][MCNext]_allVars /\ MCFairness

-----------------------------------------------------------------------------
\* The tabs that poll come to show how things are, and sleep is blocked again
\* after the inhibitor's child has gone.
CatchesUp ==
  /\ part = "inhibitor" => InhibitorReturns
  /\ part = "polled" => Polled!TabCatchesUp
  /\ part = "now" => Now!NowCatchesUp
==============================================================================
