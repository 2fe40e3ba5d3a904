-------------------------------- MODULE VncTab --------------------------------
(***************************************************************************)
(* The Remote screen tab of the control panel (web/src/components/         *)
(* VncSection.tsx) on top of the supervisor: a poll of the status every    *)
(* 5 s, whose answers may come back out of order, and the Start and Stop   *)
(* buttons, which wait for the request before them.  The viewer it shows   *)
(* is a client of /vnc/ws.  Another client may start and stop too.         *)
(***************************************************************************)
EXTENDS Vnc

CONSTANTS
  PollSlots   \* bound: polls in flight at once

VARIABLES
  status,     \* what the tab shows: "loading", "on" or "off"
  vncBusy,    \* busy
  vncAsk,     \* the slot of the tab's own start, 0 for none
  polls       \* polls in flight: "idle", "asked" or the answer

vncTabVars == <<vncVars, status, vncBusy, vncAsk, polls>>

Shown == IF Running THEN "on" ELSE "off"

\* setInterval(refresh, 5000)
Poll(p) ==
  /\ polls[p] = "idle" /\ polls' = [polls EXCEPT ![p] = "asked"]
  /\ UNCHANGED <<vncVars, status, vncBusy, vncAsk>>
PollHandled(p) ==
  /\ polls[p] = "asked" /\ polls' = [polls EXCEPT ![p] = Shown]
  /\ UNCHANGED <<vncVars, status, vncBusy, vncAsk>>
\* Seeded fault: an answer is taken only by a tab that shows nothing yet.
PollAnswered_fault(p) ==
  /\ polls[p] \in {"on", "off"}
  /\ status' = IF status = "loading" THEN polls[p] ELSE status
  /\ polls' = [polls EXCEPT ![p] = "idle"]
  /\ UNCHANGED <<vncVars, vncBusy, vncAsk>>
PollAnswered(p) ==
  /\ polls[p] \in {"on", "off"}
  /\ status' = polls[p]
  /\ polls' = [polls EXCEPT ![p] = "idle"]
  /\ UNCHANGED <<vncVars, vncBusy, vncAsk>>

\* The Start button is there when the session is off.
StartClicked(s) ==
  /\ status = "off" /\ ~vncBusy
  /\ VncStart(s)
  /\ vncBusy' = TRUE /\ vncAsk' = s
  /\ UNCHANGED <<status, polls>>
StartAnswered(s) ==
  /\ vncAsk = s /\ vncStarts[s] \in {"ok", "refused"}
  /\ IF vncStarts[s] = "ok" THEN status' = "on" ELSE UNCHANGED status
  /\ Parked(s, "idle") /\ vncBusy' = FALSE /\ vncAsk' = 0
  /\ UNCHANGED <<procVars, confTmp, idleTimer, pairs, viewers, vncMet, polls>>

\* The Stop button: the supervisor stops within the request, and the status
\* is asked for once more.
StopClicked ==
  /\ status = "on" /\ ~vncBusy
  /\ VncStop
  /\ vncBusy' = TRUE
  /\ UNCHANGED <<status, vncAsk, polls>>
StopAnswered ==
  /\ vncBusy /\ vncAsk = 0 /\ vncBusy' = FALSE
  /\ polls' \in {polls} \cup {[polls EXCEPT ![p] = "asked"] : p \in {q \in PollSlots : polls[q] = "idle"}}
  /\ UNCHANGED <<vncVars, status, vncAsk>>

\* Another client of the API; a stop is a reload with vnc.enabled off as well.
ElsewhereStarts(s) == VncStart(s) /\ UNCHANGED <<status, vncBusy, vncAsk, polls>>
ElsewhereAnswered(s) ==
  /\ vncAsk # s /\ vncStarts[s] \in {"ok", "refused"} /\ Parked(s, "idle")
  /\ UNCHANGED <<procVars, confTmp, idleTimer, pairs, viewers, vncMet>>
  /\ UNCHANGED <<status, vncBusy, vncAsk, polls>>
ElsewhereStops == VncStop /\ UNCHANGED <<status, vncBusy, vncAsk, polls>>

VncTabInit ==
  /\ VncInit
  /\ status = "loading" /\ vncBusy = FALSE /\ vncAsk = 0
  /\ polls = [p \in PollSlots |-> "idle"]

TabPolls == \E p \in PollSlots : Poll(p) \/ PollHandled(p) \/ PollAnswered(p)

VncTabNext ==
  \/ TabPolls \/ StopClicked \/ StopAnswered \/ ElsewhereStops
  \/ \E s \in VncSlots :
       StartClicked(s) \/ StartAnswered(s) \/ ElsewhereStarts(s) \/ ElsewhereAnswered(s)
  \/ VncCore /\ UNCHANGED <<status, vncBusy, vncAsk, polls>>

VncTabSpec == VncTabInit /\ [][VncTabNext]_vncTabVars

\* The interval fires and every poll is answered.
VncTabFairness ==
  \A p \in PollSlots : WF_vncTabVars(Poll(p)) /\ WF_vncTabVars(PollHandled(p))
                       /\ WF_vncTabVars(PollAnswered(p))

\* Once the supervisor stays as it is, the tab comes to show it and goes on
\* doing so, whichever answers are late.
TabCatchesUp ==
  /\ <>[](~Running) => <>[](status = "off")
  /\ <>[]Running => <>[](status = "on")
==============================================================================
