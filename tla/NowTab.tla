-------------------------------- MODULE NowTab --------------------------------
(***************************************************************************)
(* The "Now showing" tab of the control panel (web/src/components/         *)
(* NowSection.tsx) and the two ways the core tells it what goes on: the    *)
(* state messages of /api/events (core/src/api/stateBus.ts, pushState in   *)
(* core/src/index.ts) and GET /api/state.  Both read the brightness before *)
(* they answer; a push has taken the active screen before that and takes   *)
(* the claims after it.  The active screen and the claims are numbered by  *)
(* their changes.                                                          *)
(***************************************************************************)
EXTENDS Naturals, Sequences

CONSTANTS
  GetSlots,    \* bound: GETs in flight at once
  MaxChanges,  \* bound: changes of the active screen, and of the claims alone
  MaxLosses    \* bound: closed sockets and failed GETs

VARIABLES
  activeNow, claimsNow,  \* the scheduler's
  pushes,     \* pushState() calls parked at brightness.read(): the active they took
  socket,     \* /api/events: "connecting", "open" or "waiting" for the reconnect timer
  wire,       \* messages on their way
  gets,       \* GETs in flight: Free, Asked or the state they took
  page,       \* <<active, claims>> of the page, Blank before the first answer
  losses

nowVars == <<activeNow, claimsNow, pushes, socket, wire, gets, page, losses>>

Blank == <<"loading">>
Free == <<"free">>
Asked == <<"asked">>

\* "activate" is emitted, and the state pushed; nothing is pushed when only
\* the claims change.
Activates ==
  /\ activeNow < MaxChanges
  /\ activeNow' = activeNow + 1 /\ claimsNow' = claimsNow + 1
  /\ pushes' = pushes \cup {activeNow'}
  /\ UNCHANGED <<socket, wire, gets, page, losses>>
ClaimsChange ==
  /\ claimsNow < MaxChanges + 1 /\ claimsNow' = claimsNow + 1
  /\ UNCHANGED <<activeNow, pushes, socket, wire, gets, page, losses>>

\* The brightness is read: the message goes to the sockets that are attached.
Pushed(a) ==
  /\ a \in pushes /\ pushes' = pushes \ {a}
  /\ wire' = IF socket = "open" THEN Append(wire, <<a, claimsNow>>) ELSE wire
  /\ UNCHANGED <<activeNow, claimsNow, socket, gets, page, losses>>

\* refresh(): on mount, when the socket opens, every 30 s and after a release.
Asking == \E g \in GetSlots : gets[g] = Free /\ gets' = [gets EXCEPT ![g] = Asked]
\* Seeded fault: there is no interval.
Poll_fault == FALSE /\ UNCHANGED nowVars
Poll == Asking /\ UNCHANGED <<activeNow, claimsNow, pushes, socket, wire, page, losses>>

\* GET /api/state takes the state; brightness and network come after.
GetHandled(g) ==
  /\ gets[g] = Asked /\ gets' = [gets EXCEPT ![g] = <<activeNow, claimsNow>>]
  /\ UNCHANGED <<activeNow, claimsNow, pushes, socket, wire, page, losses>>
GetAnswered(g) ==
  /\ gets[g] \notin {Free, Asked}
  /\ page' = gets[g] /\ gets' = [gets EXCEPT ![g] = Free]
  /\ UNCHANGED <<activeNow, claimsNow, pushes, socket, wire, losses>>

Loses == losses < MaxLosses /\ losses' = losses + 1
GetFails(g) ==
  /\ gets[g] # Free /\ Loses /\ gets' = [gets EXCEPT ![g] = Free]
  /\ UNCHANGED <<activeNow, claimsNow, pushes, socket, wire, page>>

\* onopen: the page asks for the state it has missed.
SocketOpens ==
  /\ socket = "connecting" /\ socket' = "open"
  /\ Asking
  /\ UNCHANGED <<activeNow, claimsNow, pushes, wire, page, losses>>
\* onmessage; without a state to update a message is dropped.
MessageArrives ==
  /\ wire # <<>> /\ wire' = Tail(wire)
  /\ page' = IF page = Blank THEN page ELSE Head(wire)
  /\ UNCHANGED <<activeNow, claimsNow, pushes, socket, gets, losses>>
\* onclose arms the reconnect timer, 1 s at first and up to 30 s.
SocketCloses ==
  /\ socket # "waiting" /\ Loses
  /\ socket' = "waiting" /\ wire' = <<>>
  /\ UNCHANGED <<activeNow, claimsNow, pushes, gets, page>>
Reconnects ==
  /\ socket = "waiting" /\ socket' = "connecting"
  /\ UNCHANGED <<activeNow, claimsNow, pushes, wire, gets, page, losses>>

\* DELETE /api/claims/:id releases a claim.  (If the active one goes, that is
\* Activates.)
ReleaseClicked ==
  /\ page # Blank /\ claimsNow < MaxChanges + 1 /\ claimsNow' = claimsNow + 1
  /\ Asking
  /\ UNCHANGED <<activeNow, pushes, socket, wire, page, losses>>

NowInit ==
  /\ activeNow = 0 /\ claimsNow = 0 /\ pushes = {} /\ socket = "connecting" /\ wire = <<>>
  /\ gets \in {[g \in GetSlots |-> IF g = h THEN Asked ELSE Free] : h \in GetSlots}
  /\ page = Blank /\ losses = 0

NowNext ==
  \/ Activates \/ ClaimsChange \/ Poll \/ SocketOpens \/ MessageArrives \/ SocketCloses
  \/ Reconnects \/ ReleaseClicked
  \/ \E a \in pushes : Pushed(a)
  \/ \E g \in GetSlots : GetHandled(g) \/ GetAnswered(g) \/ GetFails(g)

NowSpec == NowInit /\ [][NowNext]_nowVars

\* The interval fires, requests and pushes are answered, messages arrive.
NowFairness ==
  /\ WF_nowVars(Poll) /\ WF_nowVars(MessageArrives)
  /\ \A a \in 1..MaxChanges : WF_nowVars(Pushed(a))
  /\ \A g \in GetSlots : WF_nowVars(GetHandled(g)) /\ WF_nowVars(GetAnswered(g))

\* When nothing changes any more and the network holds, the page comes to show
\* the active screen and the claims there are, and goes on doing so: late
\* pushes and late answers are put right by the next poll.
NowCatchesUp == <>[](page = <<activeNow, claimsNow>>)
==============================================================================
