--------------------------- MODULE SupervisorProofs ---------------------------
(***************************************************************************)
(* Proofs about what frame-core runs beside the shell: the supervisors of  *)
(* child processes, for any number of children, requests, viewers and      *)
(* polls (PowerInhibitor and Vnc implement OneChild, and a VNC session     *)
(* that runs has its idle timer armed), and the display, for any number of *)
(* calls (the picture is scaled once, and the temperature asked for is in  *)
(* effect).                                                                *)
(***************************************************************************)
EXTENDS Supervisors, Display, FiniteSetTheorems, TLAPS

-------------------------------------------------------------------------------
(* The sleep inhibitor *)

\* Children are numbered as they are started.
Numbered ==
  /\ spawned \in Nat /\ running \subseteq 1..spawned /\ dying \subseteq running
  /\ met \in BOOLEAN /\ restartTimer \in BOOLEAN
  /\ checking \in BOOLEAN /\ inhibitStopped \in BOOLEAN

\* The child in hand is the one that runs and was not told to end.  Until the
\* inhibitor is stopped none is told to end, and there is only one of a child,
\* a start under way and a restart to come; after that there is none.
InHand ==
  ~met =>
    /\ Alive = {child} \ {0}
    /\ ~inhibitStopped => /\ dying = {} /\ ~(checking /\ restartTimer)
                          /\ checking \/ restartTimer => child = 0
    /\ inhibitStopped => child = 0 /\ ~checking /\ ~restartTimer

InhibitorInv == Numbered /\ InHand

LEMMA InhibitorStarts == ASSUME Enabled \in BOOLEAN, InhibitorInit PROVE InhibitorInv
BY DEF InhibitorInit, InhibitorInv, Numbered, InHand, Alive

LEMMA SpawnsStep ==
  ASSUME InhibitorInv, MaxKids \in Nat, Spawns
  PROVE  InhibitorInv' /\ (met \/ Abstract!Begin(spawned + 1)) /\ spawned + 1 \in 1..MaxKids
<1>1. spawned + 1 \in 1..MaxKids /\ spawned + 1 \notin running /\ spawned + 1 \notin dying
  BY DEF Spawns, InhibitorInv, Numbered
<1>2. Numbered'
  <2>1. spawned \in Nat /\ running \subseteq 1..spawned /\ dying \subseteq running
    BY DEF InhibitorInv, Numbered
  <2>2. spawned' = spawned + 1 /\ running' = running \cup {spawned + 1} /\ dying' = dying
    BY DEF Spawns
  <2>3. spawned' \in Nat /\ running' \subseteq 1..spawned' /\ dying' \subseteq running'
    BY <2>1, <2>2
  <2>4. QED
    BY <2>3 DEF Spawns, InhibitorInv, Numbered
<1>3. ASSUME ~met PROVE Alive = {} /\ ~inhibitStopped /\ dying = {} /\ ~restartTimer
  BY <1>3 DEF Spawns, InhibitorInv, Numbered, InHand
<1>4. Alive' = Alive \cup {spawned + 1} /\ child' = spawned + 1 /\ child' # 0 /\ met' = met
  BY <1>1 DEF Spawns, Alive, InhibitorInv, Numbered
<1>5. InHand'
  <2>1. ~checking' /\ UNCHANGED <<inhibitStopped, dying, restartTimer>>
    BY DEF Spawns
  <2>2. QED
    BY <1>3, <1>4, <2>1 DEF InHand
<1>6. ~met => Abstract!Begin(spawned + 1)
  BY <1>3, <1>4 DEF Abstract!Begin
<1>7. QED
  BY <1>1, <1>2, <1>5, <1>6 DEF InhibitorInv

LEMMA NoSpawnStep ==
  ASSUME InhibitorInv, Missing \/ SpawnFails \/ RespawnTimerFires, Enabled \in BOOLEAN
  PROVE  InhibitorInv' /\ met' = met /\ Alive' = Alive /\ (~met => child' = child)
<1>1. Numbered'
  BY DEF InhibitorInv, Numbered, Missing, SpawnFails, RespawnTimerFires, Start
<1>2. met' = met /\ Alive' = Alive
  BY DEF Alive, Missing, SpawnFails, RespawnTimerFires
<1>3. ~met => child' = child
  BY DEF InhibitorInv, Numbered, InHand, Missing, SpawnFails, RespawnTimerFires
<1>4. InHand'
  BY <1>2, <1>3 DEF InhibitorInv, Numbered, InHand, Missing, SpawnFails, RespawnTimerFires, Start
<1>5. QED
  BY <1>1, <1>2, <1>3, <1>4 DEF InhibitorInv

LEMMA ExitedStep ==
  ASSUME InhibitorInv, NEW p \in running, Exited(p)
  PROVE  InhibitorInv' /\ met' = met /\ (~met => child' = 0 /\ Alive' = {})
<1>1. Numbered'
  BY DEF InhibitorInv, Numbered, Exited
<1>2. ASSUME ~met PROVE running' \ dying' = {}
  <2>1. CASE inhibitStopped
    <3>1. running \ dying = {}
      BY <1>2, <2>1 DEF InhibitorInv, InHand, Alive
    <3>2. QED
      BY <3>1 DEF Exited
  <2>2. CASE ~inhibitStopped
    <3>1. running = {p} /\ dying = {}
      BY <1>2, <2>2 DEF InhibitorInv, InHand, Alive
    <3>2. QED
      BY <3>1 DEF Exited
  <2>3. QED
    BY <2>1, <2>2
<1>3. /\ met' = met /\ child' = 0 /\ UNCHANGED <<checking, inhibitStopped>>
      /\ restartTimer' = (restartTimer \/ ~inhibitStopped)
  BY DEF Exited
<1>4. ASSUME ~met, ~inhibitStopped PROVE ~checking /\ dying' = {}
  <2>1. running \ dying = {child} \ {0} /\ dying = {} /\ (checking => child = 0)
    BY <1>4 DEF InhibitorInv, InHand, Alive
  <2>2. QED
    BY <2>1 DEF Exited
<1>5. InHand'
  BY <1>2, <1>3, <1>4 DEF InhibitorInv, InHand, Alive
<1>6. QED
  BY <1>1, <1>2, <1>3, <1>5 DEF InhibitorInv, Alive

LEMMA StopStep ==
  ASSUME InhibitorInv, StopInhibitor
  PROVE  InhibitorInv' /\ (met' = FALSE => ~met /\ child' = 0 /\ Alive' = {})
<1>1. Numbered'
  BY DEF InhibitorInv, Numbered, StopInhibitor
<1>2. ASSUME ~met' PROVE ~met /\ ~checking /\ Alive = {child} \ {0}
  BY <1>2 DEF StopInhibitor, InhibitorInv, Numbered, InHand
<1>3. ASSUME ~met' PROVE Alive' = {}
  <2>1. running \ dying = {child} \ {0} /\ running' = running
        /\ dying' = IF child = 0 THEN dying ELSE dying \cup ({child} \cap running)
    BY <1>2, <1>3 DEF Alive, StopInhibitor
  <2>2. running' \ dying' = {}
    BY <2>1
  <2>3. QED
    BY <2>2 DEF Alive
<1>4. inhibitStopped' /\ child' = 0 /\ restartTimer' = FALSE /\ checking' = checking
  BY DEF StopInhibitor
<1>5. InHand'
  BY <1>2, <1>3, <1>4 DEF InHand
<1>6. QED
  BY <1>1, <1>2, <1>3, <1>4, <1>5 DEF InhibitorInv

\* Every step is one of OneChild or leaves its variables alone.
LEMMA InhibitorStep ==
  ASSUME InhibitorInv, [InhibitorNext]_inhibitorVars, MaxKids \in Nat, Enabled \in BOOLEAN
  PROVE  InhibitorInv' /\ [Abstract!Next]_<<Alive, child, ~met>>
<1>. USE DEF Abstract!Next, Abstract!Begin, Abstract!End, Abstract!Meet, Abstract!Careless
<1>1. CASE Spawns
  <2>1. met => met'
    BY <1>1 DEF Spawns
  <2>2. QED
    BY <1>1, <2>1, SpawnsStep
<1>2. CASE Missing \/ SpawnFails \/ RespawnTimerFires
  BY <1>2, NoSpawnStep
<1>3. ASSUME NEW p \in running, Exited(p)
      PROVE  InhibitorInv' /\ [Abstract!Next]_<<Alive, child, ~met>>
  BY <1>3, ExitedStep DEF InhibitorInv, Numbered
<1>4. CASE StopInhibitor
  BY <1>4, StopStep DEF InhibitorInv, Numbered
<1>5. CASE UNCHANGED inhibitorVars
  BY <1>5 DEF inhibitorVars, InhibitorInv, Numbered, InHand, Alive
<1>6. QED
  BY <1>1, <1>2, <1>3, <1>4, <1>5 DEF InhibitorNext, CommandAnswered

\* The inhibitor implements OneChild: as long as no stop met a start under
\* way, at most one systemd-inhibit runs, and it is the one that can be ended.
THEOREM InhibitorImplements ==
  ASSUME MaxKids \in Nat, Enabled \in BOOLEAN
  PROVE  InhibitorSpec => ImplementsOneChild
<1>1. InhibitorInit => InhibitorInv /\ Abstract!Init
  BY InhibitorStarts DEF InhibitorInit, Abstract!Init, Alive
<1>2. InhibitorInv /\ [InhibitorNext]_inhibitorVars =>
        InhibitorInv' /\ [Abstract!Next]_Abstract!childVars
  BY InhibitorStep DEF Abstract!childVars
<1>3. QED
  BY <1>1, <1>2, PTL DEF InhibitorSpec, ImplementsOneChild, Abstract!Spec

\* And with that at most one systemd-inhibit runs that was not told to end.
THEOREM OneInhibitor ==
  ASSUME MaxKids \in Nat, Enabled \in BOOLEAN
  PROVE  InhibitorSpec => []Abstract!OneAtMost
<1>1. InhibitorInit => InhibitorInv
  BY InhibitorStarts
<1>2. InhibitorInv /\ [InhibitorNext]_inhibitorVars => InhibitorInv'
  BY InhibitorStep
<1>3. InhibitorInv => Abstract!OneAtMost
  BY DEF InhibitorInv, InHand, Abstract!OneAtMost
<1>4. QED
  BY <1>1, <1>2, <1>3, PTL DEF InhibitorSpec

-------------------------------------------------------------------------------
(* The VNC supervisor *)

\* Of one of the two programs: at most one process, and it is the one in hand
\* unless it was told to end.
HeldOnly(run, told, handle) ==
  run \ told = {handle} \ {0} /\ \A a, b \in run : a = b

VncNumbered ==
  /\ pairs \in Nat /\ vncMet \in BOOLEAN
  /\ vncRun \subseteq 1..pairs /\ vncDying \subseteq vncRun
  /\ sockRun \subseteq 1..pairs /\ sockDying \subseteq sockRun

VncInHand ==
  ~vncMet => HeldOnly(vncRun, vncDying, wayvnc) /\ HeldOnly(sockRun, sockDying, websockify)

VncInv == VncNumbered /\ VncInHand

LEMMA ToldEnds ==
  ASSUME NEW run, NEW told, NEW handle, HeldOnly(run, told, handle)
  PROVE  HeldOnly(run, Told(told, run, handle), 0) /\ run \ Told(told, run, handle) = {}
BY DEF HeldOnly, Told

LEMMA ExitLeavesNone ==
  ASSUME NEW run, NEW told, NEW handle, HeldOnly(run, told, handle), NEW n \in run
  PROVE  HeldOnly(run \ {n}, told \ {n}, 0) /\ (run \ {n}) \ (told \ {n}) = {}
BY DEF HeldOnly

\* What OneChild says of a step, for each of the two programs.
ServerStep == [Server!Next]_<<vncRun \ vncDying, wayvnc, ~vncMet>>
SocketStep == [Socket!Next]_<<sockRun \ sockDying, websockify, ~vncMet>>

\* A step that does not touch the processes.
VncQuiet == UNCHANGED <<procVars, pairs, vncMet>>

LEMMA QuietStep == ASSUME VncInv, VncQuiet PROVE VncInv' /\ ServerStep /\ SocketStep
BY DEF VncInv, VncNumbered, VncInHand, HeldOnly, VncQuiet, procVars, ServerStep, SocketStep

LEMMA SpawnedStep ==
  ASSUME VncInv, MaxSpawns \in Nat, NEW s \in VncSlots, Spawned(s)
  PROVE  VncInv' /\ ServerStep /\ SocketStep
<1>. DEFINE n == pairs + 1
<1>1. n \in 1..MaxSpawns /\ pairs' = n /\ wayvnc' = n /\ websockify' = n /\ n # 0
      /\ UNCHANGED <<vncDying, sockDying>>
  BY DEF Spawned, VncInv, VncNumbered
<1>2. PICK there \in {{n}, {}}, socket \in {{n}, {}} :
        /\ vncRun' = vncRun \cup there /\ sockRun' = sockRun \cup socket
        /\ vncMet' = (vncMet \/ vncRun \cup sockRun # {} \/ {} \in {there, socket}
                             \/ \E o \in VncSlots \ {s} : Under(o))
  BY DEF Spawned
<1>3. VncNumbered'
  <2>1. pairs \in Nat /\ vncRun \subseteq 1..pairs /\ sockRun \subseteq 1..pairs
        /\ vncDying \subseteq vncRun /\ sockDying \subseteq sockRun
    BY DEF VncInv, VncNumbered
  <2>2. n \in Nat /\ 1..pairs \subseteq 1..n /\ n \in 1..n
    BY <2>1
  <2>3. vncRun' \subseteq 1..n /\ sockRun' \subseteq 1..n
    BY <1>2, <2>1, <2>2
  <2>. HIDE DEF n
  <2>4. vncDying' \subseteq vncRun' /\ sockDying' \subseteq sockRun' /\ vncMet' \in BOOLEAN
    BY <1>1, <1>2, <2>1 DEF VncInv, VncNumbered
  <2>5. QED
    BY <1>1, <2>2, <2>3, <2>4 DEF VncNumbered
<1>. HIDE DEF n
<1>4. CASE vncMet'
  BY <1>3, <1>4 DEF VncInv, VncNumbered, VncInHand, ServerStep, SocketStep, Server!Next, Server!Meet,
     Socket!Next, Socket!Meet
<1>5. CASE ~vncMet'
  <2>1. ~vncMet /\ vncRun = {} /\ sockRun = {} /\ there = {n} /\ socket = {n}
    BY <1>2, <1>5
  <2>2. vncRun' = {n} /\ sockRun' = {n} /\ vncDying = {} /\ sockDying = {}
    BY <1>2, <2>1 DEF VncInv, VncNumbered
  <2>3. vncRun' \ vncDying' = {n} /\ sockRun' \ sockDying' = {n}
    BY <1>1, <2>2
  <2>4. VncInHand'
    BY <1>1, <2>2, <2>3 DEF VncInHand, HeldOnly
  <2>5. Server!Begin(n) /\ Socket!Begin(n)
    BY <1>1, <1>5, <2>1, <2>3 DEF Server!Begin, Socket!Begin
  <2>6. QED
    BY <1>1, <1>3, <2>4, <2>5 DEF VncInv, ServerStep, SocketStep, Server!Next, Socket!Next
<1>6. QED
  BY <1>4, <1>5

LEMMA EndsStep ==
  ASSUME VncInv, Stopping \/ \E n \in vncRun : WayvncExits(n)
  PROVE  VncInv' /\ ServerStep /\ SocketStep
<1>1. wayvnc' = 0 /\ websockify' = 0 /\ pairs' = pairs /\ sockRun' = sockRun
      /\ sockDying' = Told(sockDying, sockRun, websockify)
  BY DEF Stopping, WayvncExits
<1>2. \/ vncRun' = vncRun /\ vncDying' = Told(vncDying, vncRun, wayvnc)
      \/ \E n \in vncRun : vncRun' = vncRun \ {n} /\ vncDying' = vncDying \ {n}
  BY DEF Stopping, WayvncExits
<1>3. vncMet' \in BOOLEAN /\ (vncMet => vncMet')
  BY DEF Stopping, WayvncExits, VncInv, VncNumbered
<1>4. VncNumbered'
  BY <1>1, <1>2, <1>3 DEF VncInv, VncNumbered, Told
<1>5. CASE vncMet'
  BY <1>3, <1>4, <1>5 DEF VncInv, VncNumbered, VncInHand, ServerStep, SocketStep, Server!Next,
     Server!Meet, Socket!Next, Socket!Meet
<1>6. CASE ~vncMet'
  <2>1. ~vncMet /\ HeldOnly(vncRun, vncDying, wayvnc) /\ HeldOnly(sockRun, sockDying, websockify)
    BY <1>3, <1>6 DEF VncInv, VncInHand
  <2>2. HeldOnly(vncRun', vncDying', 0) /\ vncRun' \ vncDying' = {}
    BY <1>2, <2>1, ToldEnds, ExitLeavesNone
  <2>3. HeldOnly(sockRun', sockDying', 0) /\ sockRun' \ sockDying' = {}
    BY <1>1, <2>1, ToldEnds
  <2>4. VncInHand'
    BY <1>1, <2>2, <2>3 DEF VncInHand
  <2>5. Server!End /\ Socket!End
    BY <1>1, <1>6, <2>1, <2>2, <2>3 DEF Server!End, Socket!End
  <2>6. QED
    BY <1>4, <2>4, <2>5 DEF VncInv, ServerStep, SocketStep, Server!Next, Socket!Next
<1>7. QED
  BY <1>5, <1>6

LEMMA WebsockifyExitsStep ==
  ASSUME VncInv, NEW n \in sockRun, WebsockifyExits(n)
  PROVE  VncInv' /\ ServerStep /\ SocketStep
<1>1. /\ sockRun' = sockRun \ {n} /\ sockDying' = sockDying \ {n} /\ websockify' = 0
      /\ UNCHANGED <<wayvnc, vncRun, vncDying, pairs, vncMet>>
  BY DEF WebsockifyExits
<1>2. VncNumbered'
  BY <1>1 DEF VncInv, VncNumbered
<1>3. ServerStep
  BY <1>1 DEF ServerStep
<1>4. CASE vncMet
  BY <1>1, <1>2, <1>3, <1>4 DEF VncInv, VncInHand, SocketStep, Socket!Next, Socket!Careless
<1>5. CASE ~vncMet
  <2>1. HeldOnly(vncRun, vncDying, wayvnc) /\ HeldOnly(sockRun, sockDying, websockify)
    BY <1>5 DEF VncInv, VncInHand
  <2>2. HeldOnly(sockRun', sockDying', 0) /\ sockRun' \ sockDying' = {}
    BY <1>1, <2>1, ExitLeavesNone
  <2>3. VncInHand'
    BY <1>1, <2>1, <2>2 DEF VncInHand
  <2>4. Socket!End
    BY <1>1, <1>5, <2>2 DEF Socket!End
  <2>5. QED
    BY <1>2, <1>3, <2>3, <2>4 DEF VncInv, SocketStep, Socket!Next
<1>6. QED
  BY <1>4, <1>5

\* A step of the supervisor and its tab is one of these.
LEMMA VncSteps ==
  ASSUME [VncTabNext]_vncTabVars
  PROVE  \/ VncQuiet \/ Stopping
         \/ \E s \in VncSlots : Spawned(s)
         \/ \E n \in vncRun : WayvncExits(n)
         \/ \E n \in sockRun : WebsockifyExits(n)
<1>1. ASSUME NEW s \in VncSlots,
             \/ StartClicked(s) \/ StartAnswered(s) \/ ElsewhereStarts(s) \/ ElsewhereAnswered(s)
             \/ ConfigWritten(s) \/ ConfigRenamed(s) \/ Settles(s)
      PROVE  VncQuiet
  BY <1>1 DEF StartClicked, StartAnswered, ElsewhereStarts, ElsewhereAnswered, VncStart,
     ConfigWritten, ConfigRenamed, Settles, VncQuiet
<1>2. ASSUME NEW p \in PollSlots, Poll(p) \/ PollHandled(p) \/ PollAnswered(p) PROVE VncQuiet
  BY <1>2 DEF Poll, PollHandled, PollAnswered, vncVars, VncQuiet
<1>3. ASSUME NEW v \in Viewers,
             ViewerConnects(v) \/ UpstreamOpens(v) \/ ViewerMessage(v) \/ ViewerCloses(v)
      PROVE  VncQuiet
  BY <1>3 DEF ViewerConnects, UpstreamOpens, ViewerMessage, ViewerCloses, VncQuiet
<1>4. CASE StopAnswered \/ UNCHANGED vncTabVars
  BY <1>4 DEF StopAnswered, vncTabVars, vncVars, VncQuiet
<1>5. CASE StopClicked \/ ElsewhereStops \/ IdleTimerFires
  BY <1>5 DEF StopClicked, ElsewhereStops, VncStop, IdleTimerFires
<1>6. QED
  BY <1>1, <1>2, <1>3, <1>4, <1>5 DEF VncTabNext, TabPolls, VncCore, StartSteps

LEMMA VncNext ==
  ASSUME VncInv, MaxSpawns \in Nat, [VncTabNext]_vncTabVars
  PROVE  VncInv' /\ ServerStep /\ SocketStep
BY VncSteps, QuietStep, SpawnedStep, EndsStep, WebsockifyExitsStep

LEMMA VncStarts ==
  ASSUME VncTabInit
  PROVE  VncInv /\ Server!Init /\ Socket!Init
<1>1. /\ wayvnc = 0 /\ websockify = 0 /\ pairs = 0 /\ vncMet = FALSE
      /\ vncRun = {} /\ sockRun = {} /\ vncDying = {} /\ sockDying = {}
  BY DEF VncTabInit, VncInit
<1>2. QED
  BY <1>1 DEF VncInv, VncNumbered, VncInHand, HeldOnly, Server!Init, Socket!Init

\* The supervisor implements OneChild with each of its programs: as long as no
\* call met a start under way or a process that was still ending and no
\* program was missing, at most one of each runs, and it is the one in hand.
THEOREM VncImplements ==
  ASSUME MaxSpawns \in Nat
  PROVE  VncTabSpec => VncOneChild
<1>1. VncTabInit => VncInv /\ Server!Init /\ Socket!Init
  BY VncStarts
<1>2. VncInv /\ [VncTabNext]_vncTabVars =>
        VncInv' /\ [Server!Next]_Server!childVars /\ [Socket!Next]_Socket!childVars
  BY VncNext DEF ServerStep, SocketStep, Server!childVars, Socket!childVars
<1>3. QED
  BY <1>1, <1>2, PTL DEF VncTabSpec, VncOneChild, Server!Spec, Socket!Spec

\* Both supervisors of one frame-core, for any number of children, starts and
\* viewers: ChildrenOnce.
THEOREM ChildrenImplement ==
  ASSUME MaxKids \in Nat, Enabled \in BOOLEAN, MaxSpawns \in Nat
  PROVE  SupervisorsSpec => ChildrenOnce
BY InhibitorImplements, VncImplements DEF SupervisorsSpec, ChildrenOnce

\* And with that at most one wayvnc and one websockify run that were not told
\* to end.
THEOREM OneServer ==
  ASSUME MaxSpawns \in Nat
  PROVE  VncTabSpec => [](Server!OneAtMost /\ Socket!OneAtMost)
<1>1. VncTabInit => VncInv
  BY VncStarts
<1>2. VncInv /\ [VncTabNext]_vncTabVars => VncInv'
  BY VncNext
<1>3. VncInv => Server!OneAtMost /\ Socket!OneAtMost
  BY DEF VncInv, VncInHand, HeldOnly, Server!OneAtMost, Socket!OneAtMost
<1>4. QED
  BY <1>1, <1>2, <1>3, PTL DEF VncTabSpec

\* What runs has its idle timer armed, whoever started it, however often it
\* was stopped, and with any number of requests and viewers.
THEOREM AlwaysTimed == VncTabSpec => []RunningIsTimed
<1>1. VncTabInit => RunningIsTimed
  BY DEF VncTabInit, VncInit, RunningIsTimed, Running
<1>2. RunningIsTimed /\ [VncTabNext]_vncTabVars => RunningIsTimed'
  <2>. SUFFICES ASSUME RunningIsTimed, [VncTabNext]_vncTabVars PROVE RunningIsTimed'
    OBVIOUS
  <2>. USE DEF RunningIsTimed, Running
  <2>1. ASSUME NEW s \in VncSlots, VncStart(s) \/ StartSteps(s) PROVE RunningIsTimed'
    BY <2>1 DEF VncStart, StartSteps, ConfigWritten, ConfigRenamed, Spawned, Settles, procVars
  <2>2. ASSUME NEW s \in VncSlots, StartAnswered(s) \/ ElsewhereAnswered(s) PROVE RunningIsTimed'
    BY <2>2 DEF StartAnswered, ElsewhereAnswered, procVars
  <2>3. ASSUME \/ Stopping
               \/ \E n \in vncRun : WayvncExits(n)
               \/ \E n \in sockRun : WebsockifyExits(n)
        PROVE  RunningIsTimed'
    BY <2>3 DEF Stopping, WayvncExits, WebsockifyExits
  <2>4. ASSUME NEW v \in Viewers,
               ViewerConnects(v) \/ UpstreamOpens(v) \/ ViewerMessage(v) \/ ViewerCloses(v)
        PROVE  RunningIsTimed'
    BY <2>4 DEF ViewerConnects, UpstreamOpens, ViewerMessage, ViewerCloses, procVars
  <2>5. CASE TabPolls \/ StopAnswered \/ UNCHANGED vncTabVars
    BY <2>5 DEF TabPolls, Poll, PollHandled, PollAnswered, StopAnswered, vncTabVars, vncVars, procVars
  <2>6. QED
    BY <2>1, <2>2, <2>3, <2>4, <2>5 DEF VncTabNext, VncCore, StartClicked, ElsewhereStarts,
       StopClicked, ElsewhereStops, VncStop, IdleTimerFires
<1>3. QED
  BY <1>1, <1>2, PTL DEF VncTabSpec

-------------------------------------------------------------------------------
(* The display *)

\* What a call is made of.
Made(c) == \E step, to, pid : c = At(step, to, pid)
AllMade == calls = [s \in CallSlots |-> calls[s]] /\ \A s \in CallSlots : Made(calls[s])

\* A call changes and the others stay.
OneMoves(s) ==
  /\ calls' = [o \in CallSlots |-> calls'[o]] /\ \A o \in CallSlots : Made(calls'[o])
  /\ \A o \in CallSlots : o # s => calls'[o] = calls[o]

LEMMA AtShape ==
  ASSUME NEW step, NEW to, NEW pid
  PROVE  /\ Made(At(step, to, pid)) /\ At(step, to, pid).step = step
         /\ At(step, to, pid).to = to /\ At(step, to, pid).pid = pid
BY DEF Made, At

LEMMA MovesOne ==
  ASSUME AllMade, NEW s \in CallSlots, NEW v, Made(v), calls' = [calls EXCEPT ![s] = v]
  PROVE  OneMoves(s) /\ calls'[s] = v
BY DEF AllMade, OneMoves

LEMMA BeginsOne ==
  ASSUME AllMade, NEW s \in CallSlots, NEW step, NEW to, Begins(s, step, to)
  PROVE  /\ OneMoves(s) /\ calls[s].step = "idle" /\ made' = made + 1
         /\ calls'[s].step = step /\ calls'[s].to = to
<1>. DEFINE v == At(step, to, 0)
<1>1. Made(v) /\ v.step = step /\ v.to = to
  BY AtShape
<1>2. calls' = [calls EXCEPT ![s] = v] /\ calls[s].step = "idle" /\ made' = made + 1
  BY DEF Begins
<1>. HIDE DEF v
<1>. QED
  BY <1>1, <1>2, MovesOne

LEMMA EndsOne ==
  ASSUME AllMade, NEW s \in CallSlots, Ends(s)
  PROVE  OneMoves(s) /\ calls'[s].step = "idle"
<1>1. Made(NoCall) /\ NoCall.step = "idle"
  BY AtShape DEF NoCall
<1>. QED
  BY <1>1, MovesOne DEF Ends

LEMMA GoesOne ==
  ASSUME AllMade, NEW s \in CallSlots, NEW step, Goes(s, step)
  PROVE  /\ OneMoves(s) /\ calls'[s].step = step
         /\ calls'[s].to = calls[s].to /\ calls'[s].pid = calls[s].pid
<1>. DEFINE v == At(step, calls[s].to, calls[s].pid)
<1>1. Made(v) /\ v.step = step /\ v.to = calls[s].to /\ v.pid = calls[s].pid
  BY AtShape
<1>2. calls' = [calls EXCEPT ![s] = v]
  BY DEF Goes
<1>. HIDE DEF v
<1>. QED
  BY <1>1, <1>2, MovesOne

LEMMA AtOne ==
  ASSUME AllMade, NEW s \in CallSlots, NEW step, NEW to, NEW pid,
         calls' = [calls EXCEPT ![s] = At(step, to, pid)]
  PROVE  /\ OneMoves(s) /\ calls'[s].step = step
         /\ calls'[s].to = to /\ calls'[s].pid = pid
<1>. DEFINE v == At(step, to, pid)
<1>1. Made(v) /\ v.step = step /\ v.to = to /\ v.pid = pid
  BY AtShape
<1>2. calls' = [calls EXCEPT ![s] = v]
  OBVIOUS
<1>. HIDE DEF v
<1>. QED
  BY <1>1, <1>2, MovesOne

\* The core that restarts forgets its calls and applies the geometry.
LEMMA RestartsAll ==
  ASSUME NEW s \in CallSlots, CoreRestarts(s)
  PROVE  /\ AllMade' /\ calls'[s].step = "outputs"
         /\ \A o \in CallSlots : o # s => calls'[o].step = "idle"
<1>. DEFINE v(o) == IF o = s THEN At("outputs", geometry, 0) ELSE NoCall
<1>1. calls' = [o \in CallSlots |-> v(o)]
  BY DEF CoreRestarts
<1>2. \A o \in CallSlots : Made(v(o)) /\ v(o).step = IF o = s THEN "outputs" ELSE "idle"
  BY AtShape DEF NoCall
<1>. HIDE DEF v
<1>. QED
  BY <1>1, <1>2 DEF AllMade

(* Geometry *)

Applying(s) == calls[s].step = "outputs"

\* Once a geometry has been applied that met no other call: no other one is
\* under way, and no change of power.  While it is, it is the configured one
\* and a page that listens has it; after that the picture is scaled once.
AppliedOnce ==
  lone =>
    /\ \A s \in CallSlots : calls[s].step \notin {"switch", "power"}
    /\ \A r, s \in CallSlots : Applying(r) /\ Applying(s) => r = s
    /\ \A s \in CallSlots :
         Applying(s) => calls[s].to = geometry /\ (shellUp => onPage = geometry)
    /\ shellUp /\ (\A s \in CallSlots : ~Applying(s)) =>
         \/ onOutputs = geometry /\ onPage = Plain
         \/ onOutputs = Plain /\ onPage = geometry

GeometryInv == AllMade /\ shellUp \in BOOLEAN /\ AppliedOnce

LEMMA AppliesStep ==
  ASSUME GeometryInv, NEW s \in CallSlots, shellUp' \in BOOLEAN, Applies(s, geometry')
  PROVE  GeometryInv'
<1>1. /\ OneMoves(s) /\ calls'[s].step = "outputs" /\ calls'[s].to = geometry'
  BY BeginsOne DEF Applies, GeometryInv
<1>2. onPage' = SentToPage(geometry') /\ lone' = (Calling = {})
  BY DEF Applies
<1>3. shellUp' => onPage' = geometry'
  BY <1>2 DEF SentToPage
<1>4. ASSUME lone' PROVE \A o \in CallSlots : o # s => calls'[o].step = "idle"
  BY <1>1, <1>2, <1>4 DEF Calling, OneMoves
<1>5. AllMade'
  BY <1>1 DEF OneMoves, AllMade
<1>. QED
  BY <1>1, <1>3, <1>4, <1>5 DEF GeometryInv, AppliedOnce, Applying

\* A step of a call that has nothing to do with the geometry.
LEMMA GeometryFrame ==
  ASSUME GeometryInv, NEW s \in CallSlots, OneMoves(s), UNCHANGED geoVars,
         calls[s].step \notin {"outputs", "switch", "power"},
         calls'[s].step \notin {"outputs", "switch", "power"}
  PROVE  GeometryInv'
<1>1. AllMade'
  BY DEF OneMoves, AllMade
<1>2. \A o \in CallSlots : Applying(o)' <=> Applying(o)
  BY DEF OneMoves, Applying
<1>3. \A o \in CallSlots : Applying(o) => calls'[o].to = calls[o].to
  BY DEF OneMoves, Applying
<1>. QED
  BY <1>1, <1>2, <1>3 DEF GeometryInv, AppliedOnce, OneMoves, geoVars

\* The call that tries the outputs ends, or the one after power("on").
LEMMA OutputsAnswer ==
  ASSUME GeometryInv, NEW s \in CallSlots, NoOutputs(s) \/ OutputsFail(s) \/ OutputsSet(s)
  PROVE  GeometryInv'
<1>1. /\ OneMoves(s) /\ calls'[s].step = "idle" /\ calls[s].step \in {"outputs", "power"}
      /\ UNCHANGED <<geometry, shellUp>>
  BY EndsOne DEF NoOutputs, OutputsFail, OutputsSet, GeometryInv
<1>2. AllMade'
  BY <1>1 DEF OneMoves, AllMade
<1>3. ~lone' => AppliedOnce'
  BY DEF AppliedOnce
<1>4. ASSUME lone' PROVE AppliedOnce'
  <2>1. lone /\ ~OutputsFail(s)
    BY <1>4 DEF NoOutputs, OutputsFail, OutputsSet
  <2>2. /\ Applying(s) /\ calls[s].to = geometry /\ (shellUp => onPage = geometry)
        /\ \A o \in CallSlots : o # s => ~Applying(o) /\ calls[o].step \notin {"switch", "power"}
    BY <1>1, <2>1 DEF GeometryInv, AppliedOnce, Applying
  <2>3. \A o \in CallSlots : ~Applying(o)' /\ calls'[o].step \notin {"switch", "power"}
    BY <1>1, <2>2 DEF OneMoves, Applying
  <2>4. shellUp => \/ onOutputs' = geometry /\ onPage' = Plain
                   \/ onOutputs' = Plain /\ onPage' = geometry
    BY <2>1, <2>2 DEF NoOutputs, OutputsSet, Applying
  <2>. QED
    BY <1>1, <2>3, <2>4 DEF AppliedOnce
<1>. QED
  BY <1>1, <1>2, <1>3, <1>4 DEF GeometryInv

\* What a step about the colour temperature moves.
LEMMA TemperedMoves ==
  ASSUME AllMade, NEW s \in CallSlots,
         \/ TemperatureAsked(s) \/ ProgramMissing(s) \/ PidRead(s) \/ Killed(s)
         \/ FileRemoved(s) \/ SunsetSpawned(s) \/ Recorded(s) \/ RecordFails(s) \/ NotStarted(s)
  PROVE  /\ OneMoves(s) /\ UNCHANGED geoVars
         /\ calls[s].step \notin {"outputs", "switch", "power"}
         /\ calls'[s].step \notin {"outputs", "switch", "power"}
<1>1. CASE TemperatureAsked(s)
  BY <1>1, BeginsOne DEF TemperatureAsked
<1>2. CASE PidRead(s)
  <2>1. CASE pidFile # 0
    <3>. DEFINE v == At("kill", calls[s].to, pidFile)
    <3>1. calls' = [calls EXCEPT ![s] = v] /\ calls[s].step = "stop" /\ UNCHANGED geoVars
      BY <1>2, <2>1 DEF PidRead
    <3>2. Made(v) /\ v.step = "kill"
      BY AtShape
    <3>. HIDE DEF v
    <3>. QED
      BY <3>1, <3>2, MovesOne
  <2>2. CASE pidFile = 0
    <3>1. (Ends(s) \/ Goes(s, "spawn")) /\ calls[s].step = "stop" /\ UNCHANGED geoVars
      BY <1>2, <2>2 DEF PidRead
    <3>. QED
      BY <3>1, EndsOne, GoesOne
  <2>. QED
    BY <2>1, <2>2
<1>3. CASE SunsetSpawned(s)
  <2>. DEFINE v == At("startup", calls[s].to, Pid(s))
  <2>1. calls' = [calls EXCEPT ![s] = v] /\ calls[s].step = "spawn" /\ UNCHANGED geoVars
    BY <1>3 DEF SunsetSpawned
  <2>2. Made(v) /\ v.step = "startup"
    BY AtShape
  <2>. HIDE DEF v
  <2>. QED
    BY <2>1, <2>2, MovesOne
<1>4. CASE Killed(s) \/ FileRemoved(s)
  BY <1>4, EndsOne, GoesOne DEF Killed, FileRemoved
<1>5. CASE ProgramMissing(s) \/ Recorded(s) \/ RecordFails(s) \/ NotStarted(s)
  BY <1>5, EndsOne DEF ProgramMissing, Recorded, RecordFails, NotStarted
<1>. QED
  BY <1>1, <1>2, <1>3, <1>4, <1>5

\* The change of power, which may go on to the outputs.
LEMMA PowerMoves ==
  ASSUME AllMade, NEW s \in CallSlots, PowerAsked(s) \/ PowerDone(s)
  PROVE  /\ OneMoves(s) /\ UNCHANGED <<shellUp, sunVars>>
         /\ calls[s].step \in {"idle", "switch"} /\ calls'[s].step \in {"idle", "switch", "power"}
         /\ (made \in Nat => made' \in Nat)
         /\ lone' => lone /\ calls[s].step = "switch"
<1>1. CASE PowerAsked(s)
  BY <1>1, BeginsOne DEF PowerAsked
<1>2. CASE PowerDone(s)
  <2>1. CASE Ends(s)
    BY <1>2, <2>1, EndsOne DEF PowerDone, geoVars
  <2>2. CASE calls' = [calls EXCEPT ![s] = At("power", geometry, 0)]
    BY <1>2, <2>2, AtOne DEF PowerDone, geoVars
  <2>. QED
    BY <1>2, <2>1, <2>2 DEF PowerDone
<1>. QED
  BY <1>1, <1>2

LEMMA GeometryStep ==
  ASSUME GeometryInv, [DisplayNext]_displayVars
  PROVE  GeometryInv'
<1>1. CASE Detaches
  BY <1>1 DEF Detaches, GeometryInv, AppliedOnce, AllMade, Applying
<1>2. ASSUME NEW s \in CallSlots, Reloads(s) PROVE GeometryInv'
  <2>1. Applies(s, geometry') /\ shellUp' \in BOOLEAN
    BY <1>2 DEF Reloads, GeometryInv
  <2>. QED
    BY <2>1, AppliesStep
<1>3. ASSUME NEW s \in CallSlots, Attaches(s) PROVE GeometryInv'
  <2>1. Applies(s, geometry') /\ shellUp' \in BOOLEAN
    BY <1>3 DEF Attaches
  <2>. QED
    BY <2>1, AppliesStep
<1>4. ASSUME NEW s \in CallSlots, PowerAsked(s) \/ PowerDone(s) PROVE GeometryInv'
  <2>1. /\ OneMoves(s) /\ UNCHANGED shellUp
        /\ (lone' => lone /\ calls[s].step = "switch")
    BY <1>4, PowerMoves DEF GeometryInv
  <2>2. ~lone'
    BY <2>1 DEF GeometryInv, AppliedOnce
  <2>. QED
    BY <2>1, <2>2 DEF GeometryInv, AppliedOnce, AllMade, OneMoves
<1>5. ASSUME NEW s \in CallSlots, CoreRestarts(s) PROVE GeometryInv'
  <2>1. ~lone' /\ shellUp' \in BOOLEAN
    BY <1>5 DEF CoreRestarts
  <2>. QED
    BY <1>5, <2>1, RestartsAll DEF GeometryInv, AppliedOnce
<1>6. ASSUME NEW s \in CallSlots,
             \/ TemperatureAsked(s) \/ ProgramMissing(s) \/ PidRead(s) \/ Killed(s)
             \/ FileRemoved(s) \/ SunsetSpawned(s) \/ Recorded(s) \/ RecordFails(s)
             \/ NotStarted(s)
      PROVE  GeometryInv'
  <2>1. AllMade
    BY DEF GeometryInv
  <2>2. /\ OneMoves(s) /\ UNCHANGED geoVars
        /\ calls[s].step \notin {"outputs", "switch", "power"}
        /\ calls'[s].step \notin {"outputs", "switch", "power"}
    BY <1>6, <2>1, TemperedMoves
  <2>. QED
    BY <2>2, GeometryFrame
<1>7. CASE UNCHANGED <<geoVars, calls>>
  BY <1>7 DEF geoVars, GeometryInv, AppliedOnce, AllMade, Applying
<1>8. (\E w \in wlsunsets : SunsetExits(w)) \/ UNCHANGED displayVars
        => UNCHANGED <<geoVars, calls>>
  BY DEF SunsetExits, displayVars
<1>. QED
  BY <1>1, <1>2, <1>3, <1>4, <1>5, <1>6, <1>7, <1>8, OutputsAnswer DEF DisplayNext

\* applyDisplayGeometry() leaves the scale and the orientation with the outputs
\* or with the page, whatever other calls were under way before it.
THEOREM PictureOnce == DisplaySpec => []GeometryOnce
<1>1. DisplayInit => GeometryInv
  <2>1. Made(NoCall) /\ NoCall.step = "idle"
    BY AtShape DEF NoCall
  <2>. QED
    BY <2>1 DEF DisplayInit, GeometryInv, AllMade, AppliedOnce
<1>2. GeometryInv => GeometryOnce
  BY DEF GeometryInv, AppliedOnce, GeometryOnce, Calling, Applying
<1>. QED
  BY <1>1, <1>2, GeometryStep, PTL DEF DisplaySpec

(* Colour temperature *)

\* The wlsunset that runs, if one does, is the one in the pid file.
InFile == \A w \in wlsunsets : w[1] = pidFile /\ pidFile # 0

\* What runs while a call is at each of its awaits.
WhileTempered(s) ==
  LET c == calls[s] IN
    /\ asked # Unknown => c.to = asked
    /\ c.step = "stop" => InFile
    /\ c.step = "kill" => \A w \in wlsunsets : w[1] = c.pid
    /\ c.step \in {"rm", "spawn"} => wlsunsets = {}
    /\ c.step \in {"spawn", "startup"} => c.to # Neutral
    /\ c.step = "startup" =>
         /\ c.pid # 0 /\ wlsunsets \subseteq {<<c.pid, c.to>>}
         /\ asked # Unknown => wlsunsets = {<<c.pid, c.to>>}

\* What runs between calls.
BetweenCalls ==
  (\A s \in CallSlots : ~Tempered(s)) =>
    /\ InFile
    /\ asked # Unknown =>
         wlsunsets = IF asked = Neutral THEN {} ELSE {<<pidFile, asked>>}

\* As long as no two calls met: one call at a time, and what it left running.
TemperedOnce ==
  asked # Broken =>
    /\ \A r, s \in CallSlots : Tempered(r) /\ Tempered(s) => r = s
    /\ \A s \in CallSlots : Tempered(s) => WhileTempered(s)
    /\ BetweenCalls

TemperatureInv == AllMade /\ made \in Nat /\ TemperedOnce

\* The call under way moves on or ends, and leaves what is expected then.
LEMMA HandsOver ==
  ASSUME TemperatureInv, NEW s \in CallSlots, OneMoves(s), made' \in Nat,
         asked' # Broken => asked # Broken, Tempered(s),
         ASSUME asked' # Broken, Tempered(s)' PROVE WhileTempered(s)',
         ASSUME asked' # Broken, ~Tempered(s)'
         PROVE  /\ InFile'
                /\ asked' # Unknown =>
                     wlsunsets' = IF asked' = Neutral THEN {} ELSE {<<pidFile', asked'>>}
  PROVE  TemperatureInv'
<1>1. AllMade'
  BY DEF OneMoves, AllMade
<1>2. ASSUME asked' # Broken PROVE \A o \in CallSlots : o # s => ~Tempered(o)'
  BY <1>2 DEF TemperatureInv, TemperedOnce, OneMoves, Tempered
<1>3. ASSUME asked' # Broken PROVE BetweenCalls'
  BY <1>3 DEF BetweenCalls
<1>. QED
  BY <1>1, <1>2, <1>3 DEF TemperatureInv, TemperedOnce

\* A step of a call that has nothing to do with the temperature.
LEMMA TemperatureFrame ==
  ASSUME TemperatureInv, NEW s \in CallSlots, OneMoves(s), UNCHANGED sunVars, made' \in Nat,
         calls[s].step \in {"idle", "switch", "outputs", "power"},
         calls'[s].step \in {"idle", "switch", "outputs", "power"}
  PROVE  TemperatureInv'
<1>1. AllMade'
  BY DEF OneMoves, AllMade
<1>2. /\ \A o \in CallSlots : Tempered(o)' <=> Tempered(o)
      /\ \A o \in CallSlots : Tempered(o) => calls'[o] = calls[o]
      /\ asked' = asked /\ wlsunsets' = wlsunsets /\ pidFile' = pidFile
  BY DEF OneMoves, Tempered, sunVars
<1>3. \A o \in CallSlots : Tempered(o) => (WhileTempered(o) => WhileTempered(o)')
  BY <1>2 DEF WhileTempered, InFile
<1>4. BetweenCalls => BetweenCalls'
  BY <1>2 DEF BetweenCalls, InFile
<1>. QED
  BY <1>1, <1>2, <1>3, <1>4 DEF TemperatureInv, TemperedOnce

\* The call that begins: the temperature is known again when no other is
\* under way.
LEMMA AskedStep ==
  ASSUME TemperatureInv, NEW s \in CallSlots, TemperatureAsked(s)
  PROVE  TemperatureInv'
<1>1. PICK k \in Warm \cup {Neutral} :
        /\ Begins(s, "stop", k)
        /\ asked' = IF asked = Broken \/ \E o \in CallSlots : Tempered(o) THEN Broken ELSE k
  BY DEF TemperatureAsked
<1>2. /\ OneMoves(s) /\ made' = made + 1 /\ calls'[s].step = "stop" /\ calls'[s].to = k
      /\ wlsunsets' = wlsunsets /\ pidFile' = pidFile
  BY <1>1, BeginsOne DEF TemperatureInv, TemperatureAsked
<1>3. AllMade' /\ made' \in Nat
  BY <1>2 DEF OneMoves, AllMade, TemperatureInv
<1>4. ASSUME asked' # Broken PROVE TemperedOnce'
  <2>1. asked # Broken /\ asked' = k /\ \A o \in CallSlots : ~Tempered(o)
    BY <1>1, <1>4
  <2>2. InFile'
    BY <1>2, <2>1 DEF TemperatureInv, TemperedOnce, BetweenCalls, InFile
  <2>3. Tempered(s)' /\ \A o \in CallSlots : o # s => ~Tempered(o)'
    BY <1>2, <2>1 DEF OneMoves, Tempered
  <2>4. WhileTempered(s)'
    BY <1>2, <2>1, <2>2 DEF WhileTempered
  <2>. QED
    BY <2>3, <2>4 DEF TemperedOnce, BetweenCalls
<1>5. asked' = Broken => TemperedOnce'
  BY DEF TemperedOnce
<1>. QED
  BY <1>3, <1>4, <1>5 DEF TemperatureInv

\* The call that looks at the pid file.
LEMMA PidReadStep ==
  ASSUME TemperatureInv, NEW s \in CallSlots, PidRead(s)
  PROVE  TemperatureInv'
<1>1. /\ Tempered(s) /\ calls[s].step = "stop" /\ AllMade /\ made' \in Nat
      /\ asked' = asked /\ wlsunsets' = wlsunsets /\ pidFile' = pidFile
  BY DEF PidRead, Tempered, TemperatureInv, sunVars
<1>2. asked # Broken => InFile /\ (asked # Unknown => calls[s].to = asked)
  BY <1>1 DEF TemperatureInv, TemperedOnce, WhileTempered
<1>3. CASE pidFile # 0
  <2>. DEFINE v == At("kill", calls[s].to, pidFile)
  <2>1. calls' = [calls EXCEPT ![s] = v]
    BY <1>3 DEF PidRead
  <2>2. Made(v) /\ v.step = "kill" /\ v.to = calls[s].to /\ v.pid = pidFile
    BY AtShape
  <2>. HIDE DEF v
  <2>3. OneMoves(s) /\ calls'[s] = v
    BY <1>1, <2>1, <2>2, MovesOne
  <2>4. Tempered(s)' /\ (asked # Broken => WhileTempered(s)')
    BY <1>1, <1>2, <2>2, <2>3 DEF Tempered, WhileTempered, InFile
  <2>. QED
    BY <1>1, <2>3, <2>4, HandsOver
<1>4. CASE pidFile = 0 /\ calls[s].to = Neutral
  <2>1. OneMoves(s) /\ calls'[s].step = "idle"
    BY <1>1, <1>4, EndsOne DEF PidRead
  <2>2. ~Tempered(s)' /\ (asked # Broken => InFile' /\ wlsunsets' = {})
    BY <1>1, <1>2, <1>4, <2>1 DEF Tempered, InFile
  <2>3. asked # Broken /\ asked # Unknown => asked = Neutral
    BY <1>2, <1>4
  <2>. QED
    BY <1>1, <2>1, <2>2, <2>3, HandsOver
<1>5. CASE pidFile = 0 /\ calls[s].to # Neutral
  <2>1. OneMoves(s) /\ calls'[s].step = "spawn" /\ calls'[s].to = calls[s].to
    BY <1>1, <1>5, GoesOne DEF PidRead
  <2>2. Tempered(s)' /\ (asked # Broken => WhileTempered(s)')
    BY <1>1, <1>2, <1>5, <2>1 DEF Tempered, WhileTempered, InFile
  <2>. QED
    BY <1>1, <2>1, <2>2, HandsOver
<1>. QED
  BY <1>3, <1>4, <1>5

\* What the file names is killed, and then the file goes.
LEMMA KillStep ==
  ASSUME TemperatureInv, NEW s \in CallSlots, Killed(s) \/ FileRemoved(s)
  PROVE  TemperatureInv'
<1>1. Tempered(s) /\ AllMade /\ made' \in Nat /\ asked' = asked
  BY DEF Killed, FileRemoved, Tempered, TemperatureInv
<1>2. asked # Broken => WhileTempered(s)
  BY <1>1 DEF TemperatureInv, TemperedOnce
<1>3. CASE Killed(s)
  <2>1. /\ OneMoves(s) /\ calls'[s].step = "rm" /\ calls'[s].to = calls[s].to
        /\ calls[s].step = "kill" /\ wlsunsets' = {w \in wlsunsets : w[1] # calls[s].pid}
    BY <1>1, <1>3, GoesOne DEF Killed
  <2>2. asked # Broken => wlsunsets' = {}
    BY <1>2, <2>1 DEF WhileTempered
  <2>3. Tempered(s)' /\ (asked # Broken => WhileTempered(s)')
    BY <1>1, <1>2, <2>1, <2>2 DEF Tempered, WhileTempered
  <2>. QED
    BY <1>1, <2>1, <2>3, HandsOver
<1>4. CASE FileRemoved(s) /\ calls[s].to = Neutral
  <2>1. OneMoves(s) /\ calls'[s].step = "idle" /\ calls[s].step = "rm" /\ wlsunsets' = wlsunsets
    BY <1>1, <1>4, EndsOne DEF FileRemoved
  <2>2. ~Tempered(s)' /\ (asked # Broken => InFile' /\ wlsunsets' = {})
    BY <1>2, <2>1 DEF Tempered, InFile, WhileTempered
  <2>3. asked # Broken /\ asked # Unknown => asked = Neutral
    BY <1>2, <1>4 DEF WhileTempered
  <2>. QED
    BY <1>1, <2>1, <2>2, <2>3, HandsOver
<1>5. CASE FileRemoved(s) /\ calls[s].to # Neutral
  <2>1. /\ OneMoves(s) /\ calls'[s].step = "spawn" /\ calls'[s].to = calls[s].to
        /\ calls[s].step = "rm" /\ wlsunsets' = wlsunsets
    BY <1>1, <1>5, GoesOne DEF FileRemoved
  <2>2. Tempered(s)' /\ (asked # Broken => WhileTempered(s)')
    BY <1>1, <1>2, <1>5, <2>1 DEF Tempered, WhileTempered
  <2>. QED
    BY <1>1, <2>1, <2>2, HandsOver
<1>. QED
  BY <1>3, <1>4, <1>5

\* A pid is not the 0 of a file that is not there.
LEMMA PidIsOne ==
  ASSUME made \in Nat, NEW s \in CallSlots
  PROVE  Pid(s) # 0
<1>1. Cardinality(CallSlots) \in Nat /\ s \in Nat \ {0}
  BY SlotsAssumption, FS_CardinalityType
<1>2. made * (Cardinality(CallSlots) + 1) \in Nat
  <2>1. \A a, b \in Nat : a * (b + 1) \in Nat
    OBVIOUS
  <2>. QED
    BY <1>1, <2>1
<1>. QED
  BY <1>1, <1>2 DEF Pid

\* The process starts; it is recorded, or it has ended before that.
LEMMA StartStep ==
  ASSUME TemperatureInv, NEW s \in CallSlots,
         SunsetSpawned(s) \/ Recorded(s) \/ RecordFails(s) \/ NotStarted(s)
  PROVE  TemperatureInv'
<1>1. Tempered(s) /\ AllMade /\ made \in Nat /\ made' \in Nat
  BY DEF SunsetSpawned, Recorded, RecordFails, NotStarted, Tempered, TemperatureInv
<1>2. asked # Broken => WhileTempered(s)
  BY <1>1 DEF TemperatureInv, TemperedOnce
<1>3. CASE SunsetSpawned(s)
  <2>. DEFINE v == At("startup", calls[s].to, Pid(s))
  <2>1. /\ calls' = [calls EXCEPT ![s] = v] /\ calls[s].step = "spawn"
        /\ wlsunsets' = wlsunsets \cup {<<Pid(s), calls[s].to>>} /\ asked' = asked
    BY <1>3 DEF SunsetSpawned
  <2>2. Made(v) /\ v.step = "startup" /\ v.to = calls[s].to /\ v.pid = Pid(s)
    BY AtShape
  <2>. HIDE DEF v
  <2>3. OneMoves(s) /\ calls'[s] = v
    BY <1>1, <2>1, <2>2, MovesOne
  <2>4. asked # Broken => wlsunsets' = {<<Pid(s), calls[s].to>>}
    BY <1>2, <2>1 DEF WhileTempered
  <2>5. Pid(s) # 0
    BY <1>1, PidIsOne
  <2>6. Tempered(s)' /\ (asked # Broken => WhileTempered(s)')
    BY <1>2, <2>1, <2>2, <2>3, <2>4, <2>5 DEF Tempered, WhileTempered
  <2>. QED
    BY <1>1, <2>1, <2>3, <2>6, HandsOver
<1>4. CASE Recorded(s)
  <2>1. /\ OneMoves(s) /\ calls'[s].step = "idle" /\ calls[s].step = "startup"
        /\ pidFile' = calls[s].pid /\ wlsunsets' = wlsunsets /\ asked' = asked
        /\ <<calls[s].pid, calls[s].to>> \in wlsunsets
    BY <1>1, <1>4, EndsOne DEF Recorded
  <2>2. ~Tempered(s)'
    BY <2>1 DEF Tempered
  <2>3. asked # Broken => InFile' /\ wlsunsets' = {<<pidFile', calls[s].to>>}
    BY <1>2, <2>1 DEF WhileTempered, InFile
  <2>4. asked # Broken /\ asked # Unknown => asked # Neutral /\ calls[s].to = asked
    BY <1>2, <2>1 DEF WhileTempered
  <2>. QED
    BY <1>1, <2>1, <2>2, <2>3, <2>4, HandsOver
<1>5. CASE RecordFails(s)
  <2>1. OneMoves(s) /\ asked' = Broken
    BY <1>1, <1>5, EndsOne DEF RecordFails
  <2>. QED
    BY <1>1, <2>1 DEF TemperatureInv, TemperedOnce, OneMoves, AllMade
<1>6. CASE NotStarted(s)
  <2>1. /\ OneMoves(s) /\ calls'[s].step = "idle" /\ calls[s].step = "startup"
        /\ wlsunsets' = wlsunsets /\ asked' = asked
        /\ <<calls[s].pid, calls[s].to>> \notin wlsunsets
    BY <1>1, <1>6, EndsOne DEF NotStarted, sunVars
  <2>2. ~Tempered(s)'
    BY <2>1 DEF Tempered
  <2>3. asked # Broken => wlsunsets' = {} /\ asked' = Unknown
    BY <1>2, <2>1 DEF WhileTempered
  <2>4. asked # Broken => InFile'
    BY <2>3 DEF InFile
  <2>. QED
    BY <1>1, <2>1, <2>2, <2>3, <2>4, HandsOver
<1>. QED
  BY <1>3, <1>4, <1>5, <1>6

\* An error or an exit: what was asked for is not known any more.
LEMMA LostStep ==
  ASSUME TemperatureInv,
         \/ \E s \in CallSlots : ProgramMissing(s)
         \/ \E w \in wlsunsets : SunsetExits(w)
  PROVE  TemperatureInv'
<1>1. /\ asked' = Lost /\ pidFile' = pidFile /\ wlsunsets' \subseteq wlsunsets
      /\ made' \in Nat /\ AllMade
  BY DEF ProgramMissing, SunsetExits, TemperatureInv
<1>2. asked' # Broken => asked # Broken /\ asked' = Unknown
  BY <1>1 DEF Lost
<1>3. ASSUME NEW s \in CallSlots, ProgramMissing(s) PROVE TemperatureInv'
  <2>1. /\ OneMoves(s) /\ calls'[s].step = "idle" /\ calls[s].step = "stop"
        /\ wlsunsets' = wlsunsets
    BY <1>1, <1>3, EndsOne DEF ProgramMissing
  <2>2. Tempered(s) /\ ~Tempered(s)'
    BY <2>1 DEF Tempered
  <2>3. asked # Broken => InFile'
    BY <1>1, <2>1, <2>2 DEF TemperatureInv, TemperedOnce, WhileTempered, InFile
  <2>. QED
    BY <1>1, <1>2, <2>1, <2>2, <2>3, HandsOver
<1>4. ASSUME NEW w \in wlsunsets, SunsetExits(w) PROVE TemperatureInv'
  <2>1. calls' = calls /\ \A s \in CallSlots : Tempered(s)' <=> Tempered(s)
    BY <1>4 DEF SunsetExits, Tempered
  <2>2. AllMade'
    BY <1>1, <2>1 DEF AllMade
  <2>3. InFile => InFile'
    BY <1>1 DEF InFile
  <2>4. ASSUME asked' = Unknown, NEW s \in CallSlots, WhileTempered(s)
        PROVE  WhileTempered(s)'
    BY <1>1, <2>1, <2>3, <2>4 DEF WhileTempered
  <2>. QED
    BY <1>1, <1>2, <2>1, <2>2, <2>3, <2>4 DEF TemperatureInv, TemperedOnce, BetweenCalls
<1>. QED
  BY <1>3, <1>4

\* A restart: nothing runs, and nothing is under way.
LEMMA RestartStep ==
  ASSUME TemperatureInv, NEW s \in CallSlots, CoreRestarts(s)
  PROVE  TemperatureInv'
<1>1. AllMade' /\ \A o \in CallSlots : ~Tempered(o)'
  <2>1. /\ AllMade' /\ calls'[s].step = "outputs"
        /\ \A o \in CallSlots : o # s => calls'[o].step = "idle"
    BY RestartsAll
  <2>. QED
    BY <2>1 DEF Tempered
<1>2. made' = made + 1 /\ wlsunsets' = {} /\ asked' = Unknown
  BY DEF CoreRestarts
<1>3. made' \in Nat
  BY <1>2 DEF TemperatureInv
<1>. QED
  BY <1>1, <1>2, <1>3 DEF TemperatureInv, TemperedOnce, BetweenCalls, InFile

LEMMA TemperatureStep ==
  ASSUME TemperatureInv, [DisplayNext]_displayVars
  PROVE  TemperatureInv'
<1>. AllMade /\ made \in Nat
  BY DEF TemperatureInv
<1>1. ASSUME NEW s \in CallSlots, Reloads(s) \/ Attaches(s) PROVE TemperatureInv'
  <2>1. PICK g : Begins(s, "outputs", g) /\ UNCHANGED sunVars
    BY <1>1 DEF Reloads, Attaches, Applies
  <2>2. /\ OneMoves(s) /\ calls[s].step = "idle" /\ calls'[s].step = "outputs"
        /\ made' = made + 1
    BY <2>1, BeginsOne
  <2>3. made' \in Nat
    BY <2>2
  <2>. QED
    BY <2>1, <2>2, <2>3, TemperatureFrame
<1>2. ASSUME NEW s \in CallSlots, NoOutputs(s) \/ OutputsFail(s) \/ OutputsSet(s)
      PROVE  TemperatureInv'
  <2>1. /\ OneMoves(s) /\ calls'[s].step = "idle" /\ calls[s].step \in {"outputs", "power"}
        /\ made' = made /\ UNCHANGED sunVars
    BY <1>2, EndsOne DEF NoOutputs, OutputsFail, OutputsSet
  <2>. QED
    BY <2>1, TemperatureFrame
<1>3. ASSUME NEW s \in CallSlots, PowerAsked(s) \/ PowerDone(s) PROVE TemperatureInv'
  <2>1. /\ OneMoves(s) /\ UNCHANGED sunVars /\ made' \in Nat
        /\ calls[s].step \in {"idle", "switch"} /\ calls'[s].step \in {"idle", "switch", "power"}
    BY <1>3, PowerMoves
  <2>. QED
    BY <2>1, TemperatureFrame
<1>4. CASE UNCHANGED <<calls, made, sunVars>>
  <2>1. /\ calls' = calls /\ made' = made /\ asked' = asked
        /\ wlsunsets' = wlsunsets /\ pidFile' = pidFile
    BY <1>4 DEF sunVars
  <2>2. \A s \in CallSlots : Tempered(s)' <=> Tempered(s)
    BY <2>1 DEF Tempered
  <2>3. \A s \in CallSlots : WhileTempered(s) => WhileTempered(s)'
    BY <2>1 DEF WhileTempered, InFile
  <2>4. BetweenCalls => BetweenCalls'
    BY <2>1, <2>2 DEF BetweenCalls, InFile
  <2>. QED
    BY <2>1, <2>2, <2>3, <2>4 DEF TemperatureInv, TemperedOnce, AllMade
<1>5. Detaches \/ UNCHANGED displayVars => UNCHANGED <<calls, made, sunVars>>
  BY DEF Detaches, displayVars
<1>. QED
  BY <1>1, <1>2, <1>3, <1>4, <1>5, AskedStep, PidReadStep, KillStep, StartStep, LostStep,
     RestartStep DEF DisplayNext

\* colorTemperature(): after calls that met no other one, the temperature that
\* was asked for is the one the only wlsunset keeps.
THEOREM TemperatureInForce == DisplaySpec => []OneTemperature
<1>1. DisplayInit => TemperatureInv
  <2>1. Made(NoCall) /\ NoCall.step = "idle"
    BY AtShape DEF NoCall
  <2>. QED
    BY <2>1 DEF DisplayInit, TemperatureInv, AllMade, TemperedOnce, Tempered, BetweenCalls, InFile
<1>2. TemperatureInv => OneTemperature
  <2>. SUFFICES ASSUME TemperatureInv, asked \notin {Unknown, Broken},
                       \A s \in CallSlots : ~Tempered(s)
                PROVE  {w[2] : w \in wlsunsets} = {asked} \ {Neutral} /\ Cardinality(wlsunsets) <= 1
    BY DEF OneTemperature
  <2>1. wlsunsets = IF asked = Neutral THEN {} ELSE {<<pidFile, asked>>}
    BY DEF TemperatureInv, TemperedOnce, BetweenCalls
  <2>2. CASE asked = Neutral
    <3>1. wlsunsets = {}
      BY <2>1, <2>2
    <3>2. Cardinality(wlsunsets) = 0
      BY <3>1, FS_EmptySet
    <3>. QED
      BY <2>2, <3>1, <3>2
  <2>3. CASE asked # Neutral
    <3>. DEFINE w == <<pidFile, asked>>
    <3>1. wlsunsets = {w} /\ w[2] = asked
      BY <2>1, <2>3
    <3>. HIDE DEF w
    <3>2. Cardinality(wlsunsets) = 1
      BY <3>1, FS_Singleton
    <3>3. {v[2] : v \in wlsunsets} = {asked} \ {Neutral}
      BY <2>3, <3>1
    <3>. QED
      BY <3>2, <3>3
  <2>. QED
    BY <2>2, <2>3
<1>. QED
  BY <1>1, <1>2, TemperatureStep, PTL DEF DisplaySpec
===============================================================================
