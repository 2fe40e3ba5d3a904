-------------------------------- MODULE Display --------------------------------
(***************************************************************************)
(* Geometry, power and colour temperature of the display                   *)
(* (core/src/system/displayController.ts, and applyDisplayGeometry() in    *)
(* core/src/index.ts).                                                     *)
(*                                                                         *)
(* A geometry is a scale with an orientation.  The shell page applies one  *)
(* by CSS and the outputs by wlr-randr; applyDisplayGeometry() sends it to *)
(* the page first, tries the outputs, and then clears the page.  Calls are *)
(* not queued.  wlsunset runs detached, found again through a pid file.    *)
(* Calls of the two kinds share nothing.                                   *)
(***************************************************************************)
EXTENDS Integers, FiniteSets

CONSTANTS
  Geometries, \* what display.scale and display.orientation may say
  Plain,      \* scale 1, orientation normal
  Warm,       \* temperatures that need wlsunset
  Neutral,    \* MAX_COLOR_TEMPERATURE_KELVIN: no wlsunset
  CallSlots,  \* bound: calls in flight at once
  MaxCalls    \* bound: calls made

VARIABLES
  geometry,   \* display.scale and display.orientation of the configuration
  onPage,     \* what the shell page applies
  onOutputs,  \* what the outputs apply
  shellUp,    \* the shell's sink is attached
  calls,      \* calls in flight, by slot: the await they are parked at
  made,       \* bound: calls so far
  lone,       \* history: the last applyDisplayGeometry() met no other call,
              \* did not fail, and nothing came after it
  wlsunsets,  \* the wlsunset processes that run: <<pid, temperature>>
  pidFile,    \* the pid in wlsunset.pid, 0 when there is no file
  asked       \* history: the temperature last asked for; Unknown after an
              \* error, an exit or a restart, and Broken from the first two
              \* calls that met, or pid that was not written, to a restart

geoVars == <<geometry, onPage, onOutputs, shellUp, lone>>
sunVars == <<wlsunsets, pidFile, asked>>
displayVars == <<geoVars, calls, made, sunVars>>

ASSUME SlotsAssumption == CallSlots \subseteq Nat \ {0} /\ IsFiniteSet(CallSlots)

Unknown == 0
Broken == -1
At(step, to, pid) == [step |-> step, to |-> to, pid |-> pid]
NoCall == At("idle", Plain, 0)
Calling == {s \in CallSlots : calls[s].step # "idle"}
Goes(s, step) == calls' = [calls EXCEPT ![s] = At(step, @.to, @.pid)]
Ends(s) == calls' = [calls EXCEPT ![s] = NoCall]
Begins(s, step, to) ==
  /\ calls[s].step = "idle" /\ made < MaxCalls
  /\ calls' = [calls EXCEPT ![s] = At(step, to, 0)]
  /\ made' = made + 1

------------------------------------------------------------------------------
(* Geometry *)

\* shell.send() is dropped without a sink.
SentToPage(g) == IF shellUp' THEN g ELSE onPage

\* applyDisplayGeometry(): the page is told at once, and applyConfig() takes
\* what the configuration says before its first await.
Applies(s, g) ==
  /\ Begins(s, "outputs", g)
  /\ onPage' = SentToPage(g)
  /\ lone' = (Calling = {})

\* A reload of the configuration.
Reloads(s) ==
  /\ \E g \in Geometries : geometry' = g /\ UNCHANGED shellUp /\ Applies(s, g)
  /\ UNCHANGED <<onOutputs, sunVars>>

\* The shell attaches: the same page, or one loaded afresh, which has none.
Attaches(s) ==
  /\ ~shellUp /\ shellUp' = TRUE
  /\ Applies(s, geometry)
  /\ UNCHANGED <<geometry, onOutputs, sunVars>>
Detaches ==
  /\ shellUp /\ shellUp' = FALSE
  /\ UNCHANGED <<geometry, onPage, onOutputs, lone, calls, made, sunVars>>

\* wlr-randr is missing or reports no output: applyConfig() answers false and
\* the page keeps its geometry.  An output that comes back is plain.
NoOutputs(s) ==
  /\ calls[s].step \in {"outputs", "power"} /\ Ends(s)
  /\ onOutputs' = Plain
  /\ UNCHANGED <<geometry, onPage, shellUp, lone, made, sunVars>>
\* wlr-randr fails, for every output or for some of them.
OutputsFail(s) ==
  /\ calls[s].step \in {"outputs", "power"} /\ Ends(s)
  /\ onOutputs' \in {onOutputs, calls[s].to}
  /\ lone' = FALSE
  /\ UNCHANGED <<geometry, onPage, shellUp, made, sunVars>>
\* The outputs have it; applyConfig() answers true, and the page is cleared.
\* After power("on") nothing is told to the page.
\* Seeded fault: the page keeps its geometry.
OutputsSet_fault(s) ==
  /\ calls[s].step \in {"outputs", "power"} /\ Ends(s)
  /\ onOutputs' = calls[s].to
  /\ UNCHANGED <<geometry, onPage, shellUp, lone, made, sunVars>>
OutputsSet(s) ==
  /\ calls[s].step \in {"outputs", "power"} /\ Ends(s)
  /\ onOutputs' = calls[s].to
  /\ onPage' = IF calls[s].step = "outputs" /\ shellUp THEN Plain ELSE onPage
  /\ lone' = (lone /\ (calls[s].step = "power" \/ shellUp))
  /\ UNCHANGED <<geometry, shellUp, made, sunVars>>

\* power("on") and power("off"): wlopm, or wlr-randr in its place, answers or
\* fails; "on" goes on to applyConfig().
PowerAsked(s) ==
  /\ Begins(s, "switch", Plain)
  /\ lone' = FALSE
  /\ UNCHANGED <<geometry, onPage, onOutputs, shellUp, sunVars>>
PowerDone(s) ==
  /\ calls[s].step = "switch"
  /\ \/ Ends(s)
     \/ calls' = [calls EXCEPT ![s] = At("power", geometry, 0)]
  /\ UNCHANGED <<geoVars, made, sunVars>>

------------------------------------------------------------------------------
(* Colour temperature *)

Tempered(s) == calls[s].step \in {"stop", "kill", "rm", "spawn", "startup"}

Lost == IF asked = Broken THEN Broken ELSE Unknown

\* colorTemperature(k), clamped.  A warm one needs the program.
TemperatureAsked(s) ==
  /\ \E k \in Warm \cup {Neutral} :
       /\ Begins(s, "stop", k)
       /\ asked' = IF asked = Broken \/ \E o \in CallSlots : Tempered(o) THEN Broken ELSE k
  /\ UNCHANGED <<geoVars, wlsunsets, pidFile>>
ProgramMissing(s) ==
  /\ calls[s].step = "stop" /\ calls[s].to # Neutral
  /\ Ends(s) /\ asked' = Lost
  /\ UNCHANGED <<geoVars, made, wlsunsets, pidFile>>

\* stopColorTemperature(): the pid in the file, if it still is a wlsunset, is
\* told to end, with SIGKILL if need be, and waited for; then the file goes.
PidRead(s) ==
  /\ calls[s].step = "stop"
  /\ IF pidFile = 0
     THEN IF calls[s].to = Neutral THEN Ends(s) ELSE Goes(s, "spawn")
     ELSE calls' = [calls EXCEPT ![s] = At("kill", @.to, pidFile)]
  /\ UNCHANGED <<geoVars, made, sunVars>>
\* Seeded fault: nothing is killed.
Killed_fault(s) ==
  /\ calls[s].step = "kill" /\ Goes(s, "rm")
  /\ UNCHANGED <<geoVars, made, wlsunsets, pidFile, asked>>
Killed(s) ==
  /\ calls[s].step = "kill" /\ Goes(s, "rm")
  /\ wlsunsets' = {w \in wlsunsets : w[1] # calls[s].pid}
  /\ UNCHANGED <<geoVars, made, pidFile, asked>>
FileRemoved(s) ==
  /\ calls[s].step = "rm" /\ pidFile' = 0
  /\ IF calls[s].to = Neutral THEN Ends(s) ELSE Goes(s, "spawn")
  /\ UNCHANGED <<geoVars, made, wlsunsets, asked>>

\* The process is started, must live for 500 ms, and its pid is written.
Pid(s) == made * (Cardinality(CallSlots) + 1) + s
SunsetSpawned(s) ==
  /\ calls[s].step = "spawn"
  /\ calls' = [calls EXCEPT ![s] = At("startup", @.to, Pid(s))]
  /\ wlsunsets' = wlsunsets \cup {<<Pid(s), calls[s].to>>}
  /\ UNCHANGED <<geoVars, made, pidFile, asked>>
Recorded(s) ==
  /\ calls[s].step = "startup" /\ <<calls[s].pid, calls[s].to>> \in wlsunsets
  /\ pidFile' = calls[s].pid /\ Ends(s)
  /\ UNCHANGED <<geoVars, made, wlsunsets, asked>>
RecordFails(s) ==
  /\ calls[s].step = "startup" /\ <<calls[s].pid, calls[s].to>> \in wlsunsets
  /\ Ends(s) /\ asked' = Broken
  /\ UNCHANGED <<geoVars, made, wlsunsets, pidFile>>
NotStarted(s) ==
  /\ calls[s].step = "startup" /\ <<calls[s].pid, calls[s].to>> \notin wlsunsets
  /\ Ends(s)
  /\ UNCHANGED <<geoVars, made, sunVars>>
SunsetExits(w) ==
  /\ w \in wlsunsets /\ wlsunsets' = wlsunsets \ {w} /\ asked' = Lost
  /\ UNCHANGED <<geoVars, calls, made, pidFile>>

\* frame-core dies and is started again.  systemd ends what it left running,
\* the pid file stays, and main() applies the geometry.
CoreRestarts(s) ==
  /\ calls' = [o \in CallSlots |-> IF o = s THEN At("outputs", geometry, 0) ELSE NoCall]
  /\ made < MaxCalls /\ made' = made + 1
  /\ shellUp' = FALSE /\ lone' = FALSE
  /\ wlsunsets' = {} /\ asked' = Unknown
  /\ UNCHANGED <<geometry, onPage, onOutputs, pidFile>>

DisplayInit ==
  /\ geometry \in Geometries /\ onPage = Plain /\ onOutputs = Plain
  /\ shellUp = FALSE /\ calls = [s \in CallSlots |-> NoCall] /\ made = 0
  /\ lone = FALSE /\ wlsunsets = {} /\ pidFile = 0 /\ asked = Unknown

DisplayNext ==
  \/ Detaches
  \/ \E s \in CallSlots :
       \/ Reloads(s) \/ Attaches(s) \/ NoOutputs(s) \/ OutputsFail(s) \/ OutputsSet(s)
       \/ PowerAsked(s) \/ PowerDone(s)
       \/ TemperatureAsked(s) \/ ProgramMissing(s) \/ PidRead(s) \/ Killed(s)
       \/ FileRemoved(s) \/ SunsetSpawned(s) \/ Recorded(s) \/ RecordFails(s) \/ NotStarted(s)
       \/ CoreRestarts(s)
  \/ \E w \in wlsunsets : SunsetExits(w)

DisplaySpec == DisplayInit /\ [][DisplayNext]_displayVars

------------------------------------------------------------------------------
(* Properties *)

\* The picture is scaled and turned once, as the configuration says: by the
\* outputs or, where they cannot, by the page; never by both.
GeometryOnce ==
  lone /\ Calling = {} /\ shellUp =>
    \/ onOutputs = geometry /\ onPage = Plain
    \/ onOutputs = Plain /\ onPage = geometry

\* After calls that met no other one the temperature last asked for is the
\* one in effect, and no second wlsunset is left over.
OneTemperature ==
  asked \notin {Unknown, Broken} /\ (\A s \in CallSlots : ~Tempered(s)) =>
    {w[2] : w \in wlsunsets} = {asked} \ {Neutral} /\ Cardinality(wlsunsets) <= 1
==============================================================================
