------------------------------ MODULE SettingsTab ------------------------------
(***************************************************************************)
(* The Settings tab of the control panel (web/src/components/              *)
(* SettingsSection.tsx) and the routes behind it (core/src/api/server.ts,  *)
(* /api/settings/config).  Each tile keeps drafts of its fields, and React *)
(* replaces a draft when the field's value in a fresh configuration is     *)
(* another one than before.  A save sends all fields of the tile.          *)
(*                                                                         *)
(* A field stands for those of its tile that behave alike: `panel` is      *)
(* everything of the display but the backlight device, `limits` the two    *)
(* numbers of the scheduler, `port` what else there is of the broker,      *)
(* `release` what else there is of the updater.  The order in which        *)
(* requests reach the files is ConfigStore; here a PUT is one step.        *)
(***************************************************************************)
EXTENDS Naturals

CONSTANTS
  Installs,   \* what the install may have set up, among "mqtt" and "vnc"
  MaxTyped,   \* bound: fields the user enters
  MaxOthers   \* bound: changes by others and restarts

VARIABLES
  file,       \* frame.yaml: field -> value
  broken,     \* frame.yaml has a section without its password_file
  secrets,    \* the sections that have one
  inForce,    \* the configuration in force
  safe,       \* frame-core is in safe mode
  screenIds,  \* the screens there are
  page,       \* the page's configuration; Unseen before the first answer
  draft,      \* the page's drafts: field -> value
  request,    \* the request of the page under way
  error,      \* err
  typed,      \* history: fields entered since the page last replaced them
  stored,     \* history: fields sent by the last save that was reported done
  undisturbed,\* history: since then nothing failed and nobody else wrote
  typings, others

serverVars == <<file, broken, secrets, inForce, safe, screenIds>>
pageVars == <<page, draft, request, error>>
entryVars == <<typed, stored, undisturbed>>
settingsTabVars == <<serverVars, pageVars, entryVars, typings, others>>

Fields == {"name", "panel", "backlight", "default", "limits", "ha", "host", "user",
           "port", "repo", "release", "vnc", "builtin"}

\* A field is empty or off, has one of two values, has one the schema does not
\* accept, or has the first one with a blank behind it.
Empty == 0
Bad == 3
Padded == 4
Trimmed(v) == IF v = Padded THEN 1 ELSE v

Entries(f) ==
  CASE f = "name" -> {Empty, 1, 2, Padded}
    [] f = "default" -> page.screens
    [] f \in {"ha", "vnc", "builtin", "backlight", "user"} -> {Empty, 1}
    [] f = "host" -> {Empty, 1, Bad}
    [] OTHER -> {1, 2, Bad}

\* The broker and VNC each are a section with a password_file, which only the
\* install script or an edit by hand writes.
Section(f) == CASE f \in {"host", "user", "port"} -> "mqtt" [] f = "vnc" -> "vnc" [] OTHER -> "none"
Without(f) == IF f \in {"host", "user", "vnc"} THEN Empty ELSE 1
Bare(s) ==
  [f \in Fields |-> CASE f \in {"ha", "builtin"} -> Empty
                      [] Section(f) \in {"none"} \cup s -> 1
                      [] OTHER -> Without(f)]

Unseen == [vals |-> <<>>, safe |-> FALSE, screens |-> {}]
Asking(step, patch, entered, view) ==
  [step |-> step, patch |-> patch, typed |-> entered, view |-> view]
NoRequest == Asking("idle", <<>>, {}, Unseen)
Loading == Asking("get", <<>>, {}, Unseen)
busy == request.step # "idle" /\ request.patch # <<>>

-----------------------------------------------------------------------------
\* The core.

\* GET /api/settings/config and GET /api/screens.
View == [vals |-> inForce, safe |-> safe, screens |-> screenIds]
GetHandled ==
  /\ request.step = "get"
  /\ request' = Asking("view", request.patch, request.typed, View)
  /\ UNCHANGED <<serverVars, page, draft, error, entryVars, typings, others>>

FileOf(p) == [f \in Fields |-> IF f \in DOMAIN p THEN p[f] ELSE file[f]]
Refused(p) ==
  \/ safe
  \/ \E f \in DOMAIN p : p[f] = Bad
  \/ "default" \in DOMAIN p /\ p["default"] \notin screenIds

Answer(step) == request' = Asking(step, request.patch, request.typed, request.view)

\* The file that comes of a patch loads if its sections have their passwords.
FileLoads(p) == {Section(f) : f \in DOMAIN p} \subseteq {"none"} \cup secrets

\* PUT /api/settings/config.  The patch is checked, the file that comes of it
\* is not: if it does not load, the configuration stays and the answer is ok.
PutHandled ==
  LET p == request.patch IN
  /\ request.step = "put"
  /\ \/ /\ Refused(p) /\ Answer("failed")
        /\ UNCHANGED <<file, broken, inForce>>
     \/ /\ ~Refused(p) /\ Answer("ok")
        /\ file' = FileOf(p)
        /\ broken' = (broken \/ ~FileLoads(p))
        /\ inForce' = IF broken' THEN inForce ELSE file'
  /\ UNCHANGED <<secrets, safe, screenIds, page, draft, error, entryVars, typings, others>>

\* Someone else, by the API or in the file, sets one field, or adds or removes
\* a screen.  undisturbed tells the page's own doing from that.
Others == others < MaxOthers /\ others' = others + 1 /\ undisturbed' = FALSE
OtherClient ==
  /\ Others /\ ~safe /\ ~broken
  /\ \/ \E f \in Fields, v \in {Empty, 1, 2} :
          /\ v \in IF f = "default" THEN screenIds ELSE Entries(f) \ {Bad, Padded}
          /\ f = "name" => v # Empty
          /\ Section(f) \in {"none"} \cup secrets
          /\ file' = [file EXCEPT ![f] = v] /\ inForce' = file'
          /\ UNCHANGED screenIds
     \/ \E ids \in SUBSET {1, 2} :
          /\ inForce["default"] \in ids /\ screenIds' = ids
          /\ UNCHANGED <<file, inForce>>
  /\ UNCHANGED <<broken, secrets, safe, pageVars, typed, stored, typings>>

\* frame-core starts again, maybe after the file was put right by hand.
FrameRestarts ==
  /\ Others
  /\ \E right \in BOOLEAN :
       /\ file' = IF right /\ broken
                  THEN [f \in Fields |-> IF Section(f) \in {"none"} \cup secrets THEN file[f]
                                         ELSE Without(f)]
                  ELSE file
       /\ broken' = (broken /\ ~right)
  /\ safe' = broken'
  /\ inForce' = IF broken' THEN [f \in Fields |-> Empty] ELSE file'
  /\ UNCHANGED <<secrets, screenIds, pageVars, typed, stored, typings>>

-----------------------------------------------------------------------------
\* The page.

\* The tab is opened; it was left while nothing was under way.
Opens ==
  /\ request.step = "idle"
  /\ page' = Unseen /\ draft' = <<>> /\ error' = FALSE /\ request' = Loading
  /\ typed' = {} /\ stored' = {} /\ undisturbed' = TRUE
  /\ UNCHANGED <<serverVars, typings, others>>

\* Seeded fault: the effects run once, when the tab is opened.
Changed_fault(vals) == IF page = Unseen THEN Fields ELSE {}
\* The effects of the tiles: the draft of a field follows when its value in
\* the configuration becomes another one.  A built-in that was switched keeps
\* its draft.
Changed(vals) ==
  IF page = Unseen THEN Fields
  ELSE {f \in Fields : page.vals[f] # vals[f]} \ ({"builtin"} \cap typed)

DraftsFollow(vals, fields) ==
  /\ draft' = [f \in Fields |-> IF f \in fields THEN vals[f] ELSE draft[f]]
  /\ typed' = typed \ fields

\* setDrafts({}) of the built-ins, after their save in whatever way it ended.
Builtins == IF "builtin" \in DOMAIN request.patch THEN {"builtin"} ELSE {}

\* refresh() has all its answers.  A save reports success here, even if the
\* refresh failed.
RefreshArrives ==
  /\ request.step = "view" /\ request' = NoRequest
  /\ page' = request.view
  /\ DraftsFollow(page'.vals, Changed(page'.vals) \cup Builtins)
  /\ stored' = IF request.patch = <<>> THEN stored ELSE DOMAIN request.patch
  /\ UNCHANGED <<serverVars, error, undisturbed, typings, others>>

\* Seeded fault: the page takes its drafts for what was stored.
PutAnswered_fault ==
  /\ request.step = "ok" /\ request' = NoRequest
  /\ stored' = DOMAIN request.patch
  /\ UNCHANGED <<serverVars, page, draft, error, typed, undisturbed, typings, others>>
\* The PUT was answered with success: the page asks for the configuration.
PutAnswered ==
  /\ request.step = "ok" /\ Answer("get")
  /\ UNCHANGED <<serverVars, page, draft, error, entryVars, typings, others>>

\* Refused, or no answer within 30 s; a PUT may have been handled all the same.
RequestFails ==
  /\ request.step # "idle" /\ request' = NoRequest
  /\ error' = TRUE /\ undisturbed' = FALSE
  /\ IF page = Unseen THEN UNCHANGED <<draft, typed>> ELSE DraftsFollow(page.vals, Builtins)
  /\ UNCHANGED <<serverVars, page, stored, typings, others>>

Dismissed ==
  /\ page # Unseen /\ error /\ error' = FALSE
  /\ UNCHANGED <<serverVars, page, draft, request, entryVars, typings, others>>

\* A field can be entered while a save is under way as well.
Types(f) ==
  /\ page # Unseen /\ typings < MaxTyped /\ typings' = typings + 1
  /\ \E v \in Entries(f) \ {draft[f]} : draft' = [draft EXCEPT ![f] = v]
  /\ typed' = typed \cup {f} /\ stored' = stored \ {f}
  /\ undisturbed' = (undisturbed /\ request.step = "idle")
  /\ UNCHANGED <<serverVars, page, request, error, others>>

\* The Save button of a tile with these fields, and what is left out of what
\* it sends.
Dirty(fields) == \E f \in fields : draft[f] # page.vals[f]
Saves(fields, omitted) ==
  /\ page # Unseen /\ request.step = "idle" /\ ~page.safe
  /\ Dirty(fields)
  /\ request' = Asking("put", [f \in fields \ omitted |-> Trimmed(draft[f])], typed, Unseen)
  /\ error' = FALSE
  /\ undisturbed' = (file = inForce /\ inForce = page.vals) /\ stored' = {}
  /\ UNCHANGED <<serverVars, page, draft, typed, typings, others>>

DeviceSaves == page # Unseen /\ draft["name"] # Empty /\ Saves({"name"}, {})

\* An empty backlight device is left out.
DisplaySaves ==
  /\ page # Unseen
  /\ Saves({"panel", "backlight"}, {f \in {"backlight"} : draft[f] = Empty})

SchedulerSaves == Saves({"default", "limits"}, {})

\* The broker goes along if it has a host and a user, which it must have to be
\* enabled.
HomeAssistantSaves ==
  LET section == {"host", "user", "port"}
      named == draft["host"] # Empty /\ draft["user"] # Empty
  IN
  /\ page # Unseen
  /\ draft["ha"] # Empty => named /\ draft["host"] # Bad
  /\ Saves({"ha"} \cup section, IF named THEN {} ELSE section)

UpdaterSaves == page # Unseen /\ draft["repo"] # Bad /\ Saves({"repo", "release"}, {})

VncSaves == Saves({"vnc"}, {})

\* The switches that differ from the configuration.
BuiltinsSaves == Saves({"builtin"}, {})

TileSaves ==
  \/ DeviceSaves \/ DisplaySaves \/ SchedulerSaves \/ HomeAssistantSaves
  \/ UpdaterSaves \/ VncSaves \/ BuiltinsSaves

SettingsTabInit ==
  /\ secrets \in Installs
  /\ file = Bare(secrets) /\ broken = FALSE /\ inForce = file /\ safe = FALSE
  /\ screenIds = {1, 2}
  /\ page = Unseen /\ draft = <<>> /\ request = Loading /\ error = FALSE
  /\ typed = {} /\ stored = {} /\ undisturbed = TRUE
  /\ typings = 0 /\ others = 0

SettingsTabNext ==
  \/ GetHandled \/ PutHandled \/ OtherClient \/ FrameRestarts
  \/ Opens \/ RefreshArrives \/ PutAnswered \/ RequestFails \/ Dismissed
  \/ \E f \in Fields : Types(f)
  \/ TileSaves

SettingsTabSpec == SettingsTabInit /\ [][SettingsTabNext]_settingsTabVars

-----------------------------------------------------------------------------
\* A save overwrites nothing that the user did not enter and the page knew: if
\* a value of the file is replaced by an older one, someone else had set it
\* after the page last asked.
OnlyEnteredWritten ==
  [][request.step = "put" /\ request'.step = "ok" =>
       \A f \in Fields : file'[f] # file[f] => f \in request.typed \/ file[f] # page.vals[f]]_settingsTabVars

\* What was reported as saved is what is in force and on the page, as long as
\* nothing failed, nobody else wrote, and the file loads.
SavedIsShown ==
  undisturbed /\ request.step = "idle" /\ ~broken =>
    \A f \in stored : Trimmed(draft[f]) = inForce[f] /\ page.vals[f] = inForce[f]
==============================================================================
