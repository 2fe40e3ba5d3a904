------------------------------ MODULE ScreensTab ------------------------------
(***************************************************************************)
(* The Screens tab of the control panel (web/src/components/               *)
(* ScreensSection.tsx) and PUT /api/screens.  A save or a deletion sends   *)
(* the whole list, made from the one the page shows.  When a save gets no  *)
(* answer the page reads the list back to find out what became of it.      *)
(* The order of the list and of the keys of a screen is left out, except   *)
(* that it makes the page's comparison of lists fail.  Show and Test leave *)
(* the list alone and are left out.                                        *)
(***************************************************************************)
EXTENDS Naturals, FiniteSets

CONSTANTS
  Ids, Default,  \* screen ids, and the one frame.yaml names as default_screen
  Widget,        \* the form field of a built-in's option: "enum", "boolean",
                 \* "range", "number", "color", "array" or "text"
  Required,      \* whether the option is required
  Requests,      \* bound: slots for PUTs in flight at once
  MaxEvents      \* bound: edits, saves, deletions and others' changes in all

VARIABLES
  screens,    \* the list in force
  shown,      \* the list on the page
  tagFilter,  \* the tag the list is filtered by, "" for none
  editing,    \* the id in the editor, "" for a new screen, or NoEditor
  draft,      \* the screen in the editor
  manifests,  \* the editor has the built-ins' manifests
  saving,     \* the slot this editor's save waits for, 0 for none
  wrong,      \* err: an error is on the page
  puts,       \* requests, by slot
  read,       \* the refresh in flight: NoRead, Asked or the list
  misled,     \* history: a success was reported of a list never in force
  calm,       \* history: no request failed or met another one
  events

listVars == <<screens, puts>>
editorVars == <<editing, draft, manifests, saving>>
screensTabVars == <<listVars, shown, tagFilter, editorVars, wrong, read, misled, calm, events>>

NoEditor == "no editor"
NoRead == <<"none">>
Asked == <<"asked">>

\* A source is empty, lacks a scheme, is a URL, has a scheme the frame does
\* not show, or is no URL at all; or it names a built-in.
Sources == {"empty", "bare", "url", "other scheme", "no url", "builtin"}
\* An option of a built-in, as stored.
Options == {"unset", "good", "bad"}
ScreenConfigs == [id: Ids \cup {""}, type: {"url", "builtin"}, source: Sources, option: Options, tag: {"", "tag"}]
New == [id |-> "", type |-> "url", source |-> "empty", option |-> "unset", tag |-> ""]
UrlScreen(id) == [id |-> id, type |-> "url", source |-> "url", option |-> "unset", tag |-> ""]

\* A PUT is the core's to handle, and the page waits for its answer or for
\* the list that tells what became of it.  took notes that its list was in force.
Put(core, page, kind, list, seen, took) ==
  [core |-> core, page |-> page, kind |-> kind, list |-> list, seen |-> seen, took |-> took]
NoPut == Put("none", "none", "none", {}, {}, FALSE)
Moved(put, core, page) == Put(core, page, put.kind, put.list, put.seen, put.took)
Noted(put, core, list) ==
  Put(core, put.page, put.kind, put.list, put.seen, put.took \/ put.list = list)
Free(s) == puts[s].core = "none" /\ puts[s].page = "none"
NoneInFlight == (\A s \in Requests : Free(s)) /\ read = NoRead
Events == events < MaxEvents /\ events' = events + 1

\* refresh(), called without await.
Refresh == read = NoRead /\ read' = Asked

-----------------------------------------------------------------------------
\* The core.

\* What is in force from now on.
InForce(list) ==
  /\ screens' = list
  /\ puts' = [s \in Requests |-> Noted(puts[s], puts[s].core, list)]

\* PUT /api/screens: checked, written and reloaded.  A list is accepted if it
\* has the default screen.
PutHandled(s) ==
  LET list == puts[s].list
      Answered(answer) == IF puts[s].page = "waiting" THEN answer ELSE "none"
  IN
  /\ puts[s].core = "waiting"
  /\ IF \E x \in list : x.id = Default
     THEN /\ screens' = list
          /\ puts' = [t \in Requests |->
                        Noted(puts[t], IF t = s THEN Answered("ok") ELSE puts[t].core, list)]
     ELSE /\ puts' = [puts EXCEPT ![s] = Moved(@, Answered("refused"), @.page)]
          /\ UNCHANGED screens
  /\ UNCHANGED <<shown, tagFilter, editorVars, wrong, read, misled, calm, events>>

\* The request never reaches the core.
PutGone(s) ==
  /\ puts[s].core = "waiting" /\ puts[s].page # "waiting"
  /\ puts' = [puts EXCEPT ![s] = Moved(@, "none", @.page)]
  /\ UNCHANGED <<screens, shown, tagFilter, editorVars, wrong, read, misled, calm, events>>

\* Another client, or someone at the file.
OtherClient ==
  /\ Events
  /\ \E id \in Ids \ {Default} :
       InForce(IF \E x \in screens : x.id = id THEN {x \in screens : x.id # id}
                                               ELSE screens \cup {UrlScreen(id)})
  /\ calm' = FALSE
  /\ UNCHANGED <<shown, tagFilter, editorVars, wrong, read, misled>>

-----------------------------------------------------------------------------
\* The editor.

\* normalizeUrlSource puts a scheme before a source that has none.
Normalized(source) == IF source = "bare" THEN "url" ELSE source
\* validateUrlSource
UrlError == draft.type = "url" /\ draft.source # "empty" /\ Normalized(draft.source) # "url"

\* validateConfig, once the manifest of the built-in is there.
Manifest == manifests /\ draft.type = "builtin" /\ draft.source = "builtin"
ConfigError == Manifest /\ (draft.option = "bad" \/ (Required /\ draft.option = "unset"))

\* What the form stores for an option: a select, a switch and a slider only
\* what fits, a list once it parses, a number, a color or a text whatever was
\* entered, and most of them nothing when they are cleared.
Storable ==
  CASE Widget \in {"enum", "array", "text"} -> {"unset", "good"}
    [] Widget \in {"boolean", "range"} -> {"good"}
    [] OTHER -> Options

\* updateConfig, and the field that edits the configuration as JSON.
EntersOption == Manifest /\ \E v \in Storable : draft' = [draft EXCEPT !.option = v]
EntersJson == \E v \in Options : draft' = [draft EXCEPT !.option = v]

\* The other fields; the id of an existing screen is fixed.  A change of the
\* type keeps the source.
EntersField ==
  \/ editing = "" /\ \E id \in Ids : draft' = [draft EXCEPT !.id = id]
  \/ \E type \in {"url", "builtin"} : draft' = [draft EXCEPT !.type = type]
  \/ \E tag \in {"", "tag"} : draft' = [draft EXCEPT !.tag = tag]
  \/ draft.type = "builtin" /\ manifests /\ draft' = [draft EXCEPT !.source = "builtin"]
  \/ /\ draft.type = "url"
     /\ \E source \in Sources \ {"builtin"} : draft' = [draft EXCEPT !.source = source]

Enters ==
  /\ editing # NoEditor /\ Events
  /\ EntersField \/ EntersOption \/ EntersJson
  /\ draft' # draft
  /\ UNCHANGED <<listVars, shown, tagFilter, editing, manifests, saving, wrong, read, misled, calm>>

\* GET /api/builtins of the editor; if it fails the manifests stay away.
ManifestsArrive ==
  /\ editing # NoEditor /\ ~manifests /\ manifests' = TRUE
  /\ UNCHANGED <<listVars, shown, tagFilter, editing, draft, saving, wrong, read, misled, calm, events>>

Saved == [draft EXCEPT !.source = IF draft.type = "url" THEN Normalized(@) ELSE @]
Ready == draft.id # "" /\ draft.source # "empty" /\ ~UrlError /\ ~ConfigError
Merged(x) == {y \in shown : y.id # x.id} \cup {x}

Sends(s, list, kind) ==
  /\ Free(s) /\ \A t \in Requests : Free(t) => s <= t
  /\ puts' = [puts EXCEPT ![s] = Put("waiting", "waiting", kind, list, {}, screens = list)]
  /\ calm' = (calm /\ NoneInFlight)

\* The Save button of the editor.
Saves(s) ==
  /\ editing # NoEditor /\ saving = 0 /\ Ready /\ Events
  /\ Sends(s, Merged(Saved), "save")
  /\ draft' = Saved /\ saving' = s
  /\ UNCHANGED <<screens, shown, tagFilter, editing, manifests, wrong, read, misled>>

\* Cancel; a save under way goes on.
Cancels ==
  /\ editing # NoEditor
  /\ editing' = NoEditor /\ draft' = New /\ manifests' = FALSE /\ saving' = 0
  /\ wrong' = FALSE
  /\ UNCHANGED <<listVars, shown, tagFilter, read, misled, calm, events>>

-----------------------------------------------------------------------------
\* The list.

Visible == {x \in shown : tagFilter \in {"", x.tag}}

\* The filter is offered as long as a screen has a tag.
Filters ==
  /\ editing = NoEditor /\ \E x \in shown : x.tag # ""
  /\ tagFilter' \in {"", "tag"} \ {tagFilter}
  /\ UNCHANGED <<listVars, shown, editorVars, wrong, read, misled, calm, events>>

OpensEditor ==
  /\ editing = NoEditor
  /\ \E x \in Visible \cup {New} : editing' = x.id /\ draft' = x
  /\ manifests' = FALSE /\ saving' = 0
  /\ UNCHANGED <<listVars, shown, tagFilter, wrong, read, misled, calm, events>>

Removes(s) ==
  /\ editing = NoEditor /\ Events
  /\ \E x \in Visible : Sends(s, {y \in shown : y.id # x.id}, "remove")
  /\ UNCHANGED <<screens, shown, tagFilter, editorVars, wrong, read, misled>>

Dismissed ==
  /\ wrong /\ editing = NoEditor /\ wrong' = FALSE
  /\ UNCHANGED <<listVars, shown, tagFilter, editorVars, read, misled, calm, events>>

ReadHandled ==
  /\ read = Asked /\ read' = <<"list", screens>>
  /\ UNCHANGED <<listVars, shown, tagFilter, editorVars, wrong, misled, calm, events>>
ReadArrives ==
  /\ read \notin {NoRead, Asked} /\ shown' = read[2] /\ read' = NoRead
  /\ UNCHANGED <<listVars, tagFilter, editorVars, wrong, misled, calm, events>>
ReadFails ==
  /\ read # NoRead /\ read' = NoRead /\ wrong' = TRUE /\ calm' = FALSE
  /\ UNCHANGED <<listVars, shown, tagFilter, editorVars, misled, events>>

-----------------------------------------------------------------------------
\* The answers.

\* Whichever editor is open is closed; setSaving comes after that, but it is
\* the editor's own.
EditorCloses == editing' = NoEditor /\ draft' = New /\ manifests' = FALSE /\ saving' = 0
SavingEnds(s) == saving' = (IF saving = s THEN 0 ELSE saving) /\ UNCHANGED <<editing, draft, manifests>>
\* The page no longer waits for the answer, if there is to be one.
PageGoes(s, page) ==
  puts' = [puts EXCEPT ![s] = Moved(@, IF @.core = "waiting" THEN "waiting" ELSE "none", page)]
PageDone(s) == PageGoes(s, "none")
Fails(s) == PageDone(s) /\ SavingEnds(s) /\ wrong' = TRUE /\ calm' = FALSE

PutSucceeds(s) ==
  /\ puts[s].page = "waiting" /\ puts[s].core = "ok"
  /\ PageDone(s) /\ misled' = (misled \/ ~puts[s].took)
  /\ IF puts[s].kind = "save" THEN EditorCloses ELSE UNCHANGED editorVars
  /\ Refresh
  /\ UNCHANGED <<screens, shown, tagFilter, wrong, calm, events>>
PutRefused(s) ==
  /\ puts[s].page = "waiting" /\ puts[s].core = "refused" /\ Fails(s)
  /\ UNCHANGED <<screens, shown, tagFilter, read, misled, events>>

\* The network fails or 30 s are over; a save asks for the list then.
NetworkError(s) ==
  /\ puts[s].page = "waiting"
  /\ IF puts[s].kind = "save"
     THEN /\ PageGoes(s, "checking")
          /\ calm' = FALSE
          /\ UNCHANGED <<editorVars, wrong>>
     ELSE Fails(s)
  /\ UNCHANGED <<screens, shown, tagFilter, read, misled, events>>

CheckHandled(s) ==
  /\ puts[s].page = "checking"
  /\ puts' = [puts EXCEPT ![s] = Put(@.core, "checked", @.kind, @.list, screens, @.took)]
  /\ UNCHANGED <<screens, shown, tagFilter, editorVars, wrong, read, misled, calm, events>>

\* sameScreens: the lists are equal, with the keys of all screens in the same
\* order.  If so the save is reported done.
\* Seeded fault: a list in which the screen is there is taken for the one sent.
CheckSucceeds_fault(s) ==
  /\ puts[s].page = "checked"
  /\ {x.id : x \in puts[s].seen} = {x.id : x \in puts[s].list}
  /\ PageDone(s) /\ EditorCloses /\ misled' = (misled \/ ~puts[s].took)
  /\ shown' = puts[s].seen /\ wrong' = FALSE
  /\ UNCHANGED <<screens, tagFilter, read, calm, events>>
CheckSucceeds(s) ==
  /\ puts[s].page = "checked" /\ puts[s].seen = puts[s].list
  /\ PageDone(s) /\ EditorCloses /\ misled' = (misled \/ ~puts[s].took)
  /\ shown' = puts[s].seen /\ wrong' = FALSE
  /\ UNCHANGED <<screens, tagFilter, read, calm, events>>
CheckFails(s) ==
  /\ puts[s].page \in {"checking", "checked"} /\ Fails(s)
  /\ UNCHANGED <<screens, shown, tagFilter, read, misled, events>>

ScreensTabInit ==
  /\ screens \in {{UrlScreen(id) : id \in ids \cup {Default}} : ids \in SUBSET Ids}
  /\ shown = {} /\ tagFilter = ""
  /\ editing = NoEditor /\ draft = New /\ manifests = FALSE /\ saving = 0
  /\ wrong = FALSE /\ puts = [s \in Requests |-> NoPut] /\ read = Asked
  /\ misled = FALSE /\ calm = TRUE /\ events = 0

ScreensTabNext ==
  \/ OtherClient \/ Enters \/ ManifestsArrive \/ Cancels \/ Filters \/ OpensEditor
  \/ Dismissed \/ ReadHandled \/ ReadArrives \/ ReadFails
  \/ \E s \in Requests :
       \/ PutHandled(s) \/ PutGone(s) \/ Saves(s) \/ Removes(s) \/ PutSucceeds(s)
       \/ PutRefused(s) \/ NetworkError(s) \/ CheckHandled(s) \/ CheckSucceeds(s) \/ CheckFails(s)

ScreensTabSpec == ScreensTabInit /\ [][ScreensTabNext]_screensTabVars

-----------------------------------------------------------------------------
\* What the page tells of the list is true: a save it reports as done was in
\* force, even if its answer was lost, and a page with nothing in flight shows
\* the list in force, as long as no request failed or met another one.
ScreensTabTruthful ==
  /\ ~misled
  /\ calm /\ NoneInFlight => shown = screens
==============================================================================
