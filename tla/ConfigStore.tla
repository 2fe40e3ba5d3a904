---------------------------- MODULE ConfigStore ----------------------------
(***************************************************************************)
(* The configuration of frame-core: frame.yaml, screens.yaml and the       *)
(* bearer token on disk, what the process has loaded of them, and the      *)
(* requests, reloads and edits that change them side by side.              *)
(* core/src/config/ and the routes of core/src/api/server.ts that write.   *)
(*                                                                         *)
(* Every file is replaced by "write <file>.tmp, rename", and the name of   *)
(* the temporary file is the same for all writers of a file.  An fd keeps  *)
(* pointing to the file it was opened on, whatever its name has become.    *)
(***************************************************************************)
EXTENDS Naturals

CONSTANTS Ids,          \* screen ids
          HaSettings,   \* values of the `ha` section, Off among them
          Off,          \* ha.enabled is false
          Unset,        \* a field a patch leaves alone
          Slot,         \* places for requests and reloads in flight (bound)
          MaxEvents,    \* requests, edits, faults and restarts in all (bound)
          Patches,      \* the patches that are sent (bound)
          Edited        \* the files that are edited by hand

ASSUME ConfigAssumption ==
  /\ Off \in HaSettings
  /\ Unset \notin Ids \cup HaSettings
  /\ MaxEvents \in Nat
  /\ Edited \subseteq {"frame", "screens"}
  /\ Patches \subseteq [default: Ids \cup {Unset}, ha: HaSettings \cup {Unset}]

VARIABLES disk,      \* file -> what it holds
          drafts,    \* file -> what its .tmp holds
          temps,     \* the files that have a .tmp
          state,     \* ConfigStore.state, what the process goes by
          pending,   \* a change was seen, the reload timer runs
          tasks,     \* slot -> the request or reload in flight
          events,    \* how many events there were
          excused,   \* history: files may be left that do not fit, see below
          overtaken  \* history: a reload was overtaken by a later one, see below

configVars == <<disk, drafts, temps, state, pending, tasks, events, excused, overtaken>>

-----------------------------------------------------------------------------
\* What a file that is empty or cut short is to its reader.
Torn == [frame |-> [default |-> Unset, ha |-> Off], screens |-> {}, token |-> 0]

Files == DOMAIN Torn

Frames == [default: Ids, ha: HaSettings]
Contents == [frame: Frames \cup {Torn.frame}, screens: SUBSET Ids, token: Nat]

\* loadAll: each file is readable and valid, and the default screen is one of
\* the screens.
Fits(frame, screens) == frame.default \in screens
Loads(d) == d.frame # Torn.frame /\ Fits(d.frame, d.screens) /\ d.token # Torn.token

\* loadAll and the constructor of ConfigStore at the start of the process.
Loaded(d) ==
  [safe |-> ~Loads(d), files |-> IF Loads(d) THEN d ELSE Torn]

\* A task has its kind, the access it waits for, what it writes, where its fd
\* leads and what its reload has read.
Task(kind, step, val) ==
  [kind |-> kind, step |-> step, text |-> val, fd |-> "none", seen |-> Torn]
Idle == Task("idle", "none", 0)
At(task, step) == [task EXCEPT !.step = step]
FdTo(task, fd) == [task EXCEPT !.fd = fd]
Writing(task, val) == [task EXCEPT !.text = val]
SawFrame(task, frame) == [task EXCEPT !.seen.frame = frame]
SawScreens(task, screens) == [task EXCEPT !.seen.screens = screens]
SawToken(task, token) == [task EXCEPT !.seen.token = token]
Requests == {"frame", "screens", "token"}    \* by the file they write
Reading == {"readScreens", "readToken", "install"}    \* of a reload, its first read done
Steps == {"none", "read", "open", "write", "rename", "readFrame"} \cup Reading
Free(t) == tasks[t].kind = "idle"
Requesting == {t \in Slot : tasks[t].kind \in Requests}

\* A file was rewritten under a reload that has read it.
Outdated(t) ==
  \/ tasks[t].step \in Reading /\ tasks[t].seen.frame # disk.frame
  \/ tasks[t].step \in Reading \ {"readScreens"} /\ tasks[t].seen.screens # disk.screens
  \/ tasks[t].step = "install" /\ tasks[t].seen.token # disk.token

\* A reload that ends now leaves behind one that has read what is outdated.
Overtakes(t) == \E u \in Slot \ {t} : Outdated(u)

\* Seeded fault: screens.yaml is not watched.
Watched_frame(f) == f = "frame" /\ ~state.safe

\* chokidar watches frame.yaml and screens.yaml, but only if the first load
\* succeeded.
Watched(f) == f \in {"frame", "screens"} /\ ~state.safe

\* applyConfigPatch: the fields that are given replace those of the file.
Patched(frame, p) ==
  [default |-> IF p.default = Unset THEN frame.default ELSE p.default,
   ha      |-> IF p.ha = Unset THEN frame.ha ELSE p.ha]

Init ==
  /\ disk \in {d \in [frame: Frames, screens: SUBSET Ids, token: {1}] : Loads(d)}
  /\ drafts = Torn /\ temps = {}
  /\ state = Loaded(disk)
  /\ pending = FALSE
  /\ tasks = [t \in Slot |-> Idle]
  /\ events = 0
  /\ excused = FALSE /\ overtaken = FALSE

-----------------------------------------------------------------------------
\* Requests.  In safe mode the routes answer 409.  What they check, they check
\* against the loaded configuration, not the files.

Begin(t, kind, step, val) ==
  /\ Free(t)
  /\ ~state.safe
  /\ events < MaxEvents
  /\ events' = events + 1
  /\ tasks' = [tasks EXCEPT ![t] = Task(kind, step, val)]
  /\ excused' = (excused \/ Requesting # {} \/ state.files # disk)
  /\ UNCHANGED <<disk, drafts, temps, state, pending, overtaken>>

\* Seeded fault: the default screen may be removed.
PutScreens_any(t) ==
  \E screens \in SUBSET Ids \ {{}} : Begin(t, "screens", "open", screens)

\* PUT /api/screens
PutScreens(t) ==
  \E screens \in SUBSET Ids :
    /\ Fits(state.files.frame, screens)
    /\ Begin(t, "screens", "open", screens)

\* PUT /api/settings/config and PUT /api/settings/updater
PutConfig(t) ==
  \E p \in Patches :
    /\ p.default # Unset => p.default \in state.files.screens
    /\ Begin(t, "frame", "read", p)

\* POST /api/settings/rotate_bearer makes a token nobody had before.
RotateBearer(t) == Begin(t, "token", "open", events + 2)

Moves(t, task) == tasks' = [tasks EXCEPT ![t] = task]

\* A patch reads frame.yaml as it is now.  If it is torn, the document is in
\* error, or lacks what the schema asks for after the patch as before.
ReadPatched(t) ==
  /\ tasks[t].step = "read"
  /\ \/ /\ disk.frame # Torn.frame
        /\ Moves(t, Writing(At(tasks[t], "open"), Patched(disk.frame, tasks[t].text)))
     \/ /\ disk.frame = Torn.frame
        /\ \/ Moves(t, Idle)
           \/ Moves(t, Writing(At(tasks[t], "open"), Torn.frame))
  /\ UNCHANGED <<disk, drafts, temps, state, pending, events, excused, overtaken>>

\* fs.writeFile opens the temporary file and cuts it to nothing ...
OpenTemp(t) ==
  LET f == tasks[t].kind IN
  /\ tasks[t].step = "open"
  /\ Moves(t, FdTo(At(tasks[t], "write"), "temp"))
  /\ temps' = temps \cup {f}
  /\ drafts' = [drafts EXCEPT ![f] = Torn[f]]
  /\ UNCHANGED <<disk, state, pending, events, excused, overtaken>>

\* ... and writes from its start: the rest of a longer text stays behind.
Overwritten(f, old, val) == IF old = Torn[f] THEN {val} ELSE {val, Torn[f]}

WriteTemp(t) ==
  LET f == tasks[t].kind
      fd == tasks[t].fd
  IN
  /\ tasks[t].step = "write"
  /\ Moves(t, Task(f, "rename", 0))
  /\ \/ /\ fd = "temp"
        /\ \E c \in Overwritten(f, drafts[f], tasks[t].text) : drafts' = [drafts EXCEPT ![f] = c]
        /\ UNCHANGED <<disk, pending>>
     \/ /\ fd = "disk"
        /\ \E c \in Overwritten(f, disk[f], tasks[t].text) : disk' = [disk EXCEPT ![f] = c]
        /\ pending' = (pending \/ Watched(f))
        /\ UNCHANGED drafts
     \/ /\ fd = "gone"
        /\ UNCHANGED <<disk, drafts, pending>>
  /\ UNCHANGED <<temps, state, events, excused, overtaken>>

\* Seeded fault: an fd stays with the name it was opened by.
Renamed_name(task, f) == task

\* fs.rename takes the temporary file, whoever wrote it.  An fd on it is one
\* on the file from now on, and an fd on the file it replaces leads nowhere.
Renamed(task, f) ==
  CASE task.kind = f /\ task.fd = "temp" -> FdTo(task, "disk")
    [] task.kind = f /\ task.fd = "disk" -> FdTo(task, "gone")
    [] OTHER -> task

Rename(t) ==
  LET f == tasks[t].kind IN
  /\ tasks[t].step = "rename"
  /\ f \in temps
  /\ disk' = [disk EXCEPT ![f] = drafts[f]]
  /\ temps' = temps \ {f}
  /\ drafts' = [drafts EXCEPT ![f] = Torn[f]]
  /\ pending' = (pending \/ Watched(f))
  /\ tasks' = [u \in Slot |-> IF u = t THEN At(tasks[t], "readFrame")
                                       ELSE Renamed(tasks[u], f)]
  /\ UNCHANGED <<state, events, excused, overtaken>>

\* The temporary file is gone: the request is answered with 500.
RenameFails(t) ==
  /\ tasks[t].step = "rename"
  /\ tasks[t].kind \notin temps
  /\ Moves(t, Idle)
  /\ UNCHANGED <<disk, drafts, temps, state, pending, events, excused, overtaken>>

\* A write that fails leaves the file its fd leads to cut short.
CutsShort(t) ==
  LET f == tasks[t].kind IN
  \/ /\ tasks[t].fd = "temp"
     /\ drafts' = [drafts EXCEPT ![f] = Torn[f]]
     /\ UNCHANGED <<disk, pending>>
  \/ /\ tasks[t].fd = "disk"
     /\ disk' = [disk EXCEPT ![f] = Torn[f]]
     /\ pending' = (pending \/ Watched(f))
     /\ UNCHANGED drafts

\* No space, no permission: the request is answered with 500.
AccessFails(t) ==
  /\ tasks[t].step \in {"open", "write", "rename"}
  /\ events < MaxEvents
  /\ events' = events + 1
  /\ Moves(t, Idle)
  /\ \/ UNCHANGED <<disk, drafts, pending>>
     \/ tasks[t].step = "write" /\ CutsShort(t)
  /\ UNCHANGED <<temps, state, excused, overtaken>>

-----------------------------------------------------------------------------
\* reload(): loadAll reads the three files one after the other.

\* The watcher's timer: 300 ms for the file to settle and 250 ms more.
WatchTimerFires(t) ==
  /\ pending
  /\ Free(t)
  /\ pending' = FALSE
  /\ Moves(t, Task("watch", "readFrame", 0))
  /\ UNCHANGED <<disk, drafts, temps, state, events, excused, overtaken>>

ReadFrame(t) ==
  /\ tasks[t].step = "readFrame"
  /\ disk.frame # Torn.frame
  /\ Moves(t, SawFrame(At(tasks[t], "readScreens"), disk.frame))
  /\ UNCHANGED <<disk, drafts, temps, state, pending, events, excused, overtaken>>

\* Seeded fault: no check of the default screen.
ReadScreens_any(t) ==
  /\ tasks[t].step = "readScreens"
  /\ disk.screens # {}
  /\ Moves(t, SawScreens(At(tasks[t], "readToken"), disk.screens))
  /\ UNCHANGED <<disk, drafts, temps, state, pending, events, excused, overtaken>>

ReadScreens(t) ==
  /\ tasks[t].step = "readScreens"
  /\ Fits(tasks[t].seen.frame, disk.screens)
  /\ Moves(t, SawScreens(At(tasks[t], "readToken"), disk.screens))
  /\ UNCHANGED <<disk, drafts, temps, state, pending, events, excused, overtaken>>

\* reloadFailed: the configuration stays, a request is answered all the same.
ReloadFails(t) ==
  /\ \/ tasks[t].step = "readFrame" /\ disk.frame = Torn.frame
     \/ tasks[t].step = "readScreens" /\ ~Fits(tasks[t].seen.frame, disk.screens)
     \/ tasks[t].step = "readToken" /\ disk.token = Torn.token
  /\ Moves(t, Idle)
  /\ overtaken' = (overtaken \/ Overtakes(t))
  /\ UNCHANGED <<disk, drafts, temps, state, pending, events, excused>>

ReadToken(t) ==
  /\ tasks[t].step = "readToken"
  /\ disk.token # Torn.token
  /\ Moves(t, SawToken(At(tasks[t], "install"), disk.token))
  /\ UNCHANGED <<disk, drafts, temps, state, pending, events, excused, overtaken>>

\* loadAll returns, the new state is set and "reloaded" emitted.  A reload may
\* have read what is outdated by now, and still come after one that has not.
Install(t) ==
  /\ tasks[t].step = "install"
  /\ state' = [safe |-> FALSE, files |-> tasks[t].seen]
  /\ Moves(t, Idle)
  /\ overtaken' = (Overtakes(t) \/ (overtaken /\ Outdated(t)))
  /\ UNCHANGED <<disk, drafts, temps, pending, events, excused>>

-----------------------------------------------------------------------------
\* Someone edits a file, with or without a mistake.
Edit(f, c) ==
  /\ f \in Edited
  /\ events < MaxEvents
  /\ c # disk[f]
  /\ events' = events + 1
  /\ disk' = [disk EXCEPT ![f] = c]
  /\ pending' = (pending \/ Watched(f))
  /\ excused' = (excused \/ Requesting # {} \/ ~Loads(disk'))
  /\ UNCHANGED <<drafts, temps, state, tasks, overtaken>>

EditFrame == \E c \in Frames \cup {Torn.frame} : Edit("frame", c)
EditScreens == \E c \in SUBSET Ids : Edit("screens", c)

\* The process ends between any two steps, and systemd starts it again.
Boot ==
  /\ events < MaxEvents
  /\ events' = events + 1
  /\ state' = Loaded(disk)
  /\ pending' = FALSE
  /\ tasks' = [t \in Slot |-> Idle]
  /\ overtaken' = FALSE
  /\ UNCHANGED <<disk, drafts, temps, excused>>

Request == \E t \in Slot : PutScreens(t) \/ PutConfig(t) \/ RotateBearer(t)

TaskStep(t) ==
  \/ ReadPatched(t) \/ OpenTemp(t) \/ WriteTemp(t) \/ Rename(t)
  \/ RenameFails(t) \/ AccessFails(t)
  \/ WatchTimerFires(t) \/ ReadFrame(t) \/ ReadScreens(t) \/ ReadToken(t) \/ ReloadFails(t)

\* What goes on without a request and leaves the loaded configuration alone.
FileStep == EditFrame \/ EditScreens \/ \E t \in Slot : TaskStep(t)

Next == Request \/ FileStep \/ (\E t \in Slot : Install(t)) \/ Boot

Spec == Init /\ [][Next]_configVars

-----------------------------------------------------------------------------
Quiet == ~pending /\ \A t \in Slot : Free(t)

\* What is loaded and on disk is well formed, and whoever writes has a
\* temporary file or has lost it to another writer.
TypeOK ==
  /\ disk \in Contents /\ drafts \in Contents /\ temps \subseteq Files
  /\ state.safe \in BOOLEAN /\ state.files \in Contents
  /\ \A t \in Slot :
       /\ tasks[t].step \in Steps
       /\ tasks[t].kind \in Requests \cup {"idle", "watch"}
       /\ tasks[t].seen \in Contents
       /\ tasks[t].fd # "none" <=> tasks[t].step = "write"
       /\ tasks[t].fd = "temp" => tasks[t].kind \in temps
  /\ events \in 0..MaxEvents
  /\ pending \in BOOLEAN /\ excused \in BOOLEAN /\ overtaken \in BOOLEAN

\* The configuration in use has its default screen among its screens and a
\* token, though its parts were read one after the other while requests and
\* edits replaced the files (load.ts, the check on default_screen).
InstalledFits == ~state.safe => Loads(state.files)

\* Requests, reloads and ends of the process in any order leave files that
\* load, so the frame does not come up in safe mode.  Excused are requests
\* that overlap or come while the loaded configuration is not that of the
\* files, and edits with a mistake or next to a request: the routes check
\* against what is loaded, and writers of a file share its temporary file.
FilesStayValid == ~excused => Loads(disk)

\* When nothing is under way the process goes by what is on disk: a reload
\* that installs what is outdated is followed by one that has read what was
\* written last (state.ts, watcher and reload).  Two exceptions.  A reload may
\* read before a write and install after the one that followed the write has
\* ended, and nothing reloads again then (`overtaken`).  And rotations that
\* overlap: the token is not watched, and a reload that meets a token cut short
\* is not tried again (`excused`).
Settled ==
  Quiet /\ ~state.safe /\ Loads(disk) =>
    \/ state.files = disk
    \/ overtaken
    \/ excused /\ state.files.token # disk.token

\* SPEC.md 8.2: "Writes from the API are validated before being committed to
\* disk", so if nobody edits the files they load once no request is under way.
WritesStayValid == Edited = {} /\ Quiet => Loads(disk)
=============================================================================
