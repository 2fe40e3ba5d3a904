--------------------------- MODULE ConfigStoreProofs ---------------------------
(***************************************************************************)
(* Proofs about ConfigStore, for any screens, patches and number of tasks. *)
(***************************************************************************)
EXTENDS ConfigStore, TLAPS

\* The shape of what a reload saw and of a task, whatever the values are.
IsSeen(s) == \E f, c, n : s = [frame |-> f, screens |-> c, token |-> n]
IsTask(k) ==
  /\ \E a, b, v, d, s : k = [kind |-> a, step |-> b, text |-> v, fd |-> d, seen |-> s]
  /\ IsSeen(k.seen)

\* What a reload has read so far went through the checks of loadAll.
Checked(k) ==
  /\ k.step \in Reading => k.seen.frame # Torn.frame
  /\ k.step \in {"readToken", "install"} => Fits(k.seen.frame, k.seen.screens)
  /\ k.step = "install" => k.seen.token # Torn.token

Good(k) == IsTask(k) /\ Checked(k)

IInv ==
  /\ tasks = [t \in Slot |-> tasks[t]]
  /\ \A t \in Slot : Good(tasks[t])
  /\ InstalledFits

--------------------------------------------------------------------------------
(* What the changes of a task do to it.                                    *)

LEMMA TaskGood ==
  ASSUME NEW kind, NEW step, step \notin Reading, NEW val
  PROVE  Good(Task(kind, step, val))
<1>1. IsSeen(Torn)
  BY DEF IsSeen, Torn
<1>2. Task(kind, step, val).seen = Torn /\ Task(kind, step, val).step = step
  BY DEF Task
<1>3. IsTask(Task(kind, step, val))
  BY <1>1, <1>2 DEF IsTask, Task
<1>4. QED
  BY <1>2, <1>3 DEF Good, Checked, Reading

LEMMA IdleGood == Good(Idle)
BY TaskGood DEF Idle, Reading

LEMMA AtShape ==
  ASSUME NEW k, IsTask(k), NEW q
  PROVE  IsTask(At(k, q)) /\ At(k, q).seen = k.seen /\ At(k, q).step = q
<1>1. PICK a, b, v0, d0, s0 : k = [kind |-> a, step |-> b, text |-> v0, fd |-> d0, seen |-> s0]
  BY DEF IsTask
<1>2. At(k, q) = [kind |-> a, step |-> q, text |-> v0, fd |-> d0, seen |-> s0]
  BY <1>1 DEF At
<1>3. k.seen = s0 /\ k.step = b
  BY <1>1
<1>4. At(k, q).seen = s0 /\ At(k, q).step = q
  BY <1>2
<1>5. QED
  BY <1>2, <1>3, <1>4 DEF IsTask

LEMMA FdShape ==
  ASSUME NEW k, IsTask(k), NEW d
  PROVE  IsTask(FdTo(k, d)) /\ FdTo(k, d).seen = k.seen /\ FdTo(k, d).step = k.step
<1>1. PICK a, b, v0, d0, s0 : k = [kind |-> a, step |-> b, text |-> v0, fd |-> d0, seen |-> s0]
  BY DEF IsTask
<1>2. FdTo(k, d) = [kind |-> a, step |-> b, text |-> v0, fd |-> d, seen |-> s0]
  BY <1>1 DEF FdTo
<1>3. k.seen = s0 /\ k.step = b
  BY <1>1
<1>4. FdTo(k, d).seen = s0 /\ FdTo(k, d).step = b
  BY <1>2
<1>5. QED
  BY <1>2, <1>3, <1>4 DEF IsTask

LEMMA ValShape ==
  ASSUME NEW k, IsTask(k), NEW v
  PROVE  IsTask(Writing(k, v)) /\ Writing(k, v).seen = k.seen /\ Writing(k, v).step = k.step
<1>1. PICK a, b, v0, d0, s0 : k = [kind |-> a, step |-> b, text |-> v0, fd |-> d0, seen |-> s0]
  BY DEF IsTask
<1>2. Writing(k, v) = [kind |-> a, step |-> b, text |-> v, fd |-> d0, seen |-> s0]
  BY <1>1 DEF Writing
<1>3. k.seen = s0 /\ k.step = b
  BY <1>1
<1>4. Writing(k, v).seen = s0 /\ Writing(k, v).step = b
  BY <1>2
<1>5. QED
  BY <1>2, <1>3, <1>4 DEF IsTask

LEMMA FrameShape ==
  ASSUME NEW k, IsTask(k), NEW f
  PROVE  /\ IsTask(SawFrame(k, f))
         /\ SawFrame(k, f).seen.frame = f
         /\ SawFrame(k, f).step = k.step
<1>1. PICK a, b, v0, d0, s0 : k = [kind |-> a, step |-> b, text |-> v0, fd |-> d0, seen |-> s0]
  BY DEF IsTask
<1>2. PICK f0, c0, n0 : s0 = [frame |-> f0, screens |-> c0, token |-> n0]
  BY <1>1 DEF IsTask, IsSeen
<1>. DEFINE saw == [frame |-> f, screens |-> c0, token |-> n0]
<1>3. SawFrame(k, f) = [kind |-> a, step |-> b, text |-> v0, fd |-> d0, seen |-> saw]
  BY <1>1, <1>2 DEF SawFrame
<1>4. IsSeen(saw) /\ saw.frame = f
  BY DEF IsSeen
<1>5. k.step = b /\ k.seen.frame = f0
  BY <1>1, <1>2
<1>. HIDE DEF saw
<1>6. SawFrame(k, f).seen = saw /\ SawFrame(k, f).step = b
  BY <1>3
<1>7. QED
  BY <1>3, <1>4, <1>5, <1>6 DEF IsTask

LEMMA ScreensShape ==
  ASSUME NEW k, IsTask(k), NEW s
  PROVE  /\ IsTask(SawScreens(k, s))
         /\ SawScreens(k, s).seen.screens = s
         /\ SawScreens(k, s).seen.frame = k.seen.frame
         /\ SawScreens(k, s).step = k.step
<1>1. PICK a, b, v0, d0, s0 : k = [kind |-> a, step |-> b, text |-> v0, fd |-> d0, seen |-> s0]
  BY DEF IsTask
<1>2. PICK f0, c0, n0 : s0 = [frame |-> f0, screens |-> c0, token |-> n0]
  BY <1>1 DEF IsTask, IsSeen
<1>. DEFINE saw == [frame |-> f0, screens |-> s, token |-> n0]
<1>3. SawScreens(k, s) = [kind |-> a, step |-> b, text |-> v0, fd |-> d0, seen |-> saw]
  BY <1>1, <1>2 DEF SawScreens
<1>4. IsSeen(saw) /\ saw.screens = s /\ saw.frame = f0
  BY DEF IsSeen
<1>5. k.step = b /\ k.seen.frame = f0
  BY <1>1, <1>2
<1>. HIDE DEF saw
<1>6. SawScreens(k, s).seen = saw /\ SawScreens(k, s).step = b
  BY <1>3
<1>7. QED
  BY <1>3, <1>4, <1>5, <1>6 DEF IsTask

LEMMA TokenShape ==
  ASSUME NEW k, IsTask(k), NEW n
  PROVE  /\ IsTask(SawToken(k, n))
         /\ SawToken(k, n).seen.token = n
         /\ SawToken(k, n).seen.frame = k.seen.frame
         /\ SawToken(k, n).seen.screens = k.seen.screens
         /\ SawToken(k, n).step = k.step
         /\ SawToken(k, n).kind = k.kind /\ SawToken(k, n).fd = k.fd
<1>1. PICK a, b, v0, d0, s0 : k = [kind |-> a, step |-> b, text |-> v0, fd |-> d0, seen |-> s0]
  BY DEF IsTask
<1>2. PICK f0, c0, n0 : s0 = [frame |-> f0, screens |-> c0, token |-> n0]
  BY <1>1 DEF IsTask, IsSeen
<1>. DEFINE saw == [frame |-> f0, screens |-> c0, token |-> n]
<1>3. SawToken(k, n) = [kind |-> a, step |-> b, text |-> v0, fd |-> d0, seen |-> saw]
  BY <1>1, <1>2 DEF SawToken
<1>4. IsSeen(saw) /\ saw.screens = c0 /\ saw.frame = f0 /\ saw.token = n
  BY DEF IsSeen
<1>5. /\ k.step = b /\ k.kind = a /\ k.fd = d0
      /\ k.seen.frame = f0 /\ k.seen.screens = c0
  BY <1>1, <1>2
<1>. HIDE DEF saw
<1>6. /\ SawToken(k, n).seen = saw /\ SawToken(k, n).step = b
      /\ SawToken(k, n).kind = a /\ SawToken(k, n).fd = d0
  BY <1>3
<1>7. QED
  BY <1>3, <1>4, <1>5, <1>6 DEF IsTask

LEMMA AtGood ==
  ASSUME NEW k, Good(k), NEW q, q \notin Reading
  PROVE  Good(At(k, q))
BY AtShape DEF Good, Checked, Reading

LEMMA FdGood ==
  ASSUME NEW k, Good(k), NEW d
  PROVE  Good(FdTo(k, d))
BY FdShape DEF Good, Checked

LEMMA ValGood ==
  ASSUME NEW k, Good(k), NEW v
  PROVE  Good(Writing(k, v))
BY ValShape DEF Good, Checked

\* A rename moves the fds of other writers and nothing else of their tasks.
LEMMA RenamedGood ==
  ASSUME NEW k, Good(k), NEW f
  PROVE  Good(Renamed(k, f))
BY FdGood DEF Renamed

\* A step that leaves the loaded configuration alone and replaces one task by
\* a good one keeps the invariant.
LEMMA MovesGood ==
  ASSUME IInv, NEW t \in Slot, NEW u, Good(u), Moves(t, u), InstalledFits'
  PROVE  IInv'
<1>1. tasks' = [tasks EXCEPT ![t] = u]
  BY DEF Moves
<1>2. \A x \in Slot : tasks'[x] = IF x = t THEN u ELSE tasks[x]
  BY <1>1 DEF IInv
<1>3. tasks' = [x \in Slot |-> tasks'[x]]
  BY <1>1 DEF IInv
<1>4. QED
  BY <1>2, <1>3 DEF IInv

LEMMA SameState == ASSUME IInv, UNCHANGED state PROVE InstalledFits'
BY DEF IInv, InstalledFits, Loads, Torn, Fits

--------------------------------------------------------------------------------
(* The invariant.                                                          *)

LEMMA InitInv == Init => IInv
<1>. SUFFICES ASSUME Init PROVE IInv
  OBVIOUS
<1>1. tasks = [t \in Slot |-> tasks[t]] /\ \A t \in Slot : tasks[t] = Idle
  BY DEF Init
<1>2. Loads(disk) /\ state = Loaded(disk)
  BY DEF Init
<1>3. InstalledFits
  BY <1>2 DEF Loaded, InstalledFits
<1>4. QED
  BY <1>1, <1>3, IdleGood DEF IInv

LEMMA RequestInv == ASSUME IInv, Request PROVE IInv'
<1>1. PICK t \in Slot : PutScreens(t) \/ PutConfig(t) \/ RotateBearer(t)
  BY DEF Request
<1>2. PICK kind, step, val : Begin(t, kind, step, val) /\ step \in {"open", "read"}
  BY <1>1 DEF PutScreens, PutConfig, RotateBearer
<1>3. Moves(t, Task(kind, step, val)) /\ UNCHANGED state
  BY <1>2 DEF Begin, Moves
<1>4. Good(Task(kind, step, val))
  BY <1>2, TaskGood DEF Reading
<1>5. QED
  BY <1>3, <1>4, MovesGood, SameState

LEMMA TaskInv == ASSUME IInv, NEW t \in Slot, TaskStep(t) PROVE IInv'
<1>. DEFINE k == tasks[t]
<1>1. Good(k) /\ IsTask(k) /\ Checked(k)
  BY DEF IInv, Good
<1>2. UNCHANGED state /\ InstalledFits'
  BY SameState DEF TaskStep, ReadPatched, OpenTemp, WriteTemp, Rename,
                   RenameFails, AccessFails, CutsShort,
                   WatchTimerFires, ReadFrame, ReadScreens, ReadToken, ReloadFails
<1>3. CASE ReadPatched(t)
  <2>1. Good(At(k, "open"))
    BY <1>1, AtGood DEF Reading
  <2>2. \A v : Good(Writing(At(k, "open"), v))
    BY <2>1, ValGood
  <2>3. PICK u : Moves(t, u) /\ Good(u)
    BY <1>3, <2>2, IdleGood DEF ReadPatched
  <2>4. QED
    BY <1>2, <2>3, MovesGood
<1>4. CASE OpenTemp(t)
  <2>1. Good(FdTo(At(k, "write"), "temp"))
    BY <1>1, AtGood, FdGood DEF Reading
  <2>2. QED
    BY <1>2, <1>4, <2>1, MovesGood DEF OpenTemp
<1>5. CASE WriteTemp(t)
  BY <1>2, <1>5, TaskGood, MovesGood DEF WriteTemp, Reading
<1>6. CASE Rename(t)
  <2>1. Good(At(k, "readFrame"))
    BY <1>1, AtGood DEF Reading
  <2>2. \A x \in Slot : Good(Renamed(tasks[x], k.kind))
    BY RenamedGood DEF IInv
  <2>3. tasks' = [x \in Slot |-> IF x = t THEN At(k, "readFrame") ELSE Renamed(tasks[x], k.kind)]
    BY <1>6 DEF Rename
  <2>4. \A x \in Slot : Good(tasks'[x])
    BY <2>1, <2>2, <2>3
  <2>5. tasks' = [x \in Slot |-> tasks'[x]]
    BY <2>3
  <2>6. QED
    BY <1>2, <2>4, <2>5 DEF IInv
<1>7. CASE RenameFails(t) \/ AccessFails(t)
  BY <1>2, <1>7, IdleGood, MovesGood DEF RenameFails, AccessFails
<1>8. CASE WatchTimerFires(t)
  BY <1>2, <1>8, TaskGood, MovesGood DEF WatchTimerFires, Reading
<1>9. CASE ReadFrame(t)
  <2>. DEFINE u == SawFrame(At(k, "readScreens"), disk.frame)
  <2>1. IsTask(At(k, "readScreens")) /\ At(k, "readScreens").step = "readScreens"
    BY <1>1, AtShape
  <2>2. IsTask(u) /\ u.seen.frame = disk.frame /\ u.step = "readScreens"
    BY <2>1, FrameShape
  <2>3. disk.frame # Torn.frame /\ Moves(t, u)
    BY <1>9 DEF ReadFrame
  <2>. HIDE DEF u
  <2>4. Good(u)
    BY <2>2, <2>3 DEF Good, Checked, Reading
  <2>5. QED
    BY <1>2, <2>3, <2>4, MovesGood
<1>10. CASE ReadScreens(t)
  <2>. DEFINE u == SawScreens(At(k, "readToken"), disk.screens)
  <2>1. /\ IsTask(At(k, "readToken")) /\ At(k, "readToken").step = "readToken"
        /\ At(k, "readToken").seen = k.seen
    BY <1>1, AtShape
  <2>2. /\ IsTask(u) /\ u.seen.screens = disk.screens /\ u.step = "readToken"
        /\ u.seen.frame = k.seen.frame
    BY <2>1, ScreensShape
  <2>3. k.step = "readScreens" /\ Fits(k.seen.frame, disk.screens) /\ Moves(t, u)
    BY <1>10 DEF ReadScreens
  <2>4. k.seen.frame # Torn.frame
    BY <1>1, <2>3 DEF Checked, Reading
  <2>. HIDE DEF k
  <2>5. Good(u)
    BY <2>2, <2>3, <2>4 DEF Good, Checked
  <2>6. QED
    BY <1>2, <2>3, <2>5, MovesGood
<1>11. CASE ReloadFails(t)
  BY <1>2, <1>11, IdleGood, MovesGood DEF ReloadFails
<1>12. CASE ReadToken(t)
  <2>. DEFINE u == SawToken(At(k, "install"), disk.token)
  <2>1. /\ IsTask(At(k, "install")) /\ At(k, "install").step = "install"
        /\ At(k, "install").seen = k.seen
    BY <1>1, AtShape
  <2>2. /\ IsTask(u) /\ u.step = "install" /\ u.seen.token = disk.token
        /\ u.seen.frame = k.seen.frame /\ u.seen.screens = k.seen.screens
    BY <2>1, TokenShape
  <2>3. k.step = "readToken" /\ disk.token # Torn.token /\ Moves(t, u)
    BY <1>12 DEF ReadToken
  <2>4. k.seen.frame # Torn.frame /\ Fits(k.seen.frame, k.seen.screens)
    BY <1>1, <2>3 DEF Checked, Reading
  <2>. HIDE DEF k, u
  <2>5. Good(u)
    BY <2>2, <2>3, <2>4 DEF Good, Checked
  <2>6. QED
    BY <1>2, <2>3, <2>5, MovesGood
<1>13. QED
  BY <1>3, <1>4, <1>5, <1>6, <1>7, <1>8, <1>9, <1>10, <1>11, <1>12, TaskStep(t) DEF TaskStep

\* What is installed was read and checked part by part by this reload.
LEMMA InstallInv == ASSUME IInv, NEW t \in Slot, Install(t) PROVE IInv'
<1>. DEFINE files == tasks[t].seen
<1>1. Loads(files)
  BY DEF IInv, Install, Good, Checked, Reading, Loads
<1>2. state' = [safe |-> FALSE, files |-> files] /\ Moves(t, Idle)
  BY DEF Install
<1>. HIDE DEF files
<1>3. state'.files = files
  BY <1>2
<1>4. InstalledFits'
  BY <1>1, <1>3 DEF InstalledFits, Loads, Torn, Fits
<1>5. QED
  BY <1>2, <1>4, IdleGood, MovesGood

LEMMA BootInv == ASSUME IInv, Boot PROVE IInv'
<1>1. /\ tasks' = [t \in Slot |-> Idle]
      /\ state' = Loaded(disk)
  BY DEF Boot
<1>2. \/ state'.safe
      \/ Loads(disk) /\ state'.files = disk
  BY <1>1 DEF Loaded
<1>3. InstalledFits'
  BY <1>2 DEF InstalledFits, Loads, Torn, Fits
<1>4. QED
  BY <1>1, <1>3, IdleGood DEF IInv

LEMMA StepInv == IInv /\ [Next]_configVars => IInv'
<1>. SUFFICES ASSUME IInv, [Next]_configVars PROVE IInv'
  OBVIOUS
<1>1. CASE Request
  BY <1>1, RequestInv
<1>2. CASE FileStep
  <2>1. CASE EditFrame \/ EditScreens
    <3>1. UNCHANGED <<state, tasks>>
      BY <2>1 DEF EditFrame, EditScreens, Edit
    <3>2. QED
      BY <3>1, SameState DEF IInv
  <2>2. CASE \E t \in Slot : TaskStep(t)
    BY <2>2, TaskInv
  <2>3. QED
    BY <1>2, <2>1, <2>2 DEF FileStep
<1>3. CASE \E t \in Slot : Install(t)
  BY <1>3, InstallInv
<1>4. CASE Boot
  BY <1>4, BootInv
<1>5. CASE UNCHANGED configVars
  <2>1. UNCHANGED <<state, tasks>>
    BY <1>5 DEF configVars
  <2>2. QED
    BY <2>1, SameState DEF IInv
<1>6. QED
  BY <1>1, <1>2, <1>3, <1>4, <1>5 DEF Next

\* The configuration in use always fits together: in every interleaving of
\* requests, reloads and edits, file access by file access, and after every
\* start of the process (loadAll, ConfigStore.reload).
THEOREM InUseFits == Spec => []InstalledFits
<1>1. IInv => InstalledFits
  BY DEF IInv
<1>2. QED
  BY InitInv, StepInv, <1>1, PTL DEF Spec

--------------------------------------------------------------------------------
(* The files.                                                              *)

Active == {"read", "open", "write", "rename"}

Whole(d) == d = [frame |-> d.frame, screens |-> d.screens, token |-> d.token]
Fine(d) == Whole(d) /\ Loads(d) /\ d.screens \subseteq Ids

\* With v in the place of file f what is on disk is still fine.
Keeps(f, v) == Fine([disk EXCEPT ![f] = v])

\* A request has something in hand that fits what is on disk.
Ready(k) ==
  /\ k.step \in Active => k.kind \in Requests
  /\ k.step = "read" =>
       k.kind = "frame" /\ (k.text.default # Unset => k.text.default \in disk.screens)
  /\ k.step \in {"open", "write"} => Keeps(k.kind, k.text)
  /\ k.step = "write" => k.fd = "temp" /\ drafts[k.kind] = Torn[k.kind]
  /\ k.step = "rename" => Keeps(k.kind, drafts[k.kind])

OneRequest == \A t, u \in Requesting : t = u
AllReady == \A t \in Slot : Ready(tasks[t])

\* The strengthening of FilesStayValid: as long as nothing is excused one
\* request at a time is under way, and what it will write fits.
FInv == ~excused => Fine(disk) /\ Whole(drafts) /\ OneRequest /\ AllReady

\* What the changes of a task leave alone.
LEMMA FieldsKept ==
  ASSUME NEW k, IsTask(k), NEW x
  PROVE  /\ At(k, x).kind = k.kind /\ At(k, x).text = k.text
         /\ FdTo(k, x).kind = k.kind /\ FdTo(k, x).text = k.text /\ FdTo(k, x).fd = x
         /\ Writing(k, x).kind = k.kind /\ Writing(k, x).text = x
         /\ SawFrame(k, x).kind = k.kind /\ SawScreens(k, x).kind = k.kind
<1>1. PICK a, b, v, d, s : k = [kind |-> a, step |-> b, text |-> v, fd |-> d, seen |-> s]
  BY DEF IsTask
<1>2. /\ At(k, x) = [kind |-> a, step |-> x, text |-> v, fd |-> d, seen |-> s]
      /\ FdTo(k, x) = [kind |-> a, step |-> b, text |-> v, fd |-> x, seen |-> s]
      /\ Writing(k, x) = [kind |-> a, step |-> b, text |-> x, fd |-> d, seen |-> s]
  BY <1>1 DEF At, FdTo, Writing
<1>3. SawFrame(k, x).kind = a /\ SawScreens(k, x).kind = a
  BY <1>1 DEF SawFrame, SawScreens
<1>. QED
  BY <1>1, <1>2, <1>3

\* A task that reads or is idle has nothing in hand.
LEMMA ReadingReady == ASSUME NEW k, k.step \notin Active PROVE Ready(k) /\ Ready(k)'
BY DEF Ready, Active

LEMMA OthersReady ==
  ASSUME OneRequest, AllReady, NEW t \in Slot, tasks[t].kind \in Requests
  PROVE  \A x \in Slot \ {t} : tasks[x].kind \notin Requests /\ tasks[x].step \notin Active
BY DEF OneRequest, AllReady, Ready, Requesting

\* One task changes, and nobody else's work is under its request.
LEMMA MovesReady ==
  ASSUME IInv, OneRequest, AllReady, NEW t \in Slot, NEW u, Moves(t, u), Ready(u)',
         u.kind \in Requests => tasks[t].kind \in Requests,
         UNCHANGED <<disk, drafts>> \/ tasks[t].kind \in Requests
  PROVE  OneRequest' /\ AllReady'
<1>1. tasks'[t] = u /\ \A x \in Slot \ {t} : tasks'[x] = tasks[x]
  BY DEF Moves, IInv
<1>2. OneRequest'
  BY <1>1 DEF OneRequest, Requesting
<1>3. ASSUME NEW x \in Slot \ {t} PROVE Ready(tasks[x])'
  <2>1. CASE UNCHANGED <<disk, drafts>>
    <3>1. Ready(tasks[x])
      BY DEF AllReady
    <3>. QED
      BY <1>1, <2>1, <3>1 DEF Ready, Keeps
  <2>2. CASE tasks[t].kind \in Requests
    BY <1>1, <2>2, OthersReady, ReadingReady
  <2>. QED
    BY <2>1, <2>2
<1>. QED
  BY <1>1, <1>2, <1>3 DEF AllReady

\* What replaces one file of a fine disk.
LEMMA KeepsFile ==
  ASSUME Fine(disk), NEW v
  PROVE  /\ v.default \in disk.screens => Keeps("frame", v)
         /\ Fits(disk.frame, v) /\ v \subseteq Ids => Keeps("screens", v)
         /\ v # Torn.token => Keeps("token", v)
<1>1. PICK x, y, z : disk = [frame |-> x, screens |-> y, token |-> z]
  BY DEF Fine, Whole
<1>2. disk.frame = x /\ disk.screens = y /\ disk.token = z
  BY <1>1
<1>f. [disk EXCEPT !["frame"] = v] = [frame |-> v, screens |-> y, token |-> z]
  BY <1>1
<1>s. [disk EXCEPT !["screens"] = v] = [frame |-> x, screens |-> v, token |-> z]
  BY <1>1
<1>t. [disk EXCEPT !["token"] = v] = [frame |-> x, screens |-> y, token |-> v]
  BY <1>1
<1>3. v.default \in y => Fine([frame |-> v, screens |-> y, token |-> z])
  <2>1. v.default \in y => v # Torn.frame
    BY <1>2, ConfigAssumption DEF Fine, Torn, ConfigAssumption
  <2>. QED
    BY <1>2, <2>1 DEF Fine, Whole, Loads, Fits
<1>4. Fits(x, v) /\ v \subseteq Ids => Fine([frame |-> x, screens |-> v, token |-> z])
  BY <1>2 DEF Fine, Whole, Loads, Fits
<1>5. v # Torn.token => Fine([frame |-> x, screens |-> y, token |-> v])
  BY <1>2 DEF Fine, Whole, Loads, Fits
<1>. QED
  BY <1>2, <1>f, <1>s, <1>t, <1>3, <1>4, <1>5 DEF Keeps

\* A file of a whole record is replaced.
LEMMA WholeReplaced ==
  ASSUME NEW d, Whole(d), NEW f \in Requests, NEW v
  PROVE  Whole([d EXCEPT ![f] = v]) /\ [d EXCEPT ![f] = v][f] = v
<1>1. PICK x, y, z : d = [frame |-> x, screens |-> y, token |-> z]
  BY DEF Whole
<1>2. CASE f = "frame"
  <2>1. [d EXCEPT ![f] = v] = [frame |-> v, screens |-> y, token |-> z]
    BY <1>1, <1>2
  <2>. QED
    BY <1>2, <2>1 DEF Whole
<1>3. CASE f = "screens"
  <2>1. [d EXCEPT ![f] = v] = [frame |-> x, screens |-> v, token |-> z]
    BY <1>1, <1>3
  <2>. QED
    BY <1>3, <2>1 DEF Whole
<1>4. CASE f = "token"
  <2>1. [d EXCEPT ![f] = v] = [frame |-> x, screens |-> y, token |-> v]
    BY <1>1, <1>4
  <2>. QED
    BY <1>4, <2>1 DEF Whole
<1>. QED
  BY <1>2, <1>3, <1>4 DEF Requests

LEMMA RequestFiles == ASSUME IInv, events \in Nat, FInv, Request PROVE FInv'
<1>. SUFFICES ASSUME ~excused' PROVE FInv'
  BY DEF FInv
<1>1. PICK t \in Slot : PutScreens(t) \/ PutConfig(t) \/ RotateBearer(t)
  BY DEF Request
<1>2. PICK kind, step, val :
        /\ Begin(t, kind, step, val)
        /\ \/ /\ kind = "screens" /\ step = "open"
              /\ Fits(state.files.frame, val) /\ val \subseteq Ids
           \/ /\ kind = "frame" /\ step = "read"
              /\ val.default # Unset => val.default \in state.files.screens
           \/ kind = "token" /\ step = "open" /\ val = events + 2
  BY <1>1 DEF PutScreens, PutConfig, RotateBearer
<1>3. /\ Moves(t, Task(kind, step, val)) /\ ~excused /\ Requesting = {}
      /\ state.files = disk /\ UNCHANGED <<disk, drafts>>
  BY <1>2 DEF Begin, Moves
<1>4. Fine(disk) /\ Whole(drafts) /\ AllReady
  BY <1>3 DEF FInv
<1>. DEFINE u == Task(kind, step, val)
<1>5. u.kind = kind /\ u.step = step /\ u.text = val
  BY DEF Task
<1>6. tasks'[t] = u /\ \A x \in Slot \ {t} : tasks'[x] = tasks[x]
  BY <1>3 DEF Moves, IInv
<1>. HIDE DEF u
<1>7. Ready(u)
  <2>1. events + 2 # Torn.token
    BY DEF Torn
  <2>. QED
    BY <1>2, <1>3, <1>4, <1>5, <2>1, KeepsFile DEF Ready, Active, Requests
<1>8. Ready(u)' /\ \A x \in Slot : tasks[x].kind \notin Requests /\ tasks[x].step \notin Active
  BY <1>3, <1>4, <1>7 DEF Ready, Keeps, AllReady, Requesting
<1>9. AllReady'
  BY <1>6, <1>8, ReadingReady DEF AllReady
<1>10. OneRequest'
  BY <1>6, <1>8 DEF OneRequest, Requesting
<1>. QED
  BY <1>3, <1>4, <1>9, <1>10 DEF FInv, Fine, Whole, Loads, Fits

\* A step of a task: what it writes it has in hand, what it reads it leaves.
LEMMA TaskFiles == ASSUME IInv, FInv, NEW t \in Slot, TaskStep(t) PROVE FInv'
<1>. DEFINE k == tasks[t]
<1>1. excused' = excused
  BY DEF TaskStep, ReadPatched, OpenTemp, WriteTemp, Rename, RenameFails, AccessFails, CutsShort,
         WatchTimerFires, ReadFrame, ReadScreens, ReadToken, ReloadFails
<1>. SUFFICES ASSUME ~excused PROVE FInv'
  BY <1>1 DEF FInv
<1>2. Fine(disk) /\ Whole(drafts) /\ OneRequest /\ AllReady
  BY DEF FInv
<1>3. IsTask(k) /\ Ready(k)
  BY <1>2 DEF IInv, Good, AllReady
<1>4. ASSUME NEW u, Moves(t, u), Ready(u)', Fine(disk)', Whole(drafts)',
             u.kind \in Requests => k.kind \in Requests,
             UNCHANGED <<disk, drafts>> \/ k.kind \in Requests
      PROVE  FInv'
  BY <1>2, <1>4, MovesReady DEF FInv
<1>5. UNCHANGED disk => Fine(disk)'
  BY <1>2 DEF Fine, Whole, Loads, Fits
<1>6. UNCHANGED drafts => Whole(drafts)'
  BY <1>2 DEF Whole
<1>7. Idle.kind \notin Requests /\ Idle.step \notin Active
  BY DEF Idle, Task, Requests, Active
<1>8. CASE Moves(t, Idle) /\ UNCHANGED <<disk, drafts>>
  BY <1>4, <1>5, <1>6, <1>7, <1>8, ReadingReady
<1>9. CASE ReadPatched(t)
  <2>. DEFINE v == Patched(disk.frame, k.text)
  <2>1. CASE Moves(t, Writing(At(k, "open"), v))
    <3>. PICK u, w : u = Writing(At(k, "open"), w) /\ w = v
      OBVIOUS
    <3>1. IsTask(At(k, "open")) /\ At(k, "open").step = "open" /\ At(k, "open").kind = k.kind
      BY <1>3, AtShape, FieldsKept
    <3>2. u.step = "open" /\ u.kind = k.kind /\ u.text = w
      BY <3>1, ValShape, FieldsKept
    <3>3. k.kind = "frame" /\ w.default \in disk.screens
      BY <1>2, <1>3, <1>9 DEF ReadPatched, Ready, Patched, Fine, Loads, Fits
    <3>4. Keeps("frame", w) /\ UNCHANGED <<disk, drafts>>
      BY <1>2, <1>9, <3>3, KeepsFile DEF ReadPatched
    <3>. HIDE DEF v
    <3>5. Ready(u)'
      BY <3>2, <3>3, <3>4 DEF Ready, Keeps, Active, Requests
    <3>. QED
      BY <1>4, <1>5, <1>6, <2>1, <3>2, <3>4, <3>5
  <2>2. disk.frame # Torn.frame
    BY <1>2 DEF Fine, Loads
  <2>. QED
    BY <1>8, <1>9, <2>1, <2>2 DEF ReadPatched
<1>10. CASE OpenTemp(t)
  <2>. PICK u : u = FdTo(At(k, "write"), "temp")
    OBVIOUS
  <2>1. /\ IsTask(At(k, "write")) /\ At(k, "write").step = "write"
        /\ At(k, "write").kind = k.kind /\ At(k, "write").text = k.text
    BY <1>3, AtShape, FieldsKept
  <2>2. u.step = "write" /\ u.kind = k.kind /\ u.text = k.text /\ u.fd = "temp"
    BY <2>1, FdShape, FieldsKept
  <2>3. k.kind \in Requests /\ Keeps(k.kind, k.text) /\ disk' = disk
    BY <1>3, <1>10 DEF OpenTemp, Ready, Active
  <2>4. drafts' = [drafts EXCEPT ![k.kind] = Torn[k.kind]] /\ Moves(t, u)
    BY <1>10 DEF OpenTemp
  <2>5. Whole(drafts)' /\ drafts'[k.kind] = Torn[k.kind]
    BY <1>2, <2>3, <2>4, WholeReplaced
  <2>. HIDE DEF k
  <2>6. Ready(u)'
    BY <2>2, <2>3, <2>5 DEF Ready, Keeps
  <2>. QED
    BY <1>4, <1>5, <2>2, <2>3, <2>4, <2>5, <2>6
<1>11. CASE WriteTemp(t)
  <2>. PICK u : u = Task(k.kind, "rename", 0)
    OBVIOUS
  <2>1. u.step = "rename" /\ u.kind = k.kind
    BY DEF Task
  <2>2. /\ k.step = "write" /\ k.kind \in Requests /\ Keeps(k.kind, k.text)
        /\ k.fd = "temp" /\ drafts[k.kind] = Torn[k.kind]
    BY <1>3, <1>11 DEF WriteTemp, Ready, Active
  <2>3. /\ drafts' = [drafts EXCEPT ![k.kind] = k.text]
        /\ disk' = disk /\ Moves(t, u)
    BY <1>11, <2>2 DEF WriteTemp, Overwritten
  <2>4. Whole(drafts)' /\ drafts'[k.kind] = k.text
    BY <1>2, <2>2, <2>3, WholeReplaced
  <2>. HIDE DEF k
  <2>5. Ready(u)'
    BY <2>1, <2>2, <2>3, <2>4 DEF Ready, Keeps, Active
  <2>. QED
    BY <1>4, <1>5, <2>1, <2>2, <2>3, <2>4, <2>5
<1>12. CASE Rename(t)
  <2>1. k.kind \in Requests /\ Keeps(k.kind, drafts[k.kind])
    BY <1>3, <1>12 DEF Rename, Ready, Active
  <2>2. /\ disk' = [disk EXCEPT ![k.kind] = drafts[k.kind]]
        /\ drafts' = [drafts EXCEPT ![k.kind] = Torn[k.kind]]
        /\ tasks' = [x \in Slot |-> IF x = t THEN At(k, "readFrame")
                                             ELSE Renamed(tasks[x], k.kind)]
    BY <1>12 DEF Rename
  <2>3. Fine(disk)'
    BY <2>1, <2>2 DEF Keeps, Fine, Whole, Loads, Fits
  <2>4. Whole(drafts)'
    BY <1>2, <2>1, <2>2, WholeReplaced
  <2>5. /\ At(k, "readFrame").step \notin Active
        /\ tasks'[t] = At(k, "readFrame")
    BY <1>3, <2>2, AtShape DEF Active
  <2>6. \A x \in Slot \ {t} : tasks[x].kind \notin Requests /\ tasks[x].step \notin Active
    BY <1>2, <2>1, OthersReady
  <2>7. \A x \in Slot \ {t} : tasks'[x] = tasks[x]
    BY <2>1, <2>2, <2>6 DEF Renamed
  <2>8. AllReady'
    BY <2>5, <2>6, <2>7, ReadingReady DEF AllReady
  <2>9. OneRequest'
    BY <2>6, <2>7 DEF OneRequest, Requesting
  <2>. QED
    BY <2>3, <2>4, <2>8, <2>9 DEF FInv
<1>13. CASE WatchTimerFires(t)
  <2>1. Moves(t, Task("watch", "readFrame", 0)) /\ UNCHANGED <<disk, drafts>>
    BY <1>13 DEF WatchTimerFires
  <2>2. /\ Task("watch", "readFrame", 0).kind \notin Requests
        /\ Task("watch", "readFrame", 0).step \notin Active
    BY DEF Task, Requests, Active
  <2>. QED
    BY <1>4, <1>5, <1>6, <2>1, <2>2, ReadingReady
<1>14. CASE ReadFrame(t) \/ ReadScreens(t) \/ ReadToken(t)
  <2>1. \A q \in Reading :
          IsTask(At(k, q)) /\ At(k, q).step = q /\ At(k, q).kind = k.kind
    BY <1>3, AtShape, FieldsKept
  <2>2. PICK u : Moves(t, u) /\ u.kind = k.kind /\ u.step \notin Active
    BY <1>14, <2>1, FrameShape, ScreensShape, TokenShape, FieldsKept
    DEF ReadFrame, ReadScreens, ReadToken, Reading, Active
  <2>3. UNCHANGED <<disk, drafts>>
    BY <1>14 DEF ReadFrame, ReadScreens, ReadToken
  <2>. QED
    BY <1>4, <1>5, <1>6, <2>2, <2>3, ReadingReady
<1>15. CASE AccessFails(t)
  <2>1. CASE UNCHANGED <<disk, drafts>>
    BY <1>8, <1>15, <2>1 DEF AccessFails
  <2>2. CASE k.step = "write" /\ CutsShort(t)
    <3>1. k.kind \in Requests /\ k.fd = "temp"
      BY <1>3, <2>2 DEF Ready, Active
    <3>2. disk' = disk /\ drafts' = [drafts EXCEPT ![k.kind] = Torn[k.kind]]
      BY <2>2, <3>1 DEF CutsShort
    <3>3. Whole(drafts)'
      BY <1>2, <3>1, <3>2, WholeReplaced
    <3>. QED
      BY <1>4, <1>5, <1>7, <1>15, <3>1, <3>2, <3>3, ReadingReady DEF AccessFails
  <2>. QED
    BY <1>15, <2>1, <2>2 DEF AccessFails
<1>. QED
  BY <1>8, <1>9, <1>10, <1>11, <1>12, <1>13, <1>14, <1>15, TaskStep(t)
  DEF TaskStep, RenameFails, AccessFails, CutsShort, ReloadFails

LEMMA EventsCounted == events \in Nat /\ [Next]_configVars => events' \in Nat
BY DEF Next, Request, PutScreens, PutConfig, RotateBearer, Begin, FileStep, EditFrame,
       EditScreens, Edit, TaskStep, ReadPatched, OpenTemp, WriteTemp, Rename,
       RenameFails, AccessFails, CutsShort,
       WatchTimerFires, ReadFrame, ReadScreens, ReadToken, ReloadFails, Install, Boot, configVars

LEMMA StepFiles == IInv /\ events \in Nat /\ FInv /\ [Next]_configVars => FInv'
<1>. SUFFICES ASSUME IInv, events \in Nat, FInv, [Next]_configVars, ~excused' PROVE FInv'
  BY DEF FInv
<1>1. CASE Request
  BY <1>1, RequestFiles
<1>2. CASE EditFrame \/ EditScreens
  <2>1. PICK f, c :
          f \in {"frame", "screens"} /\ Edit(f, c) /\ (f = "screens" => c \subseteq Ids)
    BY <1>2 DEF EditFrame, EditScreens
  <2>2. /\ disk' = [disk EXCEPT ![f] = c] /\ UNCHANGED <<drafts, tasks>>
        /\ ~excused /\ Requesting = {} /\ Loads(disk')
    BY <2>1 DEF Edit
  <2>3. Fine(disk) /\ Whole(drafts) /\ AllReady
    BY <2>2 DEF FInv
  <2>4. /\ Whole(disk')
        /\ disk'.screens = IF f = "screens" THEN c ELSE disk.screens
    BY <2>1, <2>2, <2>3 DEF Fine, Whole
  <2>5. Fine(disk)'
    BY <2>1, <2>2, <2>3, <2>4 DEF Fine, Loads, Fits, Whole
  <2>6. \A x \in Slot : tasks[x].kind \notin Requests /\ tasks[x].step \notin Active
    BY <2>2, <2>3 DEF AllReady, Ready, Requesting
  <2>7. AllReady' /\ OneRequest'
    BY <2>2, <2>6, ReadingReady DEF AllReady, OneRequest, Requesting
  <2>. QED
    BY <2>2, <2>3, <2>5, <2>7 DEF FInv, Whole
<1>3. CASE \E t \in Slot : TaskStep(t)
  BY <1>3, TaskFiles
<1>4. CASE \E t \in Slot : Install(t)
  <2>1. PICK t \in Slot : Moves(t, Idle) /\ UNCHANGED <<disk, drafts, excused>>
    BY <1>4 DEF Install
  <2>2. Fine(disk) /\ Whole(drafts) /\ OneRequest /\ AllReady
    BY <2>1 DEF FInv
  <2>3. Idle.kind \notin Requests /\ Idle.step \notin Active
    BY DEF Idle, Task, Requests, Active
  <2>4. OneRequest' /\ AllReady'
    BY <2>1, <2>2, <2>3, MovesReady, ReadingReady
  <2>. QED
    BY <2>1, <2>2, <2>4 DEF FInv, Fine, Whole, Loads, Fits
<1>5. CASE Boot
  <2>1. Idle.kind \notin Requests /\ Idle.step \notin Active
    BY DEF Idle, Task, Requests, Active
  <2>2. UNCHANGED <<disk, drafts, excused>> /\ \A x \in Slot : tasks'[x] = Idle
    BY <1>5 DEF Boot
  <2>3. AllReady' /\ OneRequest'
    BY <2>1, <2>2, ReadingReady DEF AllReady, OneRequest, Requesting
  <2>. QED
    BY <2>2, <2>3 DEF FInv, Fine, Whole, Loads, Fits
<1>6. CASE UNCHANGED configVars
  BY <1>6 DEF configVars, FInv, Fine, Whole, Loads, Fits, OneRequest, Requesting,
              AllReady, Ready, Keeps
<1>. QED
  BY <1>1, <1>2, <1>3, <1>4, <1>5, <1>6 DEF Next, FileStep

LEMMA InitFiles == Init => events \in Nat /\ FInv
<1>. SUFFICES ASSUME Init PROVE events \in Nat /\ FInv
  OBVIOUS
<1>1. PICK f \in Frames, c \in SUBSET Ids :
        disk = [frame |-> f, screens |-> c, token |-> 1] /\ Loads(disk)
  BY DEF Init
<1>2. Fine(disk) /\ Whole(drafts)
  BY <1>1 DEF Init, Fine, Whole, Torn
<1>3. Idle.kind \notin Requests /\ Idle.step \notin Active
  BY DEF Idle, Task, Requests, Active
<1>4. OneRequest /\ AllReady
  BY <1>3, ReadingReady DEF Init, OneRequest, Requesting, AllReady
<1>. QED
  BY <1>2, <1>4 DEF FInv, Init

\* Requests one at a time, reloads, ends of the process and edits without a
\* mistake leave files that load, wherever they come between the accesses of
\* a write.
THEOREM FilesLoad == Spec => []FilesStayValid
<1>1. (IInv /\ events \in Nat /\ FInv) /\ [Next]_configVars
        => (IInv /\ events \in Nat /\ FInv)'
  BY StepInv, EventsCounted, StepFiles
<1>2. FInv => FilesStayValid
  BY DEF FInv, Fine, FilesStayValid
<1>. QED
  BY InitInv, InitFiles, <1>1, <1>2, PTL DEF Spec

--------------------------------------------------------------------------------
(* Types.                                                                  *)

\* What a file of a name may hold.
FileVal(f, v) ==
  /\ f = "frame" => v \in Frames \cup {Torn.frame}
  /\ f = "screens" => v \in SUBSET Ids
  /\ f = "token" => v \in Nat

\* A task writes what its file may hold, and has an fd only while it writes.
Typed(k) ==
  /\ IsTask(k)
  /\ k.kind \in Requests \cup {"idle", "watch"} /\ k.step \in Steps /\ k.seen \in Contents
  /\ k.fd # "none" <=> k.step = "write"
  /\ k.kind = "idle" => k.step = "none"
  /\ k.step \in Active => k.kind \in Requests
  /\ k.step = "read" => k.kind = "frame" /\ k.text \in Patches
  /\ k.step \in {"open", "write"} => FileVal(k.kind, k.text)

FdIn(k, names) == k.fd = "temp" => k.kind \in names
HasTemp(k) == FdIn(k, temps)

TasksTyped ==
  /\ tasks = [t \in Slot |-> tasks[t]]
  /\ \A t \in Slot : Typed(tasks[t]) /\ HasTemp(tasks[t])

FilesTyped == disk \in Contents /\ drafts \in Contents /\ temps \subseteq Files
StateTyped == state.safe \in BOOLEAN /\ state.files \in Contents
Flags == pending \in BOOLEAN /\ excused \in BOOLEAN /\ overtaken \in BOOLEAN
Counted == events \in 0..MaxEvents

TInv == TasksTyped /\ FilesTyped /\ StateTyped /\ Flags /\ Counted

LEMMA TornTyped ==
  /\ Torn \in Contents /\ Torn.frame \in Frames \cup {Torn.frame}
  /\ Torn.screens \in SUBSET Ids /\ Torn.token \in Nat
BY DEF Torn, Contents

LEMMA FilesAre == Files = Requests
BY DEF Files, Torn, Requests

\* One file of well-formed contents is replaced.
LEMMA Replaced ==
  ASSUME NEW d \in Contents, NEW f \in Requests, NEW v, FileVal(f, v)
  PROVE  [d EXCEPT ![f] = v] \in Contents
<1>1. PICK x, y, z : d = [frame |-> x, screens |-> y, token |-> z]
  BY DEF Contents
<1>2. x \in Frames \cup {Torn.frame} /\ y \in SUBSET Ids /\ z \in Nat
  BY <1>1 DEF Contents
<1>3. CASE f = "frame"
  <2>1. [d EXCEPT ![f] = v] = [frame |-> v, screens |-> y, token |-> z]
    BY <1>1, <1>3
  <2>. QED
    BY <1>2, <1>3, <2>1 DEF Contents, FileVal
<1>4. CASE f = "screens"
  <2>1. [d EXCEPT ![f] = v] = [frame |-> x, screens |-> v, token |-> z]
    BY <1>1, <1>4
  <2>. QED
    BY <1>2, <1>4, <2>1 DEF Contents, FileVal
<1>5. CASE f = "token"
  <2>1. [d EXCEPT ![f] = v] = [frame |-> x, screens |-> y, token |-> v]
    BY <1>1, <1>5
  <2>. QED
    BY <1>2, <1>5, <2>1 DEF Contents, FileVal
<1>. QED
  BY <1>3, <1>4, <1>5 DEF Requests

LEMMA FileTyped ==
  ASSUME NEW d \in Contents, NEW f \in Requests
  PROVE  FileVal(f, d[f])
BY DEF Contents, Requests, FileVal

LEMMA TornFile == ASSUME NEW f \in Requests PROVE FileVal(f, Torn[f])
BY TornTyped DEF FileVal, Requests

\* What the changes of a task leave alone besides.
LEMMA FdKept ==
  ASSUME NEW k, IsTask(k), NEW x
  PROVE  /\ At(k, x).fd = k.fd /\ Writing(k, x).fd = k.fd
         /\ SawFrame(k, x).fd = k.fd /\ SawScreens(k, x).fd = k.fd
<1>1. PICK a, b, v, d, s : k = [kind |-> a, step |-> b, text |-> v, fd |-> d, seen |-> s]
  BY DEF IsTask
<1>2. /\ At(k, x) = [kind |-> a, step |-> x, text |-> v, fd |-> d, seen |-> s]
      /\ Writing(k, x) = [kind |-> a, step |-> b, text |-> x, fd |-> d, seen |-> s]
  BY <1>1 DEF At, Writing
<1>3. SawFrame(k, x).fd = d /\ SawScreens(k, x).fd = d
  BY <1>1 DEF SawFrame, SawScreens
<1>. QED
  BY <1>1, <1>2, <1>3

\* What a reload has seen after one more read.
LEMMA SawTyped ==
  ASSUME NEW k, IsTask(k), k.seen \in Contents, NEW d \in Contents
  PROVE  /\ SawFrame(k, d.frame).seen \in Contents /\ SawScreens(k, d.screens).seen \in Contents
         /\ SawToken(k, d.token).seen \in Contents
<1>1. PICK a, b, v, w, s : k = [kind |-> a, step |-> b, text |-> v, fd |-> w, seen |-> s]
  BY DEF IsTask
<1>2. PICK x, y, z : s = [frame |-> x, screens |-> y, token |-> z]
  BY <1>1 DEF IsTask, IsSeen
<1>3. x \in Frames \cup {Torn.frame} /\ y \in SUBSET Ids /\ z \in Nat
  BY <1>1, <1>2 DEF Contents
<1>4. d.frame \in Frames \cup {Torn.frame} /\ d.screens \in SUBSET Ids /\ d.token \in Nat
  BY DEF Contents
<1>5. SawFrame(k, d.frame).seen = [frame |-> d.frame, screens |-> y, token |-> z]
  BY <1>1, <1>2 DEF SawFrame
<1>6. SawScreens(k, d.screens).seen = [frame |-> x, screens |-> d.screens, token |-> z]
  BY <1>1, <1>2 DEF SawScreens
<1>7. SawToken(k, d.token).seen = [frame |-> x, screens |-> y, token |-> d.token]
  BY <1>1, <1>2 DEF SawToken
<1>. QED
  BY <1>3, <1>4, <1>5, <1>6, <1>7 DEF Contents

\* A task that begins.
LEMMA BegunTyped ==
  ASSUME NEW kind \in Requests \cup {"idle", "watch"}, NEW step \in Steps, step # "write", NEW val,
         kind = "idle" => step = "none",
         step \in Active => kind \in Requests,
         step = "read" => kind = "frame" /\ val \in Patches,
         step = "open" => FileVal(kind, val)
  PROVE  Typed(Task(kind, step, val)) /\ Task(kind, step, val).fd = "none"
<1>. PICK u : u = Task(kind, step, val)
  OBVIOUS
<1>1. /\ u.kind = kind /\ u.step = step /\ u.text = val /\ u.fd = "none"
      /\ u.seen = Torn /\ u.seen \in Contents
  BY TornTyped DEF Task
<1>2. IsTask(u)
  <2>1. IsSeen(Torn)
    BY DEF IsSeen, Torn
  <2>. QED
    BY <1>1, <2>1 DEF IsTask, Task
<1>. QED
  BY <1>1, <1>2 DEF Typed

LEMMA IdleTyped == Typed(Idle) /\ Idle.fd = "none"
BY BegunTyped DEF Idle, Steps, Reading, Active

\* One task is replaced by a typed one.
LEMMA MovesTyped ==
  ASSUME TasksTyped, NEW t \in Slot, NEW u, Moves(t, u), Typed(u), HasTemp(u)',
         temps \subseteq temps'
  PROVE  TasksTyped'
<1>1. \A x \in Slot : tasks'[x] = IF x = t THEN u ELSE tasks[x]
  BY DEF Moves, TasksTyped
<1>2. tasks' = [x \in Slot |-> tasks'[x]]
  BY DEF Moves, TasksTyped
<1>3. ASSUME NEW x \in Slot \ {t} PROVE Typed(tasks'[x]) /\ HasTemp(tasks[x])'
  BY <1>1, <1>3 DEF TasksTyped, HasTemp, FdIn
<1>. QED
  BY <1>1, <1>2, <1>3 DEF TasksTyped, HasTemp, FdIn

LEMMA IdlesTyped ==
  ASSUME TasksTyped, NEW t \in Slot, Moves(t, Idle), UNCHANGED temps
  PROVE  TasksTyped'
BY IdleTyped, MovesTyped DEF HasTemp, FdIn

LEMMA RenamedTyped ==
  ASSUME NEW k, Typed(k), NEW names, FdIn(k, names), NEW f
  PROVE  Typed(Renamed(k, f)) /\ FdIn(Renamed(k, f), names \ {f})
<1>1. CASE k.kind = f /\ k.fd \in {"temp", "disk"}
  <2>. PICK u, to : to \in {"disk", "gone"} /\ u = FdTo(k, to) /\ Renamed(k, f) = u
    BY <1>1 DEF Renamed
  <2>1. k.step = "write" /\ IsTask(k)
    BY <1>1 DEF Typed
  <2>2. /\ IsTask(u) /\ u.kind = k.kind /\ u.text = k.text /\ u.fd = to
        /\ u.seen = k.seen /\ u.step = k.step
    BY <2>1, FdShape, FieldsKept
  <2>3. Typed(u) /\ FdIn(u, names \ {f})
    BY <2>1, <2>2 DEF Typed, FdIn
  <2>. QED
    BY <2>3
<1>2. CASE ~(k.kind = f /\ k.fd \in {"temp", "disk"})
  BY <1>2 DEF Renamed, FdIn
<1>. QED
  BY <1>1, <1>2

LEMMA RequestTyped == ASSUME TInv, Request PROVE TasksTyped'
<1>1. PICK t \in Slot : PutScreens(t) \/ PutConfig(t) \/ RotateBearer(t)
  BY DEF Request
<1>2. events + 2 \in Nat
  BY ConfigAssumption DEF TInv, Counted, ConfigAssumption
<1>3. PICK kind, step, val :
        /\ Begin(t, kind, step, val)
        /\ kind \in Requests /\ step \in {"open", "read"}
        /\ step = "read" => kind = "frame" /\ val \in Patches
        /\ step = "open" => FileVal(kind, val)
  BY <1>1, <1>2 DEF PutScreens, PutConfig, RotateBearer, Requests, FileVal
<1>. PICK u : u = Task(kind, step, val)
  OBVIOUS
<1>4. Typed(u) /\ u.fd = "none"
  BY <1>3, BegunTyped DEF Steps, Reading, Requests
<1>5. Moves(t, u) /\ temps' = temps
  BY <1>3 DEF Begin, Moves
<1>. QED
  BY <1>4, <1>5, MovesTyped DEF TInv, HasTemp, FdIn

LEMMA TaskTyped == ASSUME TInv, NEW t \in Slot, TaskStep(t) PROVE TasksTyped' /\ FilesTyped'
<1>. DEFINE k == tasks[t]
<1>1. /\ Typed(k) /\ HasTemp(k) /\ IsTask(k) /\ TasksTyped
      /\ disk \in Contents /\ drafts \in Contents /\ temps \subseteq Requests
  BY FilesAre DEF TInv, TasksTyped, FilesTyped, Typed
<1>2. CASE Moves(t, Idle) /\ UNCHANGED <<disk, drafts, temps>>
  BY <1>1, <1>2, FilesAre, IdlesTyped DEF FilesTyped
<1>3. CASE ReadPatched(t)
  <2>1. k.kind = "frame" /\ k.text \in Patches /\ k.step = "read" /\ k.fd = "none"
    BY <1>1, <1>3 DEF ReadPatched, Typed
  <2>2. disk.frame # Torn.frame => Patched(disk.frame, k.text) \in Frames
    <3>1. disk.frame \in Frames \cup {Torn.frame}
      BY <1>1 DEF Contents
    <3>2. k.text \in [default: Ids \cup {Unset}, ha: HaSettings \cup {Unset}]
      BY <2>1, ConfigAssumption DEF ConfigAssumption
    <3>. QED
      BY <3>1, <3>2 DEF Patched, Frames
  <2>3. ASSUME NEW w \in Frames \cup {Torn.frame}, Moves(t, Writing(At(k, "open"), w))
        PROVE  TasksTyped'
    <3>. PICK u : u = Writing(At(k, "open"), w)
      OBVIOUS
    <3>1. /\ IsTask(At(k, "open")) /\ At(k, "open").step = "open" /\ At(k, "open").kind = k.kind
          /\ At(k, "open").seen = k.seen /\ At(k, "open").fd = k.fd
      BY <1>1, AtShape, FieldsKept, FdKept
    <3>2. /\ IsTask(u) /\ u.step = "open" /\ u.kind = "frame" /\ u.text = w
          /\ u.seen = k.seen /\ u.fd = "none"
      BY <2>1, <3>1, ValShape, FieldsKept, FdKept
    <3>3. Typed(u) /\ HasTemp(u)'
      BY <1>1, <3>2 DEF Typed, HasTemp, FdIn, FileVal, Steps, Reading, Active, Requests
    <3>. QED
      BY <1>1, <1>3, <2>3, <3>3, MovesTyped DEF ReadPatched
  <2>4. TasksTyped'
    BY <1>1, <1>2, <1>3, <2>2, <2>3, IdlesTyped DEF ReadPatched
  <2>. QED
    BY <1>1, <1>3, <2>4, FilesAre DEF ReadPatched, FilesTyped
<1>4. CASE OpenTemp(t)
  <2>. PICK u : u = FdTo(At(k, "write"), "temp")
    OBVIOUS
  <2>1. /\ IsTask(At(k, "write")) /\ At(k, "write").step = "write" /\ At(k, "write").text = k.text
        /\ At(k, "write").kind = k.kind /\ At(k, "write").seen = k.seen
    BY <1>1, AtShape, FieldsKept
  <2>2. /\ IsTask(u) /\ u.step = "write" /\ u.kind = k.kind /\ u.text = k.text
        /\ u.fd = "temp" /\ u.seen = k.seen
    BY <2>1, FdShape, FieldsKept
  <2>3. k.kind \in Requests /\ FileVal(k.kind, k.text)
    BY <1>1, <1>4 DEF OpenTemp, Typed, Active
  <2>4. /\ Moves(t, u) /\ temps' = temps \cup {k.kind} /\ disk' = disk
        /\ drafts' = [drafts EXCEPT ![k.kind] = Torn[k.kind]]
    BY <1>4 DEF OpenTemp
  <2>. HIDE DEF k
  <2>5. Typed(u) /\ HasTemp(u)'
    BY <1>1, <2>2, <2>3, <2>4 DEF Typed, HasTemp, FdIn, Steps, Reading, Requests
  <2>6. drafts' \in Contents
    BY <1>1, <2>3, <2>4, TornFile, Replaced
  <2>7. temps' \subseteq Requests
    BY <1>1, <2>3, <2>4
  <2>. QED
    BY <1>1, <2>4, <2>5, <2>6, <2>7, MovesTyped, FilesAre DEF FilesTyped
<1>5. CASE WriteTemp(t)
  <2>. PICK u : u = Task(k.kind, "rename", 0)
    OBVIOUS
  <2>1. k.kind \in Requests /\ FileVal(k.kind, k.text)
    BY <1>1, <1>5 DEF WriteTemp, Typed, Active
  <2>2. Moves(t, u) /\ temps' = temps
    BY <1>5 DEF WriteTemp
  <2>3. Typed(u) /\ u.fd = "none"
    BY <2>1, BegunTyped DEF Steps, Reading, Active, Requests
  <2>4. ASSUME NEW old, NEW c \in Overwritten(k.kind, old, k.text) PROVE FileVal(k.kind, c)
    BY <2>1, <2>4, TornFile DEF Overwritten
  <2>5. /\ drafts' = drafts \/ \E c : FileVal(k.kind, c) /\ drafts' = [drafts EXCEPT ![k.kind] = c]
        /\ disk' = disk \/ \E c : FileVal(k.kind, c) /\ disk' = [disk EXCEPT ![k.kind] = c]
    BY <1>5, <2>4 DEF WriteTemp
  <2>6. disk' \in Contents /\ drafts' \in Contents
    BY <1>1, <2>1, <2>5, Replaced
  <2>. QED
    BY <1>1, <2>2, <2>3, <2>6, MovesTyped, FilesAre DEF FilesTyped, HasTemp, FdIn
<1>6. CASE Rename(t)
  <2>1. k.kind \in Requests /\ k.fd = "none" /\ k.seen \in Contents
    BY <1>1, <1>6 DEF Rename, Typed, Active
  <2>2. /\ temps' = temps \ {k.kind}
        /\ disk' = [disk EXCEPT ![k.kind] = drafts[k.kind]]
        /\ drafts' = [drafts EXCEPT ![k.kind] = Torn[k.kind]]
        /\ tasks' = [x \in Slot |-> IF x = t THEN At(k, "readFrame")
                                             ELSE Renamed(tasks[x], k.kind)]
    BY <1>6 DEF Rename
  <2>. PICK u : u = At(k, "readFrame")
    OBVIOUS
  <2>3. /\ IsTask(u) /\ u.step = "readFrame" /\ u.kind = k.kind
        /\ u.seen = k.seen /\ u.fd = "none"
    BY <1>1, <2>1, AtShape, FieldsKept, FdKept
  <2>4. Typed(u) /\ HasTemp(u)'
    BY <2>1, <2>3 DEF Typed, HasTemp, FdIn, Steps, Reading, Active, Requests
  <2>5. \A x \in Slot : Typed(Renamed(tasks[x], k.kind)) /\ FdIn(Renamed(tasks[x], k.kind), temps')
    BY <1>1, <2>2, RenamedTyped DEF TasksTyped, HasTemp, FdIn
  <2>6. disk' \in Contents /\ drafts' \in Contents
    BY <1>1, <2>1, <2>2, FileTyped, TornFile, Replaced
  <2>. HIDE DEF k
  <2>7. \A x \in Slot : tasks'[x] = IF x = t THEN u ELSE Renamed(tasks[x], k.kind)
    BY <2>2
  <2>8. TasksTyped'
    <3>1. tasks' = [x \in Slot |-> tasks'[x]]
      BY <2>2
    <3>2. ASSUME NEW x \in Slot PROVE Typed(tasks'[x]) /\ HasTemp(tasks[x])'
      BY <2>4, <2>5, <2>7 DEF HasTemp, FdIn
    <3>. QED
      BY <3>1, <3>2 DEF TasksTyped
  <2>. QED
    BY <1>1, <2>2, <2>6, <2>8, FilesAre DEF FilesTyped
<1>7. CASE WatchTimerFires(t)
  <2>. PICK u : u = Task("watch", "readFrame", 0)
    OBVIOUS
  <2>1. Typed(u) /\ u.fd = "none"
    BY BegunTyped DEF Steps, Reading, Active
  <2>2. Moves(t, u) /\ UNCHANGED <<disk, drafts, temps>>
    BY <1>7 DEF WatchTimerFires
  <2>. QED
    BY <1>1, <2>1, <2>2, MovesTyped, FilesAre DEF FilesTyped, HasTemp, FdIn
<1>8. CASE ReadFrame(t) \/ ReadScreens(t) \/ ReadToken(t)
  <2>1. PICK q \in Reading :
          \/ Moves(t, SawFrame(At(k, q), disk.frame))
          \/ Moves(t, SawScreens(At(k, q), disk.screens))
          \/ Moves(t, SawToken(At(k, q), disk.token))
    BY <1>8 DEF ReadFrame, ReadScreens, ReadToken, Reading
  <2>2. UNCHANGED <<disk, drafts, temps>> /\ k.fd = "none" /\ k.kind # "idle"
    BY <1>1, <1>8 DEF ReadFrame, ReadScreens, ReadToken, Typed, Active
  <2>. PICK a : a = At(k, q)
    OBVIOUS
  <2>3. IsTask(a) /\ a.step = q /\ a.kind = k.kind /\ a.seen = k.seen /\ a.fd = "none"
    BY <1>1, <2>2, AtShape, FieldsKept, FdKept
  <2>4. PICK u : /\ u \in {SawFrame(a, disk.frame), SawScreens(a, disk.screens),
                           SawToken(a, disk.token)}
                 /\ Moves(t, u)
    BY <2>1
  <2>5. IsTask(u) /\ u.step = q /\ u.kind = k.kind /\ u.fd = "none"
    BY <2>3, <2>4, FrameShape, ScreensShape, TokenShape, FieldsKept, FdKept
  <2>6. u.seen \in Contents
    BY <1>1, <2>3, <2>4, SawTyped DEF Typed
  <2>7. Typed(u) /\ HasTemp(u)'
    BY <1>1, <2>2, <2>5, <2>6 DEF Typed, HasTemp, FdIn, Steps, Active, Reading
  <2>. QED
    BY <1>1, <2>2, <2>4, <2>7, MovesTyped, FilesAre DEF FilesTyped
<1>9. CASE AccessFails(t)
  <2>1. k.kind \in Requests /\ FileVal(k.kind, Torn[k.kind]) /\ temps' = temps /\ Moves(t, Idle)
    BY <1>1, <1>9, TornFile DEF AccessFails, Typed, Active
  <2>2. /\ drafts' = drafts \/ drafts' = [drafts EXCEPT ![k.kind] = Torn[k.kind]]
        /\ disk' = disk \/ disk' = [disk EXCEPT ![k.kind] = Torn[k.kind]]
    BY <1>9 DEF AccessFails, CutsShort
  <2>3. disk' \in Contents /\ drafts' \in Contents
    BY <1>1, <2>1, <2>2, Replaced
  <2>. QED
    BY <1>1, <2>1, <2>3, IdlesTyped, FilesAre DEF FilesTyped
<1>. QED
  BY <1>2, <1>3, <1>4, <1>5, <1>6, <1>7, <1>8, <1>9, TaskStep(t)
  DEF TaskStep, RenameFails, ReloadFails

\* An edit, a start of the process and the end of a reload.
LEMMA EditTyped == ASSUME TInv, EditFrame \/ EditScreens PROVE TasksTyped' /\ FilesTyped'
<1>1. PICK f, c : Edit(f, c) /\ f \in Requests /\ FileVal(f, c)
  BY DEF EditFrame, EditScreens, FileVal, Requests
<1>2. disk' = [disk EXCEPT ![f] = c] /\ UNCHANGED <<drafts, temps, tasks>>
  BY <1>1 DEF Edit
<1>3. disk' \in Contents
  BY <1>1, <1>2, Replaced DEF TInv, FilesTyped
<1>. QED
  BY <1>2, <1>3 DEF TInv, TasksTyped, FilesTyped, HasTemp, FdIn

LEMMA BootTyped == ASSUME TInv, Boot PROVE TasksTyped' /\ FilesTyped' /\ StateTyped'
<1>1. tasks' = [t \in Slot |-> Idle] /\ UNCHANGED <<disk, drafts, temps>> /\ state' = Loaded(disk)
  BY DEF Boot
<1>2. TasksTyped'
  BY <1>1, IdleTyped DEF TasksTyped, HasTemp, FdIn
<1>3. state'.safe = ~Loads(disk) /\ state'.files \in {disk, Torn}
  BY <1>1 DEF Loaded
<1>4. StateTyped'
  BY <1>3, TornTyped DEF StateTyped, TInv, FilesTyped
<1>. QED
  BY <1>1, <1>2, <1>4 DEF TInv, FilesTyped

LEMMA InstallTyped ==
  ASSUME TInv, NEW t \in Slot, Install(t) PROVE TasksTyped' /\ FilesTyped' /\ StateTyped'
<1>1. tasks[t].seen \in Contents
  BY DEF TInv, TasksTyped, Typed
<1>2. state' = [safe |-> FALSE, files |-> tasks[t].seen]
  BY DEF Install
<1>3. Moves(t, Idle) /\ UNCHANGED <<disk, drafts, temps>>
  BY DEF Install
<1>4. StateTyped'
  BY <1>1, <1>2 DEF StateTyped
<1>. QED
  BY <1>3, <1>4, IdlesTyped DEF TInv, FilesTyped

LEMMA StateKept ==
  ASSUME Request \/ FileStep
  PROVE  UNCHANGED state
BY DEF Request, PutScreens, PutConfig, RotateBearer, Begin, FileStep, EditFrame,
       EditScreens, Edit, TaskStep, ReadPatched, OpenTemp, WriteTemp, Rename,
       RenameFails, AccessFails, CutsShort,
       WatchTimerFires, ReadFrame, ReadScreens, ReadToken, ReloadFails

LEMMA FlagsTyped == ASSUME Flags, Next PROVE Flags'
<1>1. /\ \/ pending' = pending \/ pending' = FALSE
         \/ \E f : pending' = (pending \/ Watched(f))
      /\ \/ excused' = excused
         \/ excused' = (excused \/ Requesting # {} \/ state.files # disk)
         \/ excused' = (excused \/ Requesting # {} \/ ~Loads(disk'))
      /\ \/ overtaken' = overtaken \/ overtaken' = FALSE
         \/ \E t : overtaken' = (overtaken \/ Overtakes(t))
         \/ \E t : overtaken' = (Overtakes(t) \/ (overtaken /\ Outdated(t)))
  BY Zenon DEF Next, Request, PutScreens, PutConfig, RotateBearer, Begin, FileStep, EditFrame,
     EditScreens, Edit, TaskStep, ReadPatched, OpenTemp, WriteTemp, Rename,
     RenameFails, AccessFails, CutsShort,
     WatchTimerFires, ReadFrame, ReadScreens, ReadToken, ReloadFails, Install, Boot
<1>2. pending' \in BOOLEAN
  BY <1>1, Zenon DEF Flags, Watched
<1>3. excused' \in BOOLEAN
  BY <1>1, Zenon DEF Flags
<1>4. overtaken' \in BOOLEAN
  BY <1>1, Zenon DEF Flags, Overtakes
<1>. QED
  BY <1>2, <1>3, <1>4 DEF Flags

LEMMA EventsTyped == ASSUME Counted, Next PROVE Counted'
<1>1. events' = events \/ (events < MaxEvents /\ events' = events + 1)
  <2>1. CASE Request
    BY <2>1 DEF Request, PutScreens, PutConfig, RotateBearer, Begin
  <2>2. CASE EditFrame \/ EditScreens
    BY <2>2 DEF EditFrame, EditScreens, Edit
  <2>3. CASE \E t \in Slot : TaskStep(t) \/ Install(t)
    <3>1. \A t \in Slot : TaskStep(t) =>
            events' = events \/ (events < MaxEvents /\ events' = events + 1)
      BY Zenon DEF TaskStep, ReadPatched, OpenTemp, WriteTemp, Rename,
         RenameFails, AccessFails, CutsShort,
         WatchTimerFires, ReadFrame, ReadScreens, ReadToken, ReloadFails
    <3>2. \A t \in Slot : Install(t) => events' = events
      BY Zenon DEF Install
    <3>. QED
      BY <2>3, <3>1, <3>2, Zenon
  <2>4. CASE Boot
    BY <2>4 DEF Boot
  <2>. QED
    BY <2>1, <2>2, <2>3, <2>4 DEF Next, FileStep
<1>. QED
  BY <1>1, ConfigAssumption DEF Counted, ConfigAssumption

LEMMA InitTyped == ASSUME Init PROVE TInv
<1>1. TasksTyped
  BY IdleTyped DEF Init, TasksTyped, HasTemp, FdIn
<1>2. disk \in Contents
  BY DEF Init, Contents
<1>3. FilesTyped
  BY <1>2, TornTyped DEF Init, FilesTyped
<1>4. state.files \in {disk, Torn} /\ state.safe \in BOOLEAN
  BY Zenon DEF Init, Loaded
<1>5. StateTyped
  BY <1>2, <1>4, TornTyped DEF StateTyped
<1>6. Flags
  BY DEF Init, Flags
<1>7. Counted
  BY ConfigAssumption DEF Init, Counted, ConfigAssumption
<1>. QED
  BY <1>1, <1>3, <1>5, <1>6, <1>7 DEF TInv

LEMMA StepTyped == ASSUME TInv, [Next]_configVars PROVE TInv'
<1>1. CASE UNCHANGED configVars
  BY <1>1 DEF TInv, TasksTyped, HasTemp, FdIn, FilesTyped, StateTyped, Flags, Counted, configVars
<1>2. CASE Request \/ FileStep
  <2>1. StateTyped'
    BY <1>2, StateKept DEF TInv, StateTyped
  <2>2. TasksTyped' /\ FilesTyped'
    <3>1. CASE Request
      <4>1. UNCHANGED <<disk, drafts, temps>>
        BY <3>1 DEF Request, PutScreens, PutConfig, RotateBearer, Begin
      <4>. QED
        BY <3>1, <4>1, RequestTyped DEF TInv, FilesTyped
    <3>2. CASE FileStep
      BY <3>2, TaskTyped, EditTyped DEF FileStep
    <3>. QED
      BY <1>2, <3>1, <3>2
  <2>3. Flags' /\ Counted'
    BY <1>2, FlagsTyped, EventsTyped DEF TInv, Next
  <2>. QED
    BY <2>1, <2>2, <2>3 DEF TInv
<1>3. CASE Boot \/ \E t \in Slot : Install(t)
  <2>1. TasksTyped' /\ FilesTyped' /\ StateTyped'
    BY <1>3, BootTyped, InstallTyped
  <2>2. Flags' /\ Counted'
    BY <1>3, FlagsTyped, EventsTyped DEF TInv, Next
  <2>. QED
    BY <2>1, <2>2 DEF TInv
<1>. QED
  BY <1>1, <1>2, <1>3 DEF Next

LEMMA TypesFollow == TInv => TypeOK
BY DEF TInv, TasksTyped, Typed, HasTemp, FdIn, FilesTyped, StateTyped, Flags, Counted, TypeOK

\* What is loaded, on disk and under way is well typed, and whoever writes has
\* a temporary file or has lost it to another writer (write.ts).
THEOREM TypeCorrect == Spec => []TypeOK
<1>1. TInv => TypeOK
  BY TypesFollow
<1>2. Init => TInv
  BY InitTyped
<1>3. TInv /\ [Next]_configVars => TInv'
  BY StepTyped
<1>. QED
  BY <1>1, <1>2, <1>3, PTL DEF Spec

--------------------------------------------------------------------------------
(* What is loaded follows what is on disk.                                 *)

Reloads == {"readFrame"} \cup Reading
SameParts == state.files.frame = disk.frame /\ state.files.screens = disk.screens

\* In safe mode nothing is under way and nothing is watched.
AtRest == state.safe => ~pending /\ \A t \in Slot : tasks[t].step = "none"

\* A reload that has read a watched file which was rewritten since.
Stale(t) ==
  \/ tasks[t].step \in Reading /\ tasks[t].seen.frame # disk.frame
  \/ tasks[t].step \in Reading \ {"readScreens"} /\ tasks[t].seen.screens # disk.screens

\* A reload is under way or due that has read nothing outdated: of the files
\* that are watched, and of all files.
Coming == pending \/ \E t \in Slot : tasks[t].step \in Reloads /\ ~Stale(t)
Fresh == pending \/ \E t \in Slot : tasks[t].step \in Reloads /\ ~Outdated(t)

\* A reload that has read what is outdated by now is followed by another one,
\* or was overtaken by it.
Noticed ==
  \A t \in Slot :
    /\ Stale(t) => Coming \/ overtaken
    /\ ~excused /\ Outdated(t) => Fresh \/ overtaken

\* A token that has yet to be written is not in use, and no other one is it.
NewToken(k) == k.kind = "token" /\ k.step \in {"open", "write"}
Installing == {t \in Slot : tasks[t].step = "install"}
Tokens ==
  {disk.token, drafts.token, state.files.token} \cup {tasks[t].seen.token : t \in Installing}
TokensNew ==
  /\ \A t \in Slot :
       NewToken(tasks[t]) => /\ tasks[t].text \in 1..(events + 1)
                             /\ tasks[t].text \notin Tokens
  /\ \A t, u \in Slot :
       NewToken(tasks[t]) /\ NewToken(tasks[u]) /\ tasks[t].text = tasks[u].text => t = u
  /\ \A n \in Tokens : n \in 0..(events + 1)

\* As Settled, but with something still under way.
Follows ==
  ~state.safe =>
    /\ Coming \/ overtaken \/ ~Loads(disk) \/ SameParts \/ disk.token # state.files.token
    /\ ~excused => Fresh \/ overtaken \/ state.files = disk

SettleInv == AtRest /\ Noticed /\ TokensNew /\ Follows

LEMMA ReplacedParts ==
  ASSUME NEW d \in Contents, NEW f \in Requests, NEW v
  PROVE  /\ [d EXCEPT ![f] = v].frame = IF f = "frame" THEN v ELSE d.frame
         /\ [d EXCEPT ![f] = v].screens = IF f = "screens" THEN v ELSE d.screens
         /\ [d EXCEPT ![f] = v].token = IF f = "token" THEN v ELSE d.token
<1>1. PICK x, y, z : d = [frame |-> x, screens |-> y, token |-> z]
  BY DEF Contents
<1>. QED
  BY <1>1 DEF Requests

LEMMA SameContents ==
  ASSUME NEW d \in Contents, NEW e \in Contents,
         d.frame = e.frame, d.screens = e.screens, d.token = e.token
  PROVE  d = e
BY DEF Contents

\* What a step of a task does to the tasks, as far as reloads go.
LEMMA TaskEffects ==
  ASSUME TInv, NEW t \in Slot, TaskStep(t)
  PROVE  /\ \A x \in Slot \ {t} :
              /\ tasks'[x].step = tasks[x].step /\ tasks'[x].seen = tasks[x].seen
              /\ tasks'[x].kind = tasks[x].kind /\ tasks'[x].text = tasks[x].text
         /\ \/ tasks'[t].step \notin Reading
            \/ /\ tasks'[t].step = "readScreens" /\ tasks'[t].seen.frame = disk.frame
               /\ ReadFrame(t)
            \/ /\ tasks'[t].step = "readToken" /\ tasks[t].step = "readScreens"
               /\ tasks'[t].seen.frame = tasks[t].seen.frame
               /\ tasks'[t].seen.screens = disk.screens
               /\ ReadScreens(t)
            \/ /\ tasks'[t].step = "install" /\ tasks[t].step = "readToken"
               /\ tasks'[t].seen.frame = tasks[t].seen.frame
               /\ tasks'[t].seen.screens = tasks[t].seen.screens
               /\ tasks'[t].seen.token = disk.token
               /\ ReadToken(t)
         /\ NewToken(tasks'[t]) =>
              /\ NewToken(tasks[t]) /\ tasks'[t].text = tasks[t].text
              /\ OpenTemp(t)
<1>. DEFINE k == tasks[t]
<1>1. IsTask(k) /\ Typed(k) /\ \A x \in Slot : IsTask(tasks[x])
  BY DEF TInv, TasksTyped, Typed
<1>2. ASSUME NEW u, Moves(t, u)
      PROVE  tasks'[t] = u /\ \A x \in Slot \ {t} : tasks'[x] = tasks[x]
  BY <1>2 DEF Moves, TInv, TasksTyped
<1>3. Idle.step = "none"
  BY DEF Idle, Task
<1>4. CASE Moves(t, Idle)
  BY <1>2, <1>3, <1>4 DEF NewToken, Reading
<1>5. CASE ReadPatched(t)
  <2>1. k.kind = "frame"
    BY <1>1, <1>5 DEF ReadPatched, Typed
  <2>2. ASSUME NEW w, Moves(t, Writing(At(k, "open"), w))
        PROVE  tasks'[t].step = "open" /\ tasks'[t].kind = "frame"
               /\ \A x \in Slot \ {t} : tasks'[x] = tasks[x]
    <3>. PICK u : u = Writing(At(k, "open"), w)
      OBVIOUS
    <3>1. u.step = "open" /\ u.kind = "frame"
      BY <1>1, <2>1, AtShape, ValShape, FieldsKept
    <3>. QED
      BY <1>2, <2>2, <3>1
  <2>. QED
    BY <1>4, <1>5, <2>2 DEF ReadPatched, NewToken, Reading
<1>6. CASE OpenTemp(t)
  <2>. PICK u : u = FdTo(At(k, "write"), "temp")
    OBVIOUS
  <2>1. u.step = "write" /\ u.kind = k.kind /\ u.text = k.text
    BY <1>1, AtShape, FdShape, FieldsKept
  <2>2. Moves(t, u) /\ k.step = "open"
    BY <1>6 DEF OpenTemp
  <2>. QED
    BY <1>2, <1>6, <2>1, <2>2 DEF NewToken, Reading
<1>7. CASE WriteTemp(t)
  <2>. PICK u : u = Task(k.kind, "rename", 0)
    OBVIOUS
  <2>1. Moves(t, u) /\ u.step = "rename"
    BY <1>7 DEF WriteTemp, Task
  <2>. QED
    BY <1>2, <2>1 DEF NewToken, Reading
<1>8. CASE Rename(t)
  <2>. PICK u : u = At(k, "readFrame")
    OBVIOUS
  <2>1. u.step = "readFrame"
    BY <1>1, AtShape
  <2>2. tasks' = [x \in Slot |-> IF x = t THEN At(k, "readFrame") ELSE Renamed(tasks[x], k.kind)]
    BY <1>8 DEF Rename
  <2>3. tasks'[t] = u /\ \A x \in Slot \ {t} : tasks'[x] = Renamed(tasks[x], k.kind)
    BY <2>2
  <2>4. ASSUME NEW x \in Slot \ {t}
        PROVE  /\ tasks'[x].step = tasks[x].step /\ tasks'[x].seen = tasks[x].seen
               /\ tasks'[x].kind = tasks[x].kind /\ tasks'[x].text = tasks[x].text
    <3>1. tasks'[x] = tasks[x] \/ \E d : tasks'[x] = FdTo(tasks[x], d)
      BY <2>3 DEF Renamed
    <3>. QED
      BY <1>1, <3>1, FdShape, FieldsKept
  <2>. QED
    BY <2>1, <2>3, <2>4 DEF NewToken, Reading
<1>9. CASE WatchTimerFires(t)
  <2>. PICK u : u = Task("watch", "readFrame", 0)
    OBVIOUS
  <2>1. Moves(t, u) /\ u.step = "readFrame"
    BY <1>9 DEF WatchTimerFires, Task
  <2>. QED
    BY <1>2, <2>1 DEF NewToken, Reading
<1>10. CASE ReadFrame(t)
  <2>. PICK u : u = SawFrame(At(k, "readScreens"), disk.frame)
    OBVIOUS
  <2>1. u.step = "readScreens" /\ u.seen.frame = disk.frame
    BY <1>1, AtShape, FrameShape
  <2>2. Moves(t, u)
    BY <1>10 DEF ReadFrame
  <2>. QED
    BY <1>2, <1>10, <2>1, <2>2 DEF NewToken, Reading
<1>11. CASE ReadScreens(t)
  <2>. PICK u : u = SawScreens(At(k, "readToken"), disk.screens)
    OBVIOUS
  <2>1. IsTask(At(k, "readToken")) /\ At(k, "readToken").seen = k.seen
        /\ At(k, "readToken").step = "readToken"
    BY <1>1, AtShape
  <2>2. u.step = "readToken" /\ u.seen.screens = disk.screens /\ u.seen.frame = k.seen.frame
    BY <2>1, ScreensShape
  <2>3. Moves(t, u) /\ k.step = "readScreens"
    BY <1>11 DEF ReadScreens
  <2>. QED
    BY <1>2, <1>11, <2>2, <2>3 DEF NewToken, Reading
<1>12. CASE ReadToken(t)
  <2>. PICK u : u = SawToken(At(k, "install"), disk.token)
    OBVIOUS
  <2>1. IsTask(At(k, "install")) /\ At(k, "install").seen = k.seen
        /\ At(k, "install").step = "install"
    BY <1>1, AtShape
  <2>2. /\ u.step = "install" /\ u.seen.token = disk.token
        /\ u.seen.frame = k.seen.frame /\ u.seen.screens = k.seen.screens
    BY <2>1, TokenShape
  <2>3. Moves(t, u) /\ k.step = "readToken"
    BY <1>12 DEF ReadToken
  <2>. QED
    BY <1>2, <1>12, <2>2, <2>3 DEF NewToken, Reading
<1>. QED
  BY <1>4, <1>5, <1>6, <1>7, <1>8, <1>9, <1>10, <1>11, <1>12, TaskStep(t)
  DEF TaskStep, RenameFails, AccessFails, ReloadFails

\* A request that is written and the watcher's timer begin a reload.
LEMMA ReloadBegins ==
  ASSUME TInv, NEW t \in Slot, Rename(t) \/ WatchTimerFires(t)
  PROVE  tasks'[t].step = "readFrame"
<1>1. IsTask(tasks[t])
  BY DEF TInv, TasksTyped, Typed
<1>2. CASE Rename(t)
  <2>. PICK u : u = At(tasks[t], "readFrame")
    OBVIOUS
  <2>1. tasks'[t] = u
    BY <1>2 DEF Rename
  <2>. QED
    BY <1>1, <2>1, AtShape
<1>3. CASE WatchTimerFires(t)
  BY <1>3 DEF WatchTimerFires, Moves, Task, TInv, TasksTyped
<1>. QED
  BY <1>2, <1>3

\* A reload that does not fail goes on.
LEMMA ReloadGoesOn ==
  ASSUME TInv, NEW t \in Slot, TaskStep(t), tasks[t].step \in Reloads, ~ReloadFails(t)
  PROVE  tasks'[t].step \in Reloads
<1>. DEFINE k == tasks[t]
<1>1. Typed(k) /\ IsTask(k)
  BY DEF TInv, TasksTyped, Typed
<1>2. ReadFrame(t) \/ ReadScreens(t) \/ ReadToken(t)
  BY <1>1 DEF TaskStep, ReadPatched, OpenTemp, WriteTemp, Rename, RenameFails, AccessFails,
     WatchTimerFires, Free, Typed, Reloads, Reading
<1>. PICK q, a : q \in Reading /\ a = At(k, q)
                 /\ \/ Moves(t, SawFrame(a, disk.frame)) \/ Moves(t, SawScreens(a, disk.screens))
                    \/ Moves(t, SawToken(a, disk.token))
  BY <1>2 DEF ReadFrame, ReadScreens, ReadToken, Reading
<1>3. IsTask(a) /\ a.step = q
  BY <1>1, AtShape
<1>. PICK u : /\ u \in {SawFrame(a, disk.frame), SawScreens(a, disk.screens),
                        SawToken(a, disk.token)}
              /\ Moves(t, u)
  OBVIOUS
<1>4. u.step = q
  BY <1>3, FrameShape, ScreensShape, TokenShape
<1>5. tasks'[t] = u
  BY DEF Moves, TInv, TasksTyped
<1>. QED
  BY <1>4, <1>5 DEF Reloads

\* What a step of a task does to the files: a change of what is watched is
\* noticed, and only the watcher's timer takes a notice away.
LEMMA FileEffects ==
  ASSUME TInv, NEW t \in Slot, TaskStep(t), ~state.safe
  PROVE  /\ disk'.frame # disk.frame \/ disk'.screens # disk.screens => pending'
         /\ pending /\ ~pending' => WatchTimerFires(t)
         /\ UNCHANGED <<state, excused>>
<1>1. UNCHANGED <<state, excused>>
  BY Zenon DEF TaskStep, ReadPatched, OpenTemp, WriteTemp, Rename,
     RenameFails, AccessFails, CutsShort,
     WatchTimerFires, ReadFrame, ReadScreens, ReadToken, ReloadFails
<1>2. CASE UNCHANGED disk /\ (pending' = pending \/ WatchTimerFires(t))
  BY <1>1, <1>2
<1>3. ASSUME tasks[t].step \in Active,
             \/ \E c : disk' = [disk EXCEPT ![tasks[t].kind] = c]
             \/ disk' = disk,
             pending' = (pending \/ Watched(tasks[t].kind))
      PROVE  disk'.frame # disk.frame \/ disk'.screens # disk.screens => pending'
  <2>1. tasks[t].kind \in Requests
    BY <1>3 DEF TInv, TasksTyped, Typed
  <2>2. disk \in Contents
    BY DEF TInv, FilesTyped
  <2>3. tasks[t].kind \in {"frame", "screens"} \/ (disk'.frame = disk.frame /\ disk'.screens = disk.screens)
    BY <1>3, <2>1, <2>2, ReplacedParts DEF Requests
  <2>. QED
    BY <1>3, <2>3 DEF Watched
<1>4. CASE Rename(t)
  BY <1>1, <1>3, <1>4 DEF Rename, Active
<1>5. CASE WriteTemp(t)
  <2>1. CASE UNCHANGED disk /\ pending' = pending
    BY <1>2, <2>1
  <2>2. CASE (\E c : disk' = [disk EXCEPT ![tasks[t].kind] = c])
             /\ pending' = (pending \/ Watched(tasks[t].kind))
    BY <1>1, <1>3, <1>5, <2>2 DEF WriteTemp, Active
  <2>. QED
    BY <1>5, <2>1, <2>2 DEF WriteTemp
<1>6. CASE AccessFails(t)
  <2>1. CASE UNCHANGED disk /\ pending' = pending
    BY <1>2, <2>1
  <2>2. CASE (\E c : disk' = [disk EXCEPT ![tasks[t].kind] = c])
             /\ pending' = (pending \/ Watched(tasks[t].kind))
    BY <1>1, <1>3, <1>6, <2>2 DEF AccessFails, Active
  <2>. QED
    BY <1>6, <2>1, <2>2 DEF AccessFails, CutsShort
<1>. QED
  BY <1>2, <1>4, <1>5, <1>6, TaskStep(t) DEF TaskStep, ReadPatched, OpenTemp, RenameFails,
     WatchTimerFires, ReadFrame, ReadScreens, ReadToken, ReloadFails

\* In safe mode no task takes a step.
LEMMA RestsStill ==
  ASSUME TInv, AtRest, NEW t \in Slot, TaskStep(t) \/ Install(t)
  PROVE  ~state.safe
BY DEF AtRest, TaskStep, ReadPatched, OpenTemp, WriteTemp, Rename,
   RenameFails, AccessFails, CutsShort,
   WatchTimerFires, ReadFrame, ReadScreens, ReadToken, ReloadFails, Install

\* A reload that is overtaken stays so, and what it has read only gets older
\* if a file changes.
LEMMA StaysOvertaken == ASSUME NEW t \in Slot, TaskStep(t), overtaken PROVE overtaken'
BY DEF TaskStep, ReadPatched, OpenTemp, WriteTemp, Rename, RenameFails, AccessFails,
   WatchTimerFires, ReadFrame, ReadScreens, ReadToken, ReloadFails

LEMMA StaysFresh ==
  ASSUME TInv, NEW t \in Slot, TaskStep(t), NEW x \in Slot,
         disk'.frame = disk.frame, disk'.screens = disk.screens
  PROVE  /\ Stale(x)' => Stale(x)
         /\ disk'.token = disk.token /\ Outdated(x)' => Outdated(x)
<1>1. CASE x # t
  BY <1>1, TaskEffects DEF Stale, Outdated
<1>2. CASE x = t
  BY <1>2, TaskEffects DEF Stale, Outdated, Reading
<1>. QED
  BY <1>1, <1>2

\* A reload fails for what is on disk, unless it is outdated.
LEMMA FailsFor ==
  ASSUME NEW t \in Slot, ReloadFails(t), ~Stale(t)
  PROVE  ~Loads(disk) /\ UNCHANGED disk
BY DEF ReloadFails, Stale, Loads, Reading

\* As long as a reload comes that goes by the watched files another one does,
\* unless it fails.
LEMMA ComingKept ==
  ASSUME TInv, AtRest, NEW t \in Slot, TaskStep(t), Coming
  PROVE  Coming' \/ (ReloadFails(t) /\ ~Stale(t))
<1>1. ~state.safe
  BY RestsStill
<1>. SUFFICES ASSUME ~Coming' PROVE ReloadFails(t) /\ ~Stale(t)
  OBVIOUS
<1>2. ~pending' /\ disk'.frame = disk.frame /\ disk'.screens = disk.screens
  BY <1>1, FileEffects DEF Coming
<1>3. ~WatchTimerFires(t)
  <2>1. WatchTimerFires(t) => tasks'[t].step = "readFrame"
    BY ReloadBegins
  <2>. QED
    BY <2>1 DEF Coming, Stale, Reloads, Reading
<1>4. ~pending
  BY <1>1, <1>2, <1>3, FileEffects
<1>5. PICK x \in Slot : tasks[x].step \in Reloads /\ ~Stale(x)
  BY <1>4 DEF Coming
<1>6. tasks'[x].step \notin Reloads
  BY <1>2, <1>5, StaysFresh DEF Coming
<1>7. x = t
  BY <1>5, <1>6, TaskEffects
<1>. QED
  BY <1>5, <1>6, <1>7, ReloadGoesOn

\* The token on disk is one that is not in use if it changes without a reload
\* to follow, and that takes requests that overlap.
LEMMA TokenChanges ==
  ASSUME TInv, FInv, TokensNew, NEW t \in Slot, TaskStep(t), disk'.token # disk.token
  PROVE  \/ Rename(t)
         \/ excused /\ (disk'.token = Torn.token \/ disk'.token # state.files.token)
<1>. DEFINE k == tasks[t]
<1>1. disk \in Contents
  BY DEF TInv, FilesTyped
<1>2. CASE WriteTemp(t)
  <2>1. k.step = "write" /\ k.kind \in Requests
    BY <1>2 DEF WriteTemp, TInv, TasksTyped, Typed, Active
  <2>2. k.fd = "disk"
    BY <1>2 DEF WriteTemp
  <2>3. PICK c \in {k.text, Torn[k.kind]} : disk' = [disk EXCEPT ![k.kind] = c]
    BY <1>2, <2>2 DEF WriteTemp, Overwritten
  <2>4. k.kind = "token" /\ disk'.token = c
    BY <1>1, <2>1, <2>3, ReplacedParts
  <2>5. k.text # state.files.token
    BY <2>1, <2>4 DEF TokensNew, NewToken, Tokens
  <2>6. excused
    BY <2>1, <2>2 DEF FInv, AllReady, Ready
  <2>. QED
    BY <2>3, <2>4, <2>5, <2>6
<1>3. CASE AccessFails(t)
  <2>1. k.step = "write" /\ CutsShort(t)
    BY <1>3 DEF AccessFails
  <2>2. k.fd = "disk" /\ disk' = [disk EXCEPT ![k.kind] = Torn[k.kind]]
    BY <2>1 DEF CutsShort
  <2>3. k.kind \in Requests
    BY <2>1 DEF TInv, TasksTyped, Typed, Active
  <2>4. disk'.token = Torn.token
    BY <1>1, <2>2, <2>3, ReplacedParts
  <2>5. excused
    BY <2>1, <2>2 DEF FInv, AllReady, Ready
  <2>. QED
    BY <2>4, <2>5
<1>. QED
  BY <1>2, <1>3, TaskStep(t) DEF TaskStep, ReadPatched, OpenTemp, RenameFails,
     WatchTimerFires, ReadFrame, ReadScreens, ReadToken, ReloadFails

\* As long as nothing is excused, a reload that goes by all files does not fail
\* and another one comes before it is outdated.
LEMMA FreshKept ==
  ASSUME TInv, FInv, AtRest, TokensNew, ~excused, NEW t \in Slot, TaskStep(t)
  PROVE  \/ Fresh'
         \/ /\ ~Fresh /\ UNCHANGED disk
            /\ \A x \in Slot : Outdated(x)' => Outdated(x)
<1>1. ~state.safe
  BY RestsStill
<1>. SUFFICES ASSUME ~Fresh'
              PROVE  ~Fresh /\ UNCHANGED disk /\ \A x \in Slot : Outdated(x)' => Outdated(x)
  OBVIOUS
<1>2. ~pending' /\ disk'.frame = disk.frame /\ disk'.screens = disk.screens
  BY <1>1, FileEffects DEF Fresh
<1>3. ~WatchTimerFires(t) /\ ~Rename(t)
  <2>1. WatchTimerFires(t) \/ Rename(t) => tasks'[t].step = "readFrame"
    BY ReloadBegins
  <2>. QED
    BY <2>1 DEF Fresh, Outdated, Reloads, Reading
<1>4. disk'.token = disk.token
  BY <1>3, TokenChanges
<1>5. UNCHANGED disk
  <2>1. disk \in Contents /\ disk' \in Contents
    BY TaskTyped DEF TInv, FilesTyped
  <2>. QED
    BY <1>2, <1>4, <2>1, SameContents
<1>6. \A x \in Slot : Outdated(x)' => Outdated(x)
  BY <1>2, <1>4, StaysFresh
<1>7. ~pending
  BY <1>1, <1>2, <1>3, FileEffects
<1>8. ASSUME NEW x \in Slot, tasks[x].step \in Reloads, ~Outdated(x) PROVE FALSE
  <2>1. tasks'[x].step \notin Reloads
    BY <1>6, <1>8 DEF Fresh
  <2>2. x = t
    BY <1>8, <2>1, TaskEffects
  <2>3. ReloadFails(t)
    BY <1>8, <2>1, <2>2, ReloadGoesOn
  <2>4. ~Stale(t)
    BY <1>8, <2>2 DEF Outdated, Stale
  <2>. QED
    BY <2>3, <2>4, FailsFor DEF FInv, Fine
<1>. QED
  BY <1>5, <1>6, <1>7, <1>8 DEF Fresh

LEMMA TaskNoticed ==
  ASSUME TInv, FInv, SettleInv, NEW t \in Slot, TaskStep(t) PROVE AtRest' /\ Noticed'
<1>1. ~state.safe /\ state' = state /\ excused' = excused
  BY RestsStill, FileEffects DEF SettleInv
<1>2. AtRest'
  BY <1>1 DEF AtRest
<1>3. ASSUME NEW x \in Slot, Stale(x)' PROVE Coming' \/ overtaken'
  <2>. SUFFICES ASSUME ~Coming' PROVE overtaken'
    OBVIOUS
  <2>1. disk'.frame = disk.frame /\ disk'.screens = disk.screens
    BY <1>1, FileEffects DEF Coming
  <2>2. Stale(x)
    BY <1>3, <2>1, StaysFresh
  <2>3. Coming \/ overtaken
    BY <2>2 DEF SettleInv, Noticed
  <2>4. CASE ReloadFails(t) /\ ~Stale(t)
    <3>1. x # t /\ Outdated(x)
      BY <2>2, <2>4 DEF Stale, Outdated
    <3>. QED
      BY <2>4, <3>1 DEF ReloadFails, Overtakes
  <2>. QED
    BY <2>3, <2>4, ComingKept, StaysOvertaken DEF SettleInv
<1>4. ASSUME NEW x \in Slot, ~excused', Outdated(x)' PROVE Fresh' \/ overtaken'
  BY <1>1, <1>4, FreshKept, StaysOvertaken DEF SettleInv, Noticed
<1>. QED
  BY <1>2, <1>3, <1>4 DEF Noticed

\* What becomes of the tokens in the files.
LEMMA TokenEffects ==
  ASSUME TInv, NEW t \in Slot, TaskStep(t)
  PROVE  {disk'.token, drafts'.token} \subseteq
           {disk.token, drafts.token, 0}
             \cup {n \in {tasks[t].text} : WriteTemp(t) /\ NewToken(tasks[t])}
<1>. DEFINE k == tasks[t]
            new == {n \in {k.text} : WriteTemp(t) /\ NewToken(k)}
<1>1. Typed(k) /\ disk \in Contents /\ drafts \in Contents
  BY DEF TInv, TasksTyped, FilesTyped
<1>2. Torn.token = 0
  BY DEF Torn
<1>3. CASE UNCHANGED <<disk, drafts>>
  BY <1>3
<1>4. CASE OpenTemp(t)
  <2>1. k.kind \in Requests /\ disk' = disk /\ drafts' = [drafts EXCEPT ![k.kind] = Torn[k.kind]]
    BY <1>1, <1>4 DEF OpenTemp, Typed, Active
  <2>2. drafts'.token \in {drafts.token, 0}
    BY <1>1, <1>2, <2>1, ReplacedParts
  <2>. QED
    BY <2>1, <2>2
<1>5. CASE WriteTemp(t)
  <2>1. k.kind \in Requests /\ k.step = "write"
    BY <1>1, <1>5 DEF WriteTemp, Typed, Active
  <2>2. /\ drafts' = drafts \/ \E c \in {k.text, Torn[k.kind]} : drafts' = [drafts EXCEPT ![k.kind] = c]
        /\ disk' = disk \/ \E c \in {k.text, Torn[k.kind]} : disk' = [disk EXCEPT ![k.kind] = c]
    BY <1>5 DEF WriteTemp, Overwritten
  <2>3. k.kind = "token" => k.text \in new
    BY <1>5, <2>1 DEF NewToken
  <2>. HIDE DEF new, k
  <2>4. \A d \in Contents : \A e, c : e = [d EXCEPT ![k.kind] = c] =>
          e.token = IF k.kind = "token" THEN c ELSE d.token
    BY <2>1, ReplacedParts
  <2>5. drafts'.token \in {drafts.token, 0} \cup new
    <3>1. CASE drafts' = drafts
      BY <3>1
    <3>2. ASSUME NEW c \in {k.text, Torn[k.kind]}, drafts' = [drafts EXCEPT ![k.kind] = c]
          PROVE  drafts'.token \in {drafts.token, 0} \cup new
      <4>1. drafts'.token = IF k.kind = "token" THEN c ELSE drafts.token
        BY <1>1, <2>4, <3>2
      <4>. QED
        BY <1>2, <2>3, <3>2, <4>1
    <3>. QED
      BY <2>2, <3>1, <3>2
  <2>6. disk'.token \in {disk.token, 0} \cup new
    <3>1. CASE disk' = disk
      BY <3>1
    <3>2. ASSUME NEW c \in {k.text, Torn[k.kind]}, disk' = [disk EXCEPT ![k.kind] = c]
          PROVE  disk'.token \in {disk.token, 0} \cup new
      <4>1. disk'.token = IF k.kind = "token" THEN c ELSE disk.token
        BY <1>1, <2>4, <3>2
      <4>. QED
        BY <1>2, <2>3, <3>2, <4>1
    <3>. QED
      BY <2>2, <3>1, <3>2
  <2>. QED
    BY <2>5, <2>6 DEF new, k
<1>6. CASE Rename(t)
  <2>1. /\ k.kind \in Requests
        /\ disk' = [disk EXCEPT ![k.kind] = drafts[k.kind]]
        /\ drafts' = [drafts EXCEPT ![k.kind] = Torn[k.kind]]
    BY <1>1, <1>6 DEF Rename, Typed, Active
  <2>. HIDE DEF k
  <2>2. disk'.token \in {disk.token, drafts.token}
    BY <1>1, <2>1, ReplacedParts
  <2>3. drafts'.token \in {drafts.token, 0}
    BY <1>1, <1>2, <2>1, ReplacedParts
  <2>. QED
    BY <2>2, <2>3
<1>7. CASE AccessFails(t)
  <2>1. /\ k.kind \in Requests
        /\ drafts' = drafts \/ drafts' = [drafts EXCEPT ![k.kind] = Torn[k.kind]]
        /\ disk' = disk \/ disk' = [disk EXCEPT ![k.kind] = Torn[k.kind]]
    BY <1>1, <1>7 DEF AccessFails, CutsShort, Typed, Active
  <2>. HIDE DEF k
  <2>2. \A d \in Contents : [d EXCEPT ![k.kind] = Torn[k.kind]].token \in {d.token, 0}
    BY <1>2, <2>1, ReplacedParts
  <2>. QED
    BY <1>1, <2>1, <2>2
<1>. QED
  BY <1>3, <1>4, <1>5, <1>6, <1>7, TaskStep(t) DEF TaskStep, ReadPatched, RenameFails,
     WatchTimerFires, ReadFrame, ReadScreens, ReadToken, ReloadFails

LEMMA TaskTokens ==
  ASSUME TInv, AtRest, TokensNew, NEW t \in Slot, TaskStep(t) PROVE TokensNew'
<1>1. state' = state
  BY RestsStill, FileEffects
<1>2. events \in Nat /\ events' \in {events, events + 1}
  <2>1. events' = events \/ events' = events + 1
    BY Zenon DEF TaskStep, ReadPatched, OpenTemp, WriteTemp, Rename, RenameFails, AccessFails,
       WatchTimerFires, ReadFrame, ReadScreens, ReadToken, ReloadFails
  <2>. QED
    BY <2>1, ConfigAssumption DEF TInv, Counted, ConfigAssumption
<1>3. ASSUME NEW x \in Slot, NewToken(tasks'[x])
      PROVE  NewToken(tasks[x]) /\ tasks'[x].text = tasks[x].text /\ ~(x = t /\ WriteTemp(t))
  <2>1. ~(OpenTemp(t) /\ WriteTemp(t))
    BY DEF OpenTemp, WriteTemp
  <2>2. CASE x = t
    BY <1>3, <2>1, <2>2, TaskEffects
  <2>3. CASE x # t
    BY <1>3, <2>3, TaskEffects DEF NewToken
  <2>. QED
    BY <2>2, <2>3
<1>. DEFINE new == {n \in {tasks[t].text} : WriteTemp(t) /\ NewToken(tasks[t])}
<1>4. Tokens' \subseteq Tokens \cup {0} \cup new
  <2>1. /\ disk'.token \in {disk.token, drafts.token, 0} \cup new
        /\ drafts'.token \in {disk.token, drafts.token, 0} \cup new
    BY TokenEffects
  <2>2. ASSUME NEW x \in Slot, tasks'[x].step = "install"
        PROVE  tasks'[x].seen.token \in Tokens
    <3>1. CASE x = t
      BY <2>2, <3>1, TaskEffects DEF Tokens, Reading
    <3>2. CASE x # t
      BY <2>2, <3>2, TaskEffects DEF Tokens, Installing
    <3>. QED
      BY <3>1, <3>2
  <2>. HIDE DEF new
  <2>. QED
    BY <1>1, <2>1, <2>2 DEF Tokens, Installing
<1>5. ASSUME NEW x \in Slot, NewToken(tasks'[x])
      PROVE  tasks'[x].text \in 1..(events' + 1) /\ tasks'[x].text \notin Tokens'
  <2>1. tasks[x].text \in 1..(events + 1) /\ tasks[x].text \notin Tokens
    BY <1>3, <1>5 DEF TokensNew
  <2>2. tasks[x].text \notin new
    BY <1>3, <1>5 DEF TokensNew
  <2>. HIDE DEF new
  <2>. QED
    BY <1>2, <1>3, <1>4, <1>5, <2>1, <2>2
<1>6. \A n \in new : n \in 1..(events + 1)
  BY DEF TokensNew
<1>. HIDE DEF new
<1>7. \A n \in Tokens' : n \in 0..(events' + 1)
  BY <1>2, <1>4, <1>6 DEF TokensNew
<1>8. \A x, y \in Slot :
        NewToken(tasks'[x]) /\ NewToken(tasks'[y]) /\ tasks'[x].text = tasks'[y].text => x = y
  BY <1>3 DEF TokensNew
<1>. QED
  BY <1>5, <1>7, <1>8 DEF TokensNew, NewToken

LEMMA TaskFollows ==
  ASSUME TInv, FInv, SettleInv, NEW t \in Slot, TaskStep(t) PROVE Follows'
<1>1. ~state.safe /\ UNCHANGED <<state, excused>>
  BY RestsStill, FileEffects DEF SettleInv
<1>2. \/ Coming' \/ overtaken' \/ ~Loads(disk)' \/ SameParts'
      \/ disk'.token # state'.files.token
  <2>. SUFFICES ASSUME ~Coming', ~overtaken'
                PROVE  ~Loads(disk)' \/ SameParts' \/ disk'.token # state'.files.token
    OBVIOUS
  <2>1. disk'.frame = disk.frame /\ disk'.screens = disk.screens
    BY <1>1, FileEffects DEF Coming
  <2>2. CASE disk'.token # disk.token
    <3>1. ~Rename(t)
      <4>1. Rename(t) => tasks'[t].step = "readFrame"
        BY ReloadBegins
      <4>. QED
        BY <4>1 DEF Coming, Stale, Reloads, Reading
    <3>2. disk'.token = Torn.token \/ disk'.token # state.files.token
      BY <2>2, <3>1, TokenChanges DEF SettleInv
    <3>. QED
      BY <1>1, <3>2 DEF Loads
  <2>3. CASE disk'.token = disk.token
    <3>1. Loads(disk)' <=> Loads(disk)
      BY <2>1, <2>3 DEF Loads, Fits
    <3>2. CASE Coming
      BY <3>1, <3>2, ComingKept, FailsFor DEF SettleInv
    <3>3. CASE ~Coming
      <4>1. ~Loads(disk) \/ SameParts \/ disk.token # state.files.token
        BY <1>1, <3>3, StaysOvertaken DEF SettleInv, Follows
      <4>. QED
        BY <1>1, <2>1, <2>3, <3>1, <4>1 DEF SameParts
    <3>. QED
      BY <3>2, <3>3
  <2>. QED
    BY <2>2, <2>3
<1>3. ~excused' => Fresh' \/ overtaken' \/ state'.files = disk'
  BY <1>1, FreshKept, StaysOvertaken DEF SettleInv, Follows
<1>. QED
  BY <1>2, <1>3 DEF Follows

LEMMA IdleQuiet == Idle.step = "none" /\ Idle.kind = "idle" /\ ~NewToken(Idle)
BY DEF Idle, Task, NewToken

\* A reload ends with what it has read: that is what is on disk, or another
\* reload follows, or it was overtaken.
LEMMA InstallSettles ==
  ASSUME TInv, SettleInv, NEW t \in Slot, Install(t) PROVE SettleInv'
<1>. DEFINE k == tasks[t]
<1>1. /\ k.step = "install" /\ UNCHANGED <<disk, drafts, pending, events, excused>>
      /\ state' = [safe |-> FALSE, files |-> k.seen]
      /\ Moves(t, Idle)
      /\ overtaken' = (Overtakes(t) \/ (overtaken /\ Outdated(t)))
  BY DEF Install
<1>2. k.seen \in Contents /\ disk \in Contents
  BY DEF TInv, TasksTyped, Typed, FilesTyped
<1>3. tasks'[t] = Idle /\ \A x \in Slot \ {t} : tasks'[x] = tasks[x]
  BY <1>1 DEF Moves, TInv, TasksTyped
<1>4. ~state'.safe /\ state'.files = k.seen
  BY <1>1
<1>5. AtRest'
  BY <1>4 DEF AtRest
<1>6. \A x \in Slot : (Stale(x)' => Stale(x) /\ x # t) /\ (Outdated(x)' => Outdated(x) /\ x # t)
  BY <1>1, <1>3, IdleQuiet DEF Stale, Outdated, Reading
<1>7. Noticed'
  <2>1. ASSUME NEW x \in Slot, Stale(x)' \/ Outdated(x)' PROVE overtaken'
    <3>1. x # t /\ Outdated(x)
      BY <1>6, <2>1 DEF Stale, Outdated
    <3>. QED
      BY <1>1, <3>1 DEF Overtakes
  <2>. QED
    BY <2>1 DEF Noticed
<1>8. TokensNew'
  <2>1. Tokens' \subseteq Tokens
    BY <1>1, <1>3, <1>4, IdleQuiet DEF Tokens, Installing
  <2>2. \A x \in Slot : NewToken(tasks'[x]) => tasks'[x] = tasks[x] /\ NewToken(tasks[x])
    BY <1>3, IdleQuiet
  <2>. QED
    BY <1>1, <2>1, <2>2 DEF SettleInv, TokensNew, NewToken
<1>9. \A x \in Slot \ {t} : /\ tasks'[x].step \in Reloads /\ ~Stale(x) => Coming'
                            /\ tasks'[x].step \in Reloads /\ ~Outdated(x) => Fresh'
  BY <1>1, <1>3 DEF Coming, Fresh, Stale, Outdated
<1>10. Coming' \/ overtaken' \/ SameParts'
  <2>1. CASE Stale(t)
    <3>1. Outdated(t) /\ (Coming \/ overtaken)
      BY <2>1 DEF SettleInv, Noticed, Stale, Outdated
    <3>2. Coming => pending \/ \E x \in Slot \ {t} : tasks[x].step \in Reloads /\ ~Stale(x)
      BY <2>1 DEF Coming
    <3>3. Coming => Coming'
      BY <1>1, <1>3, <1>9, <3>2 DEF Coming
    <3>. QED
      BY <1>1, <3>1, <3>3
  <2>2. CASE ~Stale(t)
    BY <1>1, <1>4, <2>2 DEF Stale, Reading, SameParts
  <2>. QED
    BY <2>1, <2>2
<1>11. ~excused' => Fresh' \/ overtaken' \/ state'.files = disk'
  <2>1. CASE ~excused /\ Outdated(t)
    <3>1. Fresh \/ overtaken
      BY <2>1 DEF SettleInv, Noticed
    <3>2. Fresh => pending \/ \E x \in Slot \ {t} : tasks[x].step \in Reloads /\ ~Outdated(x)
      BY <2>1 DEF Fresh
    <3>3. Fresh => Fresh'
      BY <1>1, <1>3, <1>9, <3>2 DEF Fresh
    <3>. QED
      BY <1>1, <2>1, <3>1, <3>3
  <2>2. CASE ~Outdated(t)
    <3>1. k.seen.frame = disk.frame /\ k.seen.screens = disk.screens /\ k.seen.token = disk.token
      BY <1>1, <2>2 DEF Outdated, Reading
    <3>. QED
      BY <1>1, <1>2, <1>4, <3>1, SameContents
  <2>. QED
    BY <1>1, <2>1, <2>2
<1>12. Follows'
  BY <1>10, <1>11 DEF Follows
<1>. QED
  BY <1>5, <1>7, <1>8, <1>12 DEF SettleInv

\* A request is nothing to a reload; a new token is above all others.
LEMMA RequestSettles == ASSUME TInv, SettleInv, Request PROVE SettleInv'
<1>0. events \in Nat
  BY ConfigAssumption DEF TInv, Counted, ConfigAssumption
<1>1. PICK t \in Slot : PutScreens(t) \/ PutConfig(t) \/ RotateBearer(t)
  BY DEF Request
<1>2. PICK kind, step, val :
        /\ Begin(t, kind, step, val) /\ step \in {"open", "read"}
        /\ kind = "token" => val = events + 2
  BY <1>1 DEF PutScreens, PutConfig, RotateBearer
<1>. PICK u : u = Task(kind, step, val)
  OBVIOUS
<1>3. u.kind = kind /\ u.step = step /\ u.text = val
  BY DEF Task
<1>4. tasks'[t] = u /\ \A x \in Slot \ {t} : tasks'[x] = tasks[x]
  BY <1>2 DEF Begin, TInv, TasksTyped
<1>5. /\ ~state.safe /\ UNCHANGED <<disk, drafts, state, pending>> /\ events' = events + 1
      /\ tasks[t].kind = "idle" /\ (excused => excused') /\ overtaken' = overtaken
  BY <1>2 DEF Begin, Free
<1>6. AtRest'
  BY <1>5 DEF AtRest
<1>r. tasks[t].step \notin Reloads /\ tasks'[t].step \notin Reloads
  BY <1>2, <1>3, <1>4, <1>5 DEF TInv, TasksTyped, Typed, Reloads, Reading
<1>s. \A x \in Slot : (Stale(x)' <=> Stale(x)) /\ (Outdated(x)' <=> Outdated(x))
  BY <1>4, <1>5, <1>r DEF Stale, Outdated, Reloads, Reading
<1>c. (Coming => Coming') /\ (Fresh => Fresh')
  BY <1>4, <1>5, <1>r, <1>s DEF Coming, Fresh
<1>7. Noticed'
  BY <1>5, <1>s, <1>c DEF SettleInv, Noticed
<1>8. TokensNew'
  <2>1. \A x \in Slot \ {t} : NewToken(tasks'[x]) =>
          /\ NewToken(tasks[x]) /\ tasks'[x].text \in 1..(events + 1)
          /\ tasks'[x].text \notin Tokens
    BY <1>4 DEF SettleInv, TokensNew
  <2>2. NewToken(tasks'[t]) => tasks'[t].text = events + 2
    BY <1>2, <1>3, <1>4 DEF NewToken
  <2>3. \A n \in Tokens : n \in 0..(events + 1)
    BY DEF SettleInv, TokensNew
  <2>t. Tokens' = Tokens
    <3>1. Installing' = Installing /\ t \notin Installing
      BY <1>4, <1>r DEF Installing, Reloads, Reading
    <3>. QED
      BY <1>4, <1>5, <3>1 DEF Tokens, Installing
  <2>4. ASSUME NEW x \in Slot, NewToken(tasks'[x])
        PROVE  tasks'[x].text \in 1..(events' + 1) /\ tasks'[x].text \notin Tokens'
    BY <1>0, <1>5, <2>1, <2>2, <2>3, <2>4, <2>t
  <2>5. ASSUME NEW x \in Slot, NEW y \in Slot, NewToken(tasks'[x]), NewToken(tasks'[y]),
               tasks'[x].text = tasks'[y].text
        PROVE  x = y
    <3>1. CASE x # t /\ y # t
      BY <1>4, <2>5, <3>1 DEF SettleInv, TokensNew
    <3>. QED
      BY <1>0, <2>1, <2>2, <2>5, <3>1
  <2>6. \A n \in Tokens' : n \in 0..(events' + 1)
    BY <1>0, <1>5, <2>3, <2>t
  <2>. QED
    BY <2>4, <2>5, <2>6 DEF TokensNew, NewToken
<1>9. Follows'
  <2>1. Loads(disk)' <=> Loads(disk)
    BY <1>5 DEF Loads, Fits
  <2>. QED
    BY <1>5, <1>c, <2>1 DEF SettleInv, Follows, SameParts
<1>. QED
  BY <1>6, <1>7, <1>8, <1>9 DEF SettleInv

\* An edit is noticed, and it is not one of the token.
LEMMA EditSettles == ASSUME TInv, SettleInv, EditFrame \/ EditScreens PROVE SettleInv'
<1>0. events \in Nat
  BY ConfigAssumption DEF TInv, Counted, ConfigAssumption
<1>1. PICK f, c : Edit(f, c) /\ f \in {"frame", "screens"}
  BY DEF EditFrame, EditScreens
<1>2. /\ disk' = [disk EXCEPT ![f] = c] /\ UNCHANGED <<drafts, temps, state, tasks, overtaken>>
      /\ events' = events + 1 /\ pending' = (pending \/ Watched(f))
  BY <1>1 DEF Edit
<1>p. (~state.safe => pending') /\ (state.safe => (pending' => pending))
  BY <1>1, <1>2 DEF Watched
<1>3. disk'.token = disk.token
  BY <1>1, <1>2, ReplacedParts DEF TInv, FilesTyped, Requests
<1>4. AtRest'
  BY <1>2, <1>p DEF SettleInv, AtRest
<1>5. Noticed'
  <2>1. CASE ~state.safe
    BY <1>p, <2>1 DEF Noticed, Coming, Fresh
  <2>2. CASE state.safe
    BY <1>2, <2>2 DEF SettleInv, AtRest, Noticed, Stale, Outdated, Reading
  <2>. QED
    BY <2>1, <2>2
<1>6. TokensNew'
  <2>1. Tokens' = Tokens
    BY <1>2, <1>3 DEF Tokens, Installing
  <2>. QED
    BY <1>0, <1>2, <2>1 DEF SettleInv, TokensNew, NewToken
<1>7. Follows'
  BY <1>2, <1>p DEF Follows, Coming, Fresh
<1>. QED
  BY <1>4, <1>5, <1>6, <1>7 DEF SettleInv

\* A start of the process goes by the files, or in safe mode by none.
LEMMA BootSettles == ASSUME TInv, SettleInv, Boot PROVE SettleInv'
<1>0. events \in Nat
  BY ConfigAssumption DEF TInv, Counted, ConfigAssumption
<1>1. /\ state' = Loaded(disk) /\ ~pending' /\ events' = events + 1
      /\ tasks' = [t \in Slot |-> Idle] /\ UNCHANGED <<disk, drafts>>
  BY DEF Boot
<1>2. \A t \in Slot : tasks'[t] = Idle
  BY <1>1
<1>3. /\ ~state'.safe => state'.files = disk
      /\ state'.files \in {disk, Torn}
  BY <1>1 DEF Loaded
<1>4. AtRest' /\ Noticed'
  BY <1>1, <1>2, IdleQuiet DEF AtRest, Noticed, Stale, Outdated, Reading
<1>5. TokensNew'
  <2>1. Tokens' \subseteq Tokens \cup {0}
    BY <1>1, <1>2, <1>3, IdleQuiet DEF Tokens, Installing, Torn
  <2>. QED
    BY <1>0, <1>1, <1>2, <2>1, IdleQuiet DEF SettleInv, TokensNew
<1>6. Follows'
  BY <1>1, <1>3 DEF Follows, SameParts
<1>. QED
  BY <1>4, <1>5, <1>6 DEF SettleInv

LEMMA InitSettles == ASSUME Init PROVE SettleInv
<1>1. /\ state = Loaded(disk) /\ ~pending /\ events = 0 /\ drafts = Torn
      /\ disk.token = 1 /\ \A t \in Slot : tasks[t] = Idle
  BY DEF Init
<1>2. /\ ~state.safe => state.files = disk
      /\ state.files \in {disk, Torn}
  BY <1>1 DEF Loaded
<1>3. AtRest /\ Noticed
  BY <1>1, IdleQuiet DEF AtRest, Noticed, Stale, Outdated, Reading
<1>4. TokensNew
  <2>1. Tokens \subseteq {0, 1}
    BY <1>1, <1>2, IdleQuiet DEF Tokens, Installing, Torn
  <2>. QED
    BY <1>1, <2>1, IdleQuiet DEF TokensNew
<1>5. Follows
  BY <1>1, <1>2 DEF Follows, SameParts
<1>. QED
  BY <1>3, <1>4, <1>5 DEF SettleInv

LEMMA StepSettles == ASSUME TInv, FInv, SettleInv, [Next]_configVars PROVE SettleInv'
<1>1. CASE Request
  BY <1>1, RequestSettles
<1>2. CASE FileStep
  <2>1. CASE EditFrame \/ EditScreens
    BY <2>1, EditSettles
  <2>2. CASE \E t \in Slot : TaskStep(t)
    BY <2>2, TaskNoticed, TaskTokens, TaskFollows DEF SettleInv
  <2>. QED
    BY <1>2, <2>1, <2>2 DEF FileStep
<1>3. CASE \E t \in Slot : Install(t)
  BY <1>3, InstallSettles
<1>4. CASE Boot
  BY <1>4, BootSettles
<1>5. CASE UNCHANGED configVars
  <2>1. /\ \A x \in Slot : (Stale(x)' <=> Stale(x)) /\ (Outdated(x)' <=> Outdated(x))
        /\ (Coming' <=> Coming) /\ (Fresh' <=> Fresh) /\ Tokens' = Tokens
    BY <1>5 DEF configVars, Stale, Outdated, Coming, Fresh, Tokens, Installing
  <2>2. AtRest' /\ Noticed'
    BY <1>5, <2>1 DEF configVars, SettleInv, AtRest, Noticed
  <2>3. TokensNew'
    BY <1>5, <2>1 DEF configVars, SettleInv, TokensNew, NewToken
  <2>4. Follows'
    BY <1>5, <2>1 DEF configVars, SettleInv, Follows, SameParts, Loads, Fits
  <2>. QED
    BY <2>2, <2>3, <2>4 DEF SettleInv
<1>. QED
  BY <1>1, <1>2, <1>3, <1>4, <1>5 DEF Next

\* With nothing under way, what follows the files is what they say.
LEMMA SettledFollows == ASSUME TInv, SettleInv PROVE Settled
<1>. SUFFICES ASSUME Quiet, ~state.safe, Loads(disk), ~overtaken
              PROVE  state.files = disk \/ (excused /\ state.files.token # disk.token)
  BY DEF Settled
<1>1. ~Coming /\ ~Fresh
  BY DEF Quiet, Free, Coming, Fresh, Reloads, Reading, TInv, TasksTyped, Typed
<1>2. (SameParts \/ disk.token # state.files.token) /\ (~excused => state.files = disk)
  BY <1>1 DEF SettleInv, Follows
<1>3. CASE SameParts /\ state.files.token = disk.token
  BY <1>3, SameContents DEF SameParts, TInv, FilesTyped, StateTyped
<1>. QED
  BY <1>2, <1>3

\* When all is quiet the process goes by what is on disk, whatever requests,
\* reloads of the watcher, edits and faults came together: a reload that has
\* read something outdated is followed by one that has not, and only if that
\* one ends first does the outdated configuration stay (state.ts, reload).
THEOREM LoadedIsOnDisk == Spec => []Settled
<1>. DEFINE Inv == IInv /\ TInv /\ FInv /\ SettleInv
<1>1. TInv => events \in Nat
  BY ConfigAssumption DEF TInv, Counted, ConfigAssumption
<1>2. Init => Inv
  BY InitInv, InitTyped, InitFiles, InitSettles
<1>3. Inv /\ [Next]_configVars => Inv'
  BY <1>1, StepInv, StepTyped, StepFiles, StepSettles
<1>4. Inv => Settled
  BY SettledFollows
<1>. QED
  BY <1>2, <1>3, <1>4, PTL DEF Spec

================================================================================
