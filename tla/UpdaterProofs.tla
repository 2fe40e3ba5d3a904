----------------------------- MODULE UpdaterProofs -----------------------------
(***************************************************************************)
(* Proofs about the updater: the lock is taken exactly while one apply is  *)
(* in flight, no release is applied before its staging delay is over       *)
(* unless that is forced, and none that is quarantined; the link current   *)
(* leads to a release that is there or to what a rollback named; recorded  *)
(* migrations are not run again.                                           *)
(***************************************************************************)
EXTENDS Updater, TLAPS

USE UpdaterAssumption DEF UpdaterAssumption

\* The steps only an apply goes through, and those it shares with rollback().
ApplySteps == {"download", "check", "build", "migrate", "record", "preflight",
               "install", "relink", "again", "switch", "restart", "health",
               "rolled", "persist"}
RollbackSteps == {"flip", "symlink", "flipped", "restore", "revive"}

\* What a task record is made of.
IsTask(t) ==
  t = [step |-> t.step, kind |-> t.kind, rel |-> t.rel, force |-> t.force,
       from |-> t.from, hist |-> t.hist, mig |-> t.mig]

\* A step tells what kind of task is at it.
StepFits(t) ==
  /\ t.kind \in {"none", "poll", "apply", "rollback"}
  /\ t.step = "idle" => t.kind = "none"
  /\ t.step = "asked" => t.kind \in {"poll", "apply"}
  /\ t.step \in ApplySteps => t.kind = "apply"
  /\ t.step \in RollbackSteps => t.kind \in {"apply", "rollback"}
  /\ t.step \in {"idle", "asked"} \cup ApplySteps \cup RollbackSteps

Tasks ==
  /\ tasks = [s \in Slots |-> tasks[s]]
  /\ \A s \in Slots : IsTask(tasks[s]) /\ StepFits(tasks[s])

Lock == OneApply /\ (busy <=> \E s \in Slots : Locks(s))

\* The inductive invariant of the lock.
IInv == Tasks /\ Lock /\ busy \in BOOLEAN

\* No apply is asked for or accepted in this step.
NoRequest ==
  \A s \in Slots :
    tasks'[s].kind = "apply" /\ tasks'[s].step \in {"asked", "download"}
    => tasks'[s] = tasks[s]

\* What most actions do.
Kept == IInv' /\ NoRequest

\* The steps after "download".
LaterSteps == (ApplySteps \ {"download"}) \cup RollbackSteps

------------------------------------------------------------------------------
(* What a step of one task does to the tasks *)

\* Task s becomes t, the others stay.
Becomes(s, t) == tasks' = [tasks EXCEPT ![s] = t]

\* A well-formed task in one slot leaves all of them well-formed.
LEMMA TasksKept ==
  ASSUME Tasks, NEW s \in Slots, NEW t, IsTask(t), StepFits(t), Becomes(s, t)
  PROVE  /\ Tasks'
         /\ tasks'[s] = t
         /\ \A r \in Slots \ {s} : tasks'[r] = tasks[r]
<1>1. tasks' = [r \in Slots |-> IF r = s THEN t ELSE tasks[r]]
  BY DEF Becomes, Tasks
<1>2. tasks'[s] = t /\ \A r \in Slots \ {s} : tasks'[r] = tasks[r]
  BY <1>1
<1>3. \A r \in Slots : IsTask(tasks'[r]) /\ StepFits(tasks'[r])
  <2> SUFFICES ASSUME NEW r \in Slots
               PROVE  IsTask(tasks'[r]) /\ StepFits(tasks'[r])
    OBVIOUS
  <2>1. CASE r = s
    BY <2>1, <1>2
  <2>2. CASE r # s
    BY <2>2, <1>2 DEF Tasks
  <2> QED BY <2>1, <2>2
<1>4. tasks' = [r \in Slots |-> tasks'[r]]
  BY <1>1
<1> QED BY <1>2, <1>3, <1>4 DEF Tasks

\* A task just started, an idle slot and a poll are tasks.
LEMMA IdleIsTask ==
  IsTask(Idle) /\ StepFits(Idle) /\ Idle.kind = "none" /\ Idle.step = "idle"
<1>1. IsTask(Idle) /\ Idle.kind = "none" /\ Idle.step = "idle"
  BY DEF Idle, Task, IsTask
<1> QED BY <1>1 DEF StepFits, ApplySteps, RollbackSteps

LEMMA PollIsTask ==
  IsTask(Poll) /\ StepFits(Poll) /\ Poll.kind = "poll" /\ Poll.step = "asked"
<1>1. IsTask(Poll) /\ Poll.kind = "poll" /\ Poll.step = "asked"
  BY DEF Poll, Task, IsTask
<1> QED BY <1>1 DEF StepFits, ApplySteps, RollbackSteps

\* A task that goes to a step open to its kind changes nothing else.
LEMMA StepSet ==
  ASSUME Tasks, NEW s \in Slots, NEW q, Goes(s, q),
         \/ tasks[s].kind = "apply" /\ q \in ApplySteps \cup RollbackSteps
         \/ tasks[s].kind = "rollback" /\ q \in RollbackSteps
  PROVE  /\ Tasks'
         /\ tasks'[s] = [tasks[s] EXCEPT !.step = q]
         /\ tasks'[s].step = q /\ tasks'[s].kind = tasks[s].kind
         /\ \A r \in Slots \ {s} : tasks'[r] = tasks[r]
<1> DEFINE t == [tasks[s] EXCEPT !.step = q]
<1>1. IsTask(tasks[s]) /\ StepFits(tasks[s])
  BY DEF Tasks
<1>2. t = [step |-> q, kind |-> tasks[s].kind, rel |-> tasks[s].rel,
           force |-> tasks[s].force, from |-> tasks[s].from,
           hist |-> tasks[s].hist, mig |-> tasks[s].mig]
  BY <1>1 DEF IsTask
<1> HIDE DEF t
<1>3. IsTask(t) /\ t.step = q /\ t.kind = tasks[s].kind
  BY <1>2 DEF IsTask
<1>4. StepFits(t)
  BY <1>1, <1>3 DEF StepFits, ApplySteps, RollbackSteps
<1>5. Becomes(s, t)
  BY DEF Goes, Becomes, t, Tasks
<1>6. /\ Tasks' /\ tasks'[s] = t
      /\ \A r \in Slots \ {s} : tasks'[r] = tasks[r]
  BY <1>3, <1>4, <1>5, TasksKept
<1> QED BY <1>3, <1>6 DEF t

\* A task that ends leaves an idle slot.
LEMMA TaskEnds ==
  ASSUME Tasks, NEW s \in Slots, Ends(s)
  PROVE  /\ Tasks' /\ tasks'[s].kind = "none" /\ tasks'[s].step = "idle"
         /\ \A r \in Slots \ {s} : tasks'[r] = tasks[r]
<1>1. Becomes(s, Idle)
  BY DEF Ends, Becomes
<1> QED BY <1>1, IdleIsTask, TasksKept

------------------------------------------------------------------------------
(* The four ways a step can treat the lock *)

\* Nobody becomes or stops being an apply.
LEMMA LockUntouched ==
  ASSUME IInv, busy' = busy,
         \A r \in Slots : tasks'[r].kind = "apply" <=> tasks[r].kind = "apply"
  PROVE  Lock' /\ busy' \in BOOLEAN
BY DEF IInv, Lock, OneApply, Locks

\* With the lock free, one task becomes an apply and takes it.
LEMMA LockTaken ==
  ASSUME IInv, ~busy, busy' = TRUE, NEW s \in Slots,
         tasks'[s].kind = "apply",
         \A r \in Slots \ {s} : tasks'[r] = tasks[r]
  PROVE  Lock' /\ busy' \in BOOLEAN
BY DEF IInv, Lock, OneApply, Locks

\* The apply that holds the lock ends and gives it back.
LEMMA LockGivenBack ==
  ASSUME IInv, busy' = FALSE, NEW s \in Slots,
         tasks[s].kind = "apply", tasks'[s].kind = "none",
         \A r \in Slots \ {s} : tasks'[r] = tasks[r]
  PROVE  Lock' /\ busy' \in BOOLEAN
BY DEF IInv, Lock, OneApply, Locks

\* A task that is no apply becomes another one that is none.
LEMMA LockOfOthers ==
  ASSUME IInv, busy' = busy, NEW s \in Slots,
         tasks[s].kind # "apply", tasks'[s].kind # "apply",
         \A r \in Slots \ {s} : tasks'[r] = tasks[r]
  PROVE  Lock' /\ busy' \in BOOLEAN
BY DEF IInv, Lock, OneApply, Locks

\* An apply goes on to another of its steps and keeps the lock.
LEMMA ApplyGoesOn ==
  ASSUME IInv, NEW s \in Slots, NEW q \in LaterSteps,
         Goes(s, q), tasks[s].kind = "apply", busy' = busy
  PROVE  Kept
<1>1. /\ Tasks' /\ tasks'[s].kind = "apply" /\ tasks'[s].step = q
      /\ \A r \in Slots \ {s} : tasks'[r] = tasks[r]
  BY StepSet DEF IInv, LaterSteps
<1>2. Lock' /\ busy' \in BOOLEAN
  BY <1>1, LockUntouched
<1>3. NoRequest
  BY <1>1 DEF NoRequest, LaterSteps, ApplySteps, RollbackSteps
<1> QED BY <1>1, <1>2, <1>3 DEF IInv, Kept

\* An apply that fails goes on to quarantine its tag.
LEMMA ApplyFails ==
  ASSUME IInv, NEW s \in Slots, Fails(s), tasks[s].kind = "apply"
  PROVE  Kept
BY ApplyGoesOn DEF Fails, Quarantines, LaterSteps, ApplySteps

LEMMA ApplyQuarantines ==
  ASSUME IInv, NEW s \in Slots, NEW q \in {"persist", "rolled"},
         Quarantines(s, q), tasks[s].kind = "apply"
  PROVE  Kept
BY ApplyGoesOn DEF Quarantines, LaterSteps, ApplySteps

\* An apply that ends gives the lock back.
LEMMA ApplyEnds ==
  ASSUME IInv, NEW s \in Slots, Ends(s), tasks[s].kind = "apply",
         busy' = FALSE
  PROVE  Kept
<1>1. /\ Tasks' /\ tasks'[s].kind = "none"
      /\ \A r \in Slots \ {s} : tasks'[r] = tasks[r]
  BY TaskEnds DEF IInv
<1> QED BY <1>1, LockGivenBack DEF IInv, Kept, NoRequest

\* A poll or a rollback that ends does not touch it.
LEMMA OtherEnds ==
  ASSUME IInv, NEW s \in Slots, Ends(s), tasks[s].kind # "apply",
         busy' = busy
  PROVE  Kept
<1>1. /\ Tasks' /\ tasks'[s].kind = "none"
      /\ \A r \in Slots \ {s} : tasks'[r] = tasks[r]
  BY TaskEnds DEF IInv
<1> QED BY <1>1, LockOfOthers DEF IInv, Kept, NoRequest

------------------------------------------------------------------------------
(* Every action keeps the invariant *)

\* No task and a free lock.
LEMMA AllIdle ==
  ASSUME tasks' = [s \in Slots |-> Idle], busy' = FALSE
  PROVE  Kept
<1>1. \A s \in Slots : tasks'[s] = Idle
  OBVIOUS
<1>2. Tasks'
  BY <1>1, IdleIsTask DEF Tasks
<1>3. Lock' /\ busy' \in BOOLEAN
  BY <1>1, IdleIsTask DEF Lock, OneApply, Locks
<1> QED BY <1>1, <1>2, <1>3, IdleIsTask DEF IInv, Kept, NoRequest

\* A new task in an idle slot: a rollback or a poll leaves the lock alone.
LEMMA OtherStarts ==
  ASSUME IInv, NEW s \in Slots, NEW t, IsTask(t), StepFits(t), Becomes(s, t),
         t.kind # "apply", tasks[s].kind # "apply", busy' = busy
  PROVE  Kept
<1>1. /\ Tasks' /\ tasks'[s] = t
      /\ \A r \in Slots \ {s} : tasks'[r] = tasks[r]
  BY TasksKept DEF IInv
<1> QED BY <1>1, LockOfOthers DEF IInv, Kept, NoRequest

\* An apply takes the free lock.
LEMMA ApplyStarts ==
  ASSUME IInv, NEW s \in Slots, NEW t, IsTask(t), StepFits(t), Becomes(s, t),
         t.kind = "apply", ~busy, busy' = TRUE
  PROVE  IInv'
<1>1. /\ Tasks' /\ tasks'[s] = t
      /\ \A r \in Slots \ {s} : tasks'[r] = tasks[r]
  BY TasksKept DEF IInv
<1> QED BY <1>1, LockTaken DEF IInv

\* An apply becomes another record of an apply.
LEMMA ApplyChanges ==
  ASSUME IInv, NEW s \in Slots, NEW t, IsTask(t), StepFits(t), Becomes(s, t),
         t.kind = "apply", tasks[s].kind = "apply", busy' = busy
  PROVE  IInv'
<1>1. /\ Tasks' /\ tasks'[s] = t
      /\ \A r \in Slots \ {s} : tasks'[r] = tasks[r]
  BY TasksKept DEF IInv
<1>2. Lock' /\ busy' \in BOOLEAN
  BY <1>1, LockUntouched
<1> QED BY <1>1, <1>2 DEF IInv

\* What the step of a task says of its kind.
LEMMA KindOfStep ==
  ASSUME IInv, NEW s \in Slots
  PROVE  /\ tasks[s].step \in ApplySteps => tasks[s].kind = "apply"
         /\ tasks[s].step \in RollbackSteps => tasks[s].kind \in {"apply", "rollback"}
         /\ IsTask(tasks[s]) /\ StepFits(tasks[s])
BY DEF IInv, Tasks, StepFits

\* An apply fails at a step that may, or goes on to its next one.
LEMMA TriesKeeps ==
  ASSUME IInv, NEW s \in Slots, NEW p \in ApplySteps, NEW q \in LaterSteps,
         Tries(s, p, q)
  PROVE  Kept
<1>1. tasks[s].kind = "apply"
  BY KindOfStep DEF Tries
<1>2. CASE Goes(s, q) /\ UNCHANGED <<hist, snaps, quar, busy>>
  BY <1>1, <1>2, ApplyGoesOn
<1>3. CASE Fails(s)
  BY <1>1, <1>3, ApplyFails
<1> QED BY <1>2, <1>3 DEF Tries

\* An apply at step q: it may change these fields besides.
Applying(q, old, f, h, m) ==
  [step |-> q, kind |-> "apply", rel |-> old.rel, force |-> old.force,
   from |-> f, hist |-> h, mig |-> m]

LEMMA ApplyRecord ==
  ASSUME IInv, NEW s \in Slots, tasks[s].kind = "apply",
         NEW q \in ApplySteps, NEW f, NEW h, NEW m, busy' = busy,
         Becomes(s, Applying(q, tasks[s], f, h, m))
  PROVE  IInv'
<1> DEFINE t == Applying(q, tasks[s], f, h, m)
<1>1. IsTask(t) /\ t.step = q /\ t.kind = "apply"
  BY DEF IsTask, Applying
<1> HIDE DEF t
<1>2. StepFits(t)
  BY <1>1 DEF StepFits, ApplySteps, RollbackSteps
<1>3. Becomes(s, t)
  BY DEF t
<1> QED BY <1>1, <1>2, <1>3, ApplyChanges

LEMMA LaterRecord ==
  ASSUME IInv, NEW s \in Slots, tasks[s].kind = "apply",
         NEW q \in ApplySteps \cap LaterSteps, NEW f, NEW h, NEW m,
         busy' = busy, Becomes(s, Applying(q, tasks[s], f, h, m))
  PROVE  Kept
<1>1. IInv'
  BY ApplyRecord
<1>2. tasks' = [tasks EXCEPT ![s] = Applying(q, tasks[s], f, h, m)]
  BY DEF Becomes
<1>3. /\ tasks'[s].step = q
      /\ \A r \in Slots \ {s} : tasks'[r] = tasks[r]
  BY <1>2 DEF Applying, IInv, Tasks
<1> QED BY <1>1, <1>3 DEF Kept, NoRequest, LaterSteps, ApplySteps,
                            RollbackSteps

\* The awaits of a poll or an apply up to the switch.
LEMMA PollAnsweredKeeps ==
  ASSUME IInv, NEW s \in Slots, PollAnswered(s)
  PROVE  IInv'
<1>1. tasks[s].kind = "poll"
  BY PollIsTask DEF PollAnswered
<1>2. CASE Ends(s) /\ busy' = busy
  BY <1>1, <1>2, OtherEnds DEF Kept
<1>3. CASE /\ ~NotWanted(latest)
           /\ AutoApplied(s, latest, FirstSight(firstSeen, latest) + Delay)
  <2>1. CASE ~busy /\ Begin(s, latest)
    <3> DEFINE t == Task("download", "apply", latest, FALSE, version)
    <3>1. IsTask(t) /\ t.step = "download" /\ t.kind = "apply"
      BY DEF Task, IsTask
    <3>2. Becomes(s, t) /\ busy' = TRUE
      BY <2>1 DEF Begin, Becomes
    <3> HIDE DEF t
    <3>3. StepFits(t)
      BY <3>1 DEF StepFits, ApplySteps, RollbackSteps
    <3> QED BY <2>1, <3>1, <3>2, <3>3, ApplyStarts
  <2>2. CASE Ends(s) /\ busy' = busy
    BY <1>2, <2>2
  <2> QED BY <1>3, <2>1, <2>2 DEF AutoApplied
<1> QED BY <1>2, <1>3 DEF PollAnswered

LEMMA DownloadBecomes ==
  ASSUME IInv, NEW s \in Slots, tasks[s].kind = "apply",
         tasks' = [tasks EXCEPT ![s].step = "download", ![s].from = version]
  PROVE  Becomes(s, Applying("download", tasks[s], version, tasks[s].hist,
                             tasks[s].mig))
<1> DEFINE t == tasks[s]
           u == [t EXCEPT !.step = "download"]
<1>1. tasks' = [tasks EXCEPT ![s] = [u EXCEPT !.from = version]]
  BY DEF IInv, Tasks
<1>2. u = [step |-> "download", kind |-> t.kind, rel |-> t.rel,
           force |-> t.force, from |-> t.from, hist |-> t.hist,
           mig |-> t.mig]
  <2>1. IsTask(t)
    BY KindOfStep
  <2> QED BY <2>1 DEF IsTask
<1> HIDE DEF u
<1>3. [u EXCEPT !.from = version]
        = Applying("download", t, version, t.hist, t.mig)
  BY <1>2 DEF Applying
<1> QED BY <1>1, <1>3 DEF Becomes

LEMMA ApplyAnsweredKeeps ==
  ASSUME IInv, NEW s \in Slots, ApplyAnswered(s)
  PROVE  IInv'
<1>1. tasks[s].kind = "apply"
  BY KindOfStep DEF ApplyAnswered
<1>2. CASE /\ tasks' = [tasks EXCEPT ![s].step = "download", ![s].from = version]
           /\ busy' = busy
  BY <1>1, <1>2, DownloadBecomes, ApplyRecord DEF ApplySteps
<1>3. CASE Ends(s) /\ busy' = FALSE
  BY <1>1, <1>3, ApplyEnds DEF Kept
<1> QED BY <1>2, <1>3 DEF ApplyAnswered

\* The steps that set a second field of the task.
LEMMA CheckedBecomes ==
  ASSUME IInv, NEW s \in Slots, tasks[s].kind = "apply",
         tasks' = [tasks EXCEPT ![s].step = "build", ![s].hist = hist.applied]
  PROVE  Becomes(s, Applying("build", tasks[s], tasks[s].from, hist.applied, tasks[s].mig))
<1> DEFINE t == tasks[s]
           u == [t EXCEPT !.step = "build"]
<1>1. tasks' = [tasks EXCEPT ![s] = [u EXCEPT !.hist = hist.applied]]
  BY DEF IInv, Tasks
<1>2. u = [step |-> "build", kind |-> t.kind, rel |-> t.rel,
           force |-> t.force, from |-> t.from, hist |-> t.hist,
           mig |-> t.mig]
  <2>1. IsTask(t)
    BY KindOfStep
  <2> QED BY <2>1 DEF IsTask
<1> HIDE DEF u
<1>3. [u EXCEPT !.hist = hist.applied] = Applying("build", t, t.from, hist.applied, t.mig)
  BY <1>2 DEF Applying
<1> QED BY <1>1, <1>3 DEF Becomes

LEMMA CheckedKeeps ==
  ASSUME IInv, NEW s \in Slots, Checked(s)
  PROVE  Kept
<1>1. tasks[s].kind = "apply" /\ IsTask(tasks[s])
  BY KindOfStep DEF Checked, ApplySteps
<1>2. CASE /\ tasks' = [tasks EXCEPT ![s].step = "build", ![s].hist = hist.applied]
           /\ busy' = busy
  BY <1>1, <1>2, CheckedBecomes, LaterRecord DEF LaterSteps, ApplySteps
<1>3. CASE Fails(s)
  BY <1>1, <1>3, ApplyFails
<1> QED BY <1>2, <1>3 DEF Checked

LEMMA MigratedBecomes ==
  ASSUME IInv, NEW s \in Slots, tasks[s].kind = "apply", NEW n,
         tasks' = [tasks EXCEPT ![s].step = "record", ![s].mig = n]
  PROVE  Becomes(s, Applying("record", tasks[s], tasks[s].from, tasks[s].hist, n))
<1> DEFINE t == tasks[s]
           u == [t EXCEPT !.step = "record"]
<1>1. tasks' = [tasks EXCEPT ![s] = [u EXCEPT !.mig = n]]
  BY DEF IInv, Tasks
<1>2. u = [step |-> "record", kind |-> t.kind, rel |-> t.rel,
           force |-> t.force, from |-> t.from, hist |-> t.hist,
           mig |-> t.mig]
  <2>1. IsTask(t)
    BY KindOfStep
  <2> QED BY <2>1 DEF IsTask
<1> HIDE DEF u
<1>3. [u EXCEPT !.mig = n] = Applying("record", t, t.from, t.hist, n)
  BY <1>2 DEF Applying
<1> QED BY <1>1, <1>3 DEF Becomes

LEMMA MigratedKeeps ==
  ASSUME IInv, NEW s \in Slots, Migrated(s)
  PROVE  Kept
<1>1. tasks[s].kind = "apply" /\ IsTask(tasks[s])
  BY KindOfStep DEF Migrated, ApplySteps
<1>2. CASE Goes(s, "preflight") /\ busy' = busy
  BY <1>1, <1>2, ApplyGoesOn DEF LaterSteps, ApplySteps
<1>3. CASE Ends(s) /\ busy' = FALSE
  BY <1>1, <1>3, ApplyEnds
<1>4. ASSUME NEW n, busy' = busy,
             tasks' = [tasks EXCEPT ![s].step = "record", ![s].mig = n]
      PROVE  Kept
  BY <1>1, <1>4, MigratedBecomes, LaterRecord DEF LaterSteps, ApplySteps
<1>5. CASE Fails(s)
  BY <1>1, <1>5, ApplyFails
<1> QED BY <1>2, <1>3, <1>4, <1>5 DEF Migrated

LEMMA RecordedBecomes ==
  ASSUME IInv, NEW s \in Slots, tasks[s].kind = "apply", NEW h,
         tasks' = [tasks EXCEPT ![s].step = "migrate", ![s].hist = h]
  PROVE  Becomes(s, Applying("migrate", tasks[s], tasks[s].from, h, tasks[s].mig))
<1> DEFINE t == tasks[s]
           u == [t EXCEPT !.step = "migrate"]
<1>1. tasks' = [tasks EXCEPT ![s] = [u EXCEPT !.hist = h]]
  BY DEF IInv, Tasks
<1>2. u = [step |-> "migrate", kind |-> t.kind, rel |-> t.rel,
           force |-> t.force, from |-> t.from, hist |-> t.hist,
           mig |-> t.mig]
  <2>1. IsTask(t)
    BY KindOfStep
  <2> QED BY <2>1 DEF IsTask
<1> HIDE DEF u
<1>3. [u EXCEPT !.hist = h] = Applying("migrate", t, t.from, h, t.mig)
  BY <1>2 DEF Applying
<1> QED BY <1>1, <1>3 DEF Becomes

LEMMA RecordedKeeps ==
  ASSUME IInv, NEW s \in Slots, Recorded(s)
  PROVE  Kept
<1>1. tasks[s].kind = "apply" /\ IsTask(tasks[s])
  BY KindOfStep DEF Recorded, ApplySteps
<1>2. ASSUME NEW h, busy' = busy,
             tasks' = [tasks EXCEPT ![s].step = "migrate", ![s].hist = h]
      PROVE  Kept
  BY <1>1, <1>2, RecordedBecomes, LaterRecord DEF LaterSteps, ApplySteps
<1>3. CASE Fails(s)
  BY <1>1, <1>3, ApplyFails
<1> QED BY <1>2, <1>3 DEF Recorded

LEMMA PreparesKeeps ==
  ASSUME IInv, NEW s \in Slots, Prepares(s)
  PROVE  Kept
<1>1. CASE Tries(s, "download", "check") \/ Tries(s, "build", "migrate")
             \/ Tries(s, "preflight", "install")
  BY <1>1, TriesKeeps DEF LaterSteps, ApplySteps
<1> QED BY <1>1, CheckedKeeps, MigratedKeeps, RecordedKeeps DEF Prepares

\* The switch, the restart and what follows it.
LEMMA SwitchKeeps ==
  ASSUME IInv, NEW s \in Slots, Installs(s) \/ Relinks(s)
  PROVE  Kept
<1>1. tasks[s].kind = "apply"
  BY KindOfStep DEF Installs, Relinks, ApplySteps
<1>2. CASE Fails(s)
  BY <1>1, <1>2, ApplyFails
<1>3. ASSUME NEW q \in {"relink", "again", "switch", "restart"}, Goes(s, q),
             busy' = busy
      PROVE  Kept
  BY <1>1, <1>3, ApplyGoesOn DEF LaterSteps, ApplySteps
<1> QED BY <1>2, <1>3 DEF Installs, Relinks, LinksNew, RemovesNew, Switches

LEMMA RestartsKeeps == Restarts => Kept
BY AllIdle DEF Restarts

LEMMA RestartAskedKeeps ==
  ASSUME IInv, NEW s \in Slots, RestartAsked(s)
  PROVE  Kept
<1>1. tasks[s].kind = "apply"
  BY KindOfStep DEF RestartAsked, ApplySteps
<1>2. CASE Fails(s)
  BY <1>1, <1>2, ApplyFails
<1>3. CASE Goes(s, "health") /\ busy' = busy
  BY <1>1, <1>3, ApplyGoesOn DEF LaterSteps, ApplySteps
<1> QED BY <1>2, <1>3, RestartsKeeps DEF RestartAsked

LEMMA HealthKnownKeeps ==
  ASSUME IInv, NEW s \in Slots, HealthKnown(s)
  PROVE  Kept
<1>1. tasks[s].kind = "apply"
  BY KindOfStep DEF HealthKnown, ApplySteps
<1>2. CASE Ends(s) /\ busy' = FALSE
  BY <1>1, <1>2, ApplyEnds
<1>3. CASE Goes(s, "flip") /\ busy' = busy
  BY <1>1, <1>3, ApplyGoesOn DEF LaterSteps, RollbackSteps
<1> QED BY <1>1, <1>2, <1>3, ApplyQuarantines DEF HealthKnown

LEMMA QuarantineSavedKeeps ==
  ASSUME IInv, NEW s \in Slots, QuarantineSaved(s)
  PROVE  Kept
<1>1. tasks[s].kind = "apply"
  BY KindOfStep DEF QuarantineSaved, ApplySteps
<1> QED BY <1>1, ApplyEnds, ApplyQuarantines DEF QuarantineSaved

\* A rollback, of the API or inside an apply.
LEMMA RollbackKeeps ==
  ASSUME IInv, NEW s \in Slots,
         RollbackFlips(s) \/ RollbackRestores(s) \/ RollbackRestarts(s)
  PROVE  Kept
<1>1. tasks[s].kind \in {"apply", "rollback"}
  BY KindOfStep DEF RollbackFlips, RollbackRestores, RollbackRestarts,
                    RollbackSteps
<1>2. CASE Aborts(s)
  BY <1>1, <1>2, ApplyFails, OtherEnds DEF Aborts
<1>3. ASSUME NEW q \in RollbackSteps, Goes(s, q), busy' = busy
      PROVE  Kept
  <2>1. /\ Tasks' /\ tasks'[s].kind = tasks[s].kind /\ tasks'[s].step = q
        /\ \A r \in Slots \ {s} : tasks'[r] = tasks[r]
    BY <1>1, <1>3, StepSet DEF IInv, RollbackSteps
  <2>2. Lock' /\ busy' \in BOOLEAN
    BY <1>3, <2>1, LockUntouched
  <2> QED BY <2>1, <2>2 DEF IInv, Kept, NoRequest, RollbackSteps
<1>4. CASE RollbackFlips(s)
  BY <1>2, <1>3, <1>4
  DEF RollbackFlips, LinksNew, RemovesNew, Switches, RollbackSteps
<1>5. CASE RollbackRestores(s)
  BY <1>2, <1>3, <1>5 DEF RollbackRestores, RollbackSteps
<1>6. CASE RollbackRestarts(s)
  BY <1>6, RestartsKeeps, ApplyQuarantines, OtherEnds DEF RollbackRestarts
<1> QED BY <1>4, <1>5, <1>6

\* The actions that start a task.
LEMMA StartsKeep ==
  ASSUME IInv, NEW s \in Slots,
         PollStarts(s) \/ RollbackStarts(s)
  PROVE  Kept
<1>1. CASE PollStarts(s)
  BY <1>1, PollIsTask, IdleIsTask, OtherStarts DEF PollStarts, Becomes
<1>2. CASE RollbackStarts(s)
  <2>1. PICK sn \in ToSet(snaps) :
          tasks' = [tasks EXCEPT ![s] =
                      Task("flip", "rollback", sn.to[2], FALSE, sn.from)]
    BY <1>2 DEF RollbackStarts
  <2> DEFINE t == Task("flip", "rollback", sn.to[2], FALSE, sn.from)
  <2>2. IsTask(t) /\ t.step = "flip" /\ t.kind = "rollback"
    BY DEF Task, IsTask
  <2>3. Becomes(s, t)
    BY <2>1 DEF Becomes
  <2> HIDE DEF t
  <2>4. StepFits(t)
    BY <2>2 DEF StepFits, ApplySteps, RollbackSteps
  <2> QED BY <1>2, <2>2, <2>3, <2>4, IdleIsTask, OtherStarts DEF RollbackStarts
<1> QED BY <1>1, <1>2

LEMMA ApplyAvailableKeeps ==
  ASSUME IInv, NEW s \in Slots, NEW force \in BOOLEAN, ApplyAvailable(s, force)
  PROVE  IInv'
<1> DEFINE t == Task("asked", "apply", available.rel, force, Bare(First))
<1>1. IsTask(t) /\ t.step = "asked" /\ t.kind = "apply"
  BY DEF Task, IsTask
<1>2. Becomes(s, t)
  BY DEF ApplyAvailable, Becomes
<1> HIDE DEF t
<1>3. StepFits(t)
  BY <1>1 DEF StepFits, ApplySteps, RollbackSteps
<1> QED BY <1>1, <1>2, <1>3, ApplyStarts DEF ApplyAvailable

------------------------------------------------------------------------------
(* The theorems *)

\* The updater starts idle, with the lock free.
LEMMA Start == Init => IInv
<1>1. ASSUME Init, NEW s \in Slots
      PROVE  tasks[s] = Idle /\ IsTask(tasks[s]) /\ StepFits(tasks[s])
               /\ tasks[s].kind = "none"
  BY <1>1, IdleIsTask DEF Init
<1> QED BY <1>1 DEF Init, IInv, Tasks, Lock, OneApply, Locks

\* What an action does that accepts no request.
OtherAction ==
  \/ \E s \in Slots :
       \/ PollStarts(s) \/ RollbackStarts(s)
       \/ Prepares(s) \/ Installs(s) \/ Relinks(s) \/ RestartAsked(s)
       \/ HealthKnown(s) \/ QuarantineSaved(s)
       \/ RollbackFlips(s) \/ RollbackRestores(s) \/ RollbackRestarts(s)
  \/ \E r \in Releases : ClearQuarantine(r) \/ Publish(r)
  \/ Crash \/ Tick \/ UNCHANGED vars

LEMMA OtherActionsKeep ==
  ASSUME IInv, OtherAction
  PROVE  Kept
<1>1. CASE UNCHANGED <<busy, tasks>>
  BY <1>1 DEF IInv, Tasks, Lock, OneApply, Locks, Kept, NoRequest
<1>2. ASSUME NEW s \in Slots,
             \/ PollStarts(s) \/ RollbackStarts(s)
             \/ Prepares(s) \/ Installs(s) \/ Relinks(s) \/ RestartAsked(s)
             \/ HealthKnown(s) \/ QuarantineSaved(s)
             \/ RollbackFlips(s) \/ RollbackRestores(s) \/ RollbackRestarts(s)
      PROVE  Kept
  BY <1>2, StartsKeep, PreparesKeeps, SwitchKeeps, RestartAskedKeeps,
     HealthKnownKeeps, QuarantineSavedKeeps, RollbackKeeps
<1>3. CASE Crash
  BY <1>3, RestartsKeeps DEF Crash
<1>4. CASE Tick \/ \E r \in Releases : ClearQuarantine(r) \/ Publish(r)
  BY <1>1, <1>4 DEF Tick, ClearQuarantine, Publish
<1>5. CASE UNCHANGED vars
  BY <1>1, <1>5 DEF vars
<1> QED BY <1>2, <1>3, <1>4, <1>5 DEF OtherAction

LEMMA Actions ==
  ASSUME [Next]_vars
  PROVE  \/ OtherAction
         \/ \E s \in Slots :
              \/ PollAnswered(s) \/ ApplyAnswered(s)
              \/ \E force \in BOOLEAN : ApplyAvailable(s, force)
BY DEF Next, Continues, OtherAction

\* Every step keeps the invariant.
LEMMA Step == IInv /\ [Next]_vars => IInv'
BY Actions, OtherActionsKeep, PollAnsweredKeeps, ApplyAnsweredKeeps,
   ApplyAvailableKeeps DEF Kept

\* The lock is taken exactly while an apply is in flight, on every path
\* through applyTag(), its catch block and a restart.
THEOREM LockHeld == Spec => []IInv
BY Start, Step, PTL DEF Spec

\* However polls, requests, rollbacks and failures interleave, at most one
\* apply is under way.
THEOREM OneApplyAtATime == Spec => []OneApply
<1>1. IInv => OneApply
  BY DEF IInv, Lock
<1> QED BY <1>1, LockHeld, PTL

------------------------------------------------------------------------------
(* The staging delay *)

\* When releases were seen: by any incarnation, and by this one.
Times ==
  /\ now \in Nat \ {Unseen} /\ latest \in Releases
  /\ firstSeen \in [Releases -> Nat] /\ seenEver \in [Releases -> Nat]
  /\ \A r \in Releases : seenEver[r] <= now /\ firstSeen[r] <= now
  /\ \A r \in Releases : firstSeen[r] # Unseen =>
       seenEver[r] # Unseen /\ seenEver[r] <= firstSeen[r]

\* What is offered becomes due a whole delay after it was first seen.
Offer ==
  available # None =>
    /\ available.rel \in Releases /\ available.after \in Nat
    /\ seenEver[available.rel] # Unseen
    /\ seenEver[available.rel] + Delay <= available.after

\* Release r was seen and its delay is over.
Due(r) == r \in Releases /\ seenEver[r] # Unseen /\ seenEver[r] + Delay <= now

\* An apply that waits for its answer is due, unless it is forced.
Asked ==
  \A s \in Slots :
    tasks[s].kind = "apply" /\ tasks[s].step = "asked" /\ ~tasks[s].force
    => Due(tasks[s].rel)

SInv == Times /\ Offer /\ Asked

\* The step property of StagingRespected.
OnTime ==
  \A s \in Slots :
    /\ tasks[s].step = "asked" /\ tasks'[s].step = "download"
    /\ ~tasks'[s].force
    => seenEver'[tasks'[s].rel] + Delay <= now

\* What was seen stays seen, and what is due stays due.
Remembers ==
  /\ now' \in Nat /\ now <= now' /\ seenEver' \in [Releases -> Nat]
  /\ \A r \in Releases : seenEver[r] # Unseen => seenEver'[r] = seenEver[r]

LEMMA StaysDue ==
  ASSUME Times, Remembers, NEW r, Due(r)
  PROVE  Due(r)'
BY DEF Times, Remembers, Due

\* Most actions change the clock, or forget what this incarnation has seen.
LEMMA OtherActionsForget ==
  ASSUME SInv, OtherAction
  PROVE  /\ now' \in {now, now + 1} /\ latest' \in Releases
         /\ seenEver' = seenEver
         /\ firstSeen' = firstSeen \/ firstSeen' = [r \in Releases |-> Unseen]
         /\ available' = available \/ available' = None
<1> DEFINE Goal ==
         /\ now' \in {now, now + 1} /\ latest' \in Releases
         /\ seenEver' = seenEver
         /\ firstSeen' = firstSeen \/ firstSeen' = [r \in Releases |-> Unseen]
         /\ available' = available \/ available' = None
<1>1. latest \in Releases /\ now \in Nat
  BY DEF SInv, Times
<1>2. CASE Restarts
  BY <1>1, <1>2 DEF Restarts
<1>3. ASSUME NEW s \in Slots, PollStarts(s) \/ RollbackStarts(s) \/ Prepares(s)
      PROVE  Goal
  BY <1>1, <1>3 DEF PollStarts, RollbackStarts, Prepares, seen
<1>4. ASSUME NEW s \in Slots, Installs(s) \/ Relinks(s) \/ RestartAsked(s)
      PROVE  Goal
  BY <1>1, <1>2, <1>4 DEF Installs, Relinks, RestartAsked, seen
<1>5. ASSUME NEW s \in Slots, HealthKnown(s) \/ QuarantineSaved(s)
      PROVE  Goal
  BY <1>1, <1>5 DEF HealthKnown, QuarantineSaved
<1>6. ASSUME NEW s \in Slots,
             RollbackFlips(s) \/ RollbackRestores(s) \/ RollbackRestarts(s)
      PROVE  Goal
  BY <1>1, <1>2, <1>6 DEF RollbackFlips, RollbackRestores, RollbackRestarts, seen
<1>7. CASE Crash
  BY <1>2, <1>7 DEF Crash
<1>8. CASE \E r \in Releases : ClearQuarantine(r) \/ Publish(r)
  BY <1>1, <1>8 DEF ClearQuarantine, Publish, seen
<1>9. CASE Tick \/ UNCHANGED vars
  BY <1>1, <1>9 DEF Tick, vars, seen
<1> QED BY <1>3, <1>4, <1>5, <1>6, <1>7, <1>8, <1>9 DEF OtherAction

LEMMA OtherActionsOnTime ==
  ASSUME IInv, SInv, OtherAction
  PROVE  SInv' /\ OnTime
<1>1. /\ now' \in {now, now + 1} /\ latest' \in Releases
      /\ seenEver' = seenEver
      /\ firstSeen' = firstSeen \/ firstSeen' = [r \in Releases |-> Unseen]
      /\ available' = available \/ available' = None
  BY OtherActionsForget
<1>2. NoRequest /\ IInv'
  BY OtherActionsKeep DEF Kept
<1>3. Times'
  BY <1>1 DEF SInv, Times, Unseen
<1>4. Offer'
  BY <1>1 DEF SInv, Offer
<1>5. Remembers
  BY <1>1 DEF SInv, Times, Remembers
<1>6. Asked'
  BY <1>2, <1>5, StaysDue DEF SInv, Asked, NoRequest
<1>7. OnTime
  <2> SUFFICES ASSUME NEW s \in Slots, tasks[s].step = "asked",
                      tasks'[s].step = "download"
               PROVE  FALSE
    BY DEF OnTime
  <2>1. tasks'[s].kind = "apply"
    BY <1>2 DEF IInv, Tasks, StepFits, ApplySteps
  <2> QED BY <1>2, <2>1 DEF NoRequest
<1> QED BY <1>3, <1>4, <1>6, <1>7 DEF SInv

\* A poll: what it saw first it saw now, or before.
LEMMA PollOnTime ==
  ASSUME IInv, SInv, NEW s \in Slots, PollAnswered(s)
  PROVE  SInv' /\ OnTime
<1>1. tasks[s].kind = "poll" /\ UNCHANGED <<latest, now>>
  BY PollIsTask DEF PollAnswered
<1>2. CASE Ends(s) /\ UNCHANGED <<firstSeen, seenEver>>
             /\ (available' = available \/ available' = None)
  <2>1. /\ tasks'[s].kind = "none" /\ tasks'[s].step = "idle"
        /\ \A r \in Slots \ {s} : tasks'[r] = tasks[r]
    BY <1>2, TaskEnds DEF IInv
  <2>2. SInv'
    BY <1>1, <1>2, <2>1 DEF SInv, Times, Offer, Asked, Due
  <2> QED BY <2>1, <2>2 DEF OnTime
<1>3. ASSUME NEW at, at = FirstSight(firstSeen, latest),
             firstSeen' = [firstSeen EXCEPT ![latest] = at],
             seenEver' = [seenEver EXCEPT ![latest] = FirstSight(seenEver, latest)],
             available' = [rel |-> latest, after |-> at + Delay],
             AutoApplied(s, latest, at + Delay)
      PROVE  SInv' /\ OnTime
  <2>1. /\ at \in Nat /\ at # Unseen /\ at <= now
        /\ seenEver'[latest] \in Nat /\ seenEver'[latest] # Unseen
        /\ seenEver'[latest] <= at
    BY <1>3 DEF SInv, Times, FirstSight, Unseen
  <2>2. Times'
    BY <1>1, <1>3, <2>1 DEF SInv, Times, FirstSight
  <2>3. Offer'
    BY <1>3, <2>1, <2>2 DEF Offer, Times
  <2>4. Remembers
    BY <1>1, <1>3, <2>2 DEF SInv, Times, Remembers, FirstSight
  <2>5. \/ /\ tasks'[s].step = "download" /\ tasks'[s].rel = latest
           /\ at + Delay <= now
        \/ tasks'[s].step = "idle"
    BY <1>3, IdleIsTask DEF AutoApplied, Begin, Ends, Task, IInv, Tasks
  <2>6. \A r \in Slots \ {s} : tasks'[r] = tasks[r]
    BY <1>3 DEF AutoApplied, Begin, Ends, IInv, Tasks
  <2>7. Asked'
    BY <2>4, <2>5, <2>6, StaysDue DEF SInv, Asked
  <2>8. OnTime
    <3> SUFFICES ASSUME NEW r \in Slots, tasks[r].step = "asked",
                        tasks'[r].step = "download"
                 PROVE  seenEver'[tasks'[r].rel] + Delay <= now
      BY DEF OnTime
    <3>1. r = s
      BY <2>6
    <3>2. tasks'[r].rel = latest /\ at + Delay <= now
      BY <2>5, <3>1
    <3>3. seenEver'[latest] + Delay <= now
      BY <2>1, <3>2 DEF SInv, Times
    <3> QED BY <3>2, <3>3
  <2> QED BY <2>2, <2>3, <2>7, <2>8 DEF SInv
<1> QED BY <1>2, <1>3 DEF PollAnswered, seen

\* The answer to a request: the release is the one that was due.
LEMMA AnswerOnTime ==
  ASSUME IInv, SInv, NEW s \in Slots, ApplyAnswered(s)
  PROVE  SInv' /\ OnTime
<1>1. /\ tasks[s].kind = "apply" /\ tasks[s].step = "asked"
      /\ IsTask(tasks[s])
      /\ UNCHANGED <<latest, now, available, firstSeen, seenEver>>
  BY KindOfStep DEF ApplyAnswered, seen
<1>2. /\ tasks'[s].step \in {"download", "idle"}
      /\ tasks'[s].step = "download" =>
           tasks'[s].rel = tasks[s].rel /\ tasks'[s].force = tasks[s].force
      /\ \A r \in Slots \ {s} : tasks'[r] = tasks[r]
  <2>1. CASE Ends(s)
    BY <2>1, TaskEnds DEF IInv
  <2>2. CASE tasks' = [tasks EXCEPT ![s].step = "download", ![s].from = version]
    <3>1. tasks' = [tasks EXCEPT ![s] = Applying("download", tasks[s], version,
                                          tasks[s].hist, tasks[s].mig)]
      BY <1>1, <2>2, DownloadBecomes DEF Becomes
    <3> QED BY <3>1 DEF Applying, IInv, Tasks
  <2> QED BY <2>1, <2>2 DEF ApplyAnswered
<1>3. SInv'
  BY <1>1, <1>2 DEF SInv, Times, Offer, Asked, Due
<1>4. OnTime
  BY <1>1, <1>2 DEF SInv, Asked, Due, OnTime
<1> QED BY <1>3, <1>4

\* A request is accepted when what is available is due, or when it is forced.
LEMMA RequestOnTime ==
  ASSUME IInv, SInv, NEW s \in Slots, NEW force \in BOOLEAN,
         ApplyAvailable(s, force)
  PROVE  SInv' /\ OnTime
<1>1. UNCHANGED <<latest, now, available, firstSeen, seenEver>>
  BY DEF ApplyAvailable, seen
<1>2. /\ tasks'[s].step = "asked" /\ tasks'[s].force = force
      /\ tasks'[s].rel = available.rel
      /\ \A r \in Slots \ {s} : tasks'[r] = tasks[r]
  BY DEF ApplyAvailable, Task, IInv, Tasks
<1>3. force \/ Due(available.rel)
  <2> SUFFICES ASSUME ~force
               PROVE  Due(available.rel)
    OBVIOUS
  <2>1. available # None /\ available.after <= now
    BY DEF ApplyAvailable
  <2>2. /\ available.rel \in Releases /\ available.after \in Nat
        /\ seenEver[available.rel] # Unseen
        /\ seenEver[available.rel] + Delay <= available.after
    BY <2>1 DEF SInv, Offer
  <2>3. seenEver[available.rel] \in Nat /\ now \in Nat
    BY <2>2 DEF SInv, Times
  <2>4. seenEver[available.rel] + Delay <= now
    BY <2>1, <2>2, <2>3
  <2> QED BY <2>2, <2>4 DEF Due
<1>4. SInv'
  BY <1>1, <1>2, <1>3 DEF SInv, Times, Offer, Asked, Due
<1>5. OnTime
  BY <1>2 DEF OnTime
<1> QED BY <1>4, <1>5

LEMMA StartUnseen == Init => SInv
<1> SUFFICES ASSUME Init
             PROVE  SInv
  OBVIOUS
<1>1. Times
  BY DEF Init, Times, Unseen
<1>2. Offer
  BY DEF Init, Offer
<1>3. Asked
  BY IdleIsTask DEF Init, Asked
<1> QED BY <1>1, <1>2, <1>3 DEF SInv

LEMMA StepOnTime == IInv /\ SInv /\ [Next]_vars => SInv' /\ OnTime
BY Actions, OtherActionsOnTime, PollOnTime, AnswerOnTime, RequestOnTime

\* A release whose apply is not forced is applied no sooner than the staging
\* delay after any incarnation of the core saw it first: applyAvailable()
\* checks the delay before it asks GitHub and takes the lock, and what GitHub
\* answers cannot replace the release that was checked.
THEOREM NotTooEarly == Spec => StagingRespected
<1>1. Init => IInv /\ SInv
  BY Start, StartUnseen
<1>2. (IInv /\ SInv) /\ [Next]_vars => (IInv /\ SInv)'
  BY Step, StepOnTime
<1>3. IInv /\ SInv /\ [Next]_vars => [OnTime]_vars
  BY StepOnTime
<1>4. Spec => [][OnTime]_vars
  BY <1>1, <1>2, <1>3, PTL DEF Spec
<1> QED BY <1>4 DEF StagingRespected, OnTime

------------------------------------------------------------------------------
(* What `current` points at *)

\* A name of a release that is there, or a version without its "v".
Whole(name) == name \in Names /\ (name \in dirs \/ \E r \in Releases : name = Bare(r))

\* The steps of an apply that has its directory in place.
Switching == {"relink", "again", "switch", "restart", "health"}

\* What a task may roll back to is whole, an apply is of a release, and from
\* the switch on the directory of that release is in place.
TaskWhole(t) ==
  /\ Whole(t.from)
  /\ t.kind = "apply" => t.rel \in Releases
  /\ t.step \in Switching => Tag(t.rel) \in dirs

IsSnap(sn) == sn = [from |-> sn.from, to |-> sn.to, hist |-> sn.hist]

SnapsWhole ==
  /\ \E S : snaps \in Seq(S)
  /\ \A i \in DOMAIN snaps : IsSnap(snaps[i]) /\ Whole(snaps[i].from)

\* Both links: what `current` and current.new point at.
LinksWhole == Whole(link) /\ (newLink = NoLink \/ Whole(newLink))

\* The strengthening of LinkWhole: every name `current` may yet be given is
\* whole, be it at current.new, the running version, of a snapshot or of a task.
WInv ==
  /\ LinksWhole /\ Whole(version) /\ SnapsWhole
  /\ \A s \in Slots : TaskWhole(tasks[s])

\* No directory is removed, so what is whole stays so.
LEMMA StaysWhole ==
  ASSUME dirs \subseteq dirs'
  PROVE  /\ \A name : Whole(name) => Whole(name)'
         /\ \A t : TaskWhole(t) => TaskWhole(t)'
         /\ SnapsWhole /\ snaps' = snaps => SnapsWhole'
         /\ LinksWhole /\ UNCHANGED <<link, newLink>> => LinksWhole'
<1>1. \A name : Whole(name) => Whole(name)'
  BY DEF Whole
<1>2. \A t : TaskWhole(t) => TaskWhole(t)'
  BY <1>1 DEF TaskWhole
<1>. QED
  BY <1>1, <1>2 DEF SnapsWhole, LinksWhole

\* One task and perhaps the names on disk and in memory have changed.
LEMMA WholeKept ==
  ASSUME WInv, dirs \subseteq dirs', SnapsWhole', NEW s \in Slots,
         LinksWhole', Whole(version)', TaskWhole(tasks[s])',
         \A r \in Slots \ {s} : tasks'[r] = tasks[r]
  PROVE  WInv'
BY StaysWhole DEF WInv

\* Task s changed in its step, or in what does not matter here, and no other.
SameTask(s) ==
  /\ tasks'[s].from = tasks[s].from /\ tasks'[s].rel = tasks[s].rel
  /\ tasks'[s].kind = tasks[s].kind
  /\ \A r \in Slots \ {s} : tasks'[r] = tasks[r]

LEMMA GoesSame ==
  ASSUME Tasks, NEW s \in Slots, NEW q, Goes(s, q)
  PROVE  SameTask(s) /\ tasks'[s].step = q
<1>1. tasks'[s] = [tasks[s] EXCEPT !.step = q] /\ IsTask(tasks[s])
  BY DEF Goes, Tasks
<1>2. \A r \in Slots \ {s} : tasks'[r] = tasks[r]
  BY DEF Goes, Tasks
<1>. QED
  BY <1>1, <1>2 DEF SameTask, IsTask

LEMMA ApplyingSame ==
  ASSUME Tasks, NEW s \in Slots, tasks[s].kind = "apply", NEW q, NEW h, NEW m,
         Becomes(s, Applying(q, tasks[s], tasks[s].from, h, m))
  PROVE  SameTask(s) /\ tasks'[s].step = q
<1>1. /\ tasks'[s] = Applying(q, tasks[s], tasks[s].from, h, m)
      /\ \A r \in Slots \ {s} : tasks'[r] = tasks[r]
  BY DEF Becomes, Tasks
<1>. QED
  BY <1>1 DEF SameTask, Applying

\* A task that goes on to a step before or after the switch and leaves the
\* names alone.
LEMMA SameWhole ==
  ASSUME WInv, NEW s \in Slots, SameTask(s), dirs \subseteq dirs',
         UNCHANGED <<link, newLink, version>>, SnapsWhole',
         tasks'[s].step \in Switching => Tag(tasks[s].rel) \in dirs'
  PROVE  WInv'
<1>1. TaskWhole(tasks[s])'
  BY StaysWhole DEF WInv, SameTask, TaskWhole
<1>2. LinksWhole' /\ Whole(version)'
  BY StaysWhole DEF WInv
<1>. QED
  BY <1>1, <1>2, WholeKept DEF SameTask

\* A task that ends, and one that starts.
LEMMA BecomesWhole ==
  ASSUME Tasks, WInv, NEW s \in Slots, NEW t, Becomes(s, t), TaskWhole(t),
         UNCHANGED <<dirs, link, newLink>>, SnapsWhole', Whole(version)'
  PROVE  WInv'
<1>1. tasks'[s] = t /\ \A r \in Slots \ {s} : tasks'[r] = tasks[r]
  BY DEF Becomes, Tasks
<1>2. TaskWhole(tasks[s])' /\ LinksWhole'
  BY <1>1, StaysWhole DEF WInv
<1>. QED
  BY <1>1, <1>2, WholeKept

LEMMA BareWhole == ASSUME NEW r \in Releases PROVE Whole(Bare(r))
BY DEF Whole, Names

LEMMA IdleWhole == TaskWhole(Idle) /\ TaskWhole(Poll)
<1>1. Idle.from = Bare(First) /\ Poll.from = Bare(First)
  BY DEF Idle, Poll, Task
<1>2. Whole(Bare(First))
  BY BareWhole
<1>. QED
  BY <1>1, <1>2, IdleIsTask, PollIsTask DEF TaskWhole, Switching

\* The process starts over: its version is the one `current` has the name of.
LEMMA RestartsWhole == ASSUME WInv, Restarts PROVE WInv'
<1>1. link[2] \in Releases
  <2>1. PICK r \in Releases : link = <<"v", r>> \/ link = <<"", r>>
    BY DEF WInv, LinksWhole, Whole, Names, Tag, Bare
  <2>2. <<"v", r>>[2] = r /\ <<"", r>>[2] = r
    OBVIOUS
  <2>. QED
    BY <2>1, <2>2
<1>2. UNCHANGED <<link, newLink, dirs, snaps>> /\ version' = Bare(link[2])
  BY DEF Restarts, disk
<1>3. Whole(version)'
  BY <1>1, <1>2, BareWhole, StaysWhole
<1>4. \A s \in Slots : TaskWhole(tasks[s])'
  BY <1>2, IdleWhole, StaysWhole DEF Restarts
<1>. QED
  BY <1>2, <1>3, <1>4, StaysWhole DEF WInv

LEMMA FailsWhole ==
  ASSUME Tasks, WInv, NEW s \in Slots, Fails(s),
         UNCHANGED <<link, newLink, dirs, version>>
  PROVE  WInv'
<1>1. SameTask(s) /\ tasks'[s].step = "persist" /\ snaps' = snaps
  BY GoesSame DEF Fails, Quarantines
<1>2. SnapsWhole'
  BY <1>1, StaysWhole DEF WInv
<1>. QED
  BY <1>1, <1>2, SameWhole DEF Switching

\* A task that goes on to any step with nothing but its step changed.
LEMMA GoesWhole ==
  ASSUME Tasks, WInv, NEW s \in Slots, NEW q, Goes(s, q), LinksWhole',
         UNCHANGED <<dirs, version, snaps>>,
         q \in Switching => tasks[s].step \in Switching
  PROVE  WInv'
<1>1. SameTask(s) /\ tasks'[s].step = q
  BY GoesSame
<1>2. SnapsWhole' /\ Whole(version)'
  BY StaysWhole DEF WInv
<1>3. TaskWhole(tasks[s])'
  BY <1>1, StaysWhole DEF WInv, TaskWhole, SameTask
<1>. QED
  BY <1>1, <1>2, <1>3, WholeKept DEF SameTask

\* The snapshot an apply makes is named after the version it runs on.
LEMMA SnapshotWhole ==
  ASSUME SnapsWhole, NEW from, NEW r, Whole(from), snaps' = Snapshot(from, r),
         dirs' = dirs
  PROVE  SnapsWhole'
<1>1. PICK S : snaps \in Seq(S)
  BY DEF SnapsWhole
<1> DEFINE new == [from |-> from, to |-> Tag(r), hist |-> hist]
<1>2. CASE snaps' = Append(snaps, new)
  <2>1. IsSnap(new) /\ new.from = from
    BY DEF IsSnap
  <2> HIDE DEF new
  <2>2. snaps' \in Seq(S \cup {new})
    BY <1>1, <1>2
  <2>3. \A i \in DOMAIN snaps' : snaps'[i] = new \/ (i \in DOMAIN snaps /\ snaps'[i] = snaps[i])
    BY <1>1, <1>2
  <2>4. \A i \in DOMAIN snaps' : IsSnap(snaps'[i]) /\ Whole(snaps'[i].from)
    BY <2>1, <2>3 DEF SnapsWhole
  <2>. QED
    BY <2>2, <2>4 DEF SnapsWhole, Whole
<1>3. ASSUME NEW old,
             snaps' = [i \in DOMAIN snaps |->
                         IF i \in old /\ hist.there THEN [snaps[i] EXCEPT !.hist = hist]
                         ELSE snaps[i]]
      PROVE  SnapsWhole'
  <2>1. \A i \in DOMAIN snaps : IsSnap(snaps'[i]) /\ snaps'[i].from = snaps[i].from
    BY <1>3 DEF SnapsWhole, IsSnap
  <2>2. DOMAIN snaps' = DOMAIN snaps /\ snaps' \in Seq({snaps'[i] : i \in DOMAIN snaps})
    BY <1>1, <1>3
  <2>. QED
    BY <2>1, <2>2 DEF SnapsWhole, Whole
<1>. QED
  BY <1>2, <1>3 DEF Snapshot

\* What is left of a list of snapshots, or not removed yet, was in it.
LEMMA PrunedFrom ==
  ASSUME SnapsWhole, NEW left \in 0..Surplus, snaps' = Pruned(left)
  PROVE  /\ \E S : snaps' \in Seq(S)
         /\ \A i \in DOMAIN snaps' : \E j \in DOMAIN snaps : snaps'[i] = snaps[j]
<1>1. PICK S : snaps \in Seq(S)
  BY DEF SnapsWhole
<1>2. left \in Nat /\ left <= Surplus /\ Surplus \in Nat /\ Surplus <= Len(snaps)
  BY <1>1 DEF Surplus
<1> DEFINE a == SubSeq(snaps, 1, left)
           b == SubSeq(snaps, Surplus + 1, Len(snaps))
<1>3. /\ a \in Seq(S) /\ Len(a) = left
      /\ \A i \in 1..left : a[i] = snaps[i]
  BY <1>1, <1>2
<1>4. /\ b \in Seq(S) /\ Len(b) = Len(snaps) - Surplus
      /\ \A i \in 1..Len(b) : b[i] = snaps[Surplus + i]
  BY <1>1, <1>2
<1>5. snaps' = a \o b
  BY DEF Pruned
<1> HIDE DEF a, b
<1>6. /\ snaps' \in Seq(S) /\ Len(snaps') = Len(a) + Len(b)
      /\ \A i \in 1..Len(snaps') :
           snaps'[i] = IF i <= Len(a) THEN a[i] ELSE b[i - Len(a)]
  BY <1>3, <1>4, <1>5
<1>7. ASSUME NEW i \in DOMAIN snaps'
      PROVE  \E j \in DOMAIN snaps : snaps'[i] = snaps[j]
  <2>1. i \in 1..Len(snaps') /\ DOMAIN snaps = 1..Len(snaps)
    BY <1>1, <1>6
  <2>2. CASE i <= left
    <3>1. i \in DOMAIN snaps /\ snaps'[i] = snaps[i]
      BY <1>1, <1>2, <1>3, <1>6, <2>1, <2>2
    <3>. QED
      BY <3>1
  <2>3. CASE i > left
    <3>1. i - left \in 1..Len(b)
      BY <1>1, <1>2, <1>3, <1>4, <1>6, <2>1, <2>3
    <3>2. Surplus + (i - left) \in DOMAIN snaps
      BY <1>1, <1>2, <1>4, <2>1, <3>1
    <3>3. snaps'[i] = b[i - left]
      BY <1>2, <1>3, <1>6, <2>1, <2>3
    <3>4. b[i - left] = snaps[Surplus + (i - left)]
      BY <1>4, <3>1
    <3>. QED
      BY <3>2, <3>3, <3>4
  <2>. QED
    BY <1>2, <2>1, <2>2, <2>3
<1>. QED
  BY <1>6, <1>7

LEMMA PrunedWhole ==
  ASSUME SnapsWhole, NEW left \in 0..Surplus, snaps' = Pruned(left), dirs' = dirs
  PROVE  SnapsWhole'
<1>1. \A i \in DOMAIN snaps' : \E j \in DOMAIN snaps : snaps'[i] = snaps[j]
  BY PrunedFrom
<1>2. \A i \in DOMAIN snaps' : IsSnap(snaps'[i]) /\ Whole(snaps'[i].from)
  BY <1>1 DEF SnapsWhole
<1>. QED
  BY <1>2, PrunedFrom DEF SnapsWhole, Whole

\* The steps of an apply before the switch leave directories and names alone.
LEMMA PreparesWhole ==
  ASSUME IInv, WInv, NEW s \in Slots, Prepares(s)
  PROVE  WInv'
<1>1. UNCHANGED <<link, newLink, dirs, version>>
  BY DEF Prepares
<1>2. Tasks /\ IsTask(tasks[s]) /\ StepFits(tasks[s])
  BY DEF IInv, Tasks
<1>3. CASE Fails(s)
  BY <1>2, <1>1, <1>3, FailsWhole
<1>4. ASSUME NEW q \in {"check", "migrate", "preflight", "install"},
             Goes(s, q), snaps' = snaps
      PROVE  WInv'
  <2>1. SameTask(s) /\ tasks'[s].step = q
    BY <1>2, <1>4, GoesSame
  <2>2. SnapsWhole'
    BY <1>1, <1>4, StaysWhole DEF WInv
  <2>. QED
    BY <1>1, <2>1, <2>2, SameWhole DEF Switching
<1>5. ASSUME NEW q \in {"build", "migrate", "record"}, NEW h, NEW m, SnapsWhole',
             tasks[s].kind = "apply",
             Becomes(s, Applying(q, tasks[s], tasks[s].from, h, m))
      PROVE  WInv'
  <2>1. SameTask(s) /\ tasks'[s].step = q
    BY <1>2, <1>5, ApplyingSame
  <2>2. tasks'[s].step \notin Switching /\ dirs \subseteq dirs'
    BY <1>1, <2>1 DEF Switching
  <2>. QED
    BY <1>1, <1>5, <2>1, <2>2, SameWhole
<1>6. CASE Checked(s)
  <2>1. CASE /\ tasks' = [tasks EXCEPT ![s].step = "build", ![s].hist = hist.applied]
             /\ snaps' = Snapshot(tasks[s].from, tasks[s].rel)
    <3>1. Becomes(s, Applying("build", tasks[s], tasks[s].from, hist.applied, tasks[s].mig))
      BY <1>2, <1>6, <2>1, CheckedBecomes DEF Checked, StepFits, ApplySteps
    <3>2. SnapsWhole'
      BY <1>1, <2>1, SnapshotWhole DEF WInv, TaskWhole
    <3>. QED
      BY <1>2, <1>5, <1>6, <3>1, <3>2 DEF Checked, StepFits, ApplySteps
  <2>. QED
    BY <1>3, <1>6, <2>1 DEF Checked
<1>7. CASE Migrated(s)
  <2>1. CASE Ends(s) /\ snaps' = snaps
    BY <1>2, <1>1, <2>1, BecomesWhole, IdleWhole, StaysWhole DEF Ends, Becomes, WInv
  <2>2. ASSUME NEW n, snaps' = snaps,
               tasks' = [tasks EXCEPT ![s].step = "record", ![s].mig = n]
        PROVE  WInv'
    <3>1. Becomes(s, Applying("record", tasks[s], tasks[s].from, tasks[s].hist, n))
      BY <1>2, <1>7, <2>2, MigratedBecomes DEF Migrated, StepFits, ApplySteps
    <3>2. SnapsWhole'
      BY <1>1, <2>2, StaysWhole DEF WInv
    <3>. QED
      BY <1>2, <1>5, <1>7, <3>1, <3>2 DEF Migrated, StepFits, ApplySteps
  <2>. QED
    BY <1>3, <1>4, <1>7, <2>1, <2>2 DEF Migrated
<1>8. CASE Recorded(s)
  <2>1. ASSUME NEW h, snaps' = snaps,
               tasks' = [tasks EXCEPT ![s].step = "migrate", ![s].hist = h]
        PROVE  WInv'
    <3>1. Becomes(s, Applying("migrate", tasks[s], tasks[s].from, h, tasks[s].mig))
      BY <1>2, <1>8, <2>1, RecordedBecomes DEF Recorded, StepFits, ApplySteps
    <3>2. SnapsWhole'
      BY <1>1, <2>1, StaysWhole DEF WInv
    <3>. QED
      BY <1>2, <1>5, <1>8, <3>1, <3>2 DEF Recorded, StepFits, ApplySteps
  <2>. QED
    BY <1>3, <1>8, <2>1 DEF Recorded
<1>. QED
  BY <1>3, <1>4, <1>6, <1>7, <1>8 DEF Prepares, Tries

\* The calls that make, remove and rename current.new.
LEMMA NewLinkWhole ==
  ASSUME Tasks, WInv, NEW s \in Slots, NEW q, NEW name, Whole(name),
         UNCHANGED <<dirs, version>>,
         q \in Switching => tasks[s].step \in Switching,
         LinksNew(s, name, q) \/ RemovesNew(s, q) \/ Switches(s, q)
  PROVE  WInv'
<1>1. Goes(s, q) /\ snaps' = snaps
  BY DEF LinksNew, RemovesNew, Switches
<1>2. LinksWhole'
  BY StaysWhole DEF WInv, LinksWhole, LinksNew, RemovesNew, Switches
<1>. QED
  BY <1>1, <1>2, GoesWhole

\* The switch: the directory first, then the link.
LEMMA SwitchWhole ==
  ASSUME Tasks, WInv, NEW s \in Slots, Installs(s) \/ Relinks(s)
  PROVE  WInv'
<1>1. /\ IsTask(tasks[s]) /\ StepFits(tasks[s]) /\ version' = version
      /\ tasks[s].kind = "apply" /\ tasks[s].rel \in Releases
  BY DEF Tasks, Installs, Relinks, StepFits, ApplySteps, WInv, TaskWhole
<1>2. Tag(tasks[s].rel) \in Names
  BY <1>1 DEF Names
<1>3. CASE Fails(s) /\ UNCHANGED <<link, newLink, dirs>>
  BY <1>1, <1>3, FailsWhole
<1>4. CASE /\ dirs' = dirs \cup {Tag(tasks[s].rel)} /\ Goes(s, "relink")
           /\ UNCHANGED <<link, newLink, snaps>>
  <2>1. SameTask(s) /\ SnapsWhole'
    BY <1>4, GoesSame, StaysWhole DEF WInv
  <2>. QED
    BY <1>1, <1>4, <2>1, SameWhole
<1>5. CASE Installs(s)
  BY <1>3, <1>4, <1>5 DEF Installs
<1>6. CASE Relinks(s)
  <2>1. tasks[s].step \in Switching /\ UNCHANGED <<dirs, version>>
    BY <1>6 DEF Relinks, Switching
  <2> DEFINE name == Tag(tasks[s].rel)
  <2>2. Whole(name)
    BY <1>2, <2>1 DEF WInv, TaskWhole, Whole
  <2>3. \A q : LinksNew(s, name, q) => WInv'
    BY <2>1, <2>2, NewLinkWhole
  <2>4. \A q : RemovesNew(s, q) \/ Switches(s, q) => WInv'
    BY <2>1, <2>2, NewLinkWhole
  <2>5. \/ LinksNew(s, name, "switch")
        \/ RemovesNew(s, "again") \/ Switches(s, "restart")
        \/ Fails(s) /\ UNCHANGED <<link, newLink>>
    BY <1>6 DEF Relinks
  <2> HIDE DEF name
  <2>. QED
    BY <1>3, <2>1, <2>3, <2>4, <2>5
<1>. QED
  BY <1>5, <1>6

\* After the restart, if the process is still there.
LEMMA HealthWhole ==
  ASSUME Tasks, WInv, NEW s \in Slots,
         RestartAsked(s) \/ HealthKnown(s) \/ QuarantineSaved(s)
  PROVE  WInv'
<1>1. /\ IsTask(tasks[s]) /\ StepFits(tasks[s])
      /\ tasks[s].kind = "apply" /\ tasks[s].rel \in Releases
  BY DEF Tasks, RestartAsked, HealthKnown, QuarantineSaved, StepFits, ApplySteps,
         WInv, TaskWhole
<1>2. CASE RestartAsked(s)
  <2>1. CASE Fails(s) /\ UNCHANGED <<link, newLink, dirs, version>>
    BY <2>1, FailsWhole
  <2>2. CASE Goes(s, "health") /\ UNCHANGED <<link, newLink, dirs, version, snaps>>
    <3>1. SameTask(s) /\ SnapsWhole' /\ Tag(tasks[s].rel) \in dirs'
      BY <1>2, <2>2, GoesSame, StaysWhole DEF WInv, RestartAsked, TaskWhole, Switching
    <3>. QED
      BY <2>2, <3>1, SameWhole
  <2>. QED
    BY <1>2, <2>1, <2>2, RestartsWhole DEF RestartAsked
<1>3. CASE HealthKnown(s)
  <2>1. CASE /\ version' = Tag(tasks[s].rel)
             /\ Ends(s) \/ Quarantines(s, "persist")
             /\ \E left \in 0..Surplus : snaps' = Pruned(left)
    <3>1. UNCHANGED <<link, newLink, dirs>>
      BY <1>3 DEF HealthKnown
    <3>2. Tag(tasks[s].rel) \in dirs /\ Tag(tasks[s].rel) \in Names
      BY <1>1, <1>3 DEF WInv, TaskWhole, HealthKnown, Names, Switching
    <3>3. Whole(version)' /\ LinksWhole'
      BY <2>1, <3>1, <3>2, StaysWhole DEF Whole, WInv
    <3>4. SnapsWhole'
      BY <2>1, <3>1, PrunedWhole DEF WInv
    <3>5. CASE Ends(s)
      BY <3>1, <3>3, <3>4, <3>5, BecomesWhole, IdleWhole DEF Ends, Becomes
    <3>6. CASE Quarantines(s, "persist")
      <4>1. SameTask(s) /\ tasks'[s].step = "persist"
        BY <3>6, GoesSame DEF Quarantines
      <4>2. TaskWhole(tasks[s])'
        BY <3>1, <4>1, StaysWhole DEF WInv, TaskWhole, SameTask, Switching
      <4>. QED
        BY <3>1, <3>3, <3>4, <4>1, <4>2, WholeKept DEF SameTask
    <3>. QED
      BY <2>1, <3>5, <3>6
  <2>2. CASE Goes(s, "flip") /\ UNCHANGED <<version, snaps>>
    <3>1. UNCHANGED <<link, newLink, dirs>> /\ LinksWhole'
      BY <1>3, StaysWhole DEF HealthKnown, WInv
    <3>. QED
      BY <2>2, <3>1, GoesWhole DEF Switching
  <2>. QED
    BY <1>3, <2>1, <2>2 DEF HealthKnown
<1>4. CASE QuarantineSaved(s)
  <2>1. UNCHANGED <<link, newLink, dirs, version, snaps>> /\ LinksWhole'
    BY <1>4, StaysWhole DEF QuarantineSaved, WInv
  <2>2. CASE Ends(s)
    BY <2>1, <2>2, BecomesWhole, IdleWhole, StaysWhole DEF Ends, Becomes, WInv
  <2>3. CASE Quarantines(s, "persist")
    BY <2>1, <2>3, GoesWhole DEF Quarantines, Switching
  <2>. QED
    BY <1>4, <2>2, <2>3 DEF QuarantineSaved
<1>. QED
  BY <1>2, <1>3, <1>4

\* A rollback points `current` at the version its snapshot was made on.
LEMMA RollbackWhole ==
  ASSUME Tasks, WInv, NEW s \in Slots,
         RollbackFlips(s) \/ RollbackRestores(s) \/ RollbackRestarts(s)
  PROVE  WInv'
<1>1. CASE Restarts
  BY <1>1, RestartsWhole
<1>2. CASE Aborts(s) /\ UNCHANGED <<link, newLink, dirs, version>>
  <2>1. CASE Ends(s) /\ snaps' = snaps
    BY <1>2, <2>1, BecomesWhole, IdleWhole, StaysWhole DEF Ends, Becomes, WInv
  <2>. QED
    BY <1>2, <2>1, FailsWhole DEF Aborts
<1>3. Whole(tasks[s].from) /\ tasks[s].step \in RollbackSteps
  BY DEF WInv, TaskWhole, RollbackFlips, RollbackRestores, RollbackRestarts,
         RollbackSteps
<1>4. CASE RollbackFlips(s)
  <2>1. UNCHANGED <<dirs, version>>
    BY <1>4 DEF RollbackFlips
  <2>2. ASSUME NEW q \in RollbackSteps, \/ LinksNew(s, tasks[s].from, q)
                                       \/ RemovesNew(s, q)
                                       \/ Switches(s, q)
        PROVE  WInv'
    BY <1>3, <2>1, <2>2, NewLinkWhole DEF Switching, RollbackSteps
  <2>. QED
    BY <1>2, <1>4, <2>1, <2>2 DEF RollbackFlips, RollbackSteps
<1>5. CASE RollbackRestores(s)
  <2>1. UNCHANGED <<link, newLink, dirs, version>> /\ LinksWhole'
    BY <1>5, StaysWhole DEF RollbackRestores, WInv
  <2>2. CASE Goes(s, "revive") /\ snaps' = snaps
    BY <2>1, <2>2, GoesWhole DEF Switching
  <2>. QED
    BY <1>2, <1>5, <2>1, <2>2 DEF RollbackRestores
<1>6. CASE RollbackRestarts(s) /\ ~Restarts
  <2>1. UNCHANGED <<link, newLink, dirs, version, snaps>> /\ LinksWhole'
    BY <1>6, StaysWhole DEF RollbackRestarts, WInv
  <2>2. CASE Ends(s)
    BY <2>1, <2>2, BecomesWhole, IdleWhole, StaysWhole DEF Ends, Becomes, WInv
  <2>3. CASE Quarantines(s, "rolled")
    BY <2>1, <2>3, GoesWhole DEF Quarantines, Switching
  <2>. QED
    BY <1>6, <2>2, <2>3 DEF RollbackRestarts
<1>. QED
  BY <1>1, <1>4, <1>5, <1>6

\* A poll, a request or its answer.
LEMMA RequestWhole ==
  ASSUME IInv, SInv, WInv, NEW s \in Slots,
         \/ PollStarts(s) \/ PollAnswered(s) \/ ApplyAnswered(s) \/ RollbackStarts(s)
         \/ \E force \in BOOLEAN : ApplyAvailable(s, force)
  PROVE  WInv'
<1>1. UNCHANGED <<dirs, link, newLink, version, snaps>>
  BY DEF PollStarts, PollAnswered, ApplyAnswered, RollbackStarts, ApplyAvailable, disk
<1>2. SnapsWhole' /\ Whole(version)' /\ Tasks
  BY <1>1, StaysWhole DEF WInv, IInv
<1>3. ASSUME NEW t, TaskWhole(t), tasks' = [tasks EXCEPT ![s] = t]
      PROVE  WInv'
  BY <1>1, <1>2, <1>3, BecomesWhole DEF Becomes
<1>4. CASE Ends(s)
  BY <1>3, <1>4, IdleWhole DEF Ends
<1>5. CASE PollStarts(s)
  BY <1>3, <1>5, IdleWhole DEF PollStarts
<1>6. CASE PollAnswered(s)
  <2> DEFINE t == Task("download", "apply", latest, FALSE, version)
  <2>1. CASE tasks' = [tasks EXCEPT ![s] = t]
    <3>1. t.from = version /\ t.step = "download" /\ t.rel = latest
      BY DEF Task
    <3>2. latest \in Releases
      BY DEF SInv, Times
    <3>3. TaskWhole(t)
      BY <3>1, <3>2 DEF WInv, TaskWhole, Switching
    <3>. QED
      BY <1>3, <2>1, <3>3
  <2>. QED
    BY <1>4, <1>6, <2>1 DEF PollAnswered, AutoApplied, Begin
<1>7. CASE ApplyAnswered(s)
  <2>1. CASE tasks' = [tasks EXCEPT ![s].step = "download", ![s].from = version]
    <3> DEFINE t == Applying("download", tasks[s], version, tasks[s].hist, tasks[s].mig)
    <3>1. tasks' = [tasks EXCEPT ![s] = t]
      BY <1>7, <2>1, DownloadBecomes DEF ApplyAnswered, Becomes
    <3>2. t.from = version /\ t.step = "download" /\ t.rel = tasks[s].rel
      BY DEF Applying
    <3>3. TaskWhole(t)
      BY <1>7, <3>2 DEF ApplyAnswered, WInv, TaskWhole, Switching
    <3>. QED
      BY <1>3, <3>1, <3>3
  <2>. QED
    BY <1>4, <1>7, <2>1 DEF ApplyAnswered
<1>8. CASE RollbackStarts(s)
  <2>1. PICK sn \in ToSet(snaps) :
          tasks' = [tasks EXCEPT ![s] = Task("flip", "rollback", sn.to[2], FALSE, sn.from)]
    BY <1>8 DEF RollbackStarts
  <2> DEFINE t == Task("flip", "rollback", sn.to[2], FALSE, sn.from)
  <2>2. t.from = sn.from /\ t.step = "flip" /\ t.kind = "rollback"
    BY DEF Task
  <2>3. Whole(sn.from)
    BY DEF WInv, SnapsWhole, ToSet
  <2>4. TaskWhole(t)
    BY <2>2, <2>3 DEF TaskWhole, Switching
  <2>. QED
    BY <1>3, <2>1, <2>4
<1>9. ASSUME NEW force \in BOOLEAN, ApplyAvailable(s, force)
      PROVE  WInv'
  <2> DEFINE t == Task("asked", "apply", available.rel, force, Bare(First))
  <2>1. t.from = Bare(First) /\ t.step = "asked" /\ t.rel = available.rel
    BY DEF Task
  <2>2. available.rel \in Releases
    BY <1>9 DEF ApplyAvailable, SInv, Offer
  <2>3. TaskWhole(t)
    BY <2>1, <2>2, BareWhole DEF TaskWhole, Switching
  <2>. QED
    BY <1>3, <1>9, <2>3 DEF ApplyAvailable
<1>. QED
  BY <1>5, <1>6, <1>7, <1>8, <1>9

LEMMA StepWhole == IInv /\ SInv /\ WInv /\ [Next]_vars => WInv'
<1>. SUFFICES ASSUME IInv, SInv, WInv, [Next]_vars PROVE WInv'
  OBVIOUS
<1>1. CASE UNCHANGED <<link, newLink, dirs, version, snaps, tasks>>
  BY <1>1, StaysWhole DEF WInv
<1>2. CASE \/ \E r \in Releases : ClearQuarantine(r) \/ Publish(r)
           \/ Tick \/ UNCHANGED vars
  BY <1>1, <1>2 DEF ClearQuarantine, Publish, Tick, vars, disk
<1>3. CASE Crash
  BY <1>3, RestartsWhole DEF Crash
<1>4. Tasks
  BY DEF IInv
<1>. QED
  BY <1>2, <1>3, <1>4, PreparesWhole, SwitchWhole, HealthWhole, RollbackWhole,
     RequestWhole DEF Next, Continues

LEMMA StartWhole == Init => WInv
<1>. SUFFICES ASSUME Init PROVE WInv
  OBVIOUS
<1>1. LinksWhole /\ Whole(version)
  BY BareWhole DEF Init, LinksWhole, Whole, Names
<1>2. SnapsWhole
  BY DEF Init, SnapsWhole
<1>. QED
  BY <1>1, <1>2, IdleWhole DEF Init, WInv

\* `current` leads to a release that is there, whatever fails or dies during
\* an apply; only a rollback can point it at a name without its "v".
THEOREM CurrentLeads == Spec => []LinkWhole
<1>1. Init => IInv /\ SInv /\ WInv
  BY Start, StartUnseen, StartWhole
<1>2. (IInv /\ SInv /\ WInv) /\ [Next]_vars => (IInv /\ SInv /\ WInv)'
  BY Step, StepOnTime, StepWhole
<1>3. WInv => LinkWhole
  BY DEF WInv, LinksWhole, Whole, LinkWhole
<1>. QED
  BY <1>1, <1>2, <1>3, PTL DEF Spec

------------------------------------------------------------------------------
(* Types *)

\* What is left of the types once the lock and the names are known.
Sets ==
  /\ dirs \subseteq Names /\ up \in BOOLEAN
  /\ quar \subseteq Releases /\ quarFile \subseteq Releases

\* Only a failed apply adds to the quarantine, and it is of a release.
LEMMA StepSets == IInv /\ WInv /\ Sets /\ [Next]_vars => Sets'
<1>. SUFFICES ASSUME IInv, WInv, Sets, [Next]_vars PROVE Sets'
  OBVIOUS
<1>1. \A s \in Slots : tasks[s].kind = "apply" => tasks[s].rel \in Releases
  BY DEF WInv, TaskWhole
<1>2. \A s \in Slots : tasks[s].step \in ApplySteps => tasks[s].kind = "apply"
  BY KindOfStep
<1>3. CASE UNCHANGED <<dirs, up, quar, quarFile>>
  BY <1>3 DEF Sets
<1>4. CASE Restarts
  BY <1>4 DEF Restarts, Sets, disk
<1>5. ASSUME NEW s \in Slots, Fails(s), tasks[s].kind = "apply",
             UNCHANGED <<dirs, up, quarFile>>
      PROVE  Sets'
  BY <1>1, <1>5 DEF Fails, Quarantines, Sets
<1>6. ASSUME NEW s \in Slots, Prepares(s) PROVE Sets'
  <2>1. tasks[s].kind = "apply"
    BY <1>2, <1>6 DEF Prepares, Tries, Checked, Migrated, Recorded, ApplySteps
  <2>. QED
    BY <1>3, <1>5, <1>6, <2>1 DEF Prepares, Tries, Checked, Migrated, Recorded
<1>7. ASSUME NEW s \in Slots, Installs(s) \/ Relinks(s) \/ RestartAsked(s) PROVE Sets'
  <2>1. tasks[s].kind = "apply"
    BY <1>2, <1>7 DEF Installs, Relinks, RestartAsked, ApplySteps
  <2>2. Tag(tasks[s].rel) \in Names
    BY <1>1, <2>1 DEF Names
  <2>3. CASE dirs' = dirs \cup {Tag(tasks[s].rel)} /\ UNCHANGED <<up, quar, quarFile>>
    BY <2>2, <2>3 DEF Sets
  <2>. QED
    BY <1>3, <1>4, <1>5, <1>7, <2>1, <2>3
    DEF Installs, Relinks, LinksNew, RemovesNew, Switches, RestartAsked
<1>8. ASSUME NEW s \in Slots, HealthKnown(s) \/ QuarantineSaved(s) PROVE Sets'
  <2>1. tasks[s].rel \in Releases
    BY <1>1, <1>2, <1>8 DEF HealthKnown, QuarantineSaved, ApplySteps
  <2>. QED
    BY <1>8, <2>1 DEF HealthKnown, QuarantineSaved, Quarantines, Sets
<1>9. ASSUME NEW s \in Slots,
             RollbackFlips(s) \/ RollbackRestores(s) \/ RollbackRestarts(s)
      PROVE  Sets'
  <2>1. CASE RollbackFlips(s) \/ RollbackRestores(s)
    BY <1>3, <1>5, <2>1
    DEF RollbackFlips, RollbackRestores, LinksNew, RemovesNew, Switches, Aborts
  <2>2. CASE RollbackRestarts(s)
    BY <1>1, <1>3, <1>4, <2>2 DEF RollbackRestarts, Quarantines, Sets
  <2>. QED
    BY <1>9, <2>1, <2>2
<1>10. ASSUME NEW s \in Slots,
              \/ PollStarts(s) \/ PollAnswered(s) \/ ApplyAnswered(s)
              \/ RollbackStarts(s) \/ \E force \in BOOLEAN : ApplyAvailable(s, force)
       PROVE  Sets'
  BY <1>3, <1>10
  DEF PollStarts, PollAnswered, ApplyAnswered, RollbackStarts, ApplyAvailable, disk
<1>11. ASSUME NEW r \in Releases, ClearQuarantine(r) \/ Publish(r) PROVE Sets'
  BY <1>11 DEF ClearQuarantine, Publish, Sets, disk
<1>. QED
  BY <1>3, <1>4, <1>6, <1>7, <1>8, <1>9, <1>10, <1>11
  DEF Next, Continues, Crash, Tick, vars, disk

\* Type correctness of the updater, with the lock taken exactly when there is
\* an apply in flight.
THEOREM TypeCorrect == Spec => []TypeOK
<1>1. Init => IInv /\ SInv /\ WInv /\ Sets
  <2>1. Init => Sets
    BY DEF Init, Sets, Names
  <2>. QED
    BY <2>1, Start, StartUnseen, StartWhole
<1>2. (IInv /\ SInv /\ WInv /\ Sets) /\ [Next]_vars => (IInv /\ SInv /\ WInv /\ Sets)'
  BY Step, StepOnTime, StepWhole, StepSets
<1>3. IInv /\ SInv /\ WInv /\ Sets => TypeOK
  <2>. SUFFICES ASSUME IInv, SInv, WInv, Sets PROVE TypeOK
    OBVIOUS
  <2>1. available.rel \in Releases \cup {NoRelease}
    BY DEF SInv, Offer, None
  <2>2. latest \in Releases /\ now \in Nat /\ busy \in BOOLEAN
        /\ (busy <=> \E s \in Slots : Locks(s))
    BY DEF SInv, Times, IInv, Lock
  <2>. QED
    BY <2>1, <2>2 DEF WInv, LinksWhole, Whole, Sets, TypeOK
<1>. QED
  BY <1>1, <1>2, <1>3, PTL DEF Spec

------------------------------------------------------------------------------
(* The quarantine *)

\* The release an apply waits to hear of is not quarantined: only an apply
\* could have done that meanwhile, and the lock admits no other.
QInv ==
  \A s \in Slots :
    tasks[s].kind = "apply" /\ tasks[s].step = "asked" => tasks[s].rel \notin quar

Skipped ==
  \A s \in Slots :
    tasks[s].step = "asked" /\ tasks'[s].step = "download" => tasks'[s].rel \notin quar

\* A quarantine grows when an apply fails, or memory starts over.
LEMMA QuarantineGrows ==
  ASSUME IInv, OtherAction
  PROVE  \/ quar' \subseteq quar
         \/ \E s \in Slots :
              tasks[s].kind = "apply" /\ tasks'[s].step \in {"persist", "rolled"}
         \/ \A s \in Slots : tasks'[s] = Idle
<1> DEFINE Goal ==
         \/ quar' \subseteq quar
         \/ \E s \in Slots :
              tasks[s].kind = "apply" /\ tasks'[s].step \in {"persist", "rolled"}
         \/ \A s \in Slots : tasks'[s] = Idle
<1>1. CASE Restarts
  BY <1>1 DEF Restarts
<1>2. ASSUME NEW s \in Slots, tasks[s].kind = "apply",
             \/ Fails(s)
             \/ \E q \in {"persist", "rolled"} : Quarantines(s, q)
      PROVE  Goal
  BY <1>2, GoesSame DEF Fails, Quarantines, IInv
<1>3. ASSUME NEW s \in Slots, Prepares(s) \/ Installs(s) \/ Relinks(s) \/ RestartAsked(s)
      PROVE  Goal
  <2>1. tasks[s].kind = "apply"
    BY <1>3, KindOfStep DEF Prepares, Tries, Checked, Migrated, Recorded, Installs,
                            Relinks, RestartAsked, ApplySteps
  <2>. QED
    BY <1>1, <1>2, <1>3, <2>1
    DEF Prepares, Tries, Checked, Migrated, Recorded, Installs, Relinks, LinksNew,
        RemovesNew, Switches, RestartAsked
<1>4. ASSUME NEW s \in Slots,
             RollbackFlips(s) \/ RollbackRestores(s) \/ RollbackRestarts(s)
      PROVE  Goal
  BY <1>1, <1>2, <1>4
  DEF RollbackFlips, RollbackRestores, RollbackRestarts, LinksNew, RemovesNew,
      Switches, Aborts
<1>5. ASSUME NEW s \in Slots,
             PollStarts(s) \/ RollbackStarts(s) \/ HealthKnown(s) \/ QuarantineSaved(s)
      PROVE  Goal
  <2>1. HealthKnown(s) \/ QuarantineSaved(s) => tasks[s].kind = "apply"
    BY KindOfStep DEF HealthKnown, QuarantineSaved, ApplySteps
  <2>. QED
    BY <1>2, <1>5, <2>1 DEF PollStarts, RollbackStarts, HealthKnown, QuarantineSaved
<1>6. CASE \/ \E r \in Releases : ClearQuarantine(r) \/ Publish(r)
           \/ Tick \/ UNCHANGED vars
  BY <1>6 DEF ClearQuarantine, Publish, Tick, vars
<1>. QED
  BY <1>1, <1>3, <1>4, <1>5, <1>6 DEF OtherAction, Crash

LEMMA OtherActionsSkip == ASSUME IInv, QInv, OtherAction PROVE QInv' /\ Skipped
<1>1. IInv' /\ NoRequest
  BY OtherActionsKeep DEF Kept
<1>2. Skipped
  BY <1>1 DEF Skipped, NoRequest, IInv, Tasks, StepFits, ApplySteps
<1>3. \A r \in Slots :
        tasks'[r].kind = "apply" /\ tasks'[r].step = "asked" => tasks'[r] = tasks[r]
  BY <1>1 DEF NoRequest
<1>. SUFFICES ASSUME NEW r \in Slots, tasks'[r].kind = "apply", tasks'[r].step = "asked"
              PROVE  tasks'[r].rel \notin quar'
  BY <1>2 DEF QInv
<1>4. tasks'[r] = tasks[r] /\ tasks[r].rel \notin quar /\ tasks[r].kind = "apply"
  BY <1>3 DEF QInv
<1>5. ASSUME NEW s \in Slots, tasks[s].kind = "apply",
             tasks'[s].step \in {"persist", "rolled"}
      PROVE  FALSE
  <2>1. s = r
    BY <1>4, <1>5 DEF IInv, Lock, OneApply, Locks
  <2>. QED
    BY <1>5, <2>1
<1>6. quar' \subseteq quar
  BY <1>5, QuarantineGrows, IdleIsTask
<1>. QED
  BY <1>4, <1>6

\* A request, a poll and their answers leave the quarantine as it is.
LEMMA RequestsSkip ==
  ASSUME IInv, QInv, NEW s \in Slots,
         \/ PollAnswered(s) \/ ApplyAnswered(s)
         \/ \E force \in BOOLEAN : ApplyAvailable(s, force)
  PROVE  QInv' /\ Skipped
<1>1. quar' = quar
  BY DEF PollAnswered, ApplyAnswered, ApplyAvailable
<1>2. ASSUME NEW t, Becomes(s, t),
             t.kind = "apply" /\ t.step \in {"asked", "download"} => t.rel \notin quar,
             t.step = "download" => t.kind = "apply"
      PROVE  QInv' /\ Skipped
  <2>1. tasks'[s] = t /\ \A r \in Slots \ {s} : tasks'[r] = tasks[r]
    BY <1>2 DEF Becomes, IInv, Tasks
  <2>2. QInv'
    BY <1>1, <1>2, <2>1 DEF QInv
  <2>3. Skipped
    BY <1>2, <2>1 DEF Skipped
  <2>. QED
    BY <2>2, <2>3
<1>3. CASE Ends(s)
  BY <1>2, <1>3, IdleIsTask DEF Ends, Becomes
<1>4. CASE PollAnswered(s)
  <2> DEFINE t == Task("download", "apply", latest, FALSE, version)
  <2>1. CASE Becomes(s, t) /\ ~NotWanted(latest)
    <3>1. t.kind = "apply" /\ t.step = "download" /\ t.rel \notin quar
      BY <2>1 DEF Task, NotWanted
    <3>. QED
      BY <1>2, <2>1, <3>1
  <2>. QED
    BY <1>3, <1>4, <2>1 DEF PollAnswered, AutoApplied, Begin, Becomes
<1>5. CASE ApplyAnswered(s)
  <2>1. CASE tasks' = [tasks EXCEPT ![s].step = "download", ![s].from = version]
    <3> DEFINE t == Applying("download", tasks[s], version, tasks[s].hist, tasks[s].mig)
    <3>1. Becomes(s, t)
      BY <1>5, <2>1, DownloadBecomes DEF ApplyAnswered
    <3>2. t.kind = "apply" /\ t.rel \notin quar
      BY <1>5 DEF ApplyAnswered, QInv, Applying
    <3>. QED
      BY <1>2, <3>1, <3>2
  <2>. QED
    BY <1>3, <1>5, <2>1 DEF ApplyAnswered
<1>6. ASSUME NEW force \in BOOLEAN, ApplyAvailable(s, force)
      PROVE  QInv' /\ Skipped
  <2> DEFINE t == Task("asked", "apply", available.rel, force, Bare(First))
  <2>1. Becomes(s, t) /\ available.rel \notin quar
    BY <1>6 DEF ApplyAvailable, Becomes
  <2>2. t.step = "asked" /\ t.rel = available.rel
    BY DEF Task
  <2>. QED
    BY <1>2, <2>1, <2>2
<1>. QED
  BY <1>4, <1>5, <1>6

\* A release that failed is not applied again until it is cleared, by a poll
\* or by a request that waited for its answer, for any number of tasks.
THEOREM FailedNotRetried == Spec => QuarantinedSkipped
<1>1. Init => IInv /\ QInv
  BY Start, IdleIsTask DEF Init, QInv
<1>2. (IInv /\ QInv) /\ [Next]_vars => (IInv /\ QInv)' /\ Skipped
  BY Step, Actions, OtherActionsSkip, RequestsSkip
<1>3. IInv /\ QInv /\ [Next]_vars => [Skipped]_vars
  BY <1>2
<1>4. Spec => [][Skipped]_vars
  BY <1>1, <1>2, <1>3, PTL DEF Spec
<1>. QED
  BY <1>4 DEF QuarantinedSkipped, Skipped

------------------------------------------------------------------------------
(* What migrations.json records *)

\* The steps at which an apply goes by the history it has loaded.
MidSteps == {"build", "migrate", "record"}

OwnSnap(t, sn) == sn.from = t.from /\ sn.to = Tag(t.rel)

\* An apply knows of every migration that is recorded, in the file and in the
\* snapshot it has made, unless the file is that of another snapshot.
Agrees(t) ==
  /\ \A i \in DOMAIN snaps : OwnSnap(t, snaps[i]) => snaps[i].hist.applied \subseteq t.hist
  /\ \/ hist.applied \subseteq t.hist
     \/ \E i \in DOMAIN snaps : ~OwnSnap(t, snaps[i]) /\ hist = snaps[i].hist

\* A file that is not there records nothing, and once there it stays.
FileSound ==
  /\ ~hist.there => hist.applied = {}
  /\ \A i \in DOMAIN snaps :
       /\ snaps[i].hist.there => hist.there
       /\ ~snaps[i].hist.there => snaps[i].hist.applied = {}

HInv == FileSound /\ \A s \in Slots : tasks[s].step \in MidSteps => Agrees(tasks[s])

\* Who goes by a loaded history did so before, by the same one.
Carried ==
  \A s \in Slots :
    tasks'[s].step \in MidSteps =>
      /\ tasks[s].step \in MidSteps
      /\ tasks'[s].from = tasks[s].from
      /\ tasks'[s].rel = tasks[s].rel
      /\ tasks'[s].hist = tasks[s].hist

Quiet == Carried /\ UNCHANGED <<hist, snaps>>

NotRerun ==
  \A s \in Slots :
    tasks[s].step = "migrate" /\ tasks'[s].step = "record"
    => \/ tasks'[s].mig \notin Numbers(hist.applied)
       \/ \E i \in DOMAIN snaps : ~OwnSnap(tasks[s], snaps[i]) /\ hist = snaps[i].hist

LEMMA QuietKeeps == ASSUME HInv, Quiet PROVE HInv'
<1>1. FileSound'
  BY DEF HInv, FileSound, Quiet
<1>2. ASSUME NEW s \in Slots, tasks'[s].step \in MidSteps PROVE Agrees(tasks[s])'
  BY <1>2 DEF HInv, Agrees, OwnSnap, Quiet, Carried
<1>. QED
  BY <1>1, <1>2 DEF HInv

\* A task that goes on, or becomes another one, away from those steps.
LEMMA BecomesCarries ==
  ASSUME Tasks, NEW s \in Slots, NEW t, Becomes(s, t), t.step \notin MidSteps
  PROVE  Carried
BY DEF Becomes, Tasks, Carried

LEMMA GoesCarries ==
  ASSUME Tasks, NEW s \in Slots, NEW q, Goes(s, q),
         q \in MidSteps => tasks[s].step \in MidSteps
  PROVE  Carried
<1>1. tasks'[s] = [tasks[s] EXCEPT !.step = q] /\ IsTask(tasks[s])
  BY DEF Goes, Tasks
<1>2. \A r \in Slots \ {s} : tasks'[r] = tasks[r]
  BY DEF Goes, Tasks
<1>. QED
  BY <1>1, <1>2 DEF Carried, IsTask

LEMMA FailsQuiet ==
  ASSUME Tasks, NEW s \in Slots, Fails(s)
  PROVE  Quiet
BY GoesCarries DEF Fails, Quarantines, Quiet, MidSteps

LEMMA EndsCarries ==
  ASSUME Tasks, NEW s \in Slots, Ends(s)
  PROVE  Carried
BY BecomesCarries, IdleIsTask DEF Ends, Becomes, MidSteps

LEMMA RestartsQuiet == ASSUME Restarts PROVE Quiet
<1>1. \A s \in Slots : tasks'[s].step = "idle"
  BY IdleIsTask DEF Restarts
<1>. QED
  BY <1>1 DEF Restarts, Quiet, Carried, MidSteps, disk

LEMMA AbortsQuiet ==
  ASSUME Tasks, NEW s \in Slots, Aborts(s)
  PROVE  Quiet
BY FailsQuiet, EndsCarries DEF Aborts, Quiet

\* The snapshot an apply makes holds what it has just loaded, or nothing.
LEMMA SnapshotSound ==
  ASSUME SnapsWhole, FileSound, NEW from, NEW r, snaps' = Snapshot(from, r), hist' = hist
  PROVE  /\ FileSound'
         /\ \A i \in DOMAIN snaps' :
              snaps'[i].from = from /\ snaps'[i].to = Tag(r)
              => snaps'[i].hist.applied \subseteq hist.applied
<1> DEFINE new == [from |-> from, to |-> Tag(r), hist |-> hist]
           old == {i \in DOMAIN snaps : snaps[i].from = from /\ snaps[i].to = Tag(r)}
<1>1. PICK S : snaps \in Seq(S)
  BY DEF SnapsWhole
<1>2. CASE snaps' = Append(snaps, new) /\ old = {}
  <2>1. new.hist = hist
    OBVIOUS
  <2>2. \A i \in DOMAIN snaps : ~(snaps[i].from = from /\ snaps[i].to = Tag(r))
    BY <1>2
  <2>3. \A i \in DOMAIN snaps' : snaps'[i] = new \/ (i \in DOMAIN snaps /\ snaps'[i] = snaps[i])
    <3> HIDE DEF new
    <3>. QED
      BY <1>1, <1>2
  <2> HIDE DEF new, old
  <2>. QED
    BY <2>1, <2>2, <2>3 DEF FileSound
<1>3. CASE snaps' = [i \in DOMAIN snaps |->
                       IF i \in old /\ hist.there THEN [snaps[i] EXCEPT !.hist = hist]
                       ELSE snaps[i]]
  <2>1. DOMAIN snaps' = DOMAIN snaps
    BY <1>3
  <2>2. ASSUME NEW i \in DOMAIN snaps
        PROVE  /\ snaps'[i].from = snaps[i].from /\ snaps'[i].to = snaps[i].to
               /\ snaps'[i].hist = IF i \in old /\ hist.there THEN hist ELSE snaps[i].hist
    <3>1. IsSnap(snaps[i])
      BY DEF SnapsWhole
    <3>2. snaps'[i] = IF i \in old /\ hist.there THEN [snaps[i] EXCEPT !.hist = hist]
                      ELSE snaps[i]
      BY <1>3
    <3>. QED
      BY <3>1, <3>2 DEF IsSnap
  <2>3. \A i \in DOMAIN snaps : i \in old <=> snaps[i].from = from /\ snaps[i].to = Tag(r)
    OBVIOUS
  <2> HIDE DEF old
  <2>4. FileSound'
    BY <2>1, <2>2 DEF FileSound
  <2>. QED
    BY <2>1, <2>2, <2>3, <2>4 DEF FileSound
<1>. QED
  BY <1>2, <1>3 DEF Snapshot

\* What an apply has loaded is what it goes by, in the file and in its snapshot.
LEMMA CheckedAgrees ==
  ASSUME IInv, WInv, HInv, NEW s \in Slots, tasks[s].step = "check", hist' = hist,
         snaps' = Snapshot(tasks[s].from, tasks[s].rel),
         tasks' = [tasks EXCEPT ![s].step = "build", ![s].hist = hist.applied]
  PROVE  HInv'
<1>1. tasks[s].kind = "apply" /\ Tasks
  BY KindOfStep DEF ApplySteps, IInv
<1>2. Becomes(s, Applying("build", tasks[s], tasks[s].from, hist.applied, tasks[s].mig))
  BY <1>1, CheckedBecomes
<1>3. /\ tasks'[s] = Applying("build", tasks[s], tasks[s].from, hist.applied, tasks[s].mig)
      /\ \A r \in Slots \ {s} : tasks'[r] = tasks[r]
  BY <1>1, <1>2 DEF Becomes, Tasks
<1>4. /\ tasks'[s].from = tasks[s].from /\ tasks'[s].rel = tasks[s].rel
      /\ tasks'[s].hist = hist.applied
  BY <1>3 DEF Applying
<1>5. FileSound' /\ Agrees(tasks[s])'
  <2>1. /\ FileSound'
        /\ \A i \in DOMAIN snaps' :
             snaps'[i].from = tasks[s].from /\ snaps'[i].to = Tag(tasks[s].rel)
             => snaps'[i].hist.applied \subseteq hist.applied
    BY SnapshotSound DEF WInv, HInv
  <2>2. Agrees(tasks[s])'
    BY <1>4, <2>1 DEF Agrees, OwnSnap
  <2>. QED
    BY <2>1, <2>2
<1>6. ASSUME NEW r \in Slots \ {s} PROVE tasks'[r].step \notin MidSteps
  BY <1>1, <1>3, KindOfStep DEF IInv, Lock, OneApply, Locks, MidSteps, ApplySteps
<1>. QED
  BY <1>5, <1>6 DEF HInv

\* The history of an apply, once saved, is the file.
LEMMA RecordedAgrees ==
  ASSUME IInv, HInv, NEW s \in Slots, tasks[s].step = "record", NEW h,
         hist' = [there |-> TRUE, applied |-> h], tasks[s].hist \subseteq h, snaps' = snaps,
         tasks' = [tasks EXCEPT ![s].step = "migrate", ![s].hist = h]
  PROVE  HInv'
<1>1. tasks[s].kind = "apply" /\ Tasks
  BY KindOfStep DEF ApplySteps, IInv
<1>2. Becomes(s, Applying("migrate", tasks[s], tasks[s].from, h, tasks[s].mig))
  BY <1>1, RecordedBecomes
<1>3. /\ tasks'[s] = Applying("migrate", tasks[s], tasks[s].from, h, tasks[s].mig)
      /\ \A r \in Slots \ {s} : tasks'[r] = tasks[r]
  BY <1>1, <1>2 DEF Becomes, Tasks
<1>4. /\ tasks'[s].from = tasks[s].from /\ tasks'[s].rel = tasks[s].rel
      /\ tasks'[s].hist = h
  BY <1>3 DEF Applying
<1>5. Agrees(tasks[s])
  BY DEF HInv, MidSteps
<1>6. Agrees(tasks[s])'
  BY <1>4, <1>5 DEF Agrees, OwnSnap
<1>7. FileSound'
  BY DEF HInv, FileSound
<1>8. ASSUME NEW r \in Slots \ {s} PROVE tasks'[r].step \notin MidSteps
  BY <1>1, <1>3, KindOfStep DEF IInv, Lock, OneApply, Locks, MidSteps, ApplySteps
<1>. QED
  BY <1>6, <1>7, <1>8 DEF HInv

\* A rollback puts back the file of a snapshot, whoever else is under way.
LEMMA RestoresAgrees ==
  ASSUME HInv, Carried, snaps' = snaps, NEW i \in DOMAIN snaps, snaps[i].hist.there,
         hist' = snaps[i].hist
  PROVE  HInv'
<1>1. FileSound'
  BY DEF HInv, FileSound
<1>2. ASSUME NEW s \in Slots, tasks'[s].step \in MidSteps PROVE Agrees(tasks[s])'
  <2>1. Agrees(tasks[s]) /\ \A sn : OwnSnap(tasks[s], sn)' <=> OwnSnap(tasks[s], sn)
    BY <1>2 DEF HInv, Carried, OwnSnap
  <2>2. tasks'[s].hist = tasks[s].hist
    BY <1>2 DEF Carried
  <2>. QED
    BY <2>1, <2>2 DEF Agrees, OwnSnap
<1>. QED
  BY <1>1, <1>2 DEF HInv

\* Old snapshots are removed when an apply has done its work, and no other one
\* goes on.
LEMMA PrunedAgrees ==
  ASSUME IInv, WInv, HInv, NEW s \in Slots, tasks[s].kind = "apply", hist' = hist,
         Ends(s) \/ Quarantines(s, "persist"),
         NEW left \in 0..Surplus, snaps' = Pruned(left)
  PROVE  HInv'
<1>1. \A r \in Slots : tasks'[r].step \notin MidSteps
  <2>1. /\ tasks'[s].step \in {"idle", "persist"}
        /\ \A r \in Slots \ {s} : tasks'[r] = tasks[r]
    BY TaskEnds, GoesSame DEF IInv, Quarantines, SameTask
  <2>2. ASSUME NEW r \in Slots \ {s} PROVE tasks'[r].step \notin MidSteps
    BY <2>1, KindOfStep DEF IInv, Lock, OneApply, Locks, MidSteps, ApplySteps
  <2>. QED
    BY <2>1, <2>2 DEF MidSteps
<1>2. \A i \in DOMAIN snaps' : \E j \in DOMAIN snaps : snaps'[i] = snaps[j]
  BY PrunedFrom DEF WInv
<1>3. FileSound'
  BY <1>2 DEF HInv, FileSound
<1>. QED
  BY <1>1, <1>3 DEF HInv

LEMMA PreparesAgrees ==
  ASSUME IInv, WInv, HInv, NEW s \in Slots, Prepares(s)
  PROVE  HInv'
<1>1. Tasks
  BY DEF IInv
<1>2. CASE Fails(s)
  BY <1>1, <1>2, FailsQuiet, QuietKeeps
<1>3. CASE Tries(s, "download", "check") \/ Tries(s, "build", "migrate")
             \/ Tries(s, "preflight", "install")
  <2>1. ASSUME NEW p, NEW q, tasks[s].step = p, Goes(s, q), UNCHANGED <<hist, snaps>>,
               q \in MidSteps => p \in MidSteps
        PROVE  HInv'
    BY <1>1, <2>1, GoesCarries, QuietKeeps DEF Quiet
  <2>. QED
    BY <1>2, <1>3, <2>1 DEF Tries, MidSteps
<1>4. CASE Checked(s)
  BY <1>2, <1>4, CheckedAgrees DEF Checked
<1>5. CASE Migrated(s)
  <2>1. CASE Goes(s, "preflight") /\ UNCHANGED <<hist, snaps>>
    BY <1>1, <2>1, GoesCarries, QuietKeeps DEF Quiet, MidSteps
  <2>2. CASE Ends(s) /\ UNCHANGED <<hist, snaps>>
    BY <1>1, <2>2, EndsCarries, QuietKeeps DEF Quiet
  <2>3. ASSUME NEW n, UNCHANGED <<hist, snaps>>,
               tasks' = [tasks EXCEPT ![s].step = "record", ![s].mig = n]
        PROVE  HInv'
    <3>1. Becomes(s, Applying("record", tasks[s], tasks[s].from, tasks[s].hist, n))
      BY <1>5, <2>3, KindOfStep, MigratedBecomes DEF Migrated, ApplySteps
    <3>2. /\ tasks'[s] = Applying("record", tasks[s], tasks[s].from, tasks[s].hist, n)
          /\ \A r \in Slots \ {s} : tasks'[r] = tasks[r]
      BY <1>1, <3>1 DEF Becomes, Tasks
    <3>3. Carried
      BY <1>5, <3>2 DEF Carried, Applying, Migrated, MidSteps
    <3>. QED
      BY <2>3, <3>3, QuietKeeps DEF Quiet
  <2>. QED
    BY <1>2, <1>5, <2>1, <2>2, <2>3 DEF Migrated
<1>6. CASE Recorded(s)
  <2>1. ASSUME NEW h, tasks[s].hist \subseteq h, snaps' = snaps,
               hist' = [there |-> TRUE, applied |-> h],
               tasks' = [tasks EXCEPT ![s].step = "migrate", ![s].hist = h]
        PROVE  HInv'
    BY <1>6, <2>1, RecordedAgrees DEF Recorded
  <2> DEFINE h == tasks[s].hist \cup {<<tasks[s].mig, Migs[tasks[s].rel][tasks[s].mig]>>}
  <2>2. tasks[s].hist \subseteq h
    OBVIOUS
  <2>. QED
    BY <1>2, <1>6, <2>1, <2>2 DEF Recorded
<1>. QED
  BY <1>3, <1>4, <1>5, <1>6 DEF Prepares

LEMMA SwitchAgrees ==
  ASSUME IInv, WInv, HInv, NEW s \in Slots,
         Installs(s) \/ Relinks(s) \/ RestartAsked(s) \/ HealthKnown(s) \/ QuarantineSaved(s)
  PROVE  HInv'
<1>1. Tasks
  BY DEF IInv
<1>2. CASE Fails(s)
  BY <1>1, <1>2, FailsQuiet, QuietKeeps
<1>3. ASSUME NEW q, Goes(s, q), UNCHANGED <<hist, snaps>>, q \notin MidSteps PROVE HInv'
  BY <1>1, <1>3, GoesCarries, QuietKeeps DEF Quiet
<1>4. CASE Installs(s) \/ Relinks(s)
  BY <1>2, <1>3, <1>4 DEF Installs, Relinks, LinksNew, RemovesNew, Switches, MidSteps
<1>5. CASE RestartAsked(s)
  BY <1>2, <1>3, <1>5, RestartsQuiet, QuietKeeps DEF RestartAsked, MidSteps
<1>6. CASE HealthKnown(s)
  <2>1. tasks[s].kind = "apply"
    BY <1>6, KindOfStep DEF HealthKnown, ApplySteps
  <2>2. CASE Goes(s, "flip") /\ UNCHANGED <<hist, snaps>>
    BY <1>3, <2>2 DEF MidSteps
  <2>3. ASSUME NEW left \in 0..Surplus, snaps' = Pruned(left), hist' = hist,
               Ends(s) \/ Quarantines(s, "persist")
        PROVE  HInv'
    BY <2>1, <2>3, PrunedAgrees
  <2>. QED
    BY <1>6, <2>2, <2>3 DEF HealthKnown, Quarantines
<1>7. CASE QuarantineSaved(s)
  BY <1>1, <1>3, <1>7, EndsCarries, QuietKeeps
  DEF QuarantineSaved, Quarantines, Quiet, MidSteps
<1>. QED
  BY <1>4, <1>5, <1>6, <1>7

LEMMA RollbackAgrees ==
  ASSUME IInv, HInv, NEW s \in Slots,
         \/ RollbackStarts(s) \/ RollbackFlips(s) \/ RollbackRestores(s)
         \/ RollbackRestarts(s)
  PROVE  HInv'
<1>1. Tasks
  BY DEF IInv
<1>2. CASE Aborts(s)
  BY <1>1, <1>2, AbortsQuiet, QuietKeeps
<1>3. ASSUME NEW q, Goes(s, q), q \notin MidSteps PROVE Carried
  BY <1>1, <1>3, GoesCarries
<1>4. CASE RollbackStarts(s)
  <2>1. PICK sn : tasks' = [tasks EXCEPT ![s] =
                              Task("flip", "rollback", sn.to[2], FALSE, sn.from)]
    BY <1>4 DEF RollbackStarts
  <2>2. Task("flip", "rollback", sn.to[2], FALSE, sn.from).step = "flip"
    BY DEF Task
  <2>3. Carried
    BY <1>1, <2>1, <2>2, BecomesCarries DEF Becomes, MidSteps
  <2>. QED
    BY <1>4, <2>3, QuietKeeps DEF RollbackStarts, Quiet, disk
<1>5. CASE RollbackFlips(s)
  BY <1>2, <1>3, <1>5, QuietKeeps
  DEF RollbackFlips, LinksNew, RemovesNew, Switches, Quiet, MidSteps
<1>6. CASE RollbackRestores(s)
  <2>1. CASE Goes(s, "revive") /\ snaps' = snaps
    <3>1. Carried
      BY <1>3, <2>1 DEF MidSteps
    <3>2. CASE hist' = hist
      BY <2>1, <3>1, <3>2, QuietKeeps DEF Quiet
    <3>3. ASSUME NEW i \in DOMAIN snaps, snaps[i].hist.there, hist' = snaps[i].hist
          PROVE  HInv'
      BY <2>1, <3>1, <3>3, RestoresAgrees
    <3>4. CASE \E sn \in ToSet(snaps) : sn.hist.there /\ hist' = sn.hist
      BY <3>3, <3>4 DEF ToSet
    <3>. QED
      BY <1>2, <1>6, <3>2, <3>4 DEF RollbackRestores
  <2>. QED
    BY <1>2, <1>6, <2>1 DEF RollbackRestores
<1>7. CASE RollbackRestarts(s)
  BY <1>1, <1>3, <1>7, EndsCarries, RestartsQuiet, QuietKeeps
  DEF RollbackRestarts, Quarantines, Quiet, MidSteps
<1>. QED
  BY <1>4, <1>5, <1>6, <1>7

LEMMA RequestsAgree ==
  ASSUME IInv, HInv, NEW s \in Slots,
         \/ PollStarts(s) \/ PollAnswered(s) \/ ApplyAnswered(s)
         \/ \E force \in BOOLEAN : ApplyAvailable(s, force)
  PROVE  HInv'
<1>1. Tasks /\ UNCHANGED <<hist, snaps>>
  BY DEF IInv, PollStarts, PollAnswered, ApplyAnswered, ApplyAvailable, disk
<1>2. ASSUME NEW t, Becomes(s, t), t.step \notin MidSteps PROVE HInv'
  BY <1>1, <1>2, BecomesCarries, QuietKeeps DEF Quiet
<1>3. CASE Ends(s)
  BY <1>1, <1>3, EndsCarries, QuietKeeps DEF Quiet
<1>4. CASE PollStarts(s)
  BY <1>2, <1>4, PollIsTask DEF PollStarts, Becomes, MidSteps
<1>5. CASE PollAnswered(s)
  <2> DEFINE t == Task("download", "apply", latest, FALSE, version)
  <2>1. t.step \notin MidSteps
    BY DEF Task, MidSteps
  <2> HIDE DEF t
  <2>2. CASE Becomes(s, t)
    BY <1>2, <2>1, <2>2
  <2>. QED
    BY <1>3, <1>5, <2>2 DEF PollAnswered, AutoApplied, Begin, Becomes, t
<1>6. CASE ApplyAnswered(s)
  <2>1. CASE tasks' = [tasks EXCEPT ![s].step = "download", ![s].from = version]
    <3> DEFINE t == Applying("download", tasks[s], version, tasks[s].hist, tasks[s].mig)
    <3>1. Becomes(s, t)
      BY <1>6, <2>1, DownloadBecomes DEF ApplyAnswered
    <3>2. t.step \notin MidSteps
      BY DEF Applying, MidSteps
    <3>. QED
      BY <1>2, <3>1, <3>2
  <2>. QED
    BY <1>3, <1>6, <2>1 DEF ApplyAnswered
<1>7. ASSUME NEW force \in BOOLEAN, ApplyAvailable(s, force)
      PROVE  HInv'
  <2> DEFINE t == Task("asked", "apply", available.rel, force, Bare(First))
  <2>1. t.step \notin MidSteps
    BY DEF Task, MidSteps
  <2>2. Becomes(s, t)
    BY <1>7 DEF ApplyAvailable, Becomes
  <2>. QED
    BY <1>2, <2>1, <2>2
<1>. QED
  BY <1>4, <1>5, <1>6, <1>7

LEMMA StepAgrees == IInv /\ WInv /\ HInv /\ [Next]_vars => HInv'
<1>. SUFFICES ASSUME IInv, WInv, HInv, [Next]_vars PROVE HInv'
  OBVIOUS
<1>1. CASE Crash
  BY <1>1, RestartsQuiet, QuietKeeps DEF Crash
<1>2. CASE \/ \E r \in Releases : ClearQuarantine(r) \/ Publish(r)
           \/ Tick \/ UNCHANGED vars
  <2>1. UNCHANGED <<hist, snaps, tasks>>
    BY <1>2 DEF ClearQuarantine, Publish, Tick, vars, disk
  <2>. QED
    BY <2>1, QuietKeeps DEF Quiet, Carried
<1>3. ASSUME NEW s \in Slots,
             \/ RollbackStarts(s) \/ RollbackFlips(s) \/ RollbackRestores(s)
             \/ RollbackRestarts(s)
      PROVE  HInv'
  BY <1>3, RollbackAgrees
<1>4. ASSUME NEW s \in Slots,
             \/ PollStarts(s) \/ PollAnswered(s) \/ ApplyAnswered(s)
             \/ \E force \in BOOLEAN : ApplyAvailable(s, force)
      PROVE  HInv'
  BY <1>4, RequestsAgree
<1>5. ASSUME NEW s \in Slots,
             \/ Prepares(s) \/ Installs(s) \/ Relinks(s) \/ RestartAsked(s)
             \/ HealthKnown(s) \/ QuarantineSaved(s)
      PROVE  HInv'
  BY <1>5, PreparesAgrees, SwitchAgrees
<1>. QED
  BY <1>1, <1>2, <1>3, <1>4, <1>5, Actions DEF OtherAction

\* Only a round of the loop leads to a migration that has run.
LEMMA OnlyMigrated ==
  ASSUME IInv, [Next]_vars, NEW s \in Slots,
         tasks[s].step = "migrate", tasks'[s].step = "record"
  PROVE  Migrated(s)
<1>1. Tasks /\ ~Restarts /\ tasks' # tasks
  BY IdleIsTask DEF IInv, Restarts
<1>2. ASSUME NEW u \in Slots, NEW q, Goes(u, q)
      PROVE  u = s /\ q = "record"
  BY <1>1, <1>2, GoesSame DEF SameTask
<1>3. ASSUME NEW u \in Slots, NEW t, Becomes(u, t)
      PROVE  u = s /\ t.step = "record"
  <2>1. tasks'[u] = t /\ \A r \in Slots \ {u} : tasks'[r] = tasks[r]
    BY <1>1, <1>3 DEF Becomes, Tasks
  <2>. QED
    BY <2>1
<1>4. ASSUME NEW u \in Slots PROVE ~Ends(u) /\ ~Fails(u) /\ ~Aborts(u)
  <2>1. ~Ends(u)
    BY <1>3, IdleIsTask DEF Ends, Becomes
  <2>2. ~Fails(u)
    BY <1>2 DEF Fails, Quarantines
  <2>. QED
    BY <2>1, <2>2 DEF Aborts
<1>5. ASSUME NEW u \in Slots, Prepares(u)
      PROVE  Migrated(s)
  <2>1. ~Tries(u, "download", "check") /\ ~Tries(u, "build", "migrate")
          /\ ~Tries(u, "preflight", "install")
    BY <1>2, <1>4 DEF Tries
  <2>2. ~Checked(u)
    <3>1. ASSUME tasks[u].step = "check",
                 tasks' = [tasks EXCEPT ![u].step = "build", ![u].hist = hist.applied]
          PROVE  FALSE
      <4>1. Becomes(u, Applying("build", tasks[u], tasks[u].from, hist.applied, tasks[u].mig))
        BY <3>1, KindOfStep, CheckedBecomes DEF ApplySteps
      <4>. QED
        BY <1>3, <4>1 DEF Applying
    <3>. QED
      BY <1>4, <3>1 DEF Checked
  <2>3. ~Recorded(u)
    <3>1. ASSUME NEW h, tasks[u].step = "record",
                 tasks' = [tasks EXCEPT ![u].step = "migrate", ![u].hist = h]
          PROVE  FALSE
      <4>1. Becomes(u, Applying("migrate", tasks[u], tasks[u].from, h, tasks[u].mig))
        BY <3>1, KindOfStep, RecordedBecomes DEF ApplySteps
      <4>. QED
        BY <1>3, <4>1 DEF Applying
    <3>. QED
      BY <1>4, <3>1 DEF Recorded
  <2>4. CASE Migrated(u)
    <3>1. ASSUME NEW n, tasks[u].step = "migrate",
                 tasks' = [tasks EXCEPT ![u].step = "record", ![u].mig = n]
          PROVE  u = s
      <4>1. Becomes(u, Applying("record", tasks[u], tasks[u].from, tasks[u].hist, n))
        BY <3>1, KindOfStep, MigratedBecomes DEF ApplySteps
      <4>. QED
        BY <1>3, <4>1
    <3>2. ~Goes(u, "preflight")
      BY <1>2
    <3>. QED
      BY <1>4, <2>4, <3>1, <3>2 DEF Migrated
  <2>. QED
    BY <1>5, <2>1, <2>2, <2>3, <2>4 DEF Prepares
<1>6. ASSUME NEW u \in Slots,
             \/ Installs(u) \/ Relinks(u) \/ RestartAsked(u) \/ HealthKnown(u)
             \/ QuarantineSaved(u)
      PROVE  FALSE
  BY <1>1, <1>2, <1>4, <1>6
  DEF Installs, Relinks, LinksNew, RemovesNew, Switches, RestartAsked, HealthKnown,
      QuarantineSaved, Quarantines
<1>7. ASSUME NEW u \in Slots,
             RollbackFlips(u) \/ RollbackRestores(u) \/ RollbackRestarts(u)
      PROVE  FALSE
  BY <1>1, <1>2, <1>4, <1>7
  DEF RollbackFlips, RollbackRestores, RollbackRestarts, LinksNew, RemovesNew, Switches,
      Quarantines
<1>8. ASSUME NEW u \in Slots, PollStarts(u) \/ RollbackStarts(u)
      PROVE  FALSE
  <2>1. Poll.step # "record"
    BY PollIsTask
  <2>2. ~PollStarts(u)
    BY <1>3, <2>1 DEF PollStarts, Becomes
  <2>3. ASSUME NEW sn, Becomes(u, Task("flip", "rollback", sn.to[2], FALSE, sn.from))
        PROVE  FALSE
    <3>1. Task("flip", "rollback", sn.to[2], FALSE, sn.from).step = "flip"
      BY DEF Task
    <3>. QED
      BY <1>3, <2>3, <3>1
  <2>4. ~RollbackStarts(u)
    BY <2>3 DEF RollbackStarts, Becomes
  <2>. QED
    BY <1>8, <2>2, <2>4
<1>9. ASSUME NEW u \in Slots,
             \/ PollAnswered(u) \/ ApplyAnswered(u)
             \/ \E force \in BOOLEAN : ApplyAvailable(u, force)
      PROVE  FALSE
  <2>1. ASSUME NEW q \in {"download", "asked"}, NEW r, NEW f, NEW v,
               Becomes(u, Task(q, "apply", r, f, v))
        PROVE  FALSE
    <3>1. Task(q, "apply", r, f, v).step = q
      BY DEF Task
    <3>. QED
      BY <1>3, <2>1, <3>1
  <2>2. CASE PollAnswered(u)
    <3>1. ~Begin(u, latest)
      <4>1. Begin(u, latest) =>
              Becomes(u, Task("download", "apply", latest, FALSE, version))
        BY DEF Begin, Becomes
      <4>. QED
        BY <2>1, <4>1
    <3>. QED
      BY <1>4, <2>2, <3>1 DEF PollAnswered, AutoApplied
  <2>3. CASE ApplyAnswered(u)
    <3>1. CASE tasks' = [tasks EXCEPT ![u].step = "download", ![u].from = version]
      <4>1. Becomes(u, Applying("download", tasks[u], version, tasks[u].hist, tasks[u].mig))
        BY <2>3, <3>1, DownloadBecomes DEF ApplyAnswered
      <4>. QED
        BY <1>3, <4>1 DEF Applying
    <3>. QED
      BY <1>4, <2>3, <3>1 DEF ApplyAnswered
  <2>4. ASSUME NEW force \in BOOLEAN, ApplyAvailable(u, force) PROVE FALSE
    BY <2>1, <2>4 DEF ApplyAvailable, Becomes
  <2>. QED
    BY <1>9, <2>2, <2>3, <2>4
<1>10. ~Crash /\ ~Tick /\ ~UNCHANGED vars
         /\ \A r \in Releases : ~ClearQuarantine(r) /\ ~Publish(r)
  BY <1>1 DEF Crash, Tick, ClearQuarantine, Publish, vars
<1>. QED
  BY <1>5, <1>6, <1>7, <1>8, <1>9, <1>10, Actions DEF OtherAction

\* The migration that ran was not in the history it loaded.
LEMMA StepRuns ==
  ASSUME IInv, [Next]_vars, NEW s \in Slots,
         tasks[s].step = "migrate", tasks'[s].step = "record"
  PROVE  tasks'[s].mig \in Pending(tasks[s])
<1>1. Tasks /\ tasks[s].kind = "apply"
  BY KindOfStep DEF IInv, ApplySteps
<1>2. CASE Migrated(s)
  <2>1. ASSUME NEW n \in Pending(tasks[s]),
               tasks' = [tasks EXCEPT ![s].step = "record", ![s].mig = n]
        PROVE  tasks'[s].mig \in Pending(tasks[s])
    <3>1. Becomes(s, Applying("record", tasks[s], tasks[s].from, tasks[s].hist, n))
      BY <1>1, <2>1, MigratedBecomes
    <3>2. tasks'[s] = Applying("record", tasks[s], tasks[s].from, tasks[s].hist, n)
      BY <1>1, <3>1 DEF Becomes, Tasks
    <3>. QED
      BY <3>2 DEF Applying
  <2>2. ~Goes(s, "preflight") /\ ~Ends(s) /\ ~Fails(s)
    BY <1>1, GoesSame, TaskEnds DEF Fails, Quarantines
  <2>. QED
    BY <1>2, <2>1, <2>2 DEF Migrated
<1>. QED
  BY <1>1, <1>2, OnlyMigrated

\* It is recorded only if the file has been replaced since.
LEMMA StepNotRerun == IInv /\ HInv /\ [Next]_vars => NotRerun
<1>. SUFFICES ASSUME IInv, HInv, [Next]_vars, NEW s \in Slots,
                     tasks[s].step = "migrate", tasks'[s].step = "record",
                     hist.applied \subseteq tasks[s].hist
              PROVE  tasks'[s].mig \notin Numbers(hist.applied)
  BY DEF NotRerun, HInv, Agrees, MidSteps
<1>1. tasks'[s].mig \notin Numbers(tasks[s].hist)
  BY StepRuns DEF Pending
<1>. QED
  BY <1>1 DEF Numbers

\* However applies, rollbacks and restarts interleave, a migration that is
\* recorded runs again only where a rollback has put back the file of another
\* update under an apply, for any releases, migrations and number of tasks.
THEOREM RecordedRunOnce == Spec => RecordedNotRerun
<1>1. Init => IInv /\ SInv /\ WInv /\ HInv
  <2>1. Init => HInv
    BY IdleIsTask DEF Init, HInv, FileSound, NoFile, MidSteps
  <2>. QED
    BY <2>1, Start, StartUnseen, StartWhole
<1>2. /\ IInv /\ SInv /\ WInv /\ HInv
      /\ [Next]_vars
      => (IInv /\ SInv /\ WInv /\ HInv)' /\ [NotRerun]_vars
  BY Step, StepOnTime, StepWhole, StepAgrees, StepNotRerun
<1>3. Spec => [][NotRerun]_vars
  BY <1>1, <1>2, PTL DEF Spec
<1>4. NotRerun =>
        \A s \in Slots :
          tasks[s].step = "migrate" /\ tasks'[s].step = "record"
          => \/ tasks'[s].mig \notin Numbers(hist.applied)
             \/ \E sn \in ToSet(snaps) : ~Own(s, sn) /\ hist = sn.hist
  BY DEF NotRerun, OwnSnap, Own, ToSet
<1>. QED
  BY <1>3, <1>4, PTL DEF RecordedNotRerun

==============================================================================
