-------------------------------- MODULE Updater --------------------------------
(***************************************************************************)
(* The self-update of frame-core (core/src/updater/): polling GitHub, the  *)
(* staging delay, the apply pipeline with its migrations, snapshot and     *)
(* switch of `current`, the quarantine, and rollback.                      *)
(*                                                                         *)
(* A poll, an apply and a rollback are asynchronous; each one in flight is *)
(* a slot with the await it is parked at.  A release is a number; its tag  *)
(* carries a "v" and the version in its package.json does not.  Downloads, *)
(* npm and migrations are steps that succeed or fail.  migrations.json is  *)
(* the one file followed through snapshots; frame.yaml and screens.yaml    *)
(* are copied along with it.                                               *)
(*                                                                         *)
(* quarantine.load() reads a local file and is taken to be done before     *)
(* GitHub answers the first poll.                                          *)
(***************************************************************************)
EXTENDS Integers, FiniteSets, Sequences, SequencesExt

CONSTANTS
  Releases,   \* the releases of the channel, numbers
  First,      \* the release installed at the beginning
  Migs,       \* [Releases -> numbered migration files: number -> hash]
  Manual,     \* migrations <<number, hash>> with requires_manual_step
  Healthy,    \* releases that answer /healthz once they are current
  NameRank,   \* [Releases -> Nat]: how the version strings sort as text
  Delay,      \* staging_delay_hours, in ticks
  AutoApply,  \* updater.auto_apply
  Retain,     \* retain_releases
  Detached,   \* the core runs outside its systemd unit, so that restart-core
              \* does not end the process that calls it
  Slots,      \* bound: polls, applies and rollbacks in flight at once
  MaxNow      \* bound: the clock stops here

NoRelease == 0
Unseen == 0

ASSUME UpdaterAssumption ==
  /\ Releases \subseteq Nat \ {NoRelease} /\ First \in Releases
  /\ Healthy \subseteq Releases /\ First \in Healthy
  /\ Delay \in Nat /\ Retain \in Nat /\ MaxNow \in Nat
  /\ AutoApply \in BOOLEAN /\ Detached \in BOOLEAN

VARIABLES
  latest,     \* the release GitHub lists first for the channel; an empty
              \* list is answered like a failed request
  now,        \* Date.now()
  link,       \* the name `current` points at, under releases/
  newLink,    \* what current.new points at, which every apply and rollback
              \* makes and renames over `current`; NoLink: it is not there
  dirs,       \* the directories under releases/
  hist,       \* migrations.json: whether it is there, what it records
  snaps,      \* snapshots/, in the order the directories were made
  quarFile,   \* quarantine.json
  up,         \* the core runs
  version,    \* currentVersion
  available,  \* status_.available
  firstSeen,  \* firstSeen
  quar,       \* Quarantine.set
  busy,       \* busy
  tasks,      \* polls, applies and rollbacks in flight, by slot
  seenEver    \* history: when a release was first seen by any incarnation

disk == <<link, newLink, dirs, hist, snaps, quarFile>>
seen == <<available, firstSeen, seenEver>>
vars == <<latest, now, disk, up, version, seen, quar, busy, tasks>>

Tag(r) == <<"v", r>>
Bare(r) == <<"", r>>
Names == {Tag(r) : r \in Releases} \cup {Bare(r) : r \in Releases}

\* sameVersion(): the "v" is stripped from both.
SameVersion(name, r) == name[2] = r

NoLink == Bare(NoRelease)

NoFile == [there |-> FALSE, applied |-> {}]
None == [rel |-> NoRelease, after |-> 0]

\* A task just started.  hist is the MigrationHistory object of an apply, mig
\* the migration that has run and is not recorded yet.
Task(step, kind, rel, force, from) ==
  [step |-> step, kind |-> kind, rel |-> rel, force |-> force, from |-> from,
   hist |-> {}, mig |-> 0]

Idle == Task("idle", "none", NoRelease, FALSE, Bare(First))
Poll == Task("asked", "poll", NoRelease, FALSE, Bare(First))

Goes(s, step) == tasks' = [tasks EXCEPT ![s].step = step]
Ends(s) == tasks' = [tasks EXCEPT ![s] = Idle]

------------------------------------------------------------------------------
(* Polling *)

\* poll(): not while an apply holds the lock.  Several may overlap.
PollStarts(s) ==
  /\ up /\ ~busy
  /\ tasks[s] = Idle
  /\ tasks' = [tasks EXCEPT ![s] = Poll]
  /\ UNCHANGED <<latest, now, disk, up, version, seen, quar, busy>>

\* applyTag() called by a poll takes the lock, or throws when it is taken.
Begin(s, r) ==
  /\ busy' = TRUE
  /\ tasks' = [tasks EXCEPT ![s] = Task("download", "apply", r, FALSE, version)]

\* Seeded fault: applyTag() does not look at the lock.
Apply_unlocked(s, r, after) ==
  \/ /\ AutoApply /\ after <= now
     /\ Begin(s, r)
  \/ /\ ~AutoApply \/ after > now
     /\ Ends(s)
     /\ UNCHANGED busy

\* The last statement of poll(): apply now, or leave the release available.
AutoApplied(s, r, after) ==
  \/ /\ AutoApply /\ after <= now /\ ~busy
     /\ Begin(s, r)
  \/ /\ ~AutoApply \/ after > now \/ busy
     /\ Ends(s)
     /\ UNCHANGED busy

NotWanted_any(r) == SameVersion(version, r)   \* seeded fault

\* The current release and a quarantined one are not offered.
NotWanted(r) == SameVersion(version, r) \/ r \in quar

FirstSight(times, r) == IF times[r] = Unseen THEN now ELSE times[r]

PollAnswered(s) ==
  /\ tasks[s] = Poll
  /\ \/ \* The request failed, or there is no release.
        /\ Ends(s)
        /\ UNCHANGED <<seen, busy>>
     \/ /\ NotWanted(latest)
        /\ available' = None
        /\ Ends(s)
        /\ UNCHANGED <<firstSeen, seenEver, busy>>
     \/ /\ ~NotWanted(latest)
        /\ LET at == FirstSight(firstSeen, latest)
           IN  /\ firstSeen' = [firstSeen EXCEPT ![latest] = at]
               /\ available' = [rel |-> latest, after |-> at + Delay]
               /\ AutoApplied(s, latest, at + Delay)
        /\ seenEver' = [seenEver EXCEPT ![latest] = FirstSight(seenEver, latest)]
  /\ UNCHANGED <<latest, now, disk, up, version, quar>>

------------------------------------------------------------------------------
(* Applying on request, from the API or MQTT *)

ApplyAvailable(s, force) ==
  /\ up /\ ~busy /\ tasks[s] = Idle
  /\ available # None /\ available.rel \notin quar
  /\ force \/ available.after <= now
  /\ busy' = TRUE
  /\ tasks' = [tasks EXCEPT ![s] =
       Task("asked", "apply", available.rel, force, Bare(First))]
  /\ UNCHANGED <<latest, now, disk, up, version, seen, quar>>

\* Seeded fault: whatever is listed now is applied.
ApplyAnswered_any(s) ==
  /\ tasks[s].step = "asked" /\ tasks[s].kind = "apply"
  /\ tasks' = [tasks EXCEPT ![s].step = "download", ![s].from = version,
                            ![s].rel = latest]
  /\ UNCHANGED <<latest, now, disk, up, version, seen, quar, busy>>

\* Seeded fault: an apply that finds its release gone keeps the lock.
ApplyAnswered_locked(s) ==
  /\ tasks[s].step = "asked" /\ tasks[s].kind = "apply"
  /\ \/ /\ latest = tasks[s].rel
        /\ tasks' = [tasks EXCEPT ![s].step = "download", ![s].from = version]
     \/ Ends(s)
  /\ UNCHANGED <<latest, now, disk, up, version, seen, quar, busy>>

\* The release must still be the one that was available; otherwise, or when
\* the request fails, the lock is given back.
ApplyAnswered(s) ==
  /\ tasks[s].step = "asked" /\ tasks[s].kind = "apply"
  /\ \/ /\ latest = tasks[s].rel
        /\ tasks' = [tasks EXCEPT ![s].step = "download", ![s].from = version]
        /\ UNCHANGED busy
     \/ /\ Ends(s)
        /\ busy' = FALSE
  /\ UNCHANGED <<latest, now, disk, up, version, seen, quar>>

------------------------------------------------------------------------------
(* applyTag() up to the switch *)

\* quarantine.add(): the tag is quarantined in memory, persist() is awaited.
Quarantines(s, step) ==
  /\ quar' = quar \cup {tasks[s].rel}
  /\ Goes(s, step)
  /\ UNCHANGED <<hist, busy>>

\* The catch block.
Fails(s) == Quarantines(s, "persist") /\ UNCHANGED snaps

\* A step that does nothing but succeed or fail.
Tries(s, step, next) ==
  /\ tasks[s].step = step
  /\ \/ /\ Goes(s, next)
        /\ UNCHANGED <<hist, snaps, quar, busy>>
     \/ Fails(s)

Files(r) == {<<n, Migs[r][n]>> : n \in DOMAIN Migs[r]}
Numbers(applied) == {m[1] : m \in applied}

\* verifyHistoryIntegrity()
Intact(applied, r) == applied \subseteq Files(r)

\* snapshotConfig(): the directory is named after both versions; one that is
\* there keeps its place and, without a migrations.json to copy, its old one.
Snapshot(from, r) ==
  LET old == {i \in DOMAIN snaps : snaps[i].from = from /\ snaps[i].to = Tag(r)}
  IN  IF old = {}
      THEN Append(snaps, [from |-> from, to |-> Tag(r), hist |-> hist])
      ELSE [i \in DOMAIN snaps |->
              IF i \in old /\ hist.there THEN [snaps[i] EXCEPT !.hist = hist]
              ELSE snaps[i]]

\* loadHistory(), the integrity check and the snapshot.  A history that is
\* not intact always fails; an error may fail any.
Checked(s) ==
  /\ tasks[s].step = "check"
  /\ LET t == tasks[s]
     IN  \/ /\ Intact(hist.applied, t.rel)
            /\ snaps' = Snapshot(t.from, t.rel)
            /\ tasks' = [tasks EXCEPT ![s].step = "build",
                                      ![s].hist = hist.applied]
            /\ UNCHANGED <<hist, quar, busy>>
         \/ Fails(s)

Pending_all(t) == Numbers(Files(t.rel))   \* seeded fault: recorded ones too

\* applyPending(): what the history loaded by this apply does not record.
Pending(t) == Numbers(Files(t.rel)) \ Numbers(t.hist)

\* One round of its loop, up to the end of the migration: it may fail, or be
\* left to the operator, which ends the apply without a quarantine.
Migrated(s) ==
  /\ tasks[s].step = "migrate"
  /\ LET t == tasks[s]
     IN  \/ /\ Pending(t) = {}
            /\ Goes(s, "preflight")
            /\ UNCHANGED <<hist, snaps, quar, busy>>
         \/ \E n \in Pending(t) :
              /\ \A k \in Pending(t) : n <= k
              /\ \/ /\ <<n, Migs[t.rel][n]>> \in Manual
                    /\ Ends(s)
                    /\ busy' = FALSE
                    /\ UNCHANGED <<hist, snaps, quar>>
                 \/ /\ <<n, Migs[t.rel][n]>> \notin Manual
                    /\ tasks' = [tasks EXCEPT ![s].step = "record",
                                              ![s].mig = n]
                    /\ UNCHANGED <<hist, snaps, quar, busy>>
                 \/ /\ <<n, Migs[t.rel][n]>> \notin Manual
                    /\ Fails(s)

\* saveHistory() writes the whole history of this apply.
Recorded(s) ==
  /\ tasks[s].step = "record"
  /\ LET t == tasks[s]
         applied == t.hist \cup {<<t.mig, Migs[t.rel][t.mig]>>}
     IN  \/ /\ hist' = [there |-> TRUE, applied |-> applied]
            /\ tasks' = [tasks EXCEPT ![s].step = "migrate",
                                      ![s].hist = applied]
            /\ UNCHANGED <<snaps, quar, busy>>
         \/ Fails(s)

Prepares(s) ==
  /\ \/ Tries(s, "download", "check")    \* tarball, signature, extraction
     \/ Checked(s)
     \/ Tries(s, "build", "migrate")     \* OS packages, npm ci, build, prune
     \/ Migrated(s) \/ Recorded(s)
     \/ Tries(s, "preflight", "install")
  /\ UNCHANGED <<latest, now, link, newLink, dirs, quarFile, up, version, seen>>

------------------------------------------------------------------------------
(* The switch, the restart and what follows it *)

\* Seeded fault: `current` is switched without the directory in place.
Installs_late(s) ==
  /\ tasks[s].step = "install"
  /\ link' = Tag(tasks[s].rel)
  /\ Goes(s, "relink")
  /\ UNCHANGED <<latest, now, newLink, dirs, hist, snaps, quarFile, up, version,
                 seen, quar, busy>>

\* rename(staging, finalDest) fails on a directory that is there already.
Installs(s) ==
  /\ tasks[s].step = "install"
  /\ LET name == Tag(tasks[s].rel)
     IN  \/ /\ name \notin dirs
            /\ dirs' = dirs \cup {name}
            /\ Goes(s, "relink")
            /\ UNCHANGED <<hist, snaps, quar, busy>>
         \/ /\ Fails(s)
            /\ UNCHANGED dirs
  /\ UNCHANGED <<latest, now, link, newLink, quarFile, up, version, seen>>

\* symlink() fails on a current.new that is there, be it of another task.
LinksNew(s, name, next) ==
  /\ newLink = NoLink
  /\ newLink' = name
  /\ Goes(s, next)
  /\ UNCHANGED <<link, hist, snaps, quar, busy>>

RemovesNew(s, next) ==
  /\ newLink' = NoLink
  /\ Goes(s, next)
  /\ UNCHANGED <<link, hist, snaps, quar, busy>>

\* rename() puts what is at current.new over `current`, and fails when another
\* task has taken it away.
Switches(s, next) ==
  /\ newLink # NoLink
  /\ link' = newLink /\ newLink' = NoLink
  /\ Goes(s, next)
  /\ UNCHANGED <<hist, snaps, quar, busy>>

\* A symlink() that fails is tried once more after an rm().
Relinks(s) ==
  /\ \/ /\ tasks[s].step = "relink"
        /\ \/ LinksNew(s, Tag(tasks[s].rel), "switch")
           \/ RemovesNew(s, "again")
     \/ tasks[s].step = "again" /\ LinksNew(s, Tag(tasks[s].rel), "switch")
     \/ tasks[s].step = "switch" /\ Switches(s, "restart")
     \/ /\ tasks[s].step \in {"relink", "again", "switch"}
        /\ Fails(s)
        /\ UNCHANGED <<link, newLink>>
  /\ UNCHANGED <<latest, now, dirs, quarFile, up, version, seen>>

\* The process is gone; systemd starts the one `current` leads to, if there
\* is one that works.  Memory starts over, the quarantine is read back.
Restarts ==
  /\ up' = (link \in dirs /\ link[2] \in Healthy)
  /\ version' = Bare(link[2])
  /\ available' = None
  /\ firstSeen' = [r \in Releases |-> Unseen]
  /\ quar' = quarFile
  /\ busy' = FALSE
  /\ tasks' = [s \in Slots |-> Idle]
  /\ UNCHANGED <<latest, now, disk, seenEver>>

\* restartServices(): the root helper restarts the unit, and with it this
\* process; or both ways to ask for it are refused; or the process is not in
\* the unit and goes on.
RestartAsked(s) ==
  /\ tasks[s].step = "restart"
  /\ \/ Restarts
     \/ /\ \/ Fails(s)
           \/ /\ Detached
              /\ Goes(s, "health")
              /\ UNCHANGED <<hist, snaps, quar, busy>>
        /\ UNCHANGED <<latest, now, link, newLink, dirs, quarFile, up, version,
                       seen>>

\* pruneSnapshots() removes the surplus, its newest first; `left` are not
\* removed yet.
Surplus == IF Len(snaps) > Retain THEN Len(snaps) - Retain ELSE 0

Pruned(left) ==
  SubSeq(snaps, 1, left) \o SubSeq(snaps, Surplus + 1, Len(snaps))

\* waitHealthy(): success, or rollbackTo(from) when the window passes, which
\* it may for a healthy release too.  A snapshot that cannot be removed sends
\* the update that has succeeded to the catch block.
HealthKnown(s) ==
  /\ tasks[s].step = "health"
  /\ \/ /\ link[2] \in Healthy
        /\ version' = Tag(tasks[s].rel)
        /\ available' = None
        /\ \E left \in 0..Surplus :
             /\ snaps' = Pruned(left)
             /\ \/ /\ left = 0
                   /\ busy' = FALSE
                   /\ Ends(s)
                   /\ UNCHANGED <<hist, quar>>
                \/ Quarantines(s, "persist")
     \/ /\ Goes(s, "flip")
        /\ UNCHANGED <<version, available, hist, snaps, quar, busy>>
  /\ UNCHANGED <<latest, now, link, newLink, dirs, quarFile, up, firstSeen,
                 seenEver>>

\* persist() is done, or fails: the apply is over.  After a rollback for bad
\* health the release stays available, and a failure reaches the catch block.
QuarantineSaved(s) ==
  /\ \/ /\ tasks[s].step \in {"persist", "rolled"}
        /\ quarFile' = quar
        /\ available' = IF tasks[s].step = "persist" THEN None ELSE available
        /\ busy' = FALSE
        /\ Ends(s)
        /\ UNCHANGED <<hist, quar>>
     \/ /\ tasks[s].step = "persist"
        /\ busy' = FALSE
        /\ Ends(s)
        /\ UNCHANGED <<hist, quarFile, available, quar>>
     \/ /\ tasks[s].step = "rolled"
        /\ Quarantines(s, "persist")
        /\ UNCHANGED <<quarFile, available>>
  /\ UNCHANGED <<latest, now, link, newLink, dirs, snaps, up, version, firstSeen,
                 seenEver>>

------------------------------------------------------------------------------
(* Rollback *)

\* Names sort as text: readdir lists them so, and the sort() of rollback()
\* compares objects, which leaves them as they are.
NameAfter(a, b) ==
  \/ NameRank[a.from[2]] > NameRank[b.from[2]]
  \/ /\ a.from[2] = b.from[2] /\ a.from # b.from
     /\ a.from = Tag(a.from[2])
  \/ a.from = b.from /\ NameRank[a.to[2]] > NameRank[b.to[2]]

LastByName(sn) == \A other \in ToSet(snaps) \ {sn} : NameAfter(sn, other)

\* rollback() of the API: it takes no lock.
RollbackStarts(s) ==
  /\ up /\ tasks[s] = Idle
  /\ \E sn \in ToSet(snaps) :
       /\ LastByName(sn)
       /\ tasks' = [tasks EXCEPT ![s] =
            Task("flip", "rollback", sn.to[2], FALSE, sn.from)]
  /\ UNCHANGED <<latest, now, disk, up, version, seen, quar, busy>>

\* An error ends a rollback; in an apply it reaches the catch block.
Aborts(s) ==
  \/ tasks[s].kind = "apply" /\ Fails(s)
  \/ /\ tasks[s].kind = "rollback"
     /\ Ends(s)
     /\ UNCHANGED <<hist, snaps, quar, busy>>

\* rollbackTo(): `current` is pointed at releases/<from>, there or not.
RollbackFlips(s) ==
  /\ \/ tasks[s].step = "flip" /\ RemovesNew(s, "symlink")
     \/ tasks[s].step = "symlink" /\ LinksNew(s, tasks[s].from, "flipped")
     \/ tasks[s].step = "flipped" /\ Switches(s, "restore")
     \/ /\ tasks[s].step \in {"flip", "symlink", "flipped"}
        /\ Aborts(s)
        /\ UNCHANGED <<link, newLink>>
  /\ UNCHANGED <<latest, now, dirs, quarFile, up, version, seen>>

\* restoreSnapshot(): a file the snapshot lacks is left as it is.
RollbackRestores(s) ==
  /\ tasks[s].step = "restore"
  /\ LET copies == {sn \in ToSet(snaps) :
                     /\ sn.from = tasks[s].from /\ sn.to = Tag(tasks[s].rel)
                     /\ sn.hist.there}
     IN  \/ /\ hist' \in IF copies = {} THEN {hist} ELSE {sn.hist : sn \in copies}
            /\ Goes(s, "revive")
            /\ UNCHANGED <<snaps, quar, busy>>
         \/ Aborts(s)
  /\ UNCHANGED <<latest, now, link, newLink, dirs, quarFile, up, version, seen>>

\* restartCore(); a refusal is ignored.  An apply then quarantines its tag.
RollbackRestarts(s) ==
  /\ tasks[s].step = "revive"
  /\ \/ Restarts
     \/ /\ \/ /\ tasks[s].kind = "apply"
              /\ Quarantines(s, "rolled")
           \/ /\ tasks[s].kind = "rollback"
              /\ Ends(s)
              /\ UNCHANGED <<hist, quar, busy>>
        /\ UNCHANGED <<latest, now, link, newLink, dirs, snaps, quarFile, up,
                       version, seen>>

------------------------------------------------------------------------------
(* The operator, the channel, the clock *)

\* DELETE /api/updates/quarantine
ClearQuarantine(r) ==
  /\ up /\ r \in quar
  /\ quar' = quar \ {r}
  /\ quarFile' = quar'
  /\ UNCHANGED <<latest, now, link, newLink, dirs, hist, snaps, up, version, seen,
                 busy, tasks>>

\* A release is published or withdrawn.
Publish(r) ==
  /\ latest' = r
  /\ UNCHANGED <<now, disk, up, version, seen, quar, busy, tasks>>

\* The process dies at any time and is started again.
Crash == up /\ Restarts

Tick ==
  /\ now < MaxNow
  /\ now' = now + 1
  /\ UNCHANGED <<latest, disk, up, version, seen, quar, busy, tasks>>

Init ==
  /\ latest \in Releases /\ now = 1
  /\ link = Tag(First) /\ newLink = NoLink /\ dirs = {Tag(First)}
  /\ hist = NoFile /\ snaps = <<>> /\ quarFile = {}
  /\ up = TRUE /\ version = Bare(First)
  /\ available = None /\ firstSeen = [r \in Releases |-> Unseen]
  /\ quar = {} /\ busy = FALSE
  /\ tasks = [s \in Slots |-> Idle]
  /\ seenEver = [r \in Releases |-> Unseen]

\* The awaits of a poll, an apply or a rollback.
Continues(s) ==
  \/ PollAnswered(s) \/ ApplyAnswered(s) \/ Prepares(s)
  \/ Installs(s) \/ Relinks(s) \/ RestartAsked(s) \/ HealthKnown(s)
  \/ QuarantineSaved(s)
  \/ RollbackFlips(s) \/ RollbackRestores(s) \/ RollbackRestarts(s)

Next ==
  \/ \E s \in Slots :
       \/ PollStarts(s)
       \/ \E force \in BOOLEAN : ApplyAvailable(s, force)
       \/ RollbackStarts(s)
       \/ Continues(s)
  \/ \E r \in Releases : ClearQuarantine(r)
  \/ \E r \in Releases : Publish(r)
  \/ Crash
  \/ Tick

Spec == Init /\ [][Next]_vars

\* Requests and commands end; fetch has timeouts of its own.
FairSpec == Spec /\ \A s \in Slots : WF_vars(Continues(s))

------------------------------------------------------------------------------
(* Properties *)

\* The task holds the lock: an apply from the moment it is accepted.
Locks(s) == tasks[s].kind = "apply"

\* Every variable has its type, and the lock is taken exactly when there is
\* an apply in flight.
TypeOK ==
  /\ latest \in Releases /\ now \in Nat
  /\ link \in Names /\ newLink \in Names \cup {NoLink} /\ dirs \subseteq Names
  /\ version \in Names
  /\ up \in BOOLEAN /\ quar \subseteq Releases /\ quarFile \subseteq Releases
  /\ available.rel \in Releases \cup {NoRelease}
  /\ busy \in BOOLEAN
  /\ busy <=> \E s \in Slots : Locks(s)

\* However polls, applies on request, failures and restarts interleave, at
\* most one apply is under way.
OneApply == \A s, t \in Slots : Locks(s) /\ Locks(t) => s = t

\* A release that is not forced is applied no sooner than the staging delay
\* after it was seen for the first time, whichever release was listed when
\* the apply was asked for and when it got its answer.
StagingRespected ==
  [][ \A s \in Slots :
        /\ tasks[s].step = "asked" /\ tasks'[s].step = "download"
        /\ ~tasks'[s].force
        => seenEver'[tasks'[s].rel] + Delay <= now ]_vars

\* A quarantined release is not applied until it is cleared.
QuarantinedSkipped ==
  [][ \A s \in Slots :
        tasks[s].step = "asked" /\ tasks'[s].step = "download"
        => tasks'[s].rel \notin quar ]_vars

\* `current` leads to a release that is there, whatever fails or dies during
\* an apply; only a rollback can point it at a name without its "v".
LinkWhole == link \in dirs \/ \E r \in Releases : link = Bare(r)

\* The snapshot of the update that task s carries out.
Own(s, sn) == sn.from = tasks[s].from /\ sn.to = Tag(tasks[s].rel)

\* A migration that migrations.json records is not run again, unless a rollback,
\* which takes no lock, has put back what the snapshot of another update holds
\* while the apply goes by the history it loaded.
RecordedNotRerun ==
  [][ \A s \in Slots :
        tasks[s].step = "migrate" /\ tasks'[s].step = "record"
        => \/ tasks'[s].mig \notin Numbers(hist.applied)
           \/ \E sn \in ToSet(snaps) : ~Own(s, sn) /\ hist = sn.hist ]_vars

\* The lock is given back on every path: the core can update again.
LockReleased == busy ~> ~busy

\* SPEC 5.8: "Post-start polls :8080 every 5 s for 60 s; rollback on no
\* success".
BadReleaseRolledBack == link[2] \notin Healthy ~> link[2] \in Healthy

\* SPEC 5.5: "Rollback restores both code and config" - `current` leads to a
\* release that is there, the one before the last update, and migrations.json
\* names no migration which that release does not have.
RollbackComplete ==
  [][ \A s \in Slots :
        tasks[s].step = "restore" /\ tasks'[s].step = "revive"
        => /\ link \in dirs
           /\ link = Last(snaps).from
           /\ hist'.applied \subseteq Files(link[2]) ]_vars

==============================================================================
