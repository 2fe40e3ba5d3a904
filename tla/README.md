# TLA+ models of frame-core

frame-core runs a picture frame: a kiosk Chromium shows one screen at a time,
and several parties (the web UI, Home Assistant, cron rules, a default) claim
the frame. This directory holds TLA+ models of its core logic, the TLC
configurations that check them on small instances, and TLAPS proofs of what
matters most for every instance.

Run `tlc -config <cfg> <module>` for a model, `tlapm <module>.tla` for proofs.

## 1. Inventory

| Component | Source | State | Operations | What is hard, what must hold |
|---|---|---|---|---|
| Claim scheduler | `core/src/scheduler/index.ts`, `claims.ts` | claims by id, active claim, screens, default screen, one expiry timer | show, release, releaseSource, updateDefault, updateScreens, expiry recheck | Every handler recomputes and replaces the only timer. The best live claim is on the frame, claims expire in time, a default is always there. |
| Screen controller | `core/src/cdp/screenController.ts` | tab cache with LRU stamps, current screen, cap | show, preload, registerScreens, evict, resetTabs | `show` has up to five awaits and nothing serialises calls. The wall must agree with `current`, the overlay must come down. |
| CDP connection | `core/src/cdp/manager.ts`, `wsTransport.ts` | transport, shell tab, commands in flight | start, newTab, closeTab, activate, screenshot, close | Chromium dies under commands in flight; each has to end. |
| Shell bus and page | `core/src/api/shellBus.ts`, `kiosk/src/shell.ts` | the sink; iframes, active id, overlay | attach, detach, send; message handlers | Messages without a sink are dropped; the page comes back blank and is replayed to. |
| Kiosk watchdog | `core/src/system/kioskLifecycle.ts` | four timers, pending restart, heartbeat age, boot display cycle | shell connect, disconnect, heartbeat, screen change, exit, failure, stop | Timers are set and cleared from many places. A dead page gets a restart, a healthy one is left alone, restarts keep apart. |
| Updater | `core/src/updater/` | lock, available release, first sightings, quarantine; on disk: `current`, releases, snapshots, `migrations.json`, `quarantine.json` | poll, apply, rollback, clear quarantine | Long awaits, a failure at every step, a restart of the process by itself. One apply at a time, nothing before its delay, `current` never broken. |
| Cron rules | `core/src/scheduler/cron.ts`, `rules.ts` | rules, a timer per rule id; on disk: `rules.yaml` | setRules, scheduleNext, stop, load, replace | Timers beyond 2^31-1 ms, equal ids, saves that overlap or fail. The timers are those of the rules in force; what was answered with success is on disk. |
| Configuration store | `core/src/config/` | loaded configuration, safe mode | loadAll, reload on change, patch, write screens | Reloads overlap, read-modify-write without a lock. |
| Home Assistant bridge | `core/src/mqtt/index.ts` | MQTT client, subscriptions | start, stop, restart, publishState, handleCommand | `start` awaits before it has a client. |
| HTTP and WebSocket API | `core/src/api/server.ts`, `stateBus.ts`, `terminal.ts` | bearer token, state subscribers, terminals | routes | Mostly passes through to the components above. A rotation of the token must not end the session that asked for it; a push reads its parts before and after an `await`. |
| VNC supervisor | `core/src/system/vnc.ts` | two child processes, idle timer, password file | start, stop, markActive, idle check | A start while a start awaits, the exit handler of the process before. One of each program, and never without its idle timer. |
| Display and power | `core/src/system/displayController.ts`, `brightness.ts`, `powerInhibitor.ts` | one `systemd-inhibit`, one detached `wlsunset` with its pid file | geometry, power, temperature; start, stop | Respawn racing stop, calls that overlap, a geometry the page and the outputs both apply. |
| Now playing | `core/src/nowPlaying.ts` | last payload | parse | A pure conversion. |
| Web control panel | `web/src/App.tsx`, `api.ts`, `components/` | the token; per tab: what was last read, drafts, requests in flight | login, refresh, edit, save, delete, poll | Answers come late, out of order or not at all, and other clients write. A page at rest must show what is in force, a save must write what was entered and nothing else. |
| Built-in screens, deployment | `builtin-screens/`, `deploy/` | canvas; none | | No protocol state of their own. |

How they interact. The scheduler emits `activate`; `core/src/index.ts` answers
by `ScreenController.show` and tells the watchdog which screen is on. `show`
drives CDP and sends messages through the shell bus to the shell page. The bus
tells the watchdog of connects, disconnects and heartbeats, and a connect
replays the current screen. A CDP close resets the tabs and is reported to the
watchdog, as is a `show` that rejects. The configuration store emits
`reloaded`, which replaces the scheduler's screens and default, the preloaded
tabs and the cap. The API, MQTT and cron rules call the scheduler and the
updater. Everything runs in one Node process: a handler is atomic up to its
first `await`, and whatever happens at an `await` interleaves. The control panel
is a client of the API with state of its own: it keeps what it has read, and what
the user has typed over it, while the core goes on.

The hazards this leads to are listed, each at its line and with the properties
that watch it, in `PROJECT.json`.

## 2. Plan

Modules, most important first. All but the last are written.

1. `Scheduler` - what should be on the frame. Proofs in `SchedulerProofs`.
2. `ScreenController` with `ShellPage` - how it gets there: `show`, CDP, bus,
   page and wiring composed, because their hazards are in the combination.
   Proofs in `ScreenControllerProofs`.
3. `KioskLifecycle` - recovery when the page is gone. Proofs in
   `KioskLifecycleProofs`.
4. `Updater` - self-update. Proofs in `UpdaterProofs`.
5. `ConfigStore` - overlapping requests, reloads and edits of the files. Proofs
   in `ConfigStoreProofs`.
6. `HaBridge` - start, stop and restart of the MQTT client. `Settings`
   composes 5 and 6 as `index.ts` does. Proofs of both in `SettingsProofs`.
7. `CronRules` - the timers of the rules with their width, replace and save.
   `RulesTab` puts the Schedule tab on top of it. Proofs of both in
   `ScheduleProofs`.
8. `OneChild` - what a supervisor of a child process promises. `PowerInhibitor`
   and `Vnc` implement it; `VncTab` puts the Remote screen tab on top of `Vnc`,
   `Supervisors` has both supervisors of one core. `Display` - geometry and
   colour temperature. Proofs in `SupervisorProofs`.
9. `ScreensTab`, `SettingsTab`, `NowTab`, `Session` - the control panel, each
   tab with the routes it calls. Proofs in `ScreenControllerProofs`,
   `SettingsProofs` and, of `Session`, in `ScheduleProofs`.
10. `Frame`, not written: an abstract specification - the wall shows the
   scheduler's choice once nothing is under way - which `Scheduler` and
   `ScreenController` composed through `index.ts` are to implement.

Left to prove: what `Frame` promises.

## 3. What is modelled

### Scheduler

A claim is a record as in `claims.ts`; ids are numbers in the order of
`makeClaim`, so insertion order is known. Every handler (`Show`, `Release`,
`ReleaseSource`, `SetDefault`, `Reload`, `ExpiryTimerFires`) is one action that
ends in `Recompute`, because the code's handlers are synchronous and all call
`recompute`. `Recompute` purges, resolves, deletes a displaced `manual_next`
claim, pops a one-shot and sets the timer again; it returns early, with the
timer as it was, when there is neither the claimed nor the default screen.
`TimerMax` is the width of `setTimeout`, `MinRecheck` its floor. A tick does
not pass over a due timer (the event loop is prompt). Jumps of the wall clock
are not modelled.

### ScreenController, ShellPage

A `show` in flight is a slot with the await it is parked at. CDP commands share
a WebSocket and are answered in order: `acks` is the queue of activations
without an answer. The tab cache is a list in LRU order. The shell page is a
record with one operator per message. `ShellAttaches`, `CdpReady`, `Activate`
and `Reload` are the handlers in `index.ts`. History variables: `target`, the
screen of the last `show`, and `raced`, whether it ran next to another call,
on a half-open connection, or had a tab evicted under it. A connection is up
with a shell tab, or "blind": no target matches the shell page
(manager.ts:63), the commands work and the wiring looks for it no more.

Left out: `testUrlScreen`, equal LRU stamps, a discovery that rejects half-way
(it is retried), a CDP socket that closes while Chromium lives.

### KioskLifecycle

Timers are ticks left; `lastHeartbeatAt` and `lastRestartAt` are kept as an age
and as the rest of the cooldown, which is all the code derives from them. The
order of due timers is free. The watchdog is taken to be enabled. `served`
remembers the restart that ran since the page was last heard of.

### Updater

A poll, an apply and a rollback in flight are slots again. A release is a
number; its tag has a `v` and the version in its `package.json` has none, as
in releases of this repository, and `link` keeps the two apart. Downloads, npm
and migrations succeed or fail. `Checked` to `Recorded` are the order of
`applyTag` with `applyPending` unrolled, so that a crash can come between a
migration and its record. `Restarts` is the end of a process and the start of
the one `current` leads to. `Detached` says whether the process outlives
`restart-core`: under the systemd unit of `deploy/systemd` it does not.

The switch is one action per file access: `newLink` is what `current.new` points
at, a name all applies and rollbacks share. `symlink` fails on one that is there
and an apply tries once more after an `rm`; `rename` puts over `current` whatever
is at the name by then, or fails because another task has taken it. Writing
`quarantine.json` may fail, and removing an old snapshot may, which quarantines
the release that has just succeeded.

Left out: the contents of `frame.yaml` and `screens.yaml` (they are copied next
to `migrations.json`), the status texts, jumps of the clock, a clearing of the
quarantine that cannot be saved (it is in force until the next start), and an
answer from GitHub that comes before `quarantine.json` is read.

### ConfigStore

Of `frame.yaml` the default screen and the `ha` section are kept, of
`screens.yaml` the ids, of the token which one it is. The default and the
screens are checked against each other, which is what makes a write invalid;
the `ha` section is what a reload has consequences for. A request or reload in
flight is a slot with the file access it waits for. A write is what
`fs.writeFile` and `fs.rename` do: open and truncate the temporary file, write,
rename. All writers of a file share its temporary file (`drafts`, `temps`), an
open file stays open when it is renamed (`fd`), and a shorter text over a longer
one leaves a torn file. Routes check against the loaded configuration.

A reload reads `frame.yaml`, `screens.yaml` and the token, one await each, and
then installs what it has read, whatever has been written since. Any access of a
request may fail (`AccessFails`), and a write that fails leaves its file cut
short. Nothing is assumed about how long reads take: the reload of a request, that
of the watcher and those of later requests overlap in every order.

Two histories. `excused` records that requests overlapped or came while files and
loaded configuration differed, or that an edit was invalid. `overtaken` records
that a reload ended while another one held something outdated, which that one
has installed, or may yet: nothing reloads after it, and the token is not watched
at all, so the code stays with the older configuration until the next change.

Left out: the validation of a single screen, reloads before the handler of
`reloaded` is registered.

### HaBridge, Settings

A client is a record with its setting, its connection, and whether it is
`HaBridge.client`; starts that wait for the password file are a list. Refusals
are counted to the limit. `hurried` records that a start began while another was
under way, at boot as well. `Settings` is the product of the two, joined where
`index.ts` joins them: `Reload` installs and calls `restart` if the section
changed, `Restart` ends the process. Requests wait for the end of boot, because
the server listens only then; reloads do not.

`StatusTruthful` is about `HaBridge.status()`, the state kept in the process. What
is published to the broker, `mqtt_auth_ok` with it, is not modelled and does not
follow that state (section 4).

Left out: discovery and published values, `FRAME_HA_DISABLE`, events of a client
after its end, several unheld clients in the same state (they are one).

### CronRules, RulesTab

A cron expression is the period of its occurrences, with one value for an
expression `cron-parser` rejects and one for an expression it accepts but finds
no occurrence of. `Delay` is `setTimeout`: a delay above `Reach` fires at once.
`SetRules` clears what the map leads to and sets the new rules one after the
other; a rule whose `next()` throws leaves the rest unset, and of two rules with
one id the later takes the place of the earlier, whose timer can no longer be
cleared. `PUT /api/rules` puts the rules in force, and then saves them: open,
write, rename, each of which may fail. `Restart` loads what the file holds.

The tab sends the whole list, made from the one on the page. `RulesTab` has its
refreshes, its editor and the requests a user makes without waiting for the
last one; they may time out at the page and still be carried out.

### PowerInhibitor, Vnc, VncTab, Supervisors, OneChild

`OneChild` has the children that run and were not told to end, the one the
supervisor holds, and `careful`: as long as no call met another one at most one
child runs and it is the held one. `PowerInhibitor` has the check for
`systemd-inhibit`, its restart timer and stop. `Vnc` has `start` as a slot with
the await it is parked at, pairs of wayvnc and websockify with their exit
handlers, `stop`, the idle timer and the viewers that keep it going. Both map to
`OneChild` by their processes, `Vnc` once per program. What their histories
(`met`, `vncMet`) excuse is real: a second start during a start spawns a second
pair, and an exit handler clears the handle of whatever process is held.

Left out: output and log files, the contents of `wayvnc.conf`, an inhibitor that
cannot be spawned at all, which sets no restart timer.

### Display

`applyDisplayGeometry` sends a geometry to the page, tries the outputs and then
clears the page, or leaves it if the outputs failed; calls are not queued. The
temperature kills the `wlsunset` of the pid file and starts one. `lone` and
`asked` remember whether the last call ran alone and what was asked for.
Brightness writes a file or runs a command per call and is not modelled.

### ScreensTab, SettingsTab, NowTab, Session

`ScreensTab`: the list as the page last read it, the editor with its draft and
the form field of one option, saves and deletions that send the whole list, and
the read-back after a save without an answer. `SettingsTab`: one field per group
that behaves alike, for each what the file says, what the core goes by, what
the page last read and what the user typed; React replaces a draft when the
value read differs from the one before. `NowTab`: state messages and GETs, each
of which takes its parts at different times, over a socket that closes and
reconnects. `Session`: the token in the browser, in its file and the one the core
goes by, and requests of which each was sent with the token stored then. A
rotation is refused or fails, files its token, reloads, which may fail without a
word, and is answered; other clients rotate, other reloads bring back what they
had read, users sign out and in again while requests are unanswered.

The history variables (`misled`, `undisturbed`, `calm`, `lone`) say when a page
is promised anything: when nobody else wrote in between, or nothing was lost. The
`lone` of `Session` ends with a rotation by another client or next to another of
the page's own, with one whose answer is lost or whose reload failed, with a
reload that puts an older token in force, and when a 401 to a request with an
older token takes the stored one away. A sign-out, and polls that are answered at
any time with anything else, leave it; a login starts it again.

### Several modules in one run

Four of the runs check modules that share no state next to each other.
`MCScheduler`, `MCScreens`, `MCConfig` and `MCKioskLifecycle` have a variable
`part`: a behaviour belongs to one part, chosen at the start, and the others
stay as they start. The state space is the sum of those of the parts, not their
product, and a property of a part is what it would be alone. Fairness is stated
per part.

## 4. The runs

| Run | Shows |
|---|---|
| `scheduler` | In every order of offers, releases, reloads, default changes and expiries: one default claim, nothing outranks the active claim, the active claim is still claimed, no claim overstays, a displaced `manual_next` does not return. The cron timers are those of the enabled rules in force (`TimersFollowRules`), a save answered with success is on disk (`RulesSaved`), the Schedule tab at rest shows the rules in force (`PageShowsRules`). A session goes on over its own rotations of the token, refused and failed ones, other reloads and sign-outs next to requests in flight (`SessionKept`). |
| `cron_overflow` (violation) | A rule whose next occurrence is further away than `setTimeout` reaches fires at once. |
| `screens` | Calls that overlap in any way leave the overlay down; a call that ran alone leaves its screen on the wall through everything else, unless a built-in stays behind a URL tab on a connection without a shell tab. The Screens tab tells the truth about the list and its saves (`ScreensTabTruthful`). |
| `screens_live` | Every `show` ends, also when Chromium dies. |
| `screens_replay` (violation) | The replay on a shell connection shows the last finished screen, not the one the scheduler picked. |
| `kiosk` | Five timers and all events: the screen stays watched, the display comes back on, restarts keep the cooldown, a healthy shell is spared. The supervisors implement `OneChild` (`ChildrenOnce`), VNC never runs untimed (`RunningIsTimed`), the picture is scaled once (`GeometryOnce`), the colour temperature is the one last asked for (`OneTemperature`). The inhibitor comes back and the tabs that poll come to show how things are (`CatchesUp`). |
| `updater` | Overlapping polls, applies and rollbacks, failures, a crash anywhere: one apply, the staging delay, the quarantine. |
| `updater_live` | The same with a migration and a core that may outlive its restart: `current` leads somewhere, a recorded migration is not run again unless a rollback put back the file of another update, every apply gives the lock back. |
| `updater_health` (violation) | Under systemd the restart ends the process that was to check the new release and roll back; nothing resumes it. |
| `updater_rollback` (violation) | A rollback points `current` at the version without the `v` of the directory. |
| `config` | Two tasks interleaved file access by file access, with edits, crashes and broker failures: the configuration in use fits together, files stay loadable, what is loaded is what is on disk once all is quiet and no reload was overtaken, one MQTT client follows it, its status is true. The Settings tab writes only what was entered (`OnlyEnteredWritten`) and shows what it has saved (`SavedIsShown`). |
| `config_race` (violation) | Two valid requests leave files that do not load: each was checked against the state before the other. |

Some disagreements with a document are in the models and have no run of their
own. Updater: the staging delay starts over with the process (SPEC.md has none
of this); migrations run before the pre-flight; `rollback` orders snapshots by
name, and its `sort()` of objects leaves that order as it is; a snapshot without
`migrations.json` restores none; a release whose directory exists cannot be
applied again; it stays enabled in safe mode (SPEC.md:478). Configuration: a
reload that has read before a write can install after the one that followed it,
and nothing reloads then, so the process goes on with the older files, or with
the token before the rotation. Screens: on a connection without a shell tab a
built-in that is shown after a URL screen stays behind its tab, and nothing
tries again; preloads under way pass the tab cap together; of two claims in one
millisecond the older one wins. Settings: the status `retrying` (SPEC.md:619) is
never set, because `close` has set `disconnected` before; a restart does not
reset the count of refusals; safe mode is left only by a restart; starts that
overlap leave a second client; rotations of the token that overlap can lose it.
SPEC.md:396 and :619, docs/HOMEASSISTANT.md:208 and CHANGELOG.md:411 have
`mqtt_auth_ok` report refused credentials: it is published on a connect, a
change of the screen and a command (mqtt/index.ts:293-310), and after the last
refusal the client is ended (:110), so "false" is never sent and a retained
"true" stays; no page reads `HaBridge.status()`.

Watchdog: a restart for a lost shell (CHANGELOG.md:143) is not scheduled while
one for a stale heartbeat is pending (kioskLifecycle.ts:165), and a connect
drops that one. Rules: equal ids leave a timer that cannot be cleared, so a
deleted rule goes on firing ("The rule stops firing immediately.",
RulesSection.tsx); two clients overwrite each other's whole list; a failed PUT
leaves rules in force that are not saved. Inhibitor: a child that cannot be
spawned is not tried again. State bus: a push takes the active screen before its
await and the claims after it, so the two can be from different moments.

Control panel: `PUT /api/settings/config` checks the patch and not the file it
makes, so with a section missing it can store a file that the next start does
not load, and answers ok (SettingsSection.tsx:201: "Changes are validated
against the frame schema."); the Home Assistant tile leaves its section out of
the patch while host or user is empty and reports success all the same; an empty
backlight device cannot be stored; what is typed while a save is under way is
replaced by its answer, and a failed save drops the drafts of the built-ins. In
the Screens tab the late answer of a save that was cancelled closes the editor
that is open by then; a tag filter whose last screen is gone hides the list; the
form is not validated until the manifests are there; adding with the id of an
existing screen replaces it. A 401 to a request that was sent before a rotation,
or before a sign-out and a new login, forgets the new token; a rotation whose
reload fails is answered with a token that is not in force; one that is answered
after a sign-out stores its token again; a network error at the login leaves a
token that was not checked. The histories of section 3 keep these out of the
properties, not out of the models.

### Bounds

- Scheduler: two interchangeable screens (one to hold, one to lose), the default
  and two sources, `manual_next` with its own rules and `manual_pinned` above
  it; four claims, a clock of four with a floor of two and a timer limit of
  three, so that an expiry is before, at and past the floor and a delay exceeds
  the limit. The proofs cover all sources.
- ScreenController: two URL screens and a built-in, two calls in flight, three
  in all, caps of one and two, one exit and one reload with one preloaded
  screen. `screens_live` has two calls, two preloaded screens and the cap of
  two. A race needs two calls; what one more could add is a longer queue, not a
  new order.
- KioskLifecycle: no bound on events, only the delays are small. Their order
  (exit < fail < heartbeat < grace < cooldown) is that of the defaults.
- Updater: `updater` has three releases, of which only the first is healthy and
  the second is left to the operator before its switch; two interchangeable
  slots; a clock of two with a delay of one, which is before and after it. The
  number of events is not bounded. An apply and a rollback meet at `current.new`
  with two slots. Names rank like 0.0.9, 0.0.10, 0.0.11. `updater_live` has two
  healthy releases, the second with a migration. The two violations need one
  slot, three releases and no delay.
- Settings: two interchangeable screens, HA off or on one broker, two
  interchangeable tasks in flight, three events from outside (requests, edits,
  failing accesses, crashes, broker failures) in all, patches of one field each,
  two refusals. Two writers and one event to meet them is what each hazard
  takes. `config_race` has two events and no edits.

- CronRules, RulesTab: one edited rule and a foreign list with an expression that
  never occurs and an id twice; two PUTs, two at a time, one refresh, a clock of
  one and a reach of one. Each hazard takes two saves, or a save and an error.
- ScreensTab: two ids of which one is the default, two requests at a time, three
  events. SettingsTab: two typed fields and one change by others.
- PowerInhibitor: three children. Vnc: two starts at a time, two spawns and a
  viewer; and once more with one start and two polls, for answers out of order.
- Display: two geometries, two calls at a time, three in all, one temperature.
- NowTab: one GET, two changes of each kind, two losses. Session: two requests
  at a time, two rotations: the token before, the one now, and the next. A rotation
  and a late 401, or two answers in either order, take two requests.

Deadlock is not checked where a bound ends the behaviour (ScreenController:
calls and exits run out; Settings: events do; the parts of the
kiosk run: calls, spawns and changes do) or where the system itself may stop
for good (Updater: `current` leads to a core that does not start).

### Fairness

None for safety. `ScreenController`: a command sent to a live Chromium is
answered, or its death is noticed by the transport, and `waitForLoad` has a
timeout (`manager.ts`). `PowerInhibitor`: its restart timer fires and the check
for the command ends. `VncTab`, `NowTab`: intervals fire, requests are handled
and answered, messages on an open socket arrive and a push that waits for the
brightness is finished. `Updater`: requests and commands end; `fetch` has
timeouts of its own, the waits in the code have deadlines. Nothing is assumed of
users, of children that run, of GitHub, of the kiosk, or that a socket stays
open.

## 5. What is proved

For all values of the constants, from the `ASSUME` of each module and what a
theorem names itself.

`SchedulerProofs`. `TypeCorrect`; `DefaultAlwaysPresent`: the default claim is
there once and is current; `PriorityRespected`: nothing outranks the active
claim; `ExpiryInTime`: a claim is gone within the floor after its expiry. The
last is not inductive: the proof goes through `TimerCovers`, that the pending
timer fires no later than the floor after every expiry in the map, which needs
the clock of each claim and that a recompute with an early return keeps its
old timer. `FrameClaimed`: what the frame shows is still claimed;
`DisplacedDeleted`: a displaced `manual_next` goes in the same step. Both
follow from what one recompute leaves behind (`StepRecomputes`).

`ScreenControllerProofs`. `ScreensTyped` is more than types: what a `show` in
flight waits for is still there, no tab is in the cache twice, and every
activation without an answer belongs to one call (`TInv`). The loops of the code
- close the stale tabs, make room, preload a list - are recursive functions in
the model; what they leave behind is proved over the history of their rounds
(`History`, `Below`), so the theorems hold for preload lists and caps of any
length. `OverlayComesDown` (`OverlayReleased`): whatever the last call to end was,
and wherever it failed, the overlay is down when all is settled.
`WallShowsTarget` (`SettledShowsTarget`): as long as calls do not meet, one at
most is under way, with the tab it has created, put in front or activated being
that of its screen (`Coming`), and at rest that screen is on the wall
(`RightScreen`) or, on a connection without a shell tab, behind a URL tab
(`Behind`). Two theorems no run checks: `ReloadFits`, a reload leaves no more
tabs than its cap although preloads under way may have passed it, and
`CurrentKept`, the tab of the current screen stays open until Chromium exits.
`ListIsTrue` (`ScreensTabTruthful`) is about the Screens tab: a list that was in
force while its PUT was under way is noted as such, whoever wrote it (`Noticed`),
so no save reports success that was not one; and as long as all is calm the list
read back is the one in force (`ListCalm`).

`KioskLifecycleProofs`. `Invariant` establishes `IInv`: the types and five
facts that keep each other up - a restart pending for a cause keeps to the
cooldown (`RestartCool`), one for a lost shell finds it lost unless a connect
removed it (`LostIsLost`), an online shell has a sink or has exited
(`OnlineHasSink`), a watched heartbeat agrees with its age (`FreshIsWatched`),
`RenderedScreenWatched`. From it `TypeCorrect`, `AlwaysWatched`,
`RestartsApart` and `HealthySpared`. `DisplayComesBack` has an invariant of its
own: only a scheduled cycle has a timer, and the display is on until the first
command is answered (`BootInv`).

`UpdaterProofs`. `LockHeld` establishes the invariant `IInv`: the steps an
apply, a poll and a rollback can be at, and that the lock is taken exactly
while one apply is in flight. From it `OneApplyAtATime` and, with the sets
the rest of the state lives in, `TypeCorrect`. `NotTooEarly` proves
that no release is applied before its delay unless forced, from an invariant
that relates `available`, the first sightings, and an apply that waits for its
answer. `CurrentLeads` proves `LinkWhole`: every name that `current` may yet be
given, by `current.new`, the running version, a snapshot or a task, is whole
already (`WInv`), so it does not matter whose link a rename moves.
`FailedNotRetried`: what an apply waits to hear of is not quarantined, because
only an apply could have done that meanwhile and the lock admits one (`QInv`).
`RecordedRunOnce`: the history an apply has loaded covers what `migrations.json`
records and what its own snapshot holds (`HInv`). The property names one exception,
because a rollback takes no lock: after a rollback whose restart was refused, a
second one may put back a newer file under an apply that has loaded the older.

`ConfigStoreProofs`. `InUseFits`: the configuration in use loads as a whole,
for any number of requests and reloads in flight. Its parts are read one by
one, so the invariant is about each reload: what it has read so far is well
formed, and once it has read the screens they fit the frame it read before.
`FilesLoad`: as long as nothing is excused the files load. What is on disk being
fine is not inductive; `FInv` adds that one request at a time is under way and
that what it has yet to write fits what is there (`Ready`). `TypeCorrect` needs
that a task writes only what its file may hold and has a descriptor only while
it writes (`TInv`). `LoadedIsOnDisk`: when all is quiet and no
reload was overtaken, what is loaded is what is on disk. "Quiet" is not inductive,
so `SettleInv` speaks of what is still under way: of a reload that holds something
outdated another one follows, unless one has been overtaken (`Noticed`, `Coming`,
`Fresh`), nothing is under way in safe mode (`AtRest`), a token that is yet to be
written differs from all that are in use (`TokensNew`), and until then what is
loaded and what is on disk agree (`Follows`). Nothing is assumed of the watcher's
timer or of how long a read takes.

`SettingsProofs` starts with the bridge alone. `BridgeInv` says, as long as no
starts overlap, that a start under way is for the setting in use and has no
client next to it (`StartIsCurrent`), a client is alone, held and for the setting
in use (`Alone`), and a setting that is on has one or the other (`Served`). From
it `OneClient` (`OneConnection`) and `StatusIsTrue`. The composition takes the
lemmas about both parts: its invariant adds that the bridge's setting is that of
the loaded configuration, and a step of `Settings` is one of `ConfigStore`, one
of `HaBridge`, or a reload or restart that is both. `BridgeFollows`,
`StatusIsTrueJoined`, `InUseFitsJoined`, `FilesLoadJoined`, `TypesJoined` and
`LoadedIsOnDiskJoined` are the properties of the run `config`.

The Settings tab has `EntryInv`. What is not entered is in the draft as the page
knows the file, and a request under way has nothing else of it (`OnlyEntered`):
`SavesAreEntered`. What an undisturbed save has sent is in turn in the drafts, in
force, in the view it reads and on the page (`SaveComes`): `SavesAreShown`.

`ScheduleProofs`, for lists that are indexed by integers (`ListsAssumption`).
`TimersFollow`: as long as no list names an id twice, the live timers are those
of the enabled rules in force; the invariant adds that the map leads to each of
them (`TimersOK`). `SavedByTab`: a save that met no other request has, at each of
its steps, the rules in force in the temporary file or in place (`SavesOK`). Both
are proved of `CronRules` first (`TimersAreThoseOfRules`, `SavedOnDisk`), then of
the tab on top of it, whose steps are steps of the rules with a list the page
has made. `PageIsTrue` (`PageShowsRules`) relates the requests of the tab and of
the store: while all is calm the only change under way is the page's own with no
refresh next to it, and every answer on its way has the rules in force
(`CalmInv`). `TokenInForce` (`SessionKept`): between two rotations of
its own the token of the browser, the file and the core are one (`Steady`); a token
that is not filed yet is nobody's (`Fresh`); a rotation of the page is alone and
its token reaches nobody before it is answered (`OwnRotation`), and a poll gets a
401 with the browser's token only when that token has been replaced (`OwnPoll`).

`SupervisorProofs` is the refinement. `InhibitorImplements` and `VncImplements`:
every step of `PowerInhibitor`, and of `VncTab` for each of its two programs,
maps to a step of `OneChild` or changes nothing there. The invariants say that
what runs and was not told to end is the child in hand, and for the inhibitor
that of a child, a start under way and a restart to come there is one at a time
(`InHand`, `VncInHand`). `ChildrenImplement` is both in one core (`ChildrenOnce`),
`OneInhibitor` and `OneServer` draw the conclusion. `AlwaysTimed`: a VNC session
that runs has its idle timer armed.

It also has the display. `PictureOnce` (`GeometryOnce`): a geometry under way that
met no other call is the configured one and a listening page has it, and once it
is applied the picture is scaled by the outputs or by the page, never by both
(`AppliedOnce`). `TemperatureInForce` (`OneTemperature`): until calls meet, the
`wlsunset` that runs is at every await the one the call in progress expects, and
between calls the one of the pid file with the temperature asked for
(`TemperedOnce`). It assumes that call slots are positive numbers, finitely many.

Only model-checked: liveness under fairness (`CallsEnd`, `LockReleased`,
`CatchesUp`), which the prover does not do, and with it all of `NowTab`, whose
only property it is. The runs that check several modules next to each other add
nothing to prove: each theorem is about the module its property is of. What is
proved is that every step keeps the invariants; what a recursive definition
computes for every input is out of reach, which is why the loops above are
reasoned about round by round.

## 6. Not modelled

- The built-in screens render a canvas, the deployment scripts run once; neither
  keeps state the core depends on. `nowPlaying` converts a payload.
- `launcher.ts` and `pipeTransport.ts` are not reachable from `main`.
- `brightness.ts` writes one file or runs one command per call, `wayland.ts`
  reads the environment. Terminals pass bytes to a pty and keep nothing else.
- Of the control panel the tabs Updates, System and Terminal, which show what
  they are told and send single commands, the tile of the signing key, and the
  component library in `ui/`.
- In modelled components, what section 3 names as left out, and the order of
  start and shutdown in `index.ts`.
