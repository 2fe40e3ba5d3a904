------------------------------ MODULE Scheduler ------------------------------
(***************************************************************************)
(* The claim scheduler of frame-core (core/src/scheduler/index.ts and      *)
(* claims.ts): which screen the wall shows, out of the claims that the web *)
(* UI, Home Assistant, cron rules and the configured default put up.       *)
(*                                                                         *)
(* Time is counted in ticks.  `now` is Date.now(); `timer` is the number   *)
(* of ticks the pending setTimeout of scheduleExpiryRecheck has left.  The *)
(* event loop is taken to be prompt: a tick does not pass over a due       *)
(* timer.  One handler of the code is one action; the handlers are         *)
(* synchronous, so none is split.                                          *)
(***************************************************************************)
EXTENDS Integers, FiniteSets

CONSTANTS
  ScreenIds,       \* every screen id a client or a config file may name
  Offers,          \* the sources that call show() in this instance
  Durations,       \* durationMin arguments, in ticks; 0 is "not given"
  PinnedTimeouts,  \* values of manual_pinned_timeout_hours, in ticks
  MinRecheck,      \* the 1000 ms floor of scheduleExpiryRecheck
  TimerMax,        \* 2^31 - 1: a longer setTimeout fires after 1 ms
  MaxNow,          \* bound: the clock stops here
  MaxClaims        \* bound: makeClaim is called at most this often

VARIABLES
  now,             \* Date.now()
  claims,          \* the values of the claims map
  active,          \* Scheduler.active
  shown,           \* the screen of the last "activate" event
  screens,         \* ids in the screens map
  defaultScreenId, \* Scheduler.defaultScreenId
  lastDefault,     \* lastDefaultScreen of the reload handler in index.ts
  pinnedTimeout,   \* pinnedTimeoutMs
  timer,           \* ticks left of expireTimer, or NoTimer
  nothingToShow,   \* a recompute has logged "unknown screen and no default"
  nextId           \* claim ids in the order makeClaim issued them

vars == <<now, claims, active, shown, screens, defaultScreenId, lastDefault,
          pinnedTimeout, timer, nothingToShow, nextId>>

NoTimer == -1
Never == 0           \* expiresAt absent; a time of 0 is falsy in the code too
NoScreen == "none"

Priority == [default |-> 0, scheduled |-> 10, ha |-> 20, manual_next |-> 25,
             programmatic |-> 30, manual_pinned |-> 100]

Sources == {"default", "scheduled", "ha", "manual_next", "programmatic",
            "manual_pinned"}

ASSUME SchedulerAssumption ==
  /\ Offers \subseteq Sources \ {"default"}
  /\ NoScreen \notin ScreenIds
  /\ Durations \subseteq Nat
  /\ PinnedTimeouts \subseteq Nat
  /\ MinRecheck \in Nat \ {0}
  /\ TimerMax \in Nat \ {0}
  /\ MaxNow \in Nat
  /\ MaxClaims \in Nat

Claim == [id: Nat, screenId: ScreenIds, source: Sources, expiresAt: Nat,
          oneShot: BOOLEAN, createdAt: Nat]

\* Seeded fault: the id of the claim before is handed out again.
MakeClaim_reused(scr, src, until, once) ==
  [id |-> nextId - 1, screenId |-> scr, source |-> src, expiresAt |-> until,
   oneShot |-> once, createdAt |-> now]

\* makeClaim(): randomUUID is a fresh number here.
MakeClaim(scr, src, until, once) ==
  [id |-> nextId, screenId |-> scr, source |-> src, expiresAt |-> until,
   oneShot |-> once, createdAt |-> now]

------------------------------------------------------------------------------
(* resolveActive *)

Expired(c) == c.expiresAt # Never /\ c.expiresAt <= now

\* The map is walked in insertion order and a later entry has to be strictly
\* better, so on equal priority and equal createdAt the older entry wins.
Beats(a, b) ==
  \/ Priority[a.source] > Priority[b.source]
  \/ /\ Priority[a.source] = Priority[b.source]
     /\ \/ a.createdAt > b.createdAt
        \/ a.createdAt = b.createdAt /\ a.id < b.id

IsTop_oldest(c, S) ==   \* seeded fault: recency decides, priority does not
  c \in S /\ \A d \in S \ {c} : c.id > d.id

IsTop(c, S) == c \in S /\ \A d \in S \ {c} : Beats(c, d)

(* recompute and scheduleExpiryRecheck *)

TimerDelay(d) == IF d > TimerMax THEN 1 ELSE d

\* Seeded fault: the recheck waits for the latest expiry.
ExpiryRecheck_latest(cs) ==
  LET pending == {c.expiresAt : c \in {d \in cs : d.expiresAt > now}}
  IN  IF pending = {} THEN NoTimer
      ELSE LET t == CHOOSE t \in pending : \A u \in pending : u <= t
           IN  TimerDelay(IF t - now > MinRecheck THEN t - now ELSE MinRecheck)

ExpiryRecheck(cs) ==
  LET pending == {c.expiresAt : c \in {d \in cs : d.expiresAt > now}}
  IN  IF pending = {} THEN NoTimer
      ELSE LET t == CHOOSE t \in pending : \A u \in pending : t <= u
           IN  TimerDelay(IF t - now > MinRecheck THEN t - now ELSE MinRecheck)

ScreenFor(c, scr, def) ==
  IF c.screenId \in scr THEN c.screenId
  ELSE IF def \in scr THEN def ELSE NoScreen

\* Seeded fault: a displaced manual_next claim stays in the map.
Displaced_kept(live, next) == {}

\* An active manual_next claim that is no longer the winner is deleted.
Displaced(live, next) ==
  {c \in live : /\ c.id = active.id
                /\ active.source = "manual_next"
                /\ active.id # next.id}

\* recompute() on the claims cs left by the handler that calls it, with the
\* screens scr, the default screen def and the expiry timer tmr it finds.
Recompute(cs, scr, def, tmr) ==
  LET live == {c \in cs : c.source = "default" \/ ~Expired(c)}
  IN  \E next \in live :
        /\ IsTop(next, live)
        /\ LET kept == live \ Displaced(live, next)
               screen == ScreenFor(next, scr, def)
               changed == active.id # next.id
               popped == IF changed /\ next.oneShot /\ next.source # "default"
                         THEN kept \ {next} ELSE kept
           IN  \/ /\ screen = NoScreen
                  /\ claims' = kept
                  /\ timer' = tmr
                  /\ nothingToShow' = TRUE
                  /\ UNCHANGED <<active, shown>>
               \/ /\ screen # NoScreen
                  /\ active' = next
                  /\ shown' = IF changed THEN screen ELSE shown
                  /\ claims' = popped
                  /\ timer' = ExpiryRecheck(popped)
                  /\ UNCHANGED nothingToShow

------------------------------------------------------------------------------
(* The handlers *)

PinnedUntil(d) ==
  LET ms == IF d # 0 THEN d ELSE pinnedTimeout
  IN  IF ms > 0 THEN now + ms ELSE Never

Until(src, d) ==
  IF src = "manual_pinned" THEN PinnedUntil(d)
  ELSE IF d > 0 THEN now + d ELSE Never

\* show(): an unknown screen throws and changes nothing.  Any claim that is
\* not itself manual_next deletes every manual_next claim first.
Show(scr, src, d, once) ==
  /\ scr \in screens
  /\ nextId < MaxClaims
  /\ LET others == IF src = "manual_next" THEN claims
                   ELSE {c \in claims : c.source # "manual_next"}
     IN  Recompute(others \cup {MakeClaim(scr, src, Until(src, d), once)},
                   screens, defaultScreenId, timer)
  /\ nextId' = nextId + 1
  /\ UNCHANGED <<now, screens, defaultScreenId, lastDefault, pinnedTimeout>>

\* Seeded fault: the guard that keeps the default claim is dropped.
Release_any(c) ==
  /\ Recompute(claims \ {c}, screens, defaultScreenId, timer)
  /\ UNCHANGED <<now, screens, defaultScreenId, lastDefault, pinnedTimeout,
                 nextId>>

\* Seeded fault: the map entry goes, the frame is not told.
Release_silent(c) ==
  /\ c.source # "default"
  /\ claims' = claims \ {c}
  /\ UNCHANGED <<now, active, shown, screens, defaultScreenId, lastDefault,
                 pinnedTimeout, timer, nothingToShow, nextId>>

\* release(): the default claim cannot be released.
Release(c) ==
  /\ c.source # "default"
  /\ Recompute(claims \ {c}, screens, defaultScreenId, timer)
  /\ UNCHANGED <<now, screens, defaultScreenId, lastDefault, pinnedTimeout,
                 nextId>>

\* releaseSource(): recomputes only when it removed something.  Its type
\* admits "default" but no caller passes it.
ReleaseSource(src) ==
  /\ \E c \in claims : c.source = src
  /\ Recompute({c \in claims : c.source # src}, screens, defaultScreenId,
               timer)
  /\ UNCHANGED <<now, screens, defaultScreenId, lastDefault, pinnedTimeout,
                 nextId>>

\* installDefault() followed by recompute(): the body of updateDefault().
InstallDefault(def, scr) ==
  /\ nextId < MaxClaims
  /\ Recompute({c \in claims : c.source # "default"}
                 \cup {MakeClaim(def, "default", Never, FALSE)},
               scr, def, timer)
  /\ defaultScreenId' = def
  /\ nextId' = nextId + 1

\* MQTT frame/cmd/set_default: any string is accepted, known screen or not.
SetDefault(def) ==
  /\ InstallDefault(def, screens)
  /\ UNCHANGED <<now, screens, lastDefault, pinnedTimeout>>

\* The "reloaded" handler.  A validated configuration names one of its own
\* screens as default.  Without a new default nothing is recomputed; the
\* pinned timeout is replaced last.
Reload(scr, def, pin) ==
  /\ def \in scr
  /\ screens' = scr
  /\ pinnedTimeout' = pin
  /\ \/ /\ def # lastDefault
        /\ InstallDefault(def, scr)
        /\ lastDefault' = def
     \/ /\ def = lastDefault
        /\ UNCHANGED <<claims, active, shown, defaultScreenId, lastDefault,
                       timer, nothingToShow, nextId>>
  /\ UNCHANGED now

\* The expiry timer fires.
ExpiryTimerFires ==
  /\ timer = 0
  /\ Recompute(claims, screens, defaultScreenId, NoTimer)
  /\ UNCHANGED <<now, screens, defaultScreenId, lastDefault, pinnedTimeout,
                 nextId>>

\* Time passes, but not over a due timer.
Tick ==
  /\ now < MaxNow
  /\ timer # 0
  /\ now' = now + 1
  /\ timer' = IF timer = NoTimer THEN NoTimer ELSE timer - 1
  /\ UNCHANGED <<claims, active, shown, screens, defaultScreenId, lastDefault,
                 pinnedTimeout, nothingToShow, nextId>>

\* The constructor, then start(): the default claim is up and shown.
Init ==
  /\ now = 1
  /\ screens \in SUBSET ScreenIds
  /\ defaultScreenId \in screens
  /\ lastDefault = defaultScreenId
  /\ pinnedTimeout \in PinnedTimeouts
  /\ active = [id |-> 0, screenId |-> defaultScreenId, source |-> "default",
               expiresAt |-> Never, oneShot |-> FALSE, createdAt |-> 1]
  /\ claims = {active}
  /\ shown = defaultScreenId
  /\ timer = NoTimer
  /\ nothingToShow = FALSE
  /\ nextId = 1

Next ==
  \/ \E scr \in ScreenIds, src \in Offers, d \in Durations, once \in BOOLEAN :
       Show(scr, src, d, once)
  \/ \E c \in claims : Release(c)
  \/ \E src \in Offers : ReleaseSource(src)
  \/ \E def \in ScreenIds : SetDefault(def)
  \/ \E scr \in SUBSET ScreenIds, def \in ScreenIds, pin \in PinnedTimeouts :
       Reload(scr, def, pin)
  \/ ExpiryTimerFires
  \/ Tick

Spec == Init /\ [][Next]_vars

------------------------------------------------------------------------------
(* Properties *)

\* Every variable has its type; a claim carries an id already issued, no two
\* claims share one, and the clock that stamped it is not ahead of now.
TypeOK ==
  /\ now \in Nat /\ nextId \in Nat
  /\ claims \subseteq Claim /\ active \in Claim
  /\ \A c \in claims \cup {active} : c.id < nextId /\ c.createdAt <= now
  /\ \A c, d \in claims \cup {active} : c.id = d.id => c = d
  /\ screens \subseteq ScreenIds /\ shown \in ScreenIds
  /\ defaultScreenId \in ScreenIds /\ lastDefault \in ScreenIds
  /\ pinnedTimeout \in Nat
  /\ timer \in Nat \cup {NoTimer}
  /\ nothingToShow \in BOOLEAN

\* SPEC 4.7, "always present": whatever is released, purged or expired, there
\* is exactly one default claim and it names the current default screen.
DefaultPresent ==
  \E c \in claims :
    /\ c.source = "default" /\ c.screenId = defaultScreenId
    /\ c.expiresAt = Never
    /\ \A d \in claims : d.source = "default" => d = c

\* No claim in the map outranks the one on the frame.  It holds even after a
\* recompute found no screen to show, except against a new default claim.
NothingOutranksActive ==
  \A c \in claims : c.source # "default" => c = active \/ Beats(active, c)

\* What the frame shows is still claimed: a released or expired claim does
\* not linger as the active one.  A one-shot claim is popped when shown.
ActiveStillClaimed ==
  active \in claims \/ active.oneShot \/ nothingToShow

\* A claim with a limit leaves the map less than MinRecheck after it: the
\* pending timer always covers the earliest expiry, however the timer was
\* pushed back by recomputes in between.
NoOverstay ==
  nothingToShow \/
  \A c \in claims : c.expiresAt # Never => now < c.expiresAt + MinRecheck

\* SPEC 4.7: a manual_next claim that lost the frame is gone for good, so
\* releasing what displaced it cannot bring it back.
DisplacedNextGone ==
  [][ active.source = "manual_next" /\ active'.id # active.id
        => \A c \in claims' : c.id # active.id ]_vars

==============================================================================
