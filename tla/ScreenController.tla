--------------------------- MODULE ScreenController ---------------------------
(***************************************************************************)
(* How a screen reaches the wall: ScreenController.show and its tab cache  *)
(* (core/src/cdp/screenController.ts), the CDP connection it drives        *)
(* (core/src/cdp/manager.ts), the shell bus (core/src/api/shellBus.ts),    *)
(* the shell page, and the wiring in core/src/index.ts that starts a show  *)
(* on every scheduler activation and on every shell connection.            *)
(*                                                                         *)
(* show() is asynchronous and nothing serialises its calls, so each call   *)
(* in flight is a slot with the await it is parked at:                     *)
(*   capture   screenshot of the previous URL tab                          *)
(*   front     Target.activateTarget of the shell tab                      *)
(*   create    Target.createTarget and attach of a cold URL tab            *)
(*   load      waitForLoad, at most four seconds                           *)
(*   activate  Target.activateTarget of the URL tab                        *)
(* Browser-level commands share one WebSocket and are carried out and      *)
(* answered in the order sent: an activation takes effect when it is sent, *)
(* its answer waits in `acks`.  Shell messages are delivered at once.      *)
(***************************************************************************)
EXTENDS Integers, FiniteSets, Sequences, SequencesExt, ShellPage

CONSTANTS
  Urls,        \* ids of URL screens
  Builtins,    \* ids of built-in screens
  Boot,        \* the screen shown when the core starts, a built-in
  Preloads,    \* lists of URL screens a configuration marks preload: true
  Caps,        \* values of max_preloaded_url_screens
  Slots,       \* bound: show() calls in flight at once, 1..n
  MaxShows,    \* bound: show() calls in all
  MaxRegisters, \* bound: registerScreens() calls
  MaxExits     \* bound: exits of chromium and drops of the shell socket

Screens == Urls \cup Builtins
ShellTab == 0
NoTab == -1

ASSUME ScreenControllerAssumption ==
  /\ Urls \cap Builtins = {} /\ NoScreen \notin Screens
  /\ Boot \in Builtins
  /\ Preloads \subseteq Seq(Urls) /\ Caps \subseteq Nat \ {0}
  /\ Slots \subseteq Nat \ {0} /\ IsFiniteSet(Slots) /\ MaxShows \in Nat
  /\ MaxRegisters \in Nat /\ MaxExits \in Nat

VARIABLES
  alive,      \* the chromium process runs
  cdp,        \* "down"; "connecting": isConnected() but no shellTabId yet;
              \* "up"; "blind": discovery is over and found no shell tab
  sink,       \* the shell page's WebSocket is attached to the bus
  page,       \* the shell page
  open,       \* the tabs chromium has besides the shell page: tab -> url
  front,      \* the tab in front
  urlTabs,    \* ScreenController.urlTabs: [id, tab], least lastUsed first
  cap,        \* maxPreloaded
  preloading, \* number of preload() calls awaiting newTab, by screen id
  current,    \* ScreenController.current
  calls,      \* show() calls in flight, by slot
  acks,       \* slots whose activation is unanswered, with its outcome
  shows, registers, exits, \* counted against their bounds
  target,     \* history: the screen of the last show() call
  restartDue, \* a show() has failed: screenShowFailed wants a kiosk restart
  raced       \* history: the last show() started while another was in flight
              \* or CDP half connected, or a tab was evicted under it

vars == <<alive, cdp, sink, page, open, front, urlTabs, cap, preloading,
          current, calls, acks, shows, registers, exits, target, restartDue,
          raced>>

Idle == [step |-> "idle", id |-> NoScreen, tab |-> NoTab]
Call(step, id, tab) == [step |-> step, id |-> id, tab |-> tab]
Quiet == \A s \in Slots : calls[s] = Idle
Connected == cdp # "down"

\* ShellBus.send, with the sink the step ends with: none, and the message is
\* dropped.
Sent(pg) == IF sink' THEN pg ELSE page

(* The map of tabs, as a list of entries in the order of their stamps. *)
Cached(tabs) == {tabs[i].id : i \in DOMAIN tabs}
TabFor(tabs, id) == (CHOOSE e \in ToSet(tabs) : e.id = id).tab

Without(tabs, id) ==
  IF id \in Cached(tabs)
  THEN RemoveAt(tabs, CHOOSE i \in DOMAIN tabs : tabs[i].id = id) ELSE tabs

\* urlTabs.set() of a tab just stamped, and a new stamp on an entry.
Filed(tabs, id, tab) ==
  Append(Without(tabs, id), [id |-> id, tab |-> tab])

------------------------------------------------------------------------------
(* The tail of show(), from the await that was answered to the next one.   *)
(* pg is the page after the messages already sent in this step and ac the  *)
(* unanswered activations.                                                 *)

\* Seeded fault: the URL path forgets hide_overlay.
Done_overlay(s, id, pg, ac) ==
  /\ page' = Sent(IF id \in Builtins THEN ShowFrame(pg, id) ELSE pg)
  /\ current' = id
  /\ calls' = [calls EXCEPT ![s] = Idle]
  /\ acks' = ac
  /\ UNCHANGED <<front, urlTabs, restartDue>>

Done(s, id, pg, ac) ==
  /\ page' = Sent(HideOverlay(IF id \in Builtins THEN ShowFrame(pg, id) ELSE pg))
  /\ current' = id
  /\ calls' = [calls EXCEPT ![s] = Idle]
  /\ acks' = ac
  /\ UNCHANGED <<front, urlTabs, restartDue>>

\* The call rejects; index.ts logs it and reports screenShowFailed.
Fail(s, pg, ac) ==
  /\ page' = pg
  /\ calls' = [calls EXCEPT ![s] = Idle]
  /\ acks' = ac
  /\ restartDue' = TRUE
  /\ UNCHANGED <<front, urlTabs, current>>

\* Stamp lastUsed and send activateTarget for the tab of a URL screen.  The
\* map entry is the object stamped, also when it has left the map.
ActivateTab(s, id, tab, pg, ac) ==
  \/ /\ Connected
     /\ urlTabs' = IF Contains(urlTabs, [id |-> id, tab |-> tab])
                   THEN Filed(urlTabs, id, tab) ELSE urlTabs
     /\ front' = IF tab \in DOMAIN open THEN tab ELSE front
     /\ acks' = Append(ac, [slot |-> s, ok |-> tab \in DOMAIN open])
     /\ calls' = [calls EXCEPT ![s] = Call("activate", id, tab)]
     /\ page' = pg
     /\ UNCHANGED <<current, restartDue>>
  \/ /\ ~Connected
     /\ Fail(s, pg, ac)

\* After the shell tab is in front: a built-in is shown by the page, a URL
\* screen by its tab, created first when there is none.
Render(s, id, pg, ac) ==
  \/ /\ id \in Builtins
     /\ Done(s, id, pg, ac)
  \/ /\ id \in Cached(urlTabs)
     /\ ActivateTab(s, id, TabFor(urlTabs, id), pg, ac)
  \/ /\ id \in Urls \ Cached(urlTabs)
     /\ \/ /\ Connected
           /\ calls' = [calls EXCEPT ![s] = Call("create", id, NoTab)]
           /\ page' = pg
           /\ acks' = ac
           /\ UNCHANGED <<front, urlTabs, current, restartDue>>
        \/ /\ ~Connected
           /\ Fail(s, pg, ac)

\* After captureOverlay: bring the shell tab to the front if one is known.
BringShell(s, id, pg) ==
  \/ /\ cdp = "up"
     /\ front' = ShellTab
     /\ acks' = Append(acks, [slot |-> s, ok |-> TRUE])
     /\ calls' = [calls EXCEPT ![s] = Call("front", id, NoTab)]
     /\ page' = pg
     /\ UNCHANGED <<urlTabs, current, restartDue>>
  \/ /\ cdp # "up"
     /\ Render(s, id, pg, acks)

\* show(), up to its first await.  With CDP down a URL screen is an iframe
\* of the shell page and the call ends at once.
Begin(s, id) ==
  LET pg == Sent(IF id \in Builtins THEN PreloadFrame(page, id) ELSE page)
  IN  \/ /\ id \in Urls /\ ~Connected
         /\ page' = Sent(HideOverlay(ShowFrame(PreloadFrame(page, id), id)))
         /\ current' = id
         /\ UNCHANGED <<calls, acks, front, urlTabs, restartDue>>
      \/ /\ id \in Builtins \/ Connected
         /\ current \in Cached(urlTabs)
         /\ calls' = [calls EXCEPT ![s] = Call("capture", id, TabFor(urlTabs, current))]
         /\ page' = pg
         /\ UNCHANGED <<acks, front, urlTabs, current, restartDue>>
      \/ /\ id \in Builtins \/ Connected
         /\ current \notin Cached(urlTabs)
         /\ BringShell(s, id, pg)

\* Start a call in the first free slot.
Show(id) ==
  /\ shows < MaxShows
  /\ \E s \in Slots :
       /\ calls[s] = Idle
       /\ \A r \in Slots : calls[r] = Idle => s <= r
       /\ Begin(s, id)
  /\ shows' = shows + 1
  /\ target' = id
  /\ raced' = (~Quiet \/ cdp = "connecting")

------------------------------------------------------------------------------
(* Actions: the scheduler and the awaits of show() *)

\* scheduler.on("activate")
Activate(id) ==
  /\ UNCHANGED sink
  /\ Show(id)
  /\ UNCHANGED <<alive, cdp, open, cap, preloading, registers,
                 exits>>

\* The screenshot arrives, or fails and is only logged.
CaptureDone(s) ==
  /\ UNCHANGED sink
  /\ calls[s].step = "capture"
  /\ alive \/ ~Connected
  /\ LET shot == Connected /\ calls[s].tab \in DOMAIN open
     IN  BringShell(s, calls[s].id,
                    IF shot THEN Sent(PaintOverlay(page)) ELSE page)
  /\ UNCHANGED <<alive, cdp, open, cap, preloading, shows,
                 registers, exits, target, raced>>

\* The oldest unanswered activateTarget is answered.
ActivationAnswered ==
  /\ UNCHANGED sink
  /\ alive /\ Connected /\ acks # <<>>
  /\ LET s == Head(acks).slot
         c == calls[s]
     IN  \/ /\ Head(acks).ok /\ c.step = "front"
            /\ Render(s, c.id, page, Tail(acks))
         \/ /\ Head(acks).ok /\ c.step = "activate"
            /\ Done(s, c.id, page, Tail(acks))
         \/ /\ ~Head(acks).ok
            /\ Fail(s, page, Tail(acks))
  /\ UNCHANGED <<alive, cdp, open, cap, preloading, shows,
                 registers, exits, target, raced>>

\* newTab() resolves: the tab is open and attached, and the map entry is set
\* whatever the map holds by now.  A target id is a number nothing refers to.
NewTab ==
  LET taken == DOMAIN open \cup {ShellTab} \cup {e.tab : e \in ToSet(urlTabs)}
                 \cup {calls[s].tab : s \in Slots}
  IN  CHOOSE t \in 1..(Cardinality(taken) + 1) : t \notin taken

OpenTab(id) ==
  /\ alive /\ Connected
  /\ open' = [t \in DOMAIN open \cup {NewTab} |-> IF t = NewTab THEN id ELSE open[t]]
  /\ urlTabs' = Filed(urlTabs, id, NewTab)

\* The cold tab of a show() exists; the call goes on to waitForLoad.
TabCreated(s) ==
  /\ calls[s].step = "create"
  /\ OpenTab(calls[s].id)
  /\ calls' = [calls EXCEPT ![s] = Call("load", calls[s].id, NewTab)]
  /\ UNCHANGED <<alive, cdp, sink, page, front, cap, preloading, current,
                 acks, shows, registers, exits, target, restartDue,
                 raced>>

\* waitForLoad resolves: the load event fired or four seconds have passed.
Loaded(s) ==
  /\ UNCHANGED sink
  /\ calls[s].step = "load"
  /\ ActivateTab(s, calls[s].id, calls[s].tab, page, acks)
  /\ UNCHANGED <<alive, cdp, open, cap, preloading, shows,
                 registers, exits, target, raced>>

------------------------------------------------------------------------------
(* Preloading *)

\* evictOldest() spares the current screen.
Evictable(tabs) == {i \in DOMAIN tabs : tabs[i].id # current}

Oldest(tabs) ==
  CHOOSE i \in Evictable(tabs) : \A j \in Evictable(tabs) : i <= j

EvictOldest(st) ==
  IF Evictable(st.tabs) = {} THEN st
  ELSE [st EXCEPT !.tabs = RemoveAt(st.tabs, Oldest(st.tabs)),
                  !.closed = @ \cup {st.tabs[Oldest(st.tabs)].tab}]

\* preload() of one screen up to its await: a full map gives up a tab first,
\* but gets the new one only when that is open.
Preload(st, id) ==
  IF id \in Cached(st.tabs) THEN st
  ELSE LET room == IF Len(st.tabs) >= cap THEN EvictOldest(st) ELSE st
       IN  [room EXCEPT !.asked[id] = @ + 1]

\* registerScreens() with the preload screens of a configuration: the loop
\* runs to its end before any of the new tabs is there.
Registered(list) ==
  LET first == IF Len(list) < cap THEN Len(list) ELSE cap
      after[i \in 0..first] ==
        IF i = 0 THEN [tabs |-> urlTabs, closed |-> {}, asked |-> preloading]
        ELSE Preload(after[i - 1], list[i])
  IN  after[first]

\* setMaxPreloaded(): evict until the map fits.  The current screen always
\* does, as the schema has a cap of at least one.
Trimmed(st, n) ==
  LET after[i \in 0..Len(st.tabs)] ==
        IF i = 0 THEN st
        ELSE IF Len(after[i - 1].tabs) > n THEN EvictOldest(after[i - 1])
        ELSE after[i - 1]
  IN  after[Len(st.tabs)]

\* The closed tabs go, the map and the pending newTab() calls are those of st.
\* Which tab chromium shows after one in front is closed is left open.
\* Without a connection newTab() rejects and the preload is only logged.
Apply(st) ==
  /\ urlTabs' = st.tabs
  /\ open' = [t \in DOMAIN open \ st.closed |-> open[t]]
  /\ front' \in IF front \in st.closed THEN DOMAIN open' \cup {ShellTab} ELSE {front}
  /\ preloading' = IF Connected THEN st.asked ELSE preloading
  /\ raced' = (raced \/ (~Quiet /\ st.closed # {}))

\* The "reloaded" handler registers the screens under the old cap, then
\* applies the new one.
Reload(list, n) ==
  /\ registers < MaxRegisters
  /\ registers' = registers + 1
  /\ Apply(Trimmed(Registered(list), n))
  /\ cap' = n
  /\ UNCHANGED <<alive, cdp, sink, page, current, calls, acks,
                 shows, exits, target, restartDue>>

\* newTab() of a preload resolves.
PreloadCreated(id) ==
  /\ preloading[id] > 0
  /\ OpenTab(id)
  /\ preloading' = [preloading EXCEPT ![id] = @ - 1]
  /\ UNCHANGED <<alive, cdp, sink, page, front, cap, current, calls, acks,
                 shows, registers, exits, target, restartDue, raced>>

------------------------------------------------------------------------------
(* Chromium, the CDP connection and the shell page's socket *)

\* Chromium exits: its tabs and the shell page are gone.
ChromiumExits ==
  /\ alive /\ exits < MaxExits
  /\ alive' = FALSE
  /\ exits' = exits + 1
  /\ open' = <<>> /\ front' = ShellTab /\ page' = BlankPage
  /\ UNCHANGED <<cdp, sink, urlTabs, cap, preloading, current, calls,
                 acks, shows, registers, target, restartDue,
                 raced>>

\* Seeded fault: close() forgets the commands in flight instead of rejecting.
CdpCloses_pending ==
  /\ ~alive /\ Connected
  /\ cdp' = "down"
  /\ acks' = <<>>
  /\ urlTabs' = <<>>
  /\ preloading' = [u \in Urls |-> 0]
  /\ UNCHANGED <<alive, sink, page, open, front, cap, current, calls,
                 shows, registers, exits, target, restartDue,
                 raced>>

\* The transport closes: commands in flight reject, the tabs are forgotten.
\* waitForLoad is left to its own timeout, a screenshot's failure is caught.
CdpCloses ==
  /\ ~alive /\ Connected
  /\ cdp' = "down"
  /\ LET lost == {s \in Slots : calls[s].step \in {"front", "create", "activate"}}
     IN  /\ calls' = [s \in Slots |-> IF s \in lost THEN Idle ELSE calls[s]]
         /\ restartDue' = (restartDue \/ lost # {})
  /\ acks' = <<>>
  /\ urlTabs' = <<>>
  /\ preloading' = [u \in Urls |-> 0]
  /\ UNCHANGED <<alive, sink, page, open, front, cap, current,
                 shows, registers, exits, target, raced>>

\* The kiosk session is restarted and chromium loads the shell page.
ChromiumStarts ==
  /\ ~alive /\ ~Connected /\ ~sink
  /\ alive' = TRUE
  /\ restartDue' = FALSE
  /\ UNCHANGED <<cdp, sink, page, open, front, urlTabs, cap,
                 preloading, current, calls, acks, shows, registers,
                 exits, target, raced>>

\* connectCdp(), at least five seconds after a close: the transport is open,
\* discovery still under way.  A screenshot or a load awaited over the old
\* connection is over by then.
CdpConnects ==
  /\ alive /\ cdp = "down"
  /\ \A s \in Slots : calls[s].step \notin {"capture", "load"}
  /\ cdp' = "connecting"
  /\ UNCHANGED <<alive, sink, page, open, front, urlTabs, cap,
                 preloading, current, calls, acks, shows, registers,
                 exits, target, restartDue, raced>>

\* Discovery is done and the screens are registered.  The shell tab is known if
\* a page target had its address by then; if none had, nothing looks again.
CdpReady(list) ==
  /\ alive /\ cdp = "connecting"
  /\ cdp' \in {"up", "blind"}
  /\ Apply(Registered(list))
  /\ UNCHANGED <<alive, sink, page, cap, current, calls, acks,
                 shows, registers, exits, target, restartDue>>

\* The shell page's socket closes, with chromium or on its own.
ShellDetaches ==
  /\ sink
  /\ sink' = FALSE
  /\ exits' = IF alive THEN exits + 1 ELSE exits
  /\ exits' <= MaxExits
  /\ UNCHANGED <<alive, cdp, page, open, front, urlTabs, cap,
                 preloading, current, calls, acks, shows, registers,
                 target, restartDue, raced>>

\* Seeded fault: nothing is replayed when the shell page is back.
ShellAttaches_silent ==
  /\ alive /\ ~sink
  /\ sink' = TRUE
  /\ UNCHANGED <<alive, cdp, page, open, front, urlTabs, cap,
                 preloading, current, calls, acks, shows, registers,
                 exits, target, restartDue, raced>>

\* shell.on("connect"): the screen ScreenController holds as current is shown
\* again.  The bus has the sink when the replay starts.
ShellAttaches ==
  /\ alive /\ ~sink
  /\ sink' = TRUE
  /\ shows < MaxShows
  /\ shows' = shows + 1
  /\ target' = current
  /\ raced' = (~Quiet \/ cdp = "connecting")
  /\ \E s \in Slots :
       /\ calls[s] = Idle
       /\ \A r \in Slots : calls[r] = Idle => s <= r
       /\ Begin(s, current)
  /\ UNCHANGED <<alive, cdp, open, cap, preloading, registers, exits>>

------------------------------------------------------------------------------
(* scheduler.start() has run, nothing else is up yet: the boot screen was
   sent to a bus without a sink. *)
Init ==
  /\ alive = FALSE /\ cdp = "down" /\ sink = FALSE
  /\ page = BlankPage /\ open = <<>> /\ front = ShellTab
  /\ urlTabs = <<>> /\ cap \in Caps /\ preloading = [u \in Urls |-> 0]
  /\ current = Boot /\ target = Boot
  /\ calls = [s \in Slots |-> Idle] /\ acks = <<>>
  /\ shows = 0 /\ registers = 0 /\ exits = 0
  /\ restartDue = FALSE /\ raced = FALSE

Next ==
  \/ \E id \in Screens : Activate(id)
  \/ \E s \in Slots : CaptureDone(s) \/ TabCreated(s) \/ Loaded(s)
  \/ ActivationAnswered
  \/ \E list \in Preloads, n \in Caps : Reload(list, n)
  \/ \E list \in Preloads : CdpReady(list)
  \/ \E id \in Urls : PreloadCreated(id)
  \/ ChromiumExits \/ CdpCloses \/ ChromiumStarts \/ CdpConnects
  \/ ShellDetaches \/ ShellAttaches

Spec == Init /\ [][Next]_vars

\* Chromium answers what it is asked or its death is noticed; waitForLoad has
\* a timeout.  Nothing is assumed of the scheduler, the shell page or restarts.
Answers ==
  /\ \A s \in Slots :
       WF_vars(CaptureDone(s)) /\ WF_vars(TabCreated(s)) /\ WF_vars(Loaded(s))
  /\ WF_vars(ActivationAnswered)
  /\ WF_vars(CdpCloses)

FairSpec == Spec /\ Answers

------------------------------------------------------------------------------
(* Properties *)

\* Every variable has its type; a tab in the map shows the screen it is filed
\* under, and the calls that await an activation are those still unanswered.
TypeOK ==
  /\ alive \in BOOLEAN /\ sink \in BOOLEAN
  /\ cdp \in {"down", "connecting", "up", "blind"}
  /\ page \in Pages(Screens)
  /\ DOMAIN open \subseteq Nat \ {ShellTab} /\ Range(open) \subseteq Urls
  /\ front \in DOMAIN open \cup {ShellTab}
  /\ Cardinality(Cached(urlTabs)) = Len(urlTabs) /\ Cached(urlTabs) \subseteq Urls
  /\ alive => \A e \in ToSet(urlTabs) : open[e.tab] = e.id
  /\ current \in Screens /\ target \in Screens
  /\ {acks[i].slot : i \in 1..Len(acks)}
       = {s \in Slots : calls[s].step \in {"front", "activate"}}

\* What a person in front of the frame sees under the overlay.
Wall ==
  IF ~alive THEN NoScreen
  ELSE IF front = ShellTab THEN FrameShown(page) ELSE open[front]

Settled == Quiet /\ alive /\ sink /\ ~restartDue

\* A built-in that no activation can bring to the front: the shell page shows
\* it, and a URL tab may be in front of the shell page.
Behind == cdp = "blind" /\ target \in Builtins /\ FrameShown(page) = target

\* A show() that ran alone put its screen on the wall, and it stays there
\* through reloads, evictions, late preloads, reconnections of CDP and of the
\* shell page, and restarts of chromium, until the next show().  The one
\* exception is a built-in for as long as CDP knows of no shell tab.
SettledShowsTarget ==
  Settled /\ ~raced => current = target /\ (Wall = target \/ Behind)

\* The overlay a call painted is taken down again by the time every call has
\* ended, however calls overlapped and whether or not the socket dropped.
OverlayReleased == Settled => ~page.overlay

\* Every show() ends, also when chromium dies under it.
CallsEnd == \A s \in Slots : calls[s] # Idle ~> calls[s] = Idle

\* index.ts of the shell's "connect": "replay whatever the scheduler picked
\* as the active screen".  That is the screen of the last show(), as long as
\* every replay so far was of the pick.
ReplayShowsPick == [][~sink /\ sink' => target' = target]_vars

==============================================================================
