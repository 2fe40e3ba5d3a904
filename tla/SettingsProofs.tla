---------------------------- MODULE SettingsProofs ----------------------------
(***************************************************************************)
(* Proofs about HaBridge, for any settings and limit of refusals, and from *)
(* them and those about ConfigStore the proofs about Settings: the         *)
(* properties of each hold in the composition, and they agree on the       *)
(* setting in use.  Then those about the Settings tab: what it reports as  *)
(* saved is in force, and it writes what was entered only.                 *)
(***************************************************************************)
EXTENDS Settings, SettingsTab, ConfigStoreProofs, Sequences

(* The inductive invariant: what holds as long as no two starts overlap.   *)

\* A start under way is for the setting in use, and no client lives.
StartIsCurrent ==
  starting # <<>> => starting = <<cfg>> /\ cfg # Off /\ clients = {}

\* The shape of a client, whatever its setting is.
IsClient(c) == \E conf, link, held : c = [conf |-> conf, link |-> link, held |-> held]

\* A client that lives is held, is for the setting in use, and is alone.
Alone ==
  clients # {} => cfg # Off /\ \E c : IsClient(c) /\ clients = {c} /\ c.held /\ c.conf = cfg

\* A setting that is on has a client or a start under way.
Served == cfg # Off /\ ~booting => starting # <<>> \/ clients # {}

BridgeInv ==
  /\ ~hurried => StartIsCurrent /\ Alone /\ Served
  /\ Bridge!StatusTruthful

-------------------------------------------------------------------------------

\* The only element of a list of one can be taken out of it.
LEMMA RemoveOnly == ASSUME NEW x, NEW i \in DOMAIN <<x>> PROVE Bridge!RemoveAt(<<x>>, i) = <<>> /\ <<x>>[i] = x
BY DEF Bridge!RemoveAt

\* An event changes the link of a client and nothing else of it.
Linked(c, link) == [c EXCEPT !.link = link]

LEMMA LinkShape ==
  ASSUME NEW c, IsClient(c), NEW link
  PROVE  LET d == Linked(c, link)
         IN  IsClient(d) /\ d.link = link /\ d.held = c.held /\ d.conf = c.conf
<1>1. PICK conf, l, h : c = [conf |-> conf, link |-> l, held |-> h]
  BY DEF IsClient
<1>2. Linked(c, link) = [conf |-> conf, link |-> link, held |-> h]
  BY <1>1 DEF Linked
<1>3. IsClient(Linked(c, link))
  BY <1>2 DEF IsClient
<1>4. /\ Linked(c, link).link = link /\ Linked(c, link).held = h
      /\ Linked(c, link).conf = conf /\ c.held = h /\ c.conf = conf
  BY <1>1, <1>2
<1>5. QED
  BY <1>3, <1>4

LEMMA BridgeInit == Bridge!Init => BridgeInv
BY DEF Bridge!Init, BridgeInv, StartIsCurrent, Alone, Served, Bridge!StatusTruthful

LEMMA BridgeBootInv == ASSUME BridgeInv, Bridge!StartAtBoot PROVE BridgeInv'
<1>. SUFFICES ASSUME ~hurried' PROVE BridgeInv'
  BY DEF BridgeInv, Bridge!StartAtBoot, Bridge!StatusTruthful
<1>1. CASE cfg = Off
  BY <1>1 DEF BridgeInv, Bridge!StartAtBoot, StartIsCurrent, Alone, Served, Bridge!StatusTruthful
<1>2. CASE cfg # Off
  <2>1. starting = <<>> /\ clients = {} /\ ~hurried
    BY <1>2 DEF Bridge!StartAtBoot
  <2>2. starting' = <<cfg>>
    BY <1>2, <2>1 DEF Bridge!StartAtBoot
  <2>3. QED
    BY <1>2, <2>1, <2>2 DEF BridgeInv, Bridge!StartAtBoot, StartIsCurrent, Alone, Served, Bridge!StatusTruthful
<1>3. QED
  BY <1>1, <1>2

LEMMA ReconfiguredInv == ASSUME BridgeInv, NEW conf, Bridge!Reconfigured(conf) PROVE BridgeInv'
<1>1. CASE UNCHANGED Bridge!bridgeVars
  BY <1>1 DEF Bridge!bridgeVars, BridgeInv, StartIsCurrent, Alone, Served, Bridge!StatusTruthful
<1>2. CASE conf # cfg
  <2>1. /\ cfg' = conf /\ status' = "disconnected" /\ booting' = booting
        /\ clients' = Bridge!Others
        /\ starting' = IF conf = Off THEN starting ELSE Append(starting, conf)
        /\ hurried' = (hurried \/ starting # <<>>)
    BY <1>2 DEF Bridge!Reconfigured
  <2>2. CASE hurried'
    BY <2>1, <2>2 DEF BridgeInv, Bridge!StatusTruthful
  <2>3. CASE ~hurried'
    <3>1. ~hurried /\ starting = <<>>
      BY <2>1, <2>3
    <3>2. clients' = {}
      BY <2>1, <3>1 DEF BridgeInv, Alone, Bridge!Others
    <3>3. starting' = IF conf = Off THEN <<>> ELSE <<conf>>
      BY <2>1, <3>1
    <3>4. CASE conf = Off
      BY <2>1, <3>2, <3>3, <3>4 DEF BridgeInv, StartIsCurrent, Alone, Served, Bridge!StatusTruthful
    <3>5. CASE conf # Off
      <4>. starting' = <<conf>>
        BY <3>3, <3>5
      <4>1. starting' = <<cfg'>> /\ starting' # <<>>
        BY <2>1
      <4>2. StartIsCurrent'
        BY <2>1, <3>2, <3>5, <4>1 DEF StartIsCurrent
      <4>3. Alone' /\ Served' /\ Bridge!StatusTruthful'
        BY <2>1, <3>2, <4>1 DEF Alone, Served, Bridge!StatusTruthful
      <4>4. QED
        BY <4>2, <4>3 DEF BridgeInv
    <3>6. QED
      BY <3>4, <3>5
  <2>4. QED
    BY <2>2, <2>3
<1>3. QED
  BY <1>1, <1>2 DEF Bridge!Reconfigured

LEMMA PasswordInv == ASSUME BridgeInv, Bridge!PasswordRead PROVE BridgeInv'
<1>1. PICK i \in DOMAIN starting :
        /\ starting' = Bridge!RemoveAt(starting, i)
        /\ status' = "connecting"
        /\ clients' = Bridge!Dropped \cup {[conf |-> starting[i], link |-> "connecting", held |-> TRUE]}
        /\ UNCHANGED <<cfg, booting, authFailures, hurried>>
  BY DEF Bridge!PasswordRead
<1>2. CASE hurried
  BY <1>1, <1>2 DEF BridgeInv, Bridge!StatusTruthful
<1>3. CASE ~hurried
  <2>1. starting = <<cfg>> /\ cfg # Off /\ clients = {}
    BY <1>1, <1>3 DEF BridgeInv, StartIsCurrent
  <2>. DEFINE c == [conf |-> cfg, link |-> "connecting", held |-> TRUE]
  <2>2. starting' = <<>> /\ clients' = {c}
    BY <1>1, <2>1, RemoveOnly DEF Bridge!Dropped
  <2>3. IsClient(c) /\ c.held /\ c.conf = cfg /\ c.link = "connecting"
    BY DEF IsClient
  <2>. HIDE DEF c
  <2>4. QED
    BY <1>1, <2>1, <2>2, <2>3 DEF BridgeInv, StartIsCurrent, Alone, Served, Bridge!StatusTruthful
<1>4. QED
  BY <1>2, <1>3

\* An event of a client: the link changes, and the status with it.
LEMMA LinkInv ==
  ASSUME BridgeInv, NEW c \in clients, NEW link,
         Bridge!Becomes(c, link), UNCHANGED <<cfg, booting, starting, hurried>>,
         ~hurried /\ clients = {c} =>
           /\ status' = "connected" <=> link = "online"
           /\ status' = "auth_failed" => link = "ended"
  PROVE  BridgeInv'
<1>1. CASE hurried
  BY <1>1 DEF BridgeInv, Bridge!StatusTruthful
<1>2. CASE ~hurried
  <2>1. starting = <<>> /\ clients = {c} /\ IsClient(c) /\ cfg # Off /\ c.held /\ c.conf = cfg
    BY <1>2 DEF BridgeInv, StartIsCurrent, Alone
  <2>. DEFINE d == Linked(c, link)
  <2>2. IsClient(d) /\ d.link = link /\ d.held /\ d.conf = cfg
    BY <2>1, LinkShape
  <2>3. clients' = {d}
    BY <2>1 DEF Bridge!Becomes, Linked
  <2>. HIDE DEF d
  <2>4. StartIsCurrent' /\ Served'
    BY <2>1, <2>3 DEF StartIsCurrent, Served
  <2>5. Alone'
    BY <2>1, <2>2, <2>3 DEF Alone
  <2>6. Bridge!StatusTruthful'
    BY <1>2, <2>1, <2>2, <2>3 DEF Bridge!StatusTruthful
  <2>7. QED
    BY <2>4, <2>5, <2>6 DEF BridgeInv
<1>3. QED
  BY <1>1, <1>2

LEMMA EventInv ==
  ASSUME BridgeInv, NEW c \in clients, Bridge!Connects(c) \/ Bridge!Reconnects(c) \/ Bridge!Closes(c) \/ Bridge!Refused(c)
  PROVE  BridgeInv'
<1>1. CASE Bridge!Connects(c)
  BY <1>1, LinkInv DEF Bridge!Connects
<1>2. CASE Bridge!Reconnects(c)
  <2>1. ~hurried /\ clients = {c} => status # "connected" /\ status # "auth_failed"
    BY <1>2 DEF Bridge!Reconnects, BridgeInv, Bridge!StatusTruthful
  <2>2. QED
    BY <1>2, <2>1, LinkInv DEF Bridge!Reconnects
<1>3. CASE Bridge!Closes(c)
  <2>1. ~hurried => status # "auth_failed"
    BY <1>3 DEF Bridge!Closes, BridgeInv, Bridge!StatusTruthful
  <2>2. QED
    BY <1>3, <2>1, LinkInv DEF Bridge!Closes
<1>4. CASE Bridge!Refused(c)
  <2>1. ~hurried /\ clients = {c} => status # "connected" /\ status # "auth_failed"
    BY <1>4 DEF Bridge!Refused, BridgeInv, Bridge!StatusTruthful
  <2>2. CASE Bridge!Becomes(c, "down") /\ UNCHANGED status
    BY <1>4, <2>1, <2>2, LinkInv DEF Bridge!Refused
  <2>3. CASE Bridge!Becomes(c, "ended") /\ status' = "auth_failed"
    BY <1>4, <2>3, LinkInv DEF Bridge!Refused
  <2>4. QED
    BY <1>4, <2>2, <2>3 DEF Bridge!Refused
<1>5. QED
  BY <1>1, <1>2, <1>3, <1>4

LEMMA BootedInv == ASSUME NEW conf, Bridge!Booted(conf) PROVE BridgeInv'
BY DEF Bridge!Booted, BridgeInv, StartIsCurrent, Alone, Served, Bridge!StatusTruthful

LEMMA BridgeStepInv == ASSUME BridgeInv, Bridge!BridgeStep \/ Bridge!Failure PROVE BridgeInv'
<1>1. CASE Bridge!StartAtBoot
  BY <1>1, BridgeBootInv
<1>2. CASE Bridge!PasswordRead
  BY <1>2, PasswordInv
<1>3. ASSUME NEW c \in clients, Bridge!Connects(c) \/ Bridge!Reconnects(c) \/ Bridge!Closes(c) \/ Bridge!Refused(c) PROVE BridgeInv'
  BY <1>3, EventInv
<1>4. QED
  BY <1>1, <1>2, <1>3 DEF Bridge!BridgeStep, Bridge!Failure

LEMMA BridgeStutter == ASSUME BridgeInv, UNCHANGED Bridge!bridgeVars PROVE BridgeInv'
BY DEF Bridge!bridgeVars, BridgeInv, StartIsCurrent, Alone, Served, Bridge!StatusTruthful

LEMMA BridgeNext == BridgeInv /\ [Bridge!Next]_(Bridge!bridgeVars) => BridgeInv'
BY BridgeStepInv, ReconfiguredInv, BootedInv, BridgeStutter DEF Bridge!Next

LEMMA OneFromInv == BridgeInv => Bridge!OneConnection
BY DEF BridgeInv, StartIsCurrent, Alone, Served, Bridge!OneConnection

LEMMA BridgeAlways == Bridge!Spec => []BridgeInv
BY BridgeInit, BridgeNext, PTL DEF Bridge!Spec

\* Restarts of the bridge, refusals and lost connections leave one client, for
\* the setting in use, or none if that is off, once start() has gone through -
\* unless starts overlapped.
THEOREM OneClient == Bridge!Spec => []Bridge!OneConnection
BY BridgeAlways, OneFromInv, PTL

\* HaBridge.status() is "connected" if and only if the client is online, and
\* after "auth_failed" the client is ended, for any limit of refusals.
THEOREM StatusIsTrue == Bridge!Spec => []Bridge!StatusTruthful
<1>1. BridgeInv => Bridge!StatusTruthful
  BY DEF BridgeInv
<1>2. QED
  BY <1>1, BridgeAlways, PTL

-------------------------------------------------------------------------------
(* The composition. *)

\* The bridge's invariant, with the setting that is loaded.
Joined == BridgeInv /\ cfg = HaSetting(state)

LEMMA JoinedInit == SettingsInit => Joined
BY BridgeInit DEF SettingsInit, Joined

LEMMA JoinedStep == Joined /\ [SettingsNext]_vars => Joined'
<1>. SUFFICES ASSUME Joined, [SettingsNext]_vars PROVE Joined'
  OBVIOUS
<1>1. CASE UNCHANGED <<state, bridgeVars>>
  <2>1. UNCHANGED Bridge!bridgeVars
    BY <1>1 DEF bridgeVars, Bridge!bridgeVars
  <2>2. QED
    BY <1>1, <2>1, BridgeStutter DEF Joined, bridgeVars, HaSetting
<1>2. CASE Reload
  <2>1. Bridge!Reconfigured(HaSetting(state'))
    BY <1>2 DEF Reload
  <2>2. cfg' = HaSetting(state')
    BY <2>1 DEF Bridge!Reconfigured, Bridge!bridgeVars
  <2>3. QED
    BY <2>1, <2>2, ReconfiguredInv DEF Joined, HaSetting
<1>3. CASE Restart
  <2>1. Bridge!Booted(HaSetting(state')) /\ cfg' = HaSetting(state')
    BY <1>3 DEF Restart, Bridge!Booted
  <2>2. QED
    BY <2>1, BootedInv DEF Joined, HaSetting
<1>4. CASE (Bridge!BridgeStep \/ Bridge!Failure) /\ UNCHANGED state
  <2>1. cfg' = cfg
    BY <1>4 DEF Bridge!BridgeStep, Bridge!Failure, Bridge!StartAtBoot, Bridge!PasswordRead,
                Bridge!Connects, Bridge!Reconnects, Bridge!Closes, Bridge!Refused
  <2>2. QED
    BY <1>4, <2>1, BridgeStepInv DEF Joined, HaSetting
<1>5. CASE (Request \/ FileStep) /\ UNCHANGED bridgeVars
  <2>1. UNCHANGED state
    BY <1>5 DEF Request, FileStep, PutScreens, PutConfig, RotateBearer, Begin, EditFrame,
                EditScreens, Edit, TaskStep, ReadPatched, OpenTemp, WriteTemp, Rename,
                RenameFails, AccessFails, WatchTimerFires, ReadFrame, ReadScreens, ReadToken, ReloadFails
  <2>2. QED
    BY <1>1, <1>5, <2>1
<1>6. CASE UNCHANGED vars
  BY <1>1, <1>6 DEF vars, configVars
<1>7. QED
  <2>1. CASE Bridge!BridgeStep /\ UNCHANGED configVars
    BY <1>4, <2>1 DEF configVars
  <2>2. CASE BrokerFails
    BY <1>4, <2>2 DEF BrokerFails
  <2>3. QED
    BY <1>2, <1>3, <1>5, <1>6, <2>1, <2>2 DEF SettingsNext

\* The composition takes the steps of ConfigStore: the bridge only keeps
\* requests back, and a failure of the broker is no more to it than one event.
LEMMA StoreStep == IInv /\ [SettingsNext]_vars => IInv'
<1>. SUFFICES ASSUME IInv, [SettingsNext]_vars PROVE IInv'
  OBVIOUS
<1>1. CASE [Next]_configVars
  BY <1>1, StepInv
<1>2. CASE BrokerFails
  <2>1. UNCHANGED <<state, tasks>>
    BY <1>2 DEF BrokerFails
  <2>2. QED
    BY <2>1, SameState DEF IInv
<1>3. QED
  BY <1>1, <1>2 DEF SettingsNext, vars, Reload, Restart, Next

LEMMA StoreInit == SettingsInit => IInv
BY InitInv DEF SettingsInit

-------------------------------------------------------------------------------

LEMMA JoinedAlways == SettingsSpec => []Joined
BY JoinedInit, JoinedStep, PTL DEF SettingsSpec

\* With reloads that fail, safe mode and ends of the process, the configuration
\* in use still fits together when the bridge is joined to it.
THEOREM InUseFitsJoined == SettingsSpec => []InstalledFits
<1>1. IInv => InstalledFits
  BY DEF IInv
<1>2. QED
  BY <1>1, StoreInit, StoreStep, PTL DEF SettingsSpec

LEMMA FilesStep ==
  IInv /\ events \in Nat /\ FInv /\ [SettingsNext]_vars => events' \in Nat /\ FInv'
<1>. SUFFICES ASSUME IInv, events \in Nat, FInv, [SettingsNext]_vars
              PROVE  events' \in Nat /\ FInv'
  OBVIOUS
<1>1. CASE [Next]_configVars
  BY <1>1, StepFiles, EventsCounted
<1>2. CASE BrokerFails
  <2>1. UNCHANGED <<disk, drafts, excused, tasks>> /\ events' = events + 1
    BY <1>2 DEF BrokerFails
  <2>2. Requesting' = Requesting /\ (AllReady <=> AllReady')
    BY <2>1 DEF Requesting, AllReady, Ready, Keeps
  <2>. QED
    BY <2>1, <2>2 DEF FInv, Fine, Whole, Loads, Fits, OneRequest
<1>3. QED
  BY <1>1, <1>2 DEF SettingsNext, vars, Reload, Restart, Next

\* The bridge, its failures and its refusals do not touch the files: they load
\* at every start as long as nothing is excused.
THEOREM FilesLoadJoined == SettingsSpec => []FilesStayValid
<1>1. SettingsInit => events \in Nat /\ FInv
  BY InitFiles DEF SettingsInit
<1>2. (IInv /\ events \in Nat /\ FInv) /\ [SettingsNext]_vars
        => (IInv /\ events \in Nat /\ FInv)'
  BY StoreStep, FilesStep
<1>3. FInv => FilesStayValid
  BY DEF FInv, Fine, FilesStayValid
<1>4. QED
  BY StoreInit, <1>1, <1>2, <1>3, PTL DEF SettingsSpec

LEMMA TypesStep == TInv /\ [SettingsNext]_vars => TInv'
<1>. SUFFICES ASSUME TInv, [SettingsNext]_vars PROVE TInv'
  OBVIOUS
<1>1. CASE [Next]_configVars
  BY <1>1, StepTyped
<1>2. CASE BrokerFails
  <2>1. UNCHANGED <<disk, drafts, temps, state, pending, tasks, excused, overtaken>>
    BY <1>2 DEF BrokerFails
  <2>2. Counted'
    BY <1>2, ConfigAssumption DEF BrokerFails, TInv, Counted, ConfigAssumption
  <2>. QED
    BY <2>1, <2>2 DEF TInv, TasksTyped, HasTemp, FdIn, FilesTyped, StateTyped, Flags
<1>3. QED
  BY <1>1, <1>2 DEF SettingsNext, vars, Reload, Restart, Next

\* The types of the configuration store hold in the composition as well, where
\* failures of the broker count as events.
THEOREM TypesJoined == SettingsSpec => []TypeOK
<1>1. SettingsInit => TInv
  BY InitTyped DEF SettingsInit
<1>2. TInv => TypeOK
  BY TypesFollow
<1>3. QED
  BY <1>1, <1>2, TypesStep, PTL DEF SettingsSpec

LEMMA SettlesStep == TInv /\ FInv /\ SettleInv /\ [SettingsNext]_vars => SettleInv'
<1>. SUFFICES ASSUME TInv, FInv, SettleInv, [SettingsNext]_vars PROVE SettleInv'
  OBVIOUS
<1>1. CASE [Next]_configVars
  BY <1>1, StepSettles
<1>2. CASE BrokerFails
  <2>1. UNCHANGED <<disk, drafts, state, pending, tasks, excused, overtaken>> /\ events' = events + 1
    BY <1>2 DEF BrokerFails
  <2>a. /\ \A x \in Slot : (Stale(x)' <=> Stale(x)) /\ (Outdated(x)' <=> Outdated(x))
        /\ (Coming' <=> Coming) /\ (Fresh' <=> Fresh) /\ Tokens' = Tokens
    BY <2>1 DEF Stale, Outdated, Coming, Fresh, Tokens, Installing
  <2>2. AtRest' /\ Noticed'
    BY <2>1, <2>a DEF SettleInv, AtRest, Noticed
  <2>3. events \in Nat
    BY ConfigAssumption DEF TInv, Counted, ConfigAssumption
  <2>4. TokensNew'
    BY <2>1, <2>3, <2>a DEF SettleInv, TokensNew, NewToken
  <2>5. Follows'
    BY <2>1, <2>a DEF SettleInv, Follows, SameParts, Loads, Fits
  <2>. QED
    BY <2>2, <2>4, <2>5 DEF SettleInv
<1>3. QED
  BY <1>1, <1>2 DEF SettingsNext, vars, Reload, Restart, Next

\* With the bridge joined to it, and failures of the broker between any two
\* file accesses, what is loaded is still what is on disk when all is quiet.
THEOREM LoadedIsOnDiskJoined == SettingsSpec => []Settled
<1>. DEFINE Inv == IInv /\ TInv /\ FInv /\ SettleInv
<1>1. TInv => events \in Nat
  BY ConfigAssumption DEF TInv, Counted, ConfigAssumption
<1>2. SettingsInit => Inv
  BY InitInv, InitTyped, InitFiles, InitSettles DEF SettingsInit
<1>3. Inv /\ [SettingsNext]_vars => Inv'
  BY <1>1, StoreStep, TypesStep, FilesStep, SettlesStep
<1>4. Inv => Settled
  BY SettledFollows
<1>5. QED
  BY <1>2, <1>3, <1>4, PTL DEF SettingsSpec

\* The bridge goes by the ha section of the configuration in use, and one MQTT
\* client lives for it, or none if it is off (index.ts, the handler of reloaded).
THEOREM BridgeFollows == SettingsSpec => []BridgeFollowsConfig
<1>1. Joined => BridgeFollowsConfig
  BY OneFromInv DEF Joined, BridgeFollowsConfig
<1>2. QED
  BY <1>1, JoinedAlways, PTL

\* HaBridge.status() is what the client does, whatever the reloads and restarts
\* in between; mqtt_auth_ok on the broker is not part of it.
THEOREM StatusIsTrueJoined == SettingsSpec => []StatusTruthful
<1>1. Joined => StatusTruthful
  BY DEF Joined, BridgeInv, StatusTruthful
<1>2. QED
  BY <1>1, JoinedAlways, PTL

-------------------------------------------------------------------------------
(* The Settings tab of the control panel *)

\* What a request of the page is made of.
IsRequest(r) == \E step, patch, entered, view : r = Asking(step, patch, entered, view)

LEMMA AskingShape ==
  ASSUME NEW step, NEW patch, NEW entered, NEW view
  PROVE  LET r == Asking(step, patch, entered, view) IN
         /\ IsRequest(r) /\ r.step = step /\ r.patch = patch
         /\ r.typed = entered /\ r.view = view
BY DEF IsRequest, Asking

\* The values of the fields, none with a blank behind it.
Clean(vals) == \A f \in Fields : vals[f] # Padded

\* A page that has seen the configuration has a draft of every field.
Drafted == page # Unseen => draft = [f \in Fields |-> draft[f]]

\* What is not entered is as the page knows the file, and that is what a save
\* sends of it.
OnlyEntered ==
  /\ Clean(file) /\ Clean(inForce) /\ file = [f \in Fields |-> file[f]]
  /\ request.step = "view" => Clean(request.view.vals)
  /\ page # Unseen =>
       /\ Clean(page.vals)
       /\ \A f \in Fields \ typed : draft[f] = page.vals[f]
  /\ request.step = "put" =>
       /\ \A f \in DOMAIN request.patch : request.patch[f] # Padded
       /\ \A f \in DOMAIN request.patch \ request.typed : request.patch[f] = page.vals[f]

\* How far a save has come that nothing disturbed: what it sent is in the
\* drafts, then in force, then in the view, then on the page.
SaveComes ==
  undisturbed =>
    /\ request.step # "idle" => stored = {}
    /\ request.step \in {"put", "ok", "get", "view"} =>
         \A f \in DOMAIN request.patch : request.patch[f] = Trimmed(draft[f])
    /\ request.step \in {"ok", "get", "view"} /\ ~broken =>
         \A f \in DOMAIN request.patch : inForce[f] = request.patch[f]
    /\ request.step = "view" /\ ~broken =>
         \A f \in DOMAIN request.patch : request.view.vals[f] = inForce[f]

EntryInv ==
  /\ IsRequest(request) /\ DOMAIN request.patch \subseteq Fields /\ stored \subseteq Fields
  /\ Drafted /\ OnlyEntered /\ SaveComes /\ SavedIsShown

LEMMA TrimmedClean == \A v : Trimmed(v) # Padded /\ (v # Padded => Trimmed(v) = v)
BY DEF Trimmed, Padded

\* The answers of the core, and the PUT that asks for them.
LEMMA GetHandledStep == ASSUME EntryInv, GetHandled PROVE EntryInv'
<1>. DEFINE r == Asking("view", request.patch, request.typed, View)
<1>1. /\ request' = r /\ request.step = "get"
      /\ UNCHANGED <<file, broken, inForce, page, draft, typed, stored, undisturbed>>
  BY DEF GetHandled, serverVars, entryVars
<1>2. /\ IsRequest(r) /\ r.step = "view" /\ r.patch = request.patch /\ r.view.vals = inForce
  BY AskingShape DEF View
<1>. HIDE DEF r
<1>3. Drafted' /\ OnlyEntered'
  BY <1>1, <1>2 DEF EntryInv, Drafted, OnlyEntered, Clean
<1>4. SaveComes' /\ SavedIsShown'
  BY <1>1, <1>2 DEF EntryInv, SaveComes, SavedIsShown
<1>. QED
  BY <1>1, <1>2, <1>3, <1>4 DEF EntryInv

\* What the core makes of a patch.
LEMMA PutHandledStep ==
  ASSUME EntryInv, PutHandled
  PROVE  /\ EntryInv'
         /\ request'.step = "ok" =>
              \A f \in Fields :
                file'[f] # file[f] => f \in request.typed \/ file[f] # page.vals[f]
<1>. DEFINE p == request.patch
            r(step) == Asking(step, request.patch, request.typed, request.view)
<1>1. /\ request.step = "put" /\ IsRequest(request) /\ DOMAIN p \subseteq Fields
      /\ UNCHANGED <<page, draft, typed, stored, undisturbed>>
  BY DEF PutHandled, entryVars, EntryInv
<1>2. \A step : /\ IsRequest(r(step)) /\ r(step).step = step /\ r(step).patch = p
  BY AskingShape
<1>3. CASE request' = r("failed") /\ UNCHANGED <<file, broken, inForce>>
  <2>. HIDE DEF r
  <2>1. Drafted' /\ OnlyEntered'
    BY <1>1, <1>2, <1>3 DEF EntryInv, Drafted, OnlyEntered, Clean
  <2>2. SaveComes' /\ SavedIsShown'
    BY <1>1, <1>2, <1>3 DEF EntryInv, SaveComes, SavedIsShown
  <2>. QED
    BY <1>1, <1>2, <1>3, <2>1, <2>2 DEF EntryInv
<1>4. CASE /\ request' = r("ok") /\ file' = FileOf(p)
           /\ broken' = (broken \/ ~FileLoads(p))
           /\ inForce' = IF broken' THEN inForce ELSE file'
  <2>. HIDE DEF r
  <2>1. /\ \A f \in Fields : file'[f] = IF f \in DOMAIN p THEN p[f] ELSE file[f]
        /\ file' = [f \in Fields |-> file'[f]]
    BY <1>4 DEF FileOf
  <2>2. /\ \A f \in DOMAIN p : f \in request.typed \/ p[f] = page.vals[f]
        /\ \A f \in DOMAIN p : p[f] # Padded
    BY <1>1 DEF EntryInv, OnlyEntered
  <2>3. Clean(file') /\ Clean(inForce')
    BY <1>4, <2>1, <2>2 DEF EntryInv, OnlyEntered, Clean
  <2>4. request'.step = "ok" /\ request'.patch = p /\ IsRequest(request')
    BY <1>2, <1>4
  <2>5. Drafted' /\ OnlyEntered'
    BY <1>1, <2>1, <2>3, <2>4 DEF EntryInv, Drafted, OnlyEntered, Clean
  <2>6. ~broken' => \A f \in DOMAIN p : inForce'[f] = p[f]
    BY <1>1, <1>4, <2>1
  <2>7. SaveComes' /\ SavedIsShown'
    BY <1>1, <2>4, <2>6 DEF EntryInv, SaveComes, SavedIsShown
  <2>. QED
    BY <1>1, <2>1, <2>2, <2>4, <2>5, <2>7 DEF EntryInv
<1>5. \/ request' = r("failed") /\ UNCHANGED <<file, broken, inForce>>
      \/ /\ request' = r("ok") /\ file' = FileOf(p)
         /\ broken' = (broken \/ ~FileLoads(p))
         /\ inForce' = IF broken' THEN inForce ELSE file'
  BY DEF PutHandled, Answer
<1>. QED
  BY <1>3, <1>4, <1>5

\* Others, and a restart: what the page was told is not sure any more.
LEMMA OthersStep ==
  ASSUME EntryInv, OtherClient \/ FrameRestarts
  PROVE  EntryInv'
<1>1. ~undisturbed' /\ UNCHANGED <<page, draft, request, typed, stored>>
  BY DEF OtherClient, FrameRestarts, Others, pageVars
<1>2. Clean(file') /\ Clean(inForce') /\ file' = [f \in Fields |-> file'[f]]
  <2>1. CASE OtherClient
    <3>1. CASE UNCHANGED <<file, inForce>>
      BY <3>1 DEF EntryInv, OnlyEntered, Clean
    <3>2. ASSUME NEW f \in Fields, NEW v \in {Empty, 1, 2},
                 file' = [file EXCEPT ![f] = v], inForce' = file'
          PROVE  Clean(file') /\ Clean(inForce') /\ file' = [g \in Fields |-> file'[g]]
      BY <3>2 DEF EntryInv, OnlyEntered, Clean, Empty, Padded
    <3>. QED
      BY <2>1, <3>1, <3>2 DEF OtherClient
  <2>2. CASE FrameRestarts
    <3>. DEFINE right == [f \in Fields |-> IF Section(f) \in {"none"} \cup secrets THEN file[f]
                                           ELSE Without(f)]
    <3>1. file' \in {right, file} /\ inForce' \in {[f \in Fields |-> Empty], file'}
      BY <2>2 DEF FrameRestarts
    <3>2. Clean(right) /\ right = [f \in Fields |-> right[f]]
      BY DEF EntryInv, OnlyEntered, Clean, Without, Empty, Padded
    <3>. HIDE DEF right
    <3>3. Clean([f \in Fields |-> Empty])
      BY DEF Clean, Empty, Padded
    <3>. QED
      BY <3>1, <3>2, <3>3 DEF EntryInv, OnlyEntered
  <2>. QED
    BY <2>1, <2>2
<1>3. Drafted' /\ OnlyEntered' /\ SaveComes' /\ SavedIsShown'
  BY <1>1, <1>2 DEF EntryInv, Drafted, OnlyEntered, SaveComes, SavedIsShown, Clean
<1>. QED
  BY <1>1, <1>3 DEF EntryInv

\* The answers of the core are on the page, and the drafts follow.
LEMMA RefreshStep ==
  ASSUME EntryInv, RefreshArrives
  PROVE  EntryInv'
<1>. DEFINE vals == request.view.vals
            replaced == Changed(vals) \cup Builtins
            p == request.patch
<1>1. /\ request.step = "view" /\ request' = NoRequest /\ page' = request.view
      /\ UNCHANGED <<file, broken, inForce, undisturbed>>
      /\ stored' = IF p = <<>> THEN stored ELSE DOMAIN p
      /\ draft' = [f \in Fields |-> IF f \in replaced THEN vals[f] ELSE draft[f]]
      /\ typed' = typed \ replaced
  BY DEF RefreshArrives, DraftsFollow, serverVars
<1>2. IsRequest(NoRequest) /\ NoRequest.step = "idle" /\ NoRequest.patch = <<>>
  BY AskingShape DEF NoRequest
<1>3. \A f \in Fields : f \notin replaced =>
        page # Unseen /\ (f \notin typed => page.vals[f] = vals[f])
  BY DEF Changed
<1>. HIDE DEF replaced, vals
<1>4. Drafted' /\ \A f \in Fields : draft'[f] = IF f \in replaced THEN vals[f] ELSE draft[f]
  BY <1>1 DEF Drafted
<1>5. OnlyEntered'
  <2>1. \A f \in Fields \ typed' : draft'[f] = page'.vals[f]
    BY <1>1, <1>3, <1>4 DEF EntryInv, OnlyEntered, vals
  <2>2. Clean(page'.vals)
    BY <1>1 DEF EntryInv, OnlyEntered
  <2>. QED
    BY <1>1, <1>2, <2>1, <2>2 DEF EntryInv, OnlyEntered
<1>6. stored' \subseteq Fields
  BY <1>1 DEF EntryInv
<1>7. SaveComes' /\ DOMAIN request'.patch \subseteq Fields
  BY <1>1, <1>2 DEF SaveComes
<1>8. SavedIsShown'
  <2>. SUFFICES ASSUME undisturbed, ~broken, NEW f \in stored'
                PROVE  Trimmed(draft'[f]) = inForce'[f] /\ page'.vals[f] = inForce'[f]
    BY <1>1 DEF SavedIsShown
  <2>1. f \in DOMAIN p /\ f \in Fields
    BY <1>1, <1>6 DEF EntryInv, SaveComes
  <2>2. p[f] = Trimmed(draft[f]) /\ inForce[f] = p[f] /\ vals[f] = inForce[f]
    BY <1>1, <2>1 DEF EntryInv, SaveComes, vals
  <2>3. Trimmed(vals[f]) = vals[f]
    BY <2>2, TrimmedClean
  <2>. QED
    BY <1>1, <1>4, <2>1, <2>2, <2>3 DEF vals
<1>. QED
  BY <1>1, <1>2, <1>4, <1>5, <1>6, <1>7, <1>8 DEF EntryInv

\* The page asks, gives up, is opened or dismisses its error.
LEMMA PageStep ==
  ASSUME EntryInv, Opens \/ PutAnswered \/ RequestFails \/ Dismissed
  PROVE  EntryInv'
<1>1. CASE Opens
  <2>1. /\ page' = Unseen /\ request' = Loading /\ stored' = {}
        /\ UNCHANGED <<file, broken, inForce>>
    BY <1>1 DEF Opens, serverVars
  <2>2. IsRequest(Loading) /\ Loading.step = "get" /\ Loading.patch = <<>>
    BY AskingShape DEF Loading
  <2>3. Drafted' /\ OnlyEntered'
    BY <2>1, <2>2 DEF EntryInv, Drafted, OnlyEntered
  <2>4. SaveComes' /\ SavedIsShown' /\ DOMAIN request'.patch = {}
    BY <2>1, <2>2 DEF SaveComes, SavedIsShown
  <2>. QED
    BY <2>1, <2>2, <2>3, <2>4 DEF EntryInv
<1>2. CASE PutAnswered
  <2>. DEFINE r == Asking("get", request.patch, request.typed, request.view)
  <2>1. /\ request.step = "ok" /\ request' = r
        /\ UNCHANGED <<file, broken, inForce, page, draft, typed, stored, undisturbed>>
    BY <1>2 DEF PutAnswered, Answer, serverVars, entryVars
  <2>2. IsRequest(r) /\ r.step = "get" /\ r.patch = request.patch
    BY AskingShape
  <2>. HIDE DEF r
  <2>3. Drafted' /\ OnlyEntered'
    BY <2>1, <2>2 DEF EntryInv, Drafted, OnlyEntered
  <2>4. SaveComes' /\ SavedIsShown'
    BY <2>1, <2>2 DEF EntryInv, SaveComes, SavedIsShown
  <2>. QED
    BY <2>1, <2>2, <2>3, <2>4 DEF EntryInv
<1>3. CASE RequestFails
  <2>1. /\ request' = NoRequest /\ ~undisturbed'
        /\ UNCHANGED <<file, inForce, page, stored>>
        /\ IF page = Unseen THEN UNCHANGED <<draft, typed>> ELSE DraftsFollow(page.vals, Builtins)
    BY <1>3 DEF RequestFails, serverVars
  <2>2. IsRequest(NoRequest) /\ NoRequest.step = "idle" /\ NoRequest.patch = <<>>
    BY AskingShape DEF NoRequest
  <2>3. ASSUME page # Unseen
        PROVE  /\ draft' = [f \in Fields |-> IF f \in Builtins THEN page.vals[f] ELSE draft[f]]
               /\ typed' = typed \ Builtins
    BY <2>1, <2>3 DEF DraftsFollow
  <2>4. Drafted'
    BY <2>1, <2>3 DEF Drafted
  <2>5. OnlyEntered'
    BY <2>1, <2>2, <2>3 DEF EntryInv, OnlyEntered
  <2>6. SaveComes' /\ SavedIsShown' /\ DOMAIN request'.patch = {}
    BY <2>1, <2>2 DEF SaveComes, SavedIsShown
  <2>. QED
    BY <2>1, <2>2, <2>4, <2>5, <2>6 DEF EntryInv
<1>4. CASE Dismissed
  BY <1>4 DEF Dismissed, serverVars, entryVars, EntryInv, Drafted, OnlyEntered, SaveComes,
     SavedIsShown
<1>. QED
  BY <1>1, <1>2, <1>3, <1>4

\* A field is entered.
LEMMA EntersStep ==
  ASSUME EntryInv, NEW f \in Fields, Types(f)
  PROVE  EntryInv'
<1>1. /\ page # Unseen /\ UNCHANGED <<file, broken, inForce, page, request>>
      /\ typed' = typed \cup {f} /\ stored' = stored \ {f}
      /\ undisturbed' = (undisturbed /\ request.step = "idle")
  BY DEF Types, serverVars
<1>2. PICK v : draft' = [draft EXCEPT ![f] = v]
  BY DEF Types
<1>3. Drafted' /\ \A g \in Fields : g # f => draft'[g] = draft[g]
  BY <1>1, <1>2 DEF EntryInv, Drafted
<1>4. OnlyEntered'
  BY <1>1, <1>3 DEF EntryInv, OnlyEntered
<1>5. SaveComes'
  BY <1>1 DEF SaveComes
<1>6. SavedIsShown'
  BY <1>1, <1>3 DEF EntryInv, SavedIsShown
<1>. QED
  BY <1>1, <1>3, <1>4, <1>5, <1>6 DEF EntryInv

\* A save is sent.
LEMMA SavesStep ==
  ASSUME EntryInv, NEW fields \in SUBSET Fields, NEW omitted, Saves(fields, omitted)
  PROVE  EntryInv'
<1>. DEFINE p == [f \in fields \ omitted |-> Trimmed(draft[f])]
            r == Asking("put", p, typed, Unseen)
<1>1. /\ page # Unseen /\ request.step = "idle" /\ request' = r /\ stored' = {}
      /\ UNCHANGED <<file, broken, inForce, page, draft, typed>>
  BY DEF Saves, serverVars
<1>2. /\ DOMAIN p \subseteq Fields /\ \A f \in DOMAIN p : p[f] = Trimmed(draft[f])
  OBVIOUS
<1>. HIDE DEF p
<1>3. IsRequest(r) /\ r.step = "put" /\ r.patch = p /\ r.typed = typed
  BY AskingShape
<1>. HIDE DEF r
<1>4. \A f \in DOMAIN p : p[f] # Padded /\ (f \notin typed => p[f] = page.vals[f])
  BY <1>1, <1>2, TrimmedClean DEF EntryInv, OnlyEntered, Clean
<1>5. Drafted' /\ OnlyEntered'
  BY <1>1, <1>3, <1>4 DEF EntryInv, Drafted, OnlyEntered
<1>6. SaveComes' /\ SavedIsShown'
  BY <1>1, <1>2, <1>3 DEF SaveComes, SavedIsShown
<1>. QED
  BY <1>1, <1>2, <1>3, <1>5, <1>6 DEF EntryInv

LEMMA TilesSave ==
  ASSUME TileSaves
  PROVE  \E fields \in SUBSET Fields : \E omitted : Saves(fields, omitted)
<1>1. CASE DeviceSaves
  BY <1>1 DEF DeviceSaves, Fields
<1>2. CASE DisplaySaves
  BY <1>2 DEF DisplaySaves, Fields
<1>3. CASE SchedulerSaves
  BY <1>3 DEF SchedulerSaves, Fields
<1>4. CASE HomeAssistantSaves
  <2>. DEFINE fields == {"ha"} \cup {"host", "user", "port"}
  <2>1. \E omitted : Saves(fields, omitted)
    BY <1>4 DEF HomeAssistantSaves
  <2>2. fields \in SUBSET Fields
    BY DEF Fields
  <2>. QED
    BY <2>1, <2>2
<1>5. CASE UpdaterSaves
  BY <1>5 DEF UpdaterSaves, Fields
<1>6. CASE VncSaves
  BY <1>6 DEF VncSaves, Fields
<1>7. CASE BuiltinsSaves
  BY <1>7 DEF BuiltinsSaves, Fields
<1>. QED
  BY <1>1, <1>2, <1>3, <1>4, <1>5, <1>6, <1>7 DEF TileSaves

LEMMA EntryStep ==
  ASSUME EntryInv, [SettingsTabNext]_settingsTabVars
  PROVE  EntryInv'
<1>1. CASE TileSaves
  BY <1>1, TilesSave, SavesStep
<1>2. CASE UNCHANGED settingsTabVars
  BY <1>2 DEF settingsTabVars, serverVars, pageVars, entryVars, EntryInv, Drafted, OnlyEntered,
     SaveComes, SavedIsShown
<1>. QED
  BY <1>1, <1>2, GetHandledStep, PutHandledStep, OthersStep, RefreshStep, PageStep, EntersStep
     DEF SettingsTabNext

\* Only PutHandled answers a PUT.
LEMMA OnlyPutAnswers ==
  ASSUME EntryInv, [SettingsTabNext]_settingsTabVars, request.step = "put", request'.step = "ok"
  PROVE  PutHandled
<1>1. CASE UNCHANGED request
  BY <1>1
<1>2. CASE request' = NoRequest
  BY <1>2, AskingShape DEF NoRequest
<1>3. CASE RefreshArrives \/ RequestFails
  BY <1>2, <1>3 DEF RefreshArrives, RequestFails
<1>4. CASE TileSaves
  BY <1>4, TilesSave DEF Saves
<1>5. CASE OtherClient \/ FrameRestarts \/ Dismissed \/ \E f \in Fields : Types(f)
  BY <1>1, <1>5 DEF OtherClient, FrameRestarts, Dismissed, Types, pageVars
<1>6. CASE GetHandled \/ Opens \/ PutAnswered
  BY <1>6 DEF GetHandled, Opens, PutAnswered
<1>7. CASE UNCHANGED settingsTabVars
  BY <1>1, <1>7 DEF settingsTabVars, pageVars
<1>. QED
  BY <1>3, <1>4, <1>5, <1>6, <1>7 DEF SettingsTabNext

LEMMA EntryInit == SettingsTabInit => EntryInv
<1>. SUFFICES ASSUME SettingsTabInit PROVE EntryInv
  OBVIOUS
<1>1. /\ page = Unseen /\ request = Loading /\ stored = {}
      /\ file = Bare(secrets) /\ inForce = file
  BY DEF SettingsTabInit
<1>2. IsRequest(Loading) /\ Loading.step = "get" /\ Loading.patch = <<>>
  BY AskingShape DEF Loading
<1>3. Clean(file) /\ file = [f \in Fields |-> file[f]]
  BY <1>1 DEF Clean, Bare, Without, Empty, Padded
<1>. QED
  BY <1>1, <1>2, <1>3 DEF EntryInv, Drafted, OnlyEntered, SaveComes, SavedIsShown

\* What the Settings tab reported as saved is in force and on the page, however
\* much is entered and whatever others do.
THEOREM SavesAreShown == SettingsTabSpec => []SavedIsShown
<1>1. EntryInv => SavedIsShown
  BY DEF EntryInv
<1>. QED
  BY <1>1, EntryInit, EntryStep, PTL DEF SettingsTabSpec

\* A save replaces no value that the user did not enter and the page knew.
THEOREM SavesAreEntered == SettingsTabSpec => OnlyEnteredWritten
<1>1. ASSUME EntryInv, [SettingsTabNext]_settingsTabVars
      PROVE  [request.step = "put" /\ request'.step = "ok" =>
                \A f \in Fields : file'[f] # file[f]
                  => f \in request.typed \/ file[f] # page.vals[f]]_settingsTabVars
  BY <1>1, OnlyPutAnswers, PutHandledStep
<1>. QED
  BY <1>1, EntryInit, EntryStep, PTL DEF SettingsTabSpec, OnlyEnteredWritten
===============================================================================
