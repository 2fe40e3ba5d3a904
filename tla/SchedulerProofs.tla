--------------------------- MODULE SchedulerProofs ---------------------------
(***************************************************************************)
(* Theorems about Scheduler, for every value of its constants.             *)
(***************************************************************************)
EXTENDS Scheduler, WellFoundedInduction, TLAPS

\* A set of naturals that is not empty has a least element.
LEMMA LeastNatural ==
  ASSUME NEW S \in SUBSET Nat, S # {}
  PROVE  \E m \in S : \A k \in S : m <= k
<1> DEFINE Less == {ss \in Nat \X Nat : ss[1] < ss[2]}
<1>1. IsWellFoundedOn(Less, Nat)
  BY NatLessThanWellFounded, Zenon DEF OpToRel
<1>2. PICK m \in S : \A k \in S : ~ (<<k, m>> \in Less)
  <2> HIDE DEF Less
  <2>1. QED
    BY <1>1, WFMin
<1>3. \A k \in S : ~ (k < m)
  BY <1>2
<1>4. QED
  BY <1>3

\* The delay handed to setTimeout is a natural number or there is no timer.
LEMMA RecheckType ==
  ASSUME NEW cs, cs \subseteq Claim, now \in Nat
  PROVE  ExpiryRecheck(cs) \in Nat \cup {NoTimer}
<1> DEFINE pending == {c.expiresAt : c \in {d \in cs : d.expiresAt > now}}
<1>1. pending \subseteq Nat
  BY DEF Claim
<1>2. CASE pending = {}
  BY <1>2 DEF ExpiryRecheck
<1>3. CASE pending # {}
  <2> DEFINE t == CHOOSE t \in pending : \A u \in pending : t <= u
  <2>1. \E s \in pending : \A u \in pending : s <= u
    <3> HIDE DEF pending
    <3>1. QED
      BY <1>1, <1>3, LeastNatural
  <2>2. t \in pending
    <3> HIDE DEF pending
    <3>1. QED
      BY <2>1
  <2> HIDE DEF t
  <2>3. t \in Nat /\ t > now
    BY <2>2, <1>1
  <2>4. ExpiryRecheck(cs)
          = TimerDelay(IF t - now > MinRecheck THEN t - now ELSE MinRecheck)
    BY <1>3 DEF ExpiryRecheck, t
  <2>5. QED
    BY <2>3, <2>4, SchedulerAssumption DEF TimerDelay
<1>4. QED
  BY <1>2, <1>3

\* What a set of claims must satisfy for recompute() to be called on it.
Ranked(cs) ==
  /\ cs \subseteq Claim
  /\ \A c, d \in cs \cup {active} : c.id = d.id => c = d

\* recompute() drops claims and adds none, keeps every default claim, puts
\* one of the claims on the frame or leaves the frame alone, and arms a
\* well-formed timer.
LEMMA RecomputeFacts ==
  ASSUME NEW cs, NEW scr, NEW def, NEW tmr,
         TypeOK, Ranked(cs), scr \subseteq ScreenIds,
         tmr \in Nat \cup {NoTimer},
         Recompute(cs, scr, def, tmr)
  PROVE  /\ claims' \subseteq cs
         /\ {c \in cs : c.source = "default"} \subseteq claims'
         /\ active' \in cs \cup {active}
         /\ shown' \in ScreenIds
         /\ timer' \in Nat \cup {NoTimer}
         /\ nothingToShow' \in BOOLEAN
<1> DEFINE live == {c \in cs : c.source = "default" \/ ~Expired(c)}
<1>1. PICK next \in live :
        /\ IsTop(next, live)
        /\ LET kept == live \ Displaced(live, next)
               screen == ScreenFor(next, scr, def)
               changed == active.id # next.id
               popped == IF changed /\ next.oneShot /\ next.source # "default"
                         THEN kept \ {next} ELSE kept
           IN  \/ /\ screen = NoScreen
                  /\ claims' = kept
                  /\ timer' = tmr
                  /\ nothingToShow' = TRUE
                  /\ UNCHANGED <<active, shown>>
               \/ /\ screen # NoScreen
                  /\ active' = next
                  /\ shown' = IF changed THEN screen ELSE shown
                  /\ claims' = popped
                  /\ timer' = ExpiryRecheck(popped)
                  /\ UNCHANGED nothingToShow
  BY DEF Recompute
<1> DEFINE kept == live \ Displaced(live, next)
           screen == ScreenFor(next, scr, def)
           popped == IF active.id # next.id /\ next.oneShot
                          /\ next.source # "default"
                     THEN kept \ {next} ELSE kept
<1>2. \A c \in live : c.source = "default" => c \in kept /\ c \in popped
  <2> SUFFICES ASSUME NEW c \in live, c.source = "default"
               PROVE  c \notin Displaced(live, next)
    OBVIOUS
  <2>1. c.id = active.id => c = active
    BY DEF Ranked
  <2>2. QED
    BY <2>1 DEF Displaced
<1>3. CASE /\ screen = NoScreen
           /\ claims' = kept
           /\ timer' = tmr
           /\ nothingToShow' = TRUE
           /\ UNCHANGED <<active, shown>>
  BY <1>2, <1>3 DEF TypeOK
<1>4. CASE /\ screen # NoScreen
           /\ active' = next
           /\ shown' = IF active.id # next.id THEN screen ELSE shown
           /\ claims' = popped
           /\ timer' = ExpiryRecheck(popped)
           /\ UNCHANGED nothingToShow
  <2>1. shown' \in ScreenIds
    BY <1>4 DEF ScreenFor, TypeOK
  <2>2. timer' \in Nat \cup {NoTimer}
    <3>1. popped \subseteq Claim
      BY DEF Ranked
    <3>2. now \in Nat
      BY DEF TypeOK
    <3> HIDE DEF popped
    <3>3. QED
      BY <1>4, <3>1, <3>2, RecheckType
  <2>3. QED
    BY <1>2, <1>4, <2>1, <2>2 DEF TypeOK
<1>5. QED
  BY <1>1, <1>3, <1>4

------------------------------------------------------------------------------
(* Type correctness *)

\* The claim show() and installDefault() add is new, so the claims they call
\* recompute() with are well formed and have distinct ids.
LEMMA AddClaim ==
  ASSUME TypeOK, NEW old \in SUBSET claims, NEW scr \in ScreenIds,
         NEW src \in Sources, NEW until \in Nat, NEW once \in BOOLEAN
  PROVE  /\ MakeClaim(scr, src, until, once) \in Claim
         /\ Ranked(old \cup {MakeClaim(scr, src, until, once)})
<1> DEFINE new == MakeClaim(scr, src, until, once)
<1>1. new \in Claim /\ new.id = nextId
  BY DEF TypeOK, MakeClaim, Claim
<1>2. \A c \in claims \cup {active} : c.id # nextId
  BY DEF TypeOK, Claim
<1> HIDE DEF new
<1>3. Ranked(old \cup {new})
  BY <1>1, <1>2 DEF Ranked, TypeOK
<1>4. QED
  BY <1>1, <1>3 DEF new

LEMMA UntilType ==
  ASSUME TypeOK, NEW src, NEW d \in Durations
  PROVE  Until(src, d) \in Nat
BY SchedulerAssumption DEF Until, PinnedUntil, Never, TypeOK

\* What a handler leaves behind after recompute() is well typed.
LEMMA RecomputeTyped ==
  ASSUME NEW cs, NEW scr, NEW def, NEW tmr,
         TypeOK, Ranked(cs), scr \subseteq ScreenIds,
         tmr \in Nat \cup {NoTimer},
         Recompute(cs, scr, def, tmr),
         now' = now, nextId' \in Nat, nextId' >= nextId,
         \A c \in cs : c.id < nextId' /\ c.createdAt <= now,
         screens' \subseteq ScreenIds, defaultScreenId' \in ScreenIds,
         lastDefault' \in ScreenIds, pinnedTimeout' \in Nat
  PROVE  TypeOK'
<1>1. /\ claims' \subseteq cs
      /\ active' \in cs \cup {active}
      /\ shown' \in ScreenIds
      /\ timer' \in Nat \cup {NoTimer}
      /\ nothingToShow' \in BOOLEAN
  BY RecomputeFacts
<1>2. claims' \subseteq Claim /\ active' \in Claim
  BY <1>1 DEF Ranked, TypeOK
<1>3. \A c \in claims' \cup {active'} : c.id < nextId' /\ c.createdAt <= now'
  <2>1. active.id < nextId' /\ active.createdAt <= now
    BY DEF TypeOK, Claim
  <2>2. QED
    BY <1>1, <2>1
<1>4. \A c, d \in claims' \cup {active'} : c.id = d.id => c = d
  BY <1>1 DEF Ranked
<1>5. QED
  BY <1>1, <1>2, <1>3, <1>4 DEF TypeOK

\* installDefault() and the recompute() after it, as updateDefault() runs them.
LEMMA InstallDefaultTyped ==
  ASSUME TypeOK, NEW def \in ScreenIds, NEW scr \in SUBSET ScreenIds,
         InstallDefault(def, scr), now' = now, screens' \subseteq ScreenIds,
         lastDefault' \in ScreenIds, pinnedTimeout' \in Nat
  PROVE  TypeOK'
<1> DEFINE others == {c \in claims : c.source # "default"}
           new == MakeClaim(def, "default", Never, FALSE)
<1>1. Ranked(others \cup {new})
  BY AddClaim DEF Sources, Never
<1>2. new.id = nextId /\ new.createdAt = now
  BY DEF MakeClaim
<1>a. \A c \in claims : c.id < nextId' /\ c.createdAt <= now
  <2>1. \A c \in claims : c.id \in Nat /\ c.id < nextId /\ c.createdAt <= now
    BY DEF TypeOK, Claim
  <2>2. QED
    BY <2>1 DEF InstallDefault, TypeOK
<1> HIDE DEF new
<1>3. \A c \in others \cup {new} : c.id < nextId' /\ c.createdAt <= now
  BY <1>a, <1>2 DEF InstallDefault, TypeOK
<1>4. Recompute(others \cup {new}, scr, def, timer)
  BY DEF InstallDefault, new
<1>5. /\ nextId' \in Nat /\ nextId' >= nextId /\ defaultScreenId' \in ScreenIds
      /\ timer \in Nat \cup {NoTimer}
  BY DEF InstallDefault, TypeOK
<1> HIDE DEF others
<1>6. QED
  BY <1>1, <1>3, <1>4, <1>5, RecomputeTyped

\* TypeOK is an invariant of the scheduler, whatever screens, sources,
\* durations and timer limits it runs with.
THEOREM TypeCorrect == Spec => []TypeOK
<1>1. Init => TypeOK
  <2> SUFFICES ASSUME Init PROVE TypeOK
    OBVIOUS
  <2>1. /\ active \in Claim /\ claims = {active}
        /\ active.id = 0 /\ active.createdAt = 1
    BY DEF Init, Claim, Sources, Never
  <2>2. /\ \A c \in claims \cup {active} : c.id < nextId /\ c.createdAt <= now
        /\ \A c, d \in claims \cup {active} : c.id = d.id => c = d
    BY <2>1 DEF Init
  <2>3. claims \subseteq Claim /\ active \in Claim
    BY <2>1
  <2>4. now \in Nat /\ nextId \in Nat /\ pinnedTimeout \in Nat
    BY SchedulerAssumption DEF Init
  <2>5. QED
    BY <2>2, <2>3, <2>4 DEF Init, TypeOK
<1>2. TypeOK /\ [Next]_vars => TypeOK'
  <2> SUFFICES ASSUME TypeOK, [Next]_vars PROVE TypeOK'
    OBVIOUS
  <2>0. Ranked(claims) /\ \A old \in SUBSET claims : Ranked(old)
    BY DEF Ranked, TypeOK
  <2>1. ASSUME NEW scr \in ScreenIds, NEW src \in Offers,
               NEW d \in Durations, NEW once \in BOOLEAN,
               Show(scr, src, d, once)
        PROVE  TypeOK'
    <3> DEFINE others == IF src = "manual_next" THEN claims
                         ELSE {c \in claims : c.source # "manual_next"}
               new == MakeClaim(scr, src, Until(src, d), once)
    <3>1. Ranked(others \cup {new})
      <4>1. others \in SUBSET claims
        OBVIOUS
      <4>2. src \in Sources
        BY SchedulerAssumption
      <4>3. Until(src, d) \in Nat
        BY UntilType
      <4> HIDE DEF others
      <4>4. QED
        BY <4>1, <4>2, <4>3, AddClaim
    <3>2. new.id = nextId /\ new.createdAt = now
      BY DEF MakeClaim
    <3>3. \A c \in others \cup {new} : c.id < nextId' /\ c.createdAt <= now
      BY <2>1, <3>2 DEF Show, TypeOK, Claim
    <3>4. Recompute(others \cup {new}, screens, defaultScreenId, timer)
      BY <2>1 DEF Show
    <3> HIDE DEF others, new
    <3>5. QED
      BY <2>1, <3>1, <3>3, <3>4, RecomputeTyped DEF Show, TypeOK
  <2>2. ASSUME NEW c \in claims, Release(c)
        PROVE  TypeOK'
    BY <2>0, <2>2, RecomputeTyped DEF Release, TypeOK
  <2>3. ASSUME NEW src \in Offers, ReleaseSource(src)
        PROVE  TypeOK'
    <3> DEFINE others == {c \in claims : c.source # src}
    <3>1. others \in SUBSET claims /\ Recompute(others, screens, defaultScreenId, timer)
      BY <2>3 DEF ReleaseSource
    <3> HIDE DEF others
    <3>2. QED
      BY <2>0, <2>3, <3>1, RecomputeTyped DEF ReleaseSource, TypeOK
  <2>4. ASSUME NEW def \in ScreenIds, SetDefault(def)
        PROVE  TypeOK'
    BY <2>4, InstallDefaultTyped DEF SetDefault, TypeOK
  <2>5. ASSUME NEW scr \in SUBSET ScreenIds, NEW def \in ScreenIds,
               NEW pin \in PinnedTimeouts, Reload(scr, def, pin)
        PROVE  TypeOK'
    <3>1. now' = now /\ screens' \subseteq ScreenIds /\ pinnedTimeout' \in Nat
      BY <2>5, SchedulerAssumption DEF Reload
    <3>2. CASE InstallDefault(def, scr) /\ lastDefault' = def
      BY <3>1, <3>2, InstallDefaultTyped
    <3>3. CASE UNCHANGED <<claims, active, shown, defaultScreenId, lastDefault,
                           timer, nothingToShow, nextId>>
      BY <3>1, <3>3 DEF TypeOK
    <3>4. QED
      BY <2>5, <3>2, <3>3 DEF Reload
  <2>6. CASE ExpiryTimerFires
    BY <2>0, <2>6, RecomputeTyped DEF ExpiryTimerFires, TypeOK
  <2>7. CASE Tick
    BY <2>7, SchedulerAssumption DEF Tick, TypeOK, Claim, NoTimer
  <2>8. CASE UNCHANGED vars
    BY <2>8 DEF vars, TypeOK
  <2>9. QED
    BY <2>1, <2>2, <2>3, <2>4, <2>5, <2>6, <2>7, <2>8 DEF Next
<1>3. QED
  BY <1>1, <1>2, PTL DEF Spec

------------------------------------------------------------------------------
(* The default claim *)

OneDefault(cs, def) ==
  \E c \in cs : /\ c.source = "default" /\ c.screenId = def
                /\ c.expiresAt = Never
                /\ \A d \in cs : d.source = "default" => d = c

\* recompute() neither drops the default claim nor makes a second one.
LEMMA RecomputeKeepsDefault ==
  ASSUME NEW cs, NEW scr, NEW def, NEW tmr, NEW home,
         TypeOK, Ranked(cs), scr \subseteq ScreenIds,
         tmr \in Nat \cup {NoTimer},
         Recompute(cs, scr, def, tmr), OneDefault(cs, home)
  PROVE  OneDefault(claims', home)
<1>1. claims' \subseteq cs /\ {c \in cs : c.source = "default"} \subseteq claims'
  BY RecomputeFacts
<1>2. QED
  BY <1>1 DEF OneDefault

LEMMA InstallDefaultIsOne ==
  ASSUME TypeOK, NEW def \in ScreenIds, NEW scr \in SUBSET ScreenIds,
         InstallDefault(def, scr)
  PROVE  OneDefault(claims', defaultScreenId')
<1> DEFINE others == {c \in claims : c.source # "default"}
           new == MakeClaim(def, "default", Never, FALSE)
<1>1. Ranked(others \cup {new})
  BY AddClaim DEF Sources, Never
<1>2. OneDefault(others \cup {new}, def)
  <2>1. new.source = "default" /\ new.screenId = def /\ new.expiresAt = Never
    BY DEF MakeClaim
  <2> HIDE DEF new
  <2>2. QED
    BY <2>1 DEF OneDefault
<1> HIDE DEF new
<1>3. Recompute(others \cup {new}, scr, def, timer) /\ defaultScreenId' = def
  BY DEF InstallDefault, new
<1>4. timer \in Nat \cup {NoTimer}
  BY DEF TypeOK
<1> HIDE DEF others
<1>5. QED
  BY <1>1, <1>2, <1>3, <1>4, RecomputeKeepsDefault

\* SPEC 4.7: whatever is shown, released, expired or reloaded, exactly one
\* default claim is in the map and it is for the current default screen.
THEOREM DefaultAlwaysPresent == Spec => []DefaultPresent
<1>1. Init => DefaultPresent
  BY DEF Init, DefaultPresent
<1>2. TypeOK /\ DefaultPresent /\ [Next]_vars => DefaultPresent'
  <2> SUFFICES ASSUME TypeOK, OneDefault(claims, defaultScreenId), [Next]_vars
               PROVE  OneDefault(claims', defaultScreenId')
    BY DEF DefaultPresent, OneDefault
  <2>0. \A old \in SUBSET claims : Ranked(old)
    BY DEF Ranked, TypeOK
  <2>t. timer \in Nat \cup {NoTimer} /\ screens \subseteq ScreenIds
    BY DEF TypeOK
  <2>1. ASSUME NEW scr \in ScreenIds, NEW src \in Offers,
               NEW d \in Durations, NEW once \in BOOLEAN,
               Show(scr, src, d, once)
        PROVE  OneDefault(claims', defaultScreenId')
    <3> DEFINE others == IF src = "manual_next" THEN claims
                         ELSE {c \in claims : c.source # "manual_next"}
               new == MakeClaim(scr, src, Until(src, d), once)
    <3>1. others \in SUBSET claims /\ OneDefault(others, defaultScreenId)
      BY DEF OneDefault
    <3>2. new.source = src /\ src # "default" /\ src \in Sources
      BY SchedulerAssumption DEF MakeClaim
    <3>3. Recompute(others \cup {new}, screens, defaultScreenId, timer)
          /\ defaultScreenId' = defaultScreenId
      BY <2>1 DEF Show
    <3>4. Until(src, d) \in Nat
      BY UntilType
    <3> HIDE DEF others
    <3>5. Ranked(others \cup {new})
      BY <3>1, <3>2, <3>4, AddClaim
    <3> HIDE DEF new
    <3>6. OneDefault(others \cup {new}, defaultScreenId)
      BY <3>1, <3>2 DEF OneDefault
    <3>7. QED
      BY <2>t, <3>3, <3>5, <3>6, RecomputeKeepsDefault
  <2>2. ASSUME NEW c \in claims, Release(c)
        PROVE  OneDefault(claims', defaultScreenId')
    <3>1. OneDefault(claims \ {c}, defaultScreenId)
      BY <2>2 DEF Release, OneDefault
    <3>2. QED
      BY <2>0, <2>2, <2>t, <3>1, RecomputeKeepsDefault DEF Release
  <2>3. ASSUME NEW src \in Offers, ReleaseSource(src)
        PROVE  OneDefault(claims', defaultScreenId')
    <3> DEFINE others == {c \in claims : c.source # src}
    <3>1. others \in SUBSET claims /\ OneDefault(others, defaultScreenId)
      BY SchedulerAssumption DEF OneDefault
    <3>2. Recompute(others, screens, defaultScreenId, timer)
          /\ defaultScreenId' = defaultScreenId
      BY <2>3 DEF ReleaseSource
    <3> HIDE DEF others
    <3>3. QED
      BY <2>0, <2>t, <3>1, <3>2, RecomputeKeepsDefault
  <2>4. ASSUME NEW def \in ScreenIds, SetDefault(def)
        PROVE  OneDefault(claims', defaultScreenId')
    BY <2>4, <2>t, InstallDefaultIsOne DEF SetDefault
  <2>5. ASSUME NEW scr \in SUBSET ScreenIds, NEW def \in ScreenIds,
               NEW pin \in PinnedTimeouts, Reload(scr, def, pin)
        PROVE  OneDefault(claims', defaultScreenId')
    <3>1. CASE InstallDefault(def, scr)
      BY <3>1, InstallDefaultIsOne
    <3>2. CASE UNCHANGED <<claims, active, shown, defaultScreenId, lastDefault,
                           timer, nothingToShow, nextId>>
      BY <3>2
    <3>3. QED
      BY <2>5, <3>1, <3>2 DEF Reload
  <2>6. CASE ExpiryTimerFires
    BY <2>0, <2>6, <2>t, RecomputeKeepsDefault DEF ExpiryTimerFires
  <2>7. CASE Tick
    BY <2>7 DEF Tick
  <2>8. CASE UNCHANGED vars
    BY <2>8 DEF vars
  <2>9. QED
    BY <2>1, <2>2, <2>3, <2>4, <2>5, <2>6, <2>7, <2>8 DEF Next
<1>3. QED
  BY <1>1, <1>2, TypeCorrect, PTL DEF Spec

------------------------------------------------------------------------------
(* Priority *)

LEMMA BeatsTransitive ==
  ASSUME NEW a \in Claim, NEW b \in Claim, NEW c \in Claim,
         Beats(a, b), Beats(b, c)
  PROVE  Beats(a, c)
<1>1. \A s \in Sources : Priority[s] \in Nat
  BY DEF Sources, Priority
<1>2. \A x \in {a, b, c} :
        /\ x.source \in Sources /\ x.createdAt \in Nat /\ x.id \in Nat
  BY DEF Claim
<1>3. QED
  BY <1>1, <1>2 DEF Beats

\* After recompute() nothing outranks the active claim, provided nothing in
\* cs outranked it before except claims whose screen is known: one of those
\* that comes out on top is shown, never skipped for want of a screen.
LEMMA RecomputeRanks ==
  ASSUME NEW cs, NEW scr, NEW def, NEW tmr,
         TypeOK, Ranked(cs), scr \subseteq ScreenIds,
         Recompute(cs, scr, def, tmr),
         \A c \in cs : \/ c.source = "default" \/ c = active
                       \/ Beats(active, c) \/ c.screenId \in scr
  PROVE  NothingOutranksActive'
<1> DEFINE live == {c \in cs : c.source = "default" \/ ~Expired(c)}
<1>1. PICK next \in live :
        /\ IsTop(next, live)
        /\ claims' \subseteq live
        /\ \/ ScreenFor(next, scr, def) = NoScreen /\ active' = active
           \/ active' = next
  BY DEF Recompute
<1>2. live \subseteq Claim /\ active \in Claim
  BY DEF Ranked, TypeOK
<1>3. \A c \in live : c = next \/ Beats(next, c)
  BY <1>1 DEF IsTop
<1>4. CASE active' = next
  BY <1>1, <1>3, <1>4 DEF NothingOutranksActive, Beats
<1>5. CASE ScreenFor(next, scr, def) = NoScreen /\ active' = active
  <2>1. next.screenId \notin scr
    BY <1>5, SchedulerAssumption DEF ScreenFor
  <2> SUFFICES ASSUME NEW c \in live, c.source # "default", c # active,
                      ~ Beats(active, c)
               PROVE  FALSE
    BY <1>1, <1>5 DEF NothingOutranksActive, Beats
  <2>2. c.screenId \in scr /\ c # next /\ Beats(next, c)
    BY <1>3, <2>1
  <2>3. next.source # "default"
    <3>1. c.source \in Sources
      BY <1>2 DEF Claim
    <3>2. QED
      BY <2>2, <3>1 DEF Beats, Priority, Sources
  <2>4. next = active \/ Beats(active, next)
    BY <2>1, <2>3
  <2>5. QED
    BY <1>2, <2>2, <2>4, BeatsTransitive
<1>6. QED
  BY <1>1, <1>4, <1>5

\* No claim other than the default one ever outranks the claim on the frame,
\* not even while recompute() finds no screen it could show.
THEOREM PriorityRespected == Spec => []NothingOutranksActive
<1>1. Init => NothingOutranksActive
  BY DEF Init, NothingOutranksActive
<1>2. TypeOK /\ NothingOutranksActive /\ [Next]_vars => NothingOutranksActive'
  <2> SUFFICES ASSUME TypeOK, NothingOutranksActive, [Next]_vars
               PROVE  NothingOutranksActive'
    OBVIOUS
  <2>0. \A old \in SUBSET claims : Ranked(old)
    BY DEF Ranked, TypeOK
  <2>t. screens \subseteq ScreenIds
    BY DEF TypeOK
  <2>n. \A c \in claims : \/ c.source = "default" \/ c = active
                          \/ Beats(active, c)
    BY DEF NothingOutranksActive
  <2>1. ASSUME NEW scr \in ScreenIds, NEW src \in Offers,
               NEW d \in Durations, NEW once \in BOOLEAN,
               Show(scr, src, d, once)
        PROVE  NothingOutranksActive'
    <3> DEFINE others == IF src = "manual_next" THEN claims
                         ELSE {c \in claims : c.source # "manual_next"}
               new == MakeClaim(scr, src, Until(src, d), once)
    <3>1. others \in SUBSET claims
      OBVIOUS
    <3>2. new.screenId \in screens /\ src \in Sources
      BY <2>1, SchedulerAssumption DEF MakeClaim, Show
    <3>3. Recompute(others \cup {new}, screens, defaultScreenId, timer)
      BY <2>1 DEF Show
    <3>4. Until(src, d) \in Nat
      BY UntilType
    <3> HIDE DEF others
    <3>5. Ranked(others \cup {new})
      BY <3>1, <3>2, <3>4, AddClaim
    <3> HIDE DEF new
    <3>6. QED
      BY <2>n, <2>t, <3>1, <3>2, <3>3, <3>5, RecomputeRanks
  <2>2. ASSUME NEW c \in claims, Release(c)
        PROVE  NothingOutranksActive'
    BY <2>0, <2>2, <2>n, <2>t, RecomputeRanks DEF Release
  <2>3. ASSUME NEW src \in Offers, ReleaseSource(src)
        PROVE  NothingOutranksActive'
    <3> DEFINE others == {c \in claims : c.source # src}
    <3>1. /\ others \in SUBSET claims
          /\ Recompute(others, screens, defaultScreenId, timer)
      BY <2>3 DEF ReleaseSource
    <3> HIDE DEF others
    <3>2. QED
      BY <2>0, <2>n, <2>t, <3>1, RecomputeRanks
  <2>i. ASSUME NEW def \in ScreenIds, NEW scr \in SUBSET ScreenIds,
               InstallDefault(def, scr)
        PROVE  NothingOutranksActive'
    <3> DEFINE others == {c \in claims : c.source # "default"}
               new == MakeClaim(def, "default", Never, FALSE)
    <3>1. Ranked(others \cup {new})
      BY AddClaim DEF Sources, Never
    <3>2. new.source = "default"
      BY DEF MakeClaim
    <3> HIDE DEF new
    <3>3. Recompute(others \cup {new}, scr, def, timer)
      BY <2>i DEF InstallDefault, new
    <3>4. QED
      BY <2>n, <3>1, <3>2, <3>3, RecomputeRanks
  <2>4. ASSUME NEW def \in ScreenIds, SetDefault(def)
        PROVE  NothingOutranksActive'
    BY <2>4, <2>i, <2>t DEF SetDefault
  <2>5. ASSUME NEW scr \in SUBSET ScreenIds, NEW def \in ScreenIds,
               NEW pin \in PinnedTimeouts, Reload(scr, def, pin)
        PROVE  NothingOutranksActive'
    <3>1. CASE InstallDefault(def, scr)
      BY <2>i, <3>1
    <3>2. CASE UNCHANGED <<claims, active, shown, defaultScreenId, lastDefault,
                           timer, nothingToShow, nextId>>
      BY <3>2 DEF NothingOutranksActive, Beats
    <3>3. QED
      BY <2>5, <3>1, <3>2 DEF Reload
  <2>6. CASE ExpiryTimerFires
    BY <2>0, <2>6, <2>n, <2>t, RecomputeRanks DEF ExpiryTimerFires
  <2>7. CASE Tick
    BY <2>7 DEF Tick, NothingOutranksActive, Beats
  <2>8. CASE UNCHANGED vars
    BY <2>8 DEF vars, NothingOutranksActive, Beats
  <2>9. QED
    BY <2>1, <2>2, <2>3, <2>4, <2>5, <2>6, <2>7, <2>8 DEF Next
<1>3. QED
  BY <1>1, <1>2, TypeCorrect, PTL DEF Spec

------------------------------------------------------------------------------
(* Expiry *)

\* The strengthening of NoOverstay: the pending timer will fire in time for
\* every claim with a limit, and the default claim has none.
TimerCovers ==
  nothingToShow \/
  \A c \in claims : c.expiresAt # Never =>
    timer # NoTimer /\ now + timer < c.expiresAt + MinRecheck

\* The timer scheduleExpiryRecheck arms covers every claim still to expire.
LEMMA RecheckCovers ==
  ASSUME NEW cs, cs \subseteq Claim, now \in Nat,
         NEW c \in cs, c.expiresAt > now
  PROVE  /\ ExpiryRecheck(cs) \in Nat
         /\ now + ExpiryRecheck(cs) < c.expiresAt + MinRecheck
<1> DEFINE pending == {e.expiresAt : e \in {d \in cs : d.expiresAt > now}}
           t == CHOOSE t \in pending : \A u \in pending : t <= u
<1>1. pending \subseteq Nat /\ c.expiresAt \in pending
  BY DEF Claim
<1>2. t \in pending /\ \A u \in pending : t <= u
  <2> HIDE DEF pending
  <2>1. \E s \in pending : \A u \in pending : s <= u
    BY <1>1, LeastNatural
  <2>2. QED
    BY <2>1
<1>3. ExpiryRecheck(cs)
        = TimerDelay(IF t - now > MinRecheck THEN t - now ELSE MinRecheck)
  BY <1>1 DEF ExpiryRecheck
<1>4. t \in Nat /\ t > now /\ t <= c.expiresAt /\ c.expiresAt \in Nat
  <2>1. \A u \in pending : u > now
    OBVIOUS
  <2> HIDE DEF pending, t
  <2>2. QED
    BY <1>1, <1>2, <2>1
<1> HIDE DEF t
<1>5. QED
  BY <1>3, <1>4, SchedulerAssumption DEF TimerDelay

LEMMA RecomputeCovers ==
  ASSUME NEW cs, NEW scr, NEW def, NEW tmr,
         TypeOK, Ranked(cs), scr \subseteq ScreenIds, now' = now,
         Recompute(cs, scr, def, tmr),
         \A c \in cs : c.source = "default" => c.expiresAt = Never
  PROVE  TimerCovers'
<1> DEFINE live == {c \in cs : c.source = "default" \/ ~Expired(c)}
<1>1. /\ claims' \subseteq live
      /\ nothingToShow' = TRUE \/ timer' = ExpiryRecheck(claims')
  BY DEF Recompute
<1>2. SUFFICES ASSUME timer' = ExpiryRecheck(claims'),
                      NEW c \in claims', c.expiresAt # Never
               PROVE  timer' # NoTimer /\ now' + timer' < c.expiresAt + MinRecheck
  BY <1>1 DEF TimerCovers
<1>3. claims' \subseteq Claim /\ now \in Nat
  BY <1>1 DEF Ranked, TypeOK
<1>4. c.expiresAt > now
  <2>1. c.expiresAt \in Nat /\ ~Expired(c)
    BY <1>1, <1>2, <1>3 DEF Claim
  <2>2. QED
    BY <1>2, <1>3, <2>1 DEF Expired, Never
<1>5. /\ ExpiryRecheck(claims') \in Nat
      /\ now + ExpiryRecheck(claims') < c.expiresAt + MinRecheck
  BY <1>3, <1>4, RecheckCovers
<1>6. QED
  BY <1>2, <1>5 DEF NoTimer

\* A claim with a limit is gone less than MinRecheck ticks after it, however
\* often other events recomputed and pushed the recheck timer back, unless
\* recompute() gave up for want of any screen to show.
THEOREM ExpiryInTime == Spec => []NoOverstay
<1>1. Init => TimerCovers
  BY DEF Init, TimerCovers
<1>2. TypeOK /\ DefaultPresent /\ TimerCovers /\ [Next]_vars => TimerCovers'
  <2> SUFFICES ASSUME TypeOK, DefaultPresent, TimerCovers, [Next]_vars
               PROVE  TimerCovers'
    OBVIOUS
  <2>0. \A old \in SUBSET claims : Ranked(old)
    BY DEF Ranked, TypeOK
  <2>t. screens \subseteq ScreenIds
    BY DEF TypeOK
  <2>d. \A c \in claims : c.source = "default" => c.expiresAt = Never
    BY DEF DefaultPresent
  <2>1. ASSUME NEW scr \in ScreenIds, NEW src \in Offers,
               NEW d \in Durations, NEW once \in BOOLEAN,
               Show(scr, src, d, once)
        PROVE  TimerCovers'
    <3> DEFINE others == IF src = "manual_next" THEN claims
                         ELSE {c \in claims : c.source # "manual_next"}
               new == MakeClaim(scr, src, Until(src, d), once)
    <3>1. others \in SUBSET claims
      OBVIOUS
    <3>2. new.source # "default" /\ src \in Sources
      BY SchedulerAssumption DEF MakeClaim
    <3>3. /\ Recompute(others \cup {new}, screens, defaultScreenId, timer)
          /\ now' = now
      BY <2>1 DEF Show
    <3>4. Until(src, d) \in Nat
      BY UntilType
    <3> HIDE DEF others
    <3>5. Ranked(others \cup {new})
      BY <3>1, <3>2, <3>4, AddClaim
    <3> HIDE DEF new
    <3>6. QED
      BY <2>d, <2>t, <3>1, <3>2, <3>3, <3>5, RecomputeCovers
  <2>2. ASSUME NEW c \in claims, Release(c)
        PROVE  TimerCovers'
    BY <2>0, <2>2, <2>d, <2>t, RecomputeCovers DEF Release
  <2>3. ASSUME NEW src \in Offers, ReleaseSource(src)
        PROVE  TimerCovers'
    <3> DEFINE others == {c \in claims : c.source # src}
    <3>1. /\ others \in SUBSET claims /\ now' = now
          /\ Recompute(others, screens, defaultScreenId, timer)
      BY <2>3 DEF ReleaseSource
    <3> HIDE DEF others
    <3>2. QED
      BY <2>0, <2>d, <2>t, <3>1, RecomputeCovers
  <2>i. ASSUME NEW def \in ScreenIds, NEW scr \in SUBSET ScreenIds,
               InstallDefault(def, scr), now' = now
        PROVE  TimerCovers'
    <3> DEFINE others == {c \in claims : c.source # "default"}
               new == MakeClaim(def, "default", Never, FALSE)
    <3>1. Ranked(others \cup {new})
      BY AddClaim DEF Sources, Never
    <3>2. new.expiresAt = Never
      BY DEF MakeClaim
    <3> HIDE DEF new
    <3>3. Recompute(others \cup {new}, scr, def, timer)
      BY <2>i DEF InstallDefault, new
    <3>4. QED
      BY <2>d, <2>i, <3>1, <3>2, <3>3, RecomputeCovers
  <2>4. ASSUME NEW def \in ScreenIds, SetDefault(def)
        PROVE  TimerCovers'
    BY <2>4, <2>i, <2>t DEF SetDefault
  <2>5. ASSUME NEW scr \in SUBSET ScreenIds, NEW def \in ScreenIds,
               NEW pin \in PinnedTimeouts, Reload(scr, def, pin)
        PROVE  TimerCovers'
    <3>1. CASE InstallDefault(def, scr)
      BY <2>5, <2>i, <3>1 DEF Reload
    <3>2. CASE UNCHANGED <<claims, active, shown, defaultScreenId, lastDefault,
                           timer, nothingToShow, nextId>>
      BY <2>5, <3>2 DEF TimerCovers, Reload
    <3>3. QED
      BY <2>5, <3>1, <3>2 DEF Reload
  <2>6. CASE ExpiryTimerFires
    BY <2>0, <2>6, <2>d, <2>t, RecomputeCovers DEF ExpiryTimerFires
  <2>7. CASE Tick
    <3>1. now \in Nat /\ timer \in Nat \cup {NoTimer}
      BY DEF TypeOK
    <3>2. timer # NoTimer => timer' # NoTimer /\ now' + timer' = now + timer
      BY <2>7, <3>1 DEF Tick, NoTimer
    <3>3. QED
      BY <2>7, <3>2 DEF Tick, TimerCovers
  <2>8. CASE UNCHANGED vars
    BY <2>8 DEF vars, TimerCovers
  <2>9. QED
    BY <2>1, <2>2, <2>3, <2>4, <2>5, <2>6, <2>7, <2>8 DEF Next
<1>3. TypeOK /\ TimerCovers => NoOverstay
  <2> SUFFICES ASSUME TypeOK, TimerCovers, ~nothingToShow,
                      NEW c \in claims, c.expiresAt # Never
               PROVE  now < c.expiresAt + MinRecheck
    BY DEF NoOverstay
  <2>1. c.expiresAt \in Nat /\ now \in Nat /\ timer \in Nat \cup {NoTimer}
    BY DEF TypeOK, Claim
  <2>2. QED
    BY <2>1, SchedulerAssumption DEF TimerCovers
<1>4. QED
  BY <1>1, <1>2, <1>3, TypeCorrect, DefaultAlwaysPresent, PTL DEF Spec

------------------------------------------------------------------------------
(* What recompute() leaves on the frame *)

\* Every step recomputes or leaves the claims and the frame as they are.
LEMMA StepRecomputes ==
  ASSUME [Next]_vars
  PROVE  \/ \E cs, scr, def, tmr : Recompute(cs, scr, def, tmr)
         \/ UNCHANGED <<claims, active, nothingToShow>>
BY DEF Next, vars, Show, Release, ReleaseSource, SetDefault, Reload,
       InstallDefault, ExpiryTimerFires, Tick

\* Either no screen was found, or the winner is active, and the map still has
\* it unless it was popped as a one-shot; of a claim it displaced nothing is
\* left if that was a manual_next.
LEMMA RecomputeLeaves ==
  ASSUME NEW cs, NEW scr, NEW def, NEW tmr, Recompute(cs, scr, def, tmr)
  PROVE  /\ ActiveStillClaimed'
         /\ active.source = "manual_next" /\ active'.id # active.id
              => \A c \in claims' : c.id # active.id
<1> DEFINE live == {c \in cs : c.source = "default" \/ ~Expired(c)}
<1>1. PICK next \in live :
        \/ nothingToShow' = TRUE /\ active' = active
        \/ LET kept == live \ Displaced(live, next)
           IN  /\ active' = next
               /\ claims' = IF active.id # next.id /\ next.oneShot
                                 /\ next.source # "default"
                            THEN kept \ {next} ELSE kept
  BY DEF Recompute
<1>2. CASE nothingToShow' = TRUE /\ active' = active
  BY <1>2 DEF ActiveStillClaimed
<1>3. CASE LET kept == live \ Displaced(live, next)
           IN  /\ active' = next
               /\ claims' = IF active.id # next.id /\ next.oneShot
                                 /\ next.source # "default"
                            THEN kept \ {next} ELSE kept
  <2>1. next \in live \ Displaced(live, next)
    BY DEF Displaced
  <2>2. ActiveStillClaimed'
    BY <1>3, <2>1 DEF ActiveStillClaimed
  <2>3. ASSUME active.source = "manual_next", active'.id # active.id
        PROVE  \A c \in claims' : c.id # active.id
    BY <1>3, <2>3 DEF Displaced
  <2>4. QED
    BY <2>2, <2>3
<1>4. QED
  BY <1>1, <1>2, <1>3

\* What the frame shows is still claimed, whatever is released or expires.
THEOREM FrameClaimed == Spec => []ActiveStillClaimed
<1>1. Init => ActiveStillClaimed
  BY DEF Init, ActiveStillClaimed
<1>2. ActiveStillClaimed /\ [Next]_vars => ActiveStillClaimed'
  BY StepRecomputes, RecomputeLeaves DEF ActiveStillClaimed
<1>3. QED
  BY <1>1, <1>2, PTL DEF Spec

\* A manual_next claim that lost the frame is deleted in the step it lost it.
THEOREM DisplacedDeleted == Spec => DisplacedNextGone
<1> DEFINE Gone == active.source = "manual_next" /\ active'.id # active.id
                     => \A c \in claims' : c.id # active.id
<1>1. [Next]_vars => [Gone]_vars
  BY StepRecomputes, RecomputeLeaves
<1>2. QED
  BY <1>1, PTL DEF Spec, DisplacedNextGone

==============================================================================
