------------------------ MODULE ScreenControllerProofs ------------------------
(***************************************************************************)
(* Proofs about ScreenController, for any screens, caps, preload lists and *)
(* numbers of calls, registrations, exits and calls in flight, and about   *)
(* the Screens tab of the control panel, for any screens and requests.     *)
(***************************************************************************)
EXTENDS ScreenController, ScreensTab, FiniteSetTheorems, TLAPS

Entry == [id : Urls, tab : Nat]
Ack == [slot : Slots, ok : BOOLEAN]
Steps == {"idle", "capture", "front", "create", "load", "activate"}
Awaits(s) == calls[s].step \in {"front", "activate"}

\* A list of entries that is a map: no id is in it twice.
MapLike(tabs) ==
  /\ tabs \in Seq(Entry)
  /\ \A i, j \in DOMAIN tabs : tabs[i].id = tabs[j].id => i = j

(* The inductive invariant of TypeOK, part by part. *)

Plain ==
  /\ alive \in BOOLEAN /\ sink \in BOOLEAN
  /\ cdp \in {"down", "connecting", "up", "blind"}
  /\ page \in Pages(Screens)
  /\ current \in Screens /\ target \in Screens
  /\ cap \in Nat /\ preloading \in [Urls -> Nat]

\* A call is idle, or has a screen: a URL screen once it is past the shell tab.
CallsTyped ==
  /\ calls \in [Slots -> [step : Steps, id : Screens \cup {NoScreen}, tab : Int]]
  /\ \A s \in Slots :
       /\ calls[s].step = "idle" => calls[s] = Idle
       /\ calls[s].step # "idle" => calls[s].id \in Screens
       /\ calls[s].step \in {"create", "load", "activate"} => calls[s].id \in Urls

\* The unanswered activations are those of the calls that await one, one each.
Acked(ac, waiting) ==
  /\ ac \in Seq(Ack)
  /\ \A i, j \in DOMAIN ac : ac[i].slot = ac[j].slot => i = j
  /\ {ac[i].slot : i \in DOMAIN ac} = waiting

\* The tabs are of URL screens, and there are none without chromium and CDP.
Tabs ==
  /\ open \in [DOMAIN open -> Urls]
  /\ DOMAIN open \subseteq Nat \ {ShellTab} /\ IsFiniteSet(DOMAIN open)
  /\ front \in DOMAIN open \cup {ShellTab}
  /\ (alive /\ Connected) \/ DOMAIN open = {}

\* A tab in the map is open and shows the screen it is filed under; so does a
\* tab that a call waits for, as long as it is open.
Mapped ==
  /\ MapLike(urlTabs)
  /\ ~Connected => urlTabs = <<>>
  /\ alive => \A e \in ToSet(urlTabs) : e.tab \in DOMAIN open /\ open[e.tab] = e.id
  /\ \A s \in Slots :
       calls[s].step = "load" /\ calls[s].tab \in DOMAIN open
         => open[calls[s].tab] = calls[s].id

TInv ==
  /\ Plain /\ CallsTyped /\ Tabs /\ Mapped
  /\ Acked(acks, {s \in Slots : Awaits(s)})

(* The inductive invariant of SettledShowsTarget. *)

Live == alive /\ sink /\ ~restartDue

\* How far a show() that runs alone has come with its screen.
Coming(s) ==
  /\ cdp \in {"up", "blind"} /\ calls[s].id = target
  /\ target \in Builtins => target \in page.frames
  /\ calls[s].step = "front" => front = ShellTab
  /\ calls[s].step = "activate" =>
       \A i \in DOMAIN acks : acks[i].slot = s /\ acks[i].ok
         => front \in DOMAIN open /\ open[front] = target

RightScreen ==
  Live /\ ~raced =>
    /\ Quiet => current = target /\ (Wall = target \/ Behind)
    /\ \A s \in Slots : calls[s] # Idle => Coming(s)
    /\ \A r, s \in Slots : calls[r] # Idle /\ calls[s] # Idle => r = s

-------------------------------------------------------------------------------
(* Lists that stand for maps. *)

\* A list without its k-th element.
LEMMA ListWithout ==
  ASSUME NEW S, NEW q \in Seq(S), NEW k \in DOMAIN q
  PROVE  LET r == RemoveAt(q, k)
         IN  /\ r \in Seq(S) /\ Len(r) = Len(q) - 1
             /\ \A i \in DOMAIN r : r[i] = IF i < k THEN q[i] ELSE q[i + 1]
<1>. DEFINE n == Len(q)
            a == SubSeq(q, 1, k - 1)
            b == SubSeq(q, k + 1, n)
<1>1. n \in Nat /\ k \in 1..n /\ DOMAIN q = 1..n
  OBVIOUS
<1>2. a \in Seq(S) /\ Len(a) = k - 1 /\ \A i \in 1..(k - 1) : a[i] = q[i]
  BY <1>1
<1>3. b \in Seq(S) /\ Len(b) = n - k /\ \A i \in 1..(n - k) : b[i] = q[k + i]
  BY <1>1
<1>. HIDE DEF a, b
<1>. HIDE DEF n
<1>4. /\ a \o b \in Seq(S) /\ Len(a \o b) = n - 1
      /\ \A i \in 1..(n - 1) : (a \o b)[i] = IF i < k THEN a[i] ELSE b[i - (k - 1)]
  <2>1. a \o b \in Seq(S) /\ Len(a \o b) = Len(a) + Len(b)
    <3>1. a \in Seq(S) /\ b \in Seq(S)
      BY <1>2, <1>3
    <3>. QED
      BY <3>1
  <2>2. Len(a) + Len(b) = n - 1
    BY <1>1, <1>2, <1>3
  <2>3. \A i \in 1..(n - 1) : (a \o b)[i] = IF i <= Len(a) THEN a[i] ELSE b[i - Len(a)]
    BY <1>2, <1>3, <2>2
  <2>4. \A i \in 1..(n - 1) : i <= Len(a) <=> i < k
    BY <1>1, <1>2
  <2>. QED
    BY <1>2, <2>1, <2>2, <2>3, <2>4
<1>5. \A i \in 1..(n - 1) : (a \o b)[i] = IF i < k THEN q[i] ELSE q[i + 1]
  <2>. SUFFICES ASSUME NEW i \in 1..(n - 1)
                PROVE  (a \o b)[i] = IF i < k THEN q[i] ELSE q[i + 1]
    OBVIOUS
  <2>1. CASE i < k
    BY <1>1, <1>2, <1>4, <2>1
  <2>2. CASE ~(i < k)
    <3>1. i - (k - 1) \in 1..(n - k) /\ k + (i - (k - 1)) = i + 1
      BY <1>1, <2>2
    <3>. QED
      BY <1>1, <1>3, <1>4, <2>2, <3>1
  <2>. QED
    BY <2>1, <2>2
<1>6. RemoveAt(q, k) = a \o b
  BY DEF RemoveAt, a, b, n
<1>7. DOMAIN (a \o b) = 1..(n - 1)
  BY <1>1, <1>4
<1>8. n = Len(q)
  BY DEF n
<1>. QED
  BY <1>4, <1>5, <1>6, <1>7, <1>8

LEMMA EmptyList == ASSUME NEW S, NEW q \in Seq(S), ToSet(q) = {} PROVE q = <<>>
<1>1. DOMAIN q = {}
  BY DEF ToSet
<1>2. Len(q) = 0
  BY <1>1
<1>. QED
  BY <1>2

\* Taking an entry out of a map takes it out of the set of entries.
LEMMA TakenOut ==
  ASSUME NEW tabs, MapLike(tabs), NEW k \in DOMAIN tabs
  PROVE  /\ MapLike(RemoveAt(tabs, k))
         /\ ToSet(RemoveAt(tabs, k)) = ToSet(tabs) \ {tabs[k]}
         /\ Len(RemoveAt(tabs, k)) = Len(tabs) - 1
<1>. DEFINE r == RemoveAt(tabs, k)
<1>1. tabs \in Seq(Entry) /\ k \in 1..Len(tabs)
  BY DEF MapLike
<1>2. /\ r \in Seq(Entry) /\ Len(r) = Len(tabs) - 1
      /\ \A i \in DOMAIN r : r[i] = IF i < k THEN tabs[i] ELSE tabs[i + 1]
  BY <1>1, ListWithout
<1>. HIDE DEF r
<1>3. DOMAIN r = 1..(Len(tabs) - 1) /\ DOMAIN tabs = 1..Len(tabs)
  BY <1>1, <1>2
<1>4. \A i \in DOMAIN r : \E j \in DOMAIN tabs : j # k /\ r[i] = tabs[j] /\ j = IF i < k THEN i ELSE i + 1
  BY <1>1, <1>2, <1>3
<1>5. \A j \in DOMAIN tabs \ {k} : \E i \in DOMAIN r : r[i] = tabs[j]
  <2>1. ASSUME NEW j \in DOMAIN tabs, j # k PROVE \E i \in DOMAIN r : r[i] = tabs[j]
    <3>1. CASE j < k
      BY <1>1, <1>2, <1>3, <2>1, <3>1
    <3>2. CASE j > k
      <4>1. j - 1 \in DOMAIN r /\ ~(j - 1 < k) /\ (j - 1) + 1 = j
        BY <1>1, <1>3, <2>1, <3>2
      <4>. QED
        BY <1>2, <4>1
    <3>. QED
      BY <1>1, <1>3, <2>1, <3>1, <3>2
  <2>. QED
    BY <2>1
<1>6. \A i, j \in DOMAIN tabs : tabs[i].id = tabs[j].id => i = j
  BY DEF MapLike
<1>7. \A i, j \in DOMAIN r : r[i].id = r[j].id => i = j
  <2>. SUFFICES ASSUME NEW i \in DOMAIN r, NEW j \in DOMAIN r, r[i].id = r[j].id PROVE i = j
    OBVIOUS
  <2>. PICK a \in DOMAIN tabs : r[i] = tabs[a] /\ a = IF i < k THEN i ELSE i + 1
    BY <1>4
  <2>. PICK b \in DOMAIN tabs : r[j] = tabs[b] /\ b = IF j < k THEN j ELSE j + 1
    BY <1>4
  <2>1. a = b
    BY <1>6
  <2>. QED
    BY <1>1, <1>3, <2>1
<1>8. ToSet(r) = ToSet(tabs) \ {tabs[k]}
  <2>1. ToSet(r) \subseteq ToSet(tabs) \ {tabs[k]}
    BY <1>4, <1>6, <1>1, <1>3 DEF ToSet
  <2>2. ToSet(tabs) \ {tabs[k]} \subseteq ToSet(r)
    BY <1>5 DEF ToSet
  <2>. QED
    BY <2>1, <2>2
<1>. QED
  BY <1>2, <1>7, <1>8 DEF MapLike, r

\* An entry added to a map that has none for its id.
LEMMA Added ==
  ASSUME NEW tabs, MapLike(tabs), NEW e \in Entry, \A d \in ToSet(tabs) : d.id # e.id
  PROVE  MapLike(Append(tabs, e)) /\ ToSet(Append(tabs, e)) = ToSet(tabs) \cup {e}
<1>. DEFINE r == Append(tabs, e)
<1>1. tabs \in Seq(Entry) /\ \A i, j \in DOMAIN tabs : tabs[i].id = tabs[j].id => i = j
  BY DEF MapLike
<1>2. /\ r \in Seq(Entry) /\ Len(r) = Len(tabs) + 1 /\ r[Len(tabs) + 1] = e
      /\ \A i \in 1..Len(tabs) : r[i] = tabs[i]
  BY <1>1
<1>. HIDE DEF r
<1>3. DOMAIN r = 1..(Len(tabs) + 1) /\ DOMAIN tabs = 1..Len(tabs) /\ Len(tabs) \in Nat
  BY <1>1, <1>2
<1>4. \A i \in DOMAIN tabs : tabs[i].id # e.id
  BY DEF ToSet
<1>5. \A i, j \in DOMAIN r : r[i].id = r[j].id => i = j
  <2>. SUFFICES ASSUME NEW i \in DOMAIN r, NEW j \in DOMAIN r, r[i].id = r[j].id PROVE i = j
    OBVIOUS
  <2>1. i \in DOMAIN tabs \/ i = Len(tabs) + 1
    BY <1>3
  <2>2. j \in DOMAIN tabs \/ j = Len(tabs) + 1
    BY <1>3
  <2>. QED
    BY <1>1, <1>2, <1>3, <1>4, <2>1, <2>2
<1>6. ToSet(r) = ToSet(tabs) \cup {e}
  <2>1. ToSet(r) \subseteq ToSet(tabs) \cup {e}
    BY <1>2, <1>3 DEF ToSet
  <2>2. ToSet(tabs) \subseteq ToSet(r)
    BY <1>2, <1>3 DEF ToSet
  <2>3. e \in ToSet(r)
    BY <1>2, <1>3 DEF ToSet
  <2>. QED
    BY <2>1, <2>2, <2>3
<1>. QED
  BY <1>2, <1>5, <1>6 DEF MapLike, r

LEMMA CachedSet == ASSUME NEW tabs PROVE Cached(tabs) = {e.id : e \in ToSet(tabs)}
BY DEF Cached, ToSet

\* urlTabs.set(): the entry of this id, if any, gives way to the new one.
LEMMA FiledMap ==
  ASSUME NEW tabs, MapLike(tabs), NEW id \in Urls, NEW tab \in Nat
  PROVE  /\ MapLike(Filed(tabs, id, tab))
         /\ ToSet(Filed(tabs, id, tab))
              = {e \in ToSet(tabs) : e.id # id} \cup {[id |-> id, tab |-> tab]}
<1>. DEFINE e == [id |-> id, tab |-> tab]
            w == Without(tabs, id)
<1>1. e \in Entry /\ e.id = id
  BY DEF Entry
<1>2. MapLike(w) /\ ToSet(w) = {d \in ToSet(tabs) : d.id # id}
  <2>1. CASE id \notin Cached(tabs)
    BY <2>1, CachedSet DEF Without
  <2>2. CASE id \in Cached(tabs)
    <3>1. PICK k : k \in DOMAIN tabs /\ tabs[k].id = id /\ k = CHOOSE i \in DOMAIN tabs : tabs[i].id = id
      BY <2>2 DEF Cached
    <3>2. w = RemoveAt(tabs, k)
      BY <2>2, <3>1 DEF Without
    <3>3. \A d \in ToSet(tabs) : d.id = id <=> d = tabs[k]
      BY <3>1 DEF MapLike, ToSet
    <3>. QED
      BY <3>1, <3>2, <3>3, TakenOut
  <2>. QED
    BY <2>1, <2>2
<1>3. Filed(tabs, id, tab) = Append(w, e)
  BY DEF Filed
<1>. HIDE DEF e, w
<1>4. \A d \in ToSet(w) : d.id # e.id
  BY <1>1, <1>2
<1>5. MapLike(Append(w, e)) /\ ToSet(Append(w, e)) = ToSet(w) \cup {e}
  BY <1>1, <1>2, <1>4, Added
<1>. QED
  BY <1>2, <1>3, <1>5 DEF e

\* The entry that is found for an id that is cached.
LEMMA Found ==
  ASSUME NEW tabs, NEW id \in Cached(tabs)
  PROVE  \E e \in ToSet(tabs) : e.id = id /\ TabFor(tabs, id) = e.tab
BY CachedSet DEF TabFor

\* A map has as many ids as entries.
LEMMA Counted ==
  ASSUME NEW tabs, MapLike(tabs)
  PROVE  Cardinality(Cached(tabs)) = Len(tabs) /\ Cached(tabs) \subseteq Urls
<1>. DEFINE f == [i \in 1..Len(tabs) |-> tabs[i].id]
<1>1. /\ tabs \in Seq(Entry) /\ Len(tabs) \in Nat /\ DOMAIN tabs = 1..Len(tabs)
      /\ \A i, j \in DOMAIN tabs : tabs[i].id = tabs[j].id => i = j
  BY DEF MapLike
<1>2. f \in Bijection(1..Len(tabs), Cached(tabs))
  BY <1>1 DEF Bijection, Injection, IsInjective, Surjection, Cached
<1>3. Cardinality(Cached(tabs)) = Len(tabs)
  BY <1>1, <1>2, FS_CountingElements DEF ExistsBijection
<1>4. Cached(tabs) \subseteq Urls
  <2>1. \A i \in DOMAIN tabs : tabs[i] \in Entry
    BY <1>1
  <2>. QED
    BY <2>1 DEF Cached, Entry
<1>. QED
  BY <1>3, <1>4

-------------------------------------------------------------------------------
(* Numbers of tabs. *)

\* The values of a function on a finite set are finitely many.
LEMMA FiniteImage ==
  ASSUME NEW S, IsFiniteSet(S), NEW f, DOMAIN f = S, f \in [S -> {f[x] : x \in S}]
  PROVE  IsFiniteSet({f[x] : x \in S})
<1>1. f \in Surjection(S, {f[x] : x \in S})
  BY DEF Surjection
<1>. QED
  BY <1>1, FS_Surjection

\* No finite set holds all of the numbers from 1 to one more than it has
\* elements.
LEMMA Vacant ==
  ASSUME NEW S, IsFiniteSet(S)
  PROVE  \E t \in 1..(Cardinality(S) + 1) : t \notin S
<1>. DEFINE c == Cardinality(S)
<1>1. c \in Nat
  BY FS_CardinalityType
<1>2. Cardinality(1..(c + 1)) = c + 1
  BY <1>1, FS_Interval
<1>3. 1..(c + 1) \subseteq S => Cardinality(1..(c + 1)) <= c
  BY FS_Subset
<1>. HIDE DEF c
<1>4. ~(1..(c + 1) \subseteq S)
  BY <1>1, <1>2, <1>3
<1>. QED
  BY <1>4 DEF c

\* newTab() answers with a number that no tab, entry or call has.
LEMMA NewTabIsNew ==
  ASSUME TInv
  PROVE  /\ NewTab \in Nat \ {ShellTab} /\ NewTab \notin DOMAIN open
         /\ \A e \in ToSet(urlTabs) : e.tab # NewTab
         /\ \A s \in Slots : calls[s].tab # NewTab
<1>. DEFINE listed == {e.tab : e \in ToSet(urlTabs)}
            awaited == {calls[s].tab : s \in Slots}
            taken == DOMAIN open \cup {ShellTab} \cup listed \cup awaited
<1>1. IsFiniteSet(listed)
  <2>. DEFINE f == [i \in 1..Len(urlTabs) |-> urlTabs[i].tab]
  <2>1. Len(urlTabs) \in Nat /\ DOMAIN urlTabs = 1..Len(urlTabs)
    BY DEF TInv, Mapped, MapLike
  <2>2. listed = {f[i] : i \in 1..Len(urlTabs)}
    BY <2>1 DEF ToSet
  <2>3. IsFiniteSet(1..Len(urlTabs))
    BY <2>1, FS_Interval
  <2>4. IsFiniteSet({f[i] : i \in 1..Len(urlTabs)})
    BY <2>3, FiniteImage
  <2>. QED
    BY <2>2, <2>4
<1>2. IsFiniteSet(awaited)
  <2>. DEFINE f == [s \in Slots |-> calls[s].tab]
  <2>1. awaited = {f[s] : s \in Slots}
    OBVIOUS
  <2>2. IsFiniteSet(Slots) /\ DOMAIN f = Slots /\ f \in [Slots -> {f[s] : s \in Slots}]
    BY ScreenControllerAssumption DEF ScreenControllerAssumption
  <2>. HIDE DEF f
  <2>3. IsFiniteSet({f[s] : s \in Slots})
    BY <2>2, FiniteImage
  <2>. QED
    BY <2>1, <2>3
<1>3. IsFiniteSet(DOMAIN open) /\ IsFiniteSet({ShellTab})
  BY FS_Singleton DEF TInv, Tabs
<1>. HIDE DEF listed, awaited
<1>4. IsFiniteSet(taken)
  BY <1>1, <1>2, <1>3, FS_Union
<1>5. \E t \in 1..(Cardinality(taken) + 1) : t \notin taken
  BY <1>4, Vacant
<1>6. NewTab = CHOOSE t \in 1..(Cardinality(taken) + 1) : t \notin taken
  BY DEF NewTab, listed, awaited
<1>. HIDE DEF taken
<1>7. NewTab \in 1..(Cardinality(taken) + 1) /\ NewTab \notin taken
  BY <1>5, <1>6
<1>8. NewTab \in Nat /\ NewTab # ShellTab
  BY <1>4, <1>7, FS_CardinalityType DEF ShellTab
<1>. QED
  BY <1>7, <1>8 DEF taken, listed, awaited

-------------------------------------------------------------------------------
(* Loops. *)

\* What holds at 0, and at i + 1 if at i, holds up to n.
LEMMA Below ==
  ASSUME NEW n \in Nat, NEW S, 0 \in S, \A i \in 0..(n - 1) : i \in S => i + 1 \in S
  PROVE  n \in S
<1>. SUFFICES ASSUME n \notin S PROVE FALSE
  OBVIOUS
<1>. DEFINE R == StrictSubsetOrdering(0..n)
            Bad == {T \in SUBSET (0..n) : \E k \in 0..n : T = 0..k /\ k \notin S}
<1>1. IsWellFoundedOn(R, SUBSET (0..n))
  <2>1. IsFiniteSet(0..n)
    BY FS_Interval
  <2>2. FiniteSubsetsOf(0..n) = SUBSET (0..n)
    BY <2>1, FS_FiniteSubsetsOfFinite
  <2>. QED
    BY <2>2, FS_StrictSubsetOrderingWellFounded
<1>2. 0..n \in Bad
  OBVIOUS
<1>3. \E T \in Bad : \A U \in Bad : ~(<<U, T>> \in R)
  <2>. HIDE DEF R
  <2>1. Bad \subseteq SUBSET (0..n) /\ Bad # {}
    BY <1>2
  <2>. HIDE DEF Bad
  <2>. QED
    BY <1>1, <2>1, WFMin
<1>4. PICK T \in Bad : \A U \in Bad : ~(<<U, T>> \in R)
  BY <1>3
<1>5. PICK k \in 0..n : T = 0..k /\ k \notin S
  BY <1>4
<1>6. k # 0 /\ k - 1 \in 0..(n - 1) /\ k - 1 \notin S
  BY <1>5
<1>7. 0..(k - 1) \in Bad
  BY <1>6
<1>8. 0..(k - 1) \subseteq 0..k /\ 0..(k - 1) # 0..k
  BY <1>6
<1>9. <<0..(k - 1), T>> \in R
  BY <1>4, <1>5, <1>6, <1>7, <1>8 DEF StrictSubsetOrdering
<1>. QED
  BY <1>4, <1>7, <1>9

\* A loop of n rounds whose states f numbers stays in a set it starts in and
\* that no round leaves.
LEMMA LoopStays ==
  ASSUME NEW n \in Nat, NEW T, NEW f, f[0] \in T, \A i \in 1..n : f[i - 1] \in T => f[i] \in T
  PROVE  f[n] \in T
<1>. DEFINE S == {i \in 0..n : f[i] \in T}
<1>1. 0 \in S
  OBVIOUS
<1>2. ASSUME NEW i \in 0..(n - 1), i \in S PROVE i + 1 \in S
  <2>1. i + 1 \in 1..n /\ (i + 1) - 1 = i
    OBVIOUS
  <2>. QED
    BY <1>2, <2>1
<1>. HIDE DEF S
<1>3. n \in S
  BY <1>1, <1>2, Below
<1>. QED
  BY <1>3 DEF S

\* g is the history of a loop of n rounds over the states of T.
Traces(g, n, T, base, step) ==
  /\ g \in [0..n -> T]
  /\ g[0] = base /\ \A i \in 1..n : g[i] = step[<<g[i - 1], i>>]

\* Every loop has a history.
LEMMA History ==
  ASSUME NEW n \in Nat, NEW T, NEW base \in T, NEW step \in [T \X (1..n) -> T]
  PROVE  \E g : Traces(g, n, T, base, step)
<1>. DEFINE Is(g, k) == Traces(g, k, T, base, step)
            S == {k \in 0..n : \E g : Is(g, k)}
<1>1. 0 \in S
  <2>1. Is([i \in 0..0 |-> base], 0)
    BY DEF Traces
  <2>. HIDE DEF Is
  <2>. QED
    BY <2>1
<1>2. ASSUME NEW k \in 0..(n - 1), k \in S PROVE k + 1 \in S
  <2>1. PICK g : Is(g, k)
    BY <1>2
  <2>. DEFINE h == [i \in 0..(k + 1) |-> IF i <= k THEN g[i] ELSE step[<<g[k], k + 1>>]]
  <2>. USE DEF Traces
  <2>2. g[k] \in T /\ k + 1 \in 1..n /\ step[<<g[k], k + 1>>] \in T
    BY <1>2, <2>1
  <2>3. h \in [0..(k + 1) -> T]
    BY <2>1, <2>2
  <2>4. h[0] = base
    BY <2>1
  <2>5. ASSUME NEW i \in 1..(k + 1) PROVE h[i] = step[<<h[i - 1], i>>]
    <3>1. CASE i <= k
      BY <2>1, <3>1
    <3>2. CASE i = k + 1
      <4>1. h[i] = step[<<g[k], k + 1>>] /\ h[i - 1] = g[k]
        BY <3>2
      <4>. QED
        BY <3>2, <4>1
    <3>. QED
      BY <3>1, <3>2
  <2>. HIDE DEF h
  <2>6. Is(h, k + 1)
    BY <2>3, <2>4, <2>5
  <2>. HIDE DEF Is
  <2>. QED
    BY <1>2, <2>6
<1>. HIDE DEF S
<1>3. n \in S
  BY <1>1, <1>2, Below
<1>. QED
  BY <1>3 DEF S

-------------------------------------------------------------------------------
(* Eviction and preloading, from the state of the map that a loop has come  *)
(* to: what is left of urlTabs, the tabs closed and the tabs asked for.     *)

Working == [tabs : Seq(Entry), closed : SUBSET Nat, asked : [Urls -> Nat]]

\* Entries are taken out of urlTabs, never that of the current screen; their
\* tabs are closed, and no tab of an entry that stays.
Pruned(st) ==
  /\ st \in Working /\ MapLike(st.tabs)
  /\ ToSet(st.tabs) \subseteq ToSet(urlTabs)
  /\ \A t \in st.closed : \E e \in ToSet(urlTabs) : e.id # current /\ e.tab = t
  /\ \A e \in ToSet(urlTabs) : e.id = current => e \in ToSet(st.tabs)
  /\ \A e \in ToSet(urlTabs) : e \in ToSet(st.tabs) \/ e.tab \in st.closed
  /\ alive => \A e \in ToSet(st.tabs) : e.tab \notin st.closed

\* Entries with the same tab are the same, as a tab shows one screen.
LEMMA TabsDiffer ==
  ASSUME TInv, alive, NEW d \in ToSet(urlTabs), NEW e \in ToSet(urlTabs), d.tab = e.tab
  PROVE  d = e
<1>1. d.id = e.id
  BY DEF TInv, Mapped
<1>. QED
  BY <1>1 DEF TInv, Mapped, MapLike, ToSet

\* The oldest entry that may go is one that may go.
LEMMA OldestMayGo ==
  ASSUME NEW tabs, MapLike(tabs), Evictable(tabs) # {}
  PROVE  Oldest(tabs) \in Evictable(tabs)
<1>1. tabs \in Seq(Entry) /\ DOMAIN tabs = 1..Len(tabs) /\ Len(tabs) \in Nat
  BY DEF MapLike
<1>2. \E i \in Evictable(tabs) : \A j \in Evictable(tabs) : i <= j
  <2>1. CASE 1 \in Evictable(tabs)
    BY <1>1, <2>1 DEF Evictable
  <2>2. CASE 1 \notin Evictable(tabs)
    <3>1. PICK k \in Evictable(tabs) : TRUE
      OBVIOUS
    <3>2. k \in DOMAIN tabs /\ k # 1 /\ k \in Int /\ 1 \in DOMAIN tabs /\ 2 \in DOMAIN tabs
      BY <1>1, <2>2, <3>1 DEF Evictable
    <3>3. tabs[1].id = current
      BY <2>2, <3>2 DEF Evictable
    <3>4. 2 \in Evictable(tabs)
      BY <3>2, <3>3 DEF Evictable, MapLike
    <3>5. \A j \in Evictable(tabs) : 2 <= j
      BY <1>1, <2>2 DEF Evictable
    <3>. QED
      BY <3>4, <3>5
  <2>. QED
    BY <2>1, <2>2
<1>. QED
  BY <1>2 DEF Oldest

\* evictOldest() takes the entry of a screen other than the current one.
LEMMA EvictPruned ==
  ASSUME TInv, NEW st, Pruned(st)
  PROVE  Pruned(EvictOldest(st)) /\ EvictOldest(st).asked = st.asked
<1>1. CASE Evictable(st.tabs) = {}
  BY <1>1 DEF EvictOldest
<1>2. CASE Evictable(st.tabs) # {}
  <2>. DEFINE k == Oldest(st.tabs)
              e == st.tabs[k]
              r == RemoveAt(st.tabs, k)
  <2>1. MapLike(st.tabs) /\ st \in Working
    BY DEF Pruned
  <2>2. k \in DOMAIN st.tabs /\ e.id # current
    BY <1>2, <2>1, OldestMayGo DEF Evictable
  <2>3. MapLike(r) /\ ToSet(r) = ToSet(st.tabs) \ {e}
    BY <2>1, <2>2, TakenOut
  <2>4. e \in ToSet(st.tabs) /\ e \in Entry
    BY <2>1, <2>2 DEF ToSet, MapLike
  <2>5. EvictOldest(st) = [st EXCEPT !.tabs = r, !.closed = @ \cup {e.tab}]
    BY <1>2 DEF EvictOldest
  <2>. HIDE DEF k, e, r
  <2>6. EvictOldest(st) = [tabs |-> r, closed |-> st.closed \cup {e.tab}, asked |-> st.asked]
    BY <2>1, <2>5 DEF Working
  <2>. DEFINE n == EvictOldest(st)
  <2>7. n.tabs = r /\ n.closed = st.closed \cup {e.tab} /\ n.asked = st.asked
    BY <2>6
  <2>8. n \in Working
    BY <2>1, <2>3, <2>4, <2>6 DEF Working, Entry, MapLike
  <2>. HIDE DEF n
  <2>9. alive => \A d \in ToSet(r) : d.tab \notin n.closed
    BY <2>3, <2>4, <2>7, TabsDiffer DEF Pruned
  <2>10. ToSet(r) \subseteq ToSet(urlTabs)
    BY <2>3 DEF Pruned
  <2>11. \A t \in n.closed : \E d \in ToSet(urlTabs) : d.id # current /\ d.tab = t
    BY <2>2, <2>4, <2>7 DEF Pruned
  <2>12. \A d \in ToSet(urlTabs) : d.id = current => d \in ToSet(r)
    BY <2>2, <2>3 DEF Pruned
  <2>13. \A d \in ToSet(urlTabs) : d \in ToSet(r) \/ d.tab \in n.closed
    BY <2>3, <2>7 DEF Pruned
  <2>. QED
    BY <2>3, <2>7, <2>8, <2>9, <2>10, <2>11, <2>12, <2>13 DEF Pruned, n
<1>. QED
  BY <1>1, <1>2

LEMMA PreloadPruned ==
  ASSUME TInv, NEW st, Pruned(st), NEW id \in Urls
  PROVE  Pruned(Preload(st, id))
<1>1. CASE id \in Cached(st.tabs)
  BY <1>1 DEF Preload
<1>2. CASE id \notin Cached(st.tabs)
  <2>. DEFINE room == IF Len(st.tabs) >= cap THEN EvictOldest(st) ELSE st
  <2>1. Pruned(room)
    BY EvictPruned
  <2>2. Preload(st, id) = [room EXCEPT !.asked[id] = @ + 1]
    BY <1>2 DEF Preload
  <2>. HIDE DEF room
  <2>3. room \in Working
    BY <2>1 DEF Pruned
  <2>. DEFINE asked == [room.asked EXCEPT ![id] = @ + 1]
  <2>4. Preload(st, id) = [tabs |-> room.tabs, closed |-> room.closed, asked |-> asked]
    BY <2>2, <2>3 DEF Working
  <2>5. asked \in [Urls -> Nat] /\ room.tabs \in Seq(Entry) /\ room.closed \in SUBSET Nat
    BY <2>3 DEF Working
  <2>. HIDE DEF asked
  <2>6. /\ Preload(st, id) \in Working
        /\ Preload(st, id).tabs = room.tabs /\ Preload(st, id).closed = room.closed
    BY <2>4, <2>5 DEF Working
  <2>. QED
    BY <2>1, <2>6 DEF Pruned
<1>. QED
  BY <1>1, <1>2

\* registerScreens() leaves such a state, from any list of URL screens.
LEMMA RegisteredPruned ==
  ASSUME TInv, NEW list \in Preloads
  PROVE  Pruned(Registered(list))
<1>. DEFINE n == IF Len(list) < cap THEN Len(list) ELSE cap
            base == [tabs |-> urlTabs, closed |-> {}, asked |-> preloading]
            T == {st \in Working : Pruned(st)}
            Runs(f) == f = [i \in 0..n |-> IF i = 0 THEN base ELSE Preload(f[i - 1], list[i])]
            step == [p \in T \X (1..n) |-> Preload(p[1], list[p[2]])]
            after == CHOOSE f : Runs(f)
<1>1. list \in Seq(Urls) /\ n \in Nat /\ \A i \in 1..n : list[i] \in Urls
  BY ScreenControllerAssumption DEF ScreenControllerAssumption, TInv, Plain
<1>2. base \in T
  BY DEF TInv, Plain, Mapped, MapLike, Working, Pruned
<1>3. \A st \in T, i \in 1..n : Preload(st, list[i]) \in T
  BY <1>1, PreloadPruned DEF Pruned
<1>4. step \in [T \X (1..n) -> T]
  BY <1>3
<1>5. \A st \in T, i \in 1..n : step[<<st, i>>] = Preload(st, list[i])
  OBVIOUS
<1>6. Registered(list) = after[n]
  BY DEF Registered
<1>. HIDE DEF n, base, T, step
<1>. n \in Nat
  BY <1>1
<1>7. PICK g : Traces(g, n, T, base, step)
  BY <1>2, <1>4, History
<1>8. Runs(g)
  <2>1. ASSUME NEW i \in 1..n PROVE g[i] = Preload(g[i - 1], list[i])
    <3>1. g[i - 1] \in T
      BY <1>7 DEF Traces
    <3>2. g[i] = step[<<g[i - 1], i>>]
      BY <1>7 DEF Traces
    <3>. QED
      BY <1>5, <3>1, <3>2
  <2>. QED
    BY <1>7, <2>1 DEF Traces
<1>. HIDE DEF Runs
<1>9. Runs(after)
  BY <1>8
<1>. HIDE DEF after
<1>10. after[0] = base /\ \A i \in 1..n : after[i] = Preload(after[i - 1], list[i])
  BY <1>1, <1>9 DEF Runs
<1>11. after[n] \in T
  <2>1. ASSUME NEW i \in 1..n, after[i - 1] \in T PROVE after[i] \in T
    BY <1>3, <1>10, <2>1
  <2>. QED
    BY <1>2, <1>10, <2>1, LoopStays
<1>. QED
  BY <1>6, <1>11 DEF T

\* The loop of setMaxPreloaded(): round by round an entry goes, until they fit.
LEMMA TrimmedRounds ==
  ASSUME TInv, NEW st, Pruned(st), NEW n
  PROVE  \E after :
           /\ after[0] = st /\ Trimmed(st, n) = after[Len(st.tabs)]
           /\ \A i \in 1..Len(st.tabs) :
                after[i] = IF Len(after[i - 1].tabs) > n THEN EvictOldest(after[i - 1])
                           ELSE after[i - 1]
<1>. DEFINE m == Len(st.tabs)
            T == {x \in Working : Pruned(x)}
            Round(x) == IF Len(x.tabs) > n THEN EvictOldest(x) ELSE x
            Runs(f) == f = [i \in 0..m |->
                              IF i = 0 THEN st
                              ELSE IF Len(f[i - 1].tabs) > n THEN EvictOldest(f[i - 1])
                              ELSE f[i - 1]]
            step == [p \in T \X (1..m) |-> Round(p[1])]
            after == CHOOSE f : Runs(f)
<1>1. m \in Nat
  BY DEF Pruned, MapLike
<1>2. st \in T
  BY DEF Pruned
<1>3. \A x \in T : Round(x) \in T
  BY EvictPruned DEF Pruned
<1>4. step \in [T \X (1..m) -> T]
  BY <1>3
<1>5. \A x \in T, i \in 1..m : step[<<x, i>>] = Round(x)
  OBVIOUS
<1>6. Trimmed(st, n) = after[m]
  BY DEF Trimmed
<1>. HIDE DEF m, T, step
<1>7. PICK g : Traces(g, m, T, st, step)
  BY <1>1, <1>2, <1>4, History
<1>8. Runs(g)
  <2>1. ASSUME NEW i \in 1..m PROVE g[i] = Round(g[i - 1])
    <3>1. g[i - 1] \in T
      BY <1>1, <1>7 DEF Traces
    <3>2. g[i] = step[<<g[i - 1], i>>]
      BY <1>7 DEF Traces
    <3>. QED
      BY <1>5, <3>1, <3>2
  <2>. QED
    BY <1>1, <1>7, <2>1 DEF Traces
<1>. HIDE DEF Runs
<1>9. Runs(after)
  BY <1>8
<1>. HIDE DEF after
<1>10. after[0] = st /\ \A i \in 1..m : after[i] = Round(after[i - 1])
  BY <1>1, <1>9 DEF Runs
<1>. QED
  BY <1>6, <1>10 DEF m

\* setMaxPreloaded() leaves such a state too, for any cap.
LEMMA TrimmedPruned ==
  ASSUME TInv, NEW st, Pruned(st), NEW n
  PROVE  Pruned(Trimmed(st, n))
<1>. DEFINE m == Len(st.tabs)
            T == {x \in Working : Pruned(x)}
<1>1. PICK after :
        /\ after[0] = st /\ Trimmed(st, n) = after[m]
        /\ \A i \in 1..m :
             after[i] = IF Len(after[i - 1].tabs) > n THEN EvictOldest(after[i - 1]) ELSE after[i - 1]
  BY TrimmedRounds
<1>2. m \in Nat /\ st \in T
  BY DEF Pruned, MapLike
<1>3. ASSUME NEW i \in 1..m, after[i - 1] \in T PROVE after[i] \in T
  <2>1. EvictOldest(after[i - 1]) \in T
    BY <1>3, EvictPruned DEF Pruned
  <2>. QED
    BY <1>1, <1>3, <2>1
<1>. HIDE DEF m, T
<1>4. after[m] \in T
  BY <1>1, <1>2, <1>3, LoopStays
<1>. QED
  BY <1>1, <1>4 DEF T

\* Of two entries one can go: they are of different screens.
LEMMA EvictShortens ==
  ASSUME TInv, NEW st, Pruned(st), Len(st.tabs) > 1
  PROVE  Len(EvictOldest(st).tabs) = Len(st.tabs) - 1
<1>1. MapLike(st.tabs) /\ st \in Working /\ st.tabs \in Seq(Entry)
  BY DEF Pruned, MapLike
<1>2. 1 \in DOMAIN st.tabs /\ 2 \in DOMAIN st.tabs
  BY <1>1
<1>3. Evictable(st.tabs) # {}
  BY <1>1, <1>2 DEF Evictable, MapLike
<1>. DEFINE k == Oldest(st.tabs)
            r == RemoveAt(st.tabs, k)
<1>4. k \in DOMAIN st.tabs
  BY <1>1, <1>3, OldestMayGo DEF Evictable
<1>5. Len(r) = Len(st.tabs) - 1
  BY <1>1, <1>4, TakenOut
<1>6. EvictOldest(st) = [st EXCEPT !.tabs = r, !.closed = @ \cup {st.tabs[k].tab}]
  BY <1>3 DEF EvictOldest
<1>. HIDE DEF k, r
<1>. QED
  BY <1>1, <1>5, <1>6 DEF Working

\* What setMaxPreloaded() leaves fits any cap of at least one.
LEMMA TrimmedFits ==
  ASSUME TInv, NEW st, Pruned(st), NEW n \in Nat \ {0}
  PROVE  Len(Trimmed(st, n).tabs) <= n
<1>. DEFINE m == Len(st.tabs)
<1>1. PICK after :
        /\ after[0] = st /\ Trimmed(st, n) = after[m]
        /\ \A i \in 1..m :
             after[i] = IF Len(after[i - 1].tabs) > n THEN EvictOldest(after[i - 1]) ELSE after[i - 1]
  BY TrimmedRounds
<1>2. m \in Nat
  BY DEF Pruned, MapLike
<1>. DEFINE Fits(i) == Pruned(after[i]) /\ (Len(after[i].tabs) <= n \/ Len(after[i].tabs) <= m - i)
            S == {i \in 0..m : Fits(i)}
<1>3. 0 \in S
  BY <1>1, <1>2
<1>4. ASSUME NEW i \in 0..(m - 1), i \in S PROVE i + 1 \in S
  <2>1. /\ i + 1 \in 1..m /\ (i + 1) - 1 = i
        /\ Pruned(after[i]) /\ (Len(after[i].tabs) <= n \/ Len(after[i].tabs) <= m - i)
    BY <1>2, <1>4
  <2>2. after[i + 1] = IF Len(after[i].tabs) > n THEN EvictOldest(after[i]) ELSE after[i]
    BY <1>1, <2>1
  <2>3. Len(after[i].tabs) \in Nat
    BY <2>1 DEF Pruned, MapLike
  <2>4. CASE Len(after[i].tabs) > n
    <3>1. Len(EvictOldest(after[i]).tabs) = Len(after[i].tabs) - 1 /\ Pruned(EvictOldest(after[i]))
      BY <2>1, <2>3, <2>4, EvictShortens, EvictPruned
    <3>2. Pruned(after[i + 1]) /\ Len(after[i + 1].tabs) = Len(after[i].tabs) - 1
      BY <2>2, <2>4, <3>1
    <3>3. Len(after[i + 1].tabs) <= m - (i + 1)
      BY <1>2, <2>1, <2>3, <2>4, <3>2
    <3>. QED
      BY <2>1, <3>2, <3>3
  <2>5. CASE Len(after[i].tabs) <= n
    BY <2>1, <2>2, <2>3, <2>5
  <2>. QED
    BY <2>3, <2>4, <2>5
<1>. HIDE DEF m, S
<1>5. m \in S
  BY <1>2, <1>3, <1>4, Below
<1>6. Fits(m)
  BY <1>5 DEF S
<1>. HIDE DEF Fits
<1>7. Pruned(after[m]) /\ (Len(after[m].tabs) <= n \/ Len(after[m].tabs) <= m - m)
  BY <1>6 DEF Fits
<1>8. Len(after[m].tabs) \in Nat
  BY <1>7 DEF Pruned, MapLike
<1>. QED
  BY <1>1, <1>2, <1>7, <1>8

-------------------------------------------------------------------------------
(* The types, through the tail of show(). *)

\* The oldest unanswered activation is answered.
LEMMA AckedTail ==
  ASSUME NEW ac, NEW W, Acked(ac, W), ac # <<>>
  PROVE  Head(ac) \in Ack /\ Head(ac).slot \in W /\ Acked(Tail(ac), W \ {Head(ac).slot})
<1>. DEFINE n == Len(ac)
            t == Tail(ac)
<1>1. /\ ac \in Seq(Ack) /\ n \in Nat \ {0} /\ DOMAIN ac = 1..n
      /\ \A i, j \in DOMAIN ac : ac[i].slot = ac[j].slot => i = j
      /\ W = {ac[i].slot : i \in DOMAIN ac}
  BY DEF Acked
<1>2. Head(ac) = ac[1] /\ 1 \in DOMAIN ac /\ ac[1] \in Ack
  BY <1>1
<1>3. t \in Seq(Ack) /\ DOMAIN t = 1..(n - 1) /\ \A i \in DOMAIN t : t[i] = ac[i + 1]
  BY <1>1
<1>. HIDE DEF n, t
<1>4. \A i, j \in DOMAIN t : t[i].slot = t[j].slot => i = j
  BY <1>1, <1>3
<1>5. {t[i].slot : i \in DOMAIN t} = W \ {ac[1].slot}
  <2>1. ASSUME NEW i \in DOMAIN t PROVE t[i].slot \in W \ {ac[1].slot}
    <3>1. i + 1 \in DOMAIN ac /\ i + 1 # 1
      BY <1>1, <1>3
    <3>. QED
      BY <1>1, <1>2, <1>3, <3>1
  <2>2. ASSUME NEW i \in DOMAIN ac, i # 1 PROVE \E j \in DOMAIN t : ac[i].slot = t[j].slot
    <3>1. i - 1 \in DOMAIN t /\ (i - 1) + 1 = i
      BY <1>1, <1>3, <2>2
    <3>. QED
      BY <1>3, <3>1
  <2>. QED
    BY <1>1, <2>1, <2>2
<1>6. Acked(t, W \ {ac[1].slot})
  BY <1>3, <1>4, <1>5 DEF Acked
<1>7. ac[1].slot \in W
  BY <1>1, <1>2
<1>. QED
  BY <1>2, <1>6, <1>7 DEF t

\* An activation is sent for a call that awaits none.
LEMMA AckedAppend ==
  ASSUME NEW ac, NEW W, Acked(ac, W), NEW s \in Slots, s \notin W, NEW b \in BOOLEAN
  PROVE  Acked(Append(ac, [slot |-> s, ok |-> b]), W \cup {s})
<1>. DEFINE n == Len(ac)
            a == [slot |-> s, ok |-> b]
            t == Append(ac, a)
<1>1. /\ ac \in Seq(Ack) /\ n \in Nat /\ DOMAIN ac = 1..n
      /\ \A i, j \in DOMAIN ac : ac[i].slot = ac[j].slot => i = j
      /\ W = {ac[i].slot : i \in DOMAIN ac}
  BY DEF Acked
<1>2. a \in Ack /\ a.slot = s
  BY DEF Ack
<1>. HIDE DEF a
<1>3. t \in Seq(Ack) /\ DOMAIN t = 1..(n + 1) /\ t[n + 1] = a /\ \A i \in 1..n : t[i] = ac[i]
  BY <1>1, <1>2
<1>. HIDE DEF n, t
<1>4. \A i \in DOMAIN t : i \in DOMAIN ac \/ i = n + 1
  BY <1>1, <1>3
<1>5. \A i \in DOMAIN ac : t[i].slot \in W
  BY <1>1, <1>3
<1>6. \A i, j \in DOMAIN t : t[i].slot = t[j].slot => i = j
  <2>. SUFFICES ASSUME NEW i \in DOMAIN t, NEW j \in DOMAIN t, t[i].slot = t[j].slot PROVE i = j
    OBVIOUS
  <2>1. CASE i \in DOMAIN ac /\ j \in DOMAIN ac
    BY <1>1, <1>3, <2>1
  <2>2. CASE i = n + 1
    BY <1>2, <1>3, <1>4, <1>5, <2>2
  <2>3. CASE j = n + 1
    BY <1>2, <1>3, <1>4, <1>5, <2>3
  <2>. QED
    BY <1>4, <2>1, <2>2, <2>3
<1>7. {t[i].slot : i \in DOMAIN t} = W \cup {s}
  <2>1. {t[i].slot : i \in DOMAIN t} \subseteq W \cup {s}
    BY <1>2, <1>3, <1>4, <1>5
  <2>2. W \subseteq {t[i].slot : i \in DOMAIN t}
    BY <1>1, <1>3
  <2>3. s \in {t[i].slot : i \in DOMAIN t}
    BY <1>1, <1>2, <1>3
  <2>. QED
    BY <2>1, <2>2, <2>3
<1>. QED
  BY <1>3, <1>6, <1>7 DEF Acked, t, a

\* The calls other than s that await an activation.
Others(s) == {r \in Slots \ {s} : Awaits(r)}

CallType == [step : Steps, id : Screens \cup {NoScreen}, tab : Int]

\* A value that an entry of calls may have.
Sound(c) ==
  /\ c \in CallType
  /\ c.step = "idle" => c = Idle
  /\ c.step # "idle" => c.id \in Screens
  /\ c.step \in {"create", "load", "activate"} => c.id \in Urls

\* What no step of a call touches.
Around ==
  /\ UNCHANGED <<alive, cdp, open, cap, preloading>>
  /\ sink' \in BOOLEAN /\ target' \in Screens

\* A call comes to c, with the map as it was but for the order of its entries.
LEMMA TailTyped ==
  ASSUME TInv, Around, NEW s \in Slots, NEW c, Sound(c), c.step # "load",
         calls' = [calls EXCEPT ![s] = c],
         page' \in Pages(Screens), current' \in Screens, front' \in DOMAIN open \cup {ShellTab},
         MapLike(urlTabs'), ToSet(urlTabs') = ToSet(urlTabs),
         Acked(acks', IF c.step \in {"front", "activate"} THEN Others(s) \cup {s} ELSE Others(s))
  PROVE  TInv'
<1>1. calls \in [Slots -> CallType] /\ \A r \in Slots : Sound(calls[r])
  BY DEF TInv, CallsTyped, Sound, CallType
<1>2. /\ calls' \in [Slots -> CallType] /\ calls'[s] = c
      /\ \A r \in Slots \ {s} : calls'[r] = calls[r]
  BY <1>1 DEF Sound
<1>3. \A r \in Slots : Sound(calls'[r])
  BY <1>1, <1>2
<1>4. CallsTyped'
  BY <1>2, <1>3 DEF CallsTyped, Sound, CallType
<1>5. {r \in Slots : Awaits(r)}'
        = IF c.step \in {"front", "activate"} THEN Others(s) \cup {s} ELSE Others(s)
  BY <1>2 DEF Awaits, Others
<1>6. Plain' /\ Tabs'
  BY DEF TInv, Plain, Tabs, Around, Connected
<1>7. Mapped'
  <2>1. ~Connected' => urlTabs' = <<>>
    <3>1. ~Connected' => ToSet(urlTabs') = {}
      BY DEF TInv, Mapped, Around, Connected, ToSet
    <3>2. urlTabs' \in Seq(Entry)
      BY DEF MapLike
    <3>. QED
      BY <3>1, <3>2, EmptyList
  <2>2. (alive => \A e \in ToSet(urlTabs) : e.tab \in DOMAIN open /\ open[e.tab] = e.id)'
    BY DEF TInv, Mapped, Around
  <2>3. \A r \in Slots :
          calls'[r].step = "load" /\ calls'[r].tab \in DOMAIN open'
            => open'[calls'[r].tab] = calls'[r].id
    BY <1>2 DEF TInv, Mapped, Around
  <2>. QED
    BY <2>1, <2>2, <2>3 DEF Mapped
<1>. QED
  BY <1>4, <1>5, <1>6, <1>7 DEF TInv

LEMMA DoneTyped ==
  ASSUME TInv, Around, NEW s \in Slots, NEW id \in Screens, NEW pg \in Pages(Screens), NEW ac,
         Acked(ac, Others(s)), Done(s, id, pg, ac)
  PROVE  TInv'
<1>1. page' \in Pages(Screens)
  BY DEF Done, Sent, HideOverlay, ShowFrame, Pages, TInv, Plain
<1>2. Sound(Idle) /\ Idle.step = "idle"
  BY DEF Sound, Idle, CallType, Steps, NoTab
<1>3. /\ calls' = [calls EXCEPT ![s] = Idle] /\ acks' = ac /\ current' = id
      /\ UNCHANGED <<front, urlTabs>>
  BY DEF Done
<1>. QED
  BY <1>1, <1>2, <1>3, TailTyped DEF TInv, Tabs, Mapped

LEMMA FailTyped ==
  ASSUME TInv, Around, NEW s \in Slots, NEW pg \in Pages(Screens), NEW ac,
         Acked(ac, Others(s)), Fail(s, pg, ac)
  PROVE  TInv'
<1>1. Sound(Idle) /\ Idle.step = "idle"
  BY DEF Sound, Idle, CallType, Steps, NoTab
<1>2. /\ calls' = [calls EXCEPT ![s] = Idle] /\ acks' = ac /\ page' = pg
      /\ UNCHANGED <<front, urlTabs, current>>
  BY DEF Fail
<1>. QED
  BY <1>1, <1>2, TailTyped DEF TInv, Tabs, Mapped, Plain

\* A new stamp leaves the entries as they are.
LEMMA StampedSame ==
  ASSUME NEW tabs, MapLike(tabs), NEW id \in Urls, NEW tab \in Int, Contains(tabs, [id |-> id, tab |-> tab])
  PROVE  MapLike(Filed(tabs, id, tab)) /\ ToSet(Filed(tabs, id, tab)) = ToSet(tabs)
<1>. DEFINE e == [id |-> id, tab |-> tab]
<1>1. tabs \in Seq(Entry)
  BY DEF MapLike
<1>2. e \in ToSet(tabs) /\ e \in Entry
  BY <1>1 DEF Contains, ToSet
<1>3. tab \in Nat
  BY <1>2 DEF Entry
<1>4. \A d \in ToSet(tabs) : d.id = id => d = e
  BY <1>2 DEF MapLike, ToSet
<1>5. MapLike(Filed(tabs, id, tab)) /\ ToSet(Filed(tabs, id, tab)) = {d \in ToSet(tabs) : d.id # id} \cup {e}
  BY <1>3, FiledMap
<1>. HIDE DEF e
<1>. QED
  BY <1>2, <1>4, <1>5

LEMMA ActivateTabTyped ==
  ASSUME TInv, Around, NEW s \in Slots, NEW id \in Urls, NEW tab \in Int,
         NEW pg \in Pages(Screens), NEW ac, Acked(ac, Others(s)), ActivateTab(s, id, tab, pg, ac)
  PROVE  TInv'
<1>1. CASE Connected /\ ~Fail(s, pg, ac)
  <2>. DEFINE c == Call("activate", id, tab)
  <2>1. /\ urlTabs' = IF Contains(urlTabs, [id |-> id, tab |-> tab])
                      THEN Filed(urlTabs, id, tab) ELSE urlTabs
        /\ front' = IF tab \in DOMAIN open THEN tab ELSE front
        /\ acks' = Append(ac, [slot |-> s, ok |-> tab \in DOMAIN open])
        /\ calls' = [calls EXCEPT ![s] = c]
        /\ page' = pg /\ current' = current
    BY <1>1 DEF ActivateTab
  <2>2. Sound(c) /\ c.step = "activate"
    BY DEF Sound, Call, CallType, Steps, Screens
  <2>3. MapLike(urlTabs') /\ ToSet(urlTabs') = ToSet(urlTabs)
    BY <2>1, StampedSame DEF TInv, Mapped
  <2>4. Acked(acks', Others(s) \cup {s})
    <3>1. s \notin Others(s)
      BY DEF Others
    <3>2. \A b \in BOOLEAN : Acked(Append(ac, [slot |-> s, ok |-> b]), Others(s) \cup {s})
      BY <3>1, AckedAppend
    <3>3. (tab \in DOMAIN open) \in BOOLEAN
      OBVIOUS
    <3>. QED
      BY <2>1, <3>2, <3>3
  <2>5. front' \in DOMAIN open \cup {ShellTab}
    BY <2>1 DEF TInv, Tabs
  <2>. HIDE DEF c
  <2>. QED
    BY <2>1, <2>2, <2>3, <2>4, <2>5, TailTyped DEF TInv, Plain
<1>2. CASE Fail(s, pg, ac)
  BY <1>2, FailTyped
<1>. QED
  BY <1>1, <1>2 DEF ActivateTab

LEMMA RenderTyped ==
  ASSUME TInv, Around, NEW s \in Slots, NEW id \in Screens, NEW pg \in Pages(Screens), NEW ac,
         Acked(ac, Others(s)), Render(s, id, pg, ac)
  PROVE  TInv'
<1>1. CASE Done(s, id, pg, ac)
  BY <1>1, DoneTyped
<1>2. CASE id \in Cached(urlTabs) /\ ActivateTab(s, id, TabFor(urlTabs, id), pg, ac)
  <2>1. PICK e \in ToSet(urlTabs) : e.id = id /\ TabFor(urlTabs, id) = e.tab
    BY <1>2, Found
  <2>2. e \in Entry
    BY DEF TInv, Mapped, MapLike, ToSet
  <2>. QED
    BY <1>2, <2>1, <2>2, ActivateTabTyped DEF Entry
<1>3. CASE /\ id \in Urls /\ calls' = [calls EXCEPT ![s] = Call("create", id, NoTab)]
           /\ page' = pg /\ acks' = ac /\ UNCHANGED <<front, urlTabs, current>>
  <2>. DEFINE c == Call("create", id, NoTab)
  <2>1. Sound(c) /\ c.step = "create"
    BY <1>3 DEF Sound, Call, CallType, Steps, Screens, NoTab
  <2>. HIDE DEF c
  <2>. QED
    BY <1>3, <2>1, TailTyped DEF TInv, Tabs, Mapped, Plain, c
<1>4. CASE Fail(s, pg, ac)
  BY <1>4, FailTyped
<1>. QED
  BY <1>1, <1>2, <1>3, <1>4 DEF Render

LEMMA BringShellTyped ==
  ASSUME TInv, Around, NEW s \in Slots, ~Awaits(s), NEW id \in Screens, NEW pg \in Pages(Screens),
         BringShell(s, id, pg)
  PROVE  TInv'
<1>1. Acked(acks, Others(s))
  <2>1. Others(s) = {r \in Slots : Awaits(r)}
    BY DEF Others
  <2>. QED
    BY <2>1 DEF TInv
<1>2. CASE /\ front' = ShellTab
           /\ acks' = Append(acks, [slot |-> s, ok |-> TRUE])
           /\ calls' = [calls EXCEPT ![s] = Call("front", id, NoTab)]
           /\ page' = pg
           /\ UNCHANGED <<urlTabs, current>>
  <2>. DEFINE c == Call("front", id, NoTab)
  <2>1. Sound(c) /\ c.step = "front"
    BY DEF Sound, Call, CallType, Steps, NoTab
  <2>2. s \notin Others(s)
    BY DEF Others
  <2>3. Acked(acks', Others(s) \cup {s})
    BY <1>1, <1>2, <2>2, AckedAppend
  <2>. HIDE DEF c
  <2>. QED
    BY <1>2, <2>1, <2>3, TailTyped DEF TInv, Tabs, Mapped, Plain, c
<1>3. CASE Render(s, id, pg, acks)
  BY <1>1, <1>3, RenderTyped
<1>. QED
  BY <1>2, <1>3 DEF BringShell

\* show() up to its first await.
LEMMA BeginTyped ==
  ASSUME TInv, Around, NEW s \in Slots, calls[s] = Idle, NEW id \in Screens, Begin(s, id)
  PROVE  TInv'
<1>. PICK pg : pg = Sent(IF id \in Builtins THEN PreloadFrame(page, id) ELSE page)
  OBVIOUS
<1>1. pg \in Pages(Screens)
  BY DEF Sent, PreloadFrame, Pages, TInv, Plain
<1>2. ~Awaits(s)
  BY DEF Awaits, Idle
<1>3. CASE /\ page' = Sent(HideOverlay(ShowFrame(PreloadFrame(page, id), id)))
           /\ current' = id
           /\ UNCHANGED <<calls, acks, front, urlTabs>>
  <2>1. page' \in Pages(Screens)
    BY <1>3 DEF Sent, HideOverlay, ShowFrame, PreloadFrame, Pages, TInv, Plain
  <2>2. Sound(Idle) /\ Idle.step = "idle"
    BY DEF Sound, Idle, CallType, Steps, NoTab
  <2>3. calls' = [calls EXCEPT ![s] = Idle]
    BY <1>3 DEF TInv, CallsTyped
  <2>4. Acked(acks', Others(s))
    <3>1. Others(s) = {r \in Slots : Awaits(r)}
      BY <1>2 DEF Others
    <3>. QED
      BY <1>3, <3>1 DEF TInv
  <2>. QED
    BY <1>3, <2>1, <2>2, <2>3, <2>4, TailTyped DEF TInv, Tabs, Mapped
<1>4. CASE /\ current \in Cached(urlTabs)
           /\ calls' = [calls EXCEPT ![s] = Call("capture", id, TabFor(urlTabs, current))]
           /\ page' = pg
           /\ UNCHANGED <<acks, front, urlTabs, current>>
  <2>1. PICK tab \in Int : tab = TabFor(urlTabs, current)
    <3>1. PICK e \in ToSet(urlTabs) : TabFor(urlTabs, current) = e.tab
      BY <1>4, Found
    <3>2. e \in Entry
      BY DEF TInv, Mapped, MapLike, ToSet
    <3>. QED
      BY <3>1, <3>2 DEF Entry
  <2>. DEFINE c == Call("capture", id, tab)
  <2>2. Sound(c) /\ c.step = "capture"
    BY <2>1 DEF Sound, Call, CallType, Steps
  <2>3. calls' = [calls EXCEPT ![s] = c]
    BY <1>4, <2>1
  <2>4. Acked(acks', Others(s))
    <3>1. Others(s) = {r \in Slots : Awaits(r)}
      BY <1>2 DEF Others
    <3>. QED
      BY <1>4, <3>1 DEF TInv
  <2>. HIDE DEF c
  <2>. QED
    BY <1>1, <1>4, <2>2, <2>3, <2>4, TailTyped DEF TInv, Tabs, Mapped, Plain
<1>5. CASE BringShell(s, id, pg)
  BY <1>1, <1>2, <1>5, BringShellTyped
<1>. QED
  BY <1>3, <1>4, <1>5 DEF Begin

-------------------------------------------------------------------------------
(* The types, through the actions. *)

LEMMA ActivateTyped == ASSUME TInv, NEW id \in Screens, Activate(id) PROVE TInv'
<1>1. PICK s \in Slots : calls[s] = Idle /\ Begin(s, id)
  BY DEF Activate, Show
<1>2. Around
  BY DEF Activate, Show, Around, TInv, Plain
<1>. QED
  BY <1>1, <1>2, BeginTyped

LEMMA ShellAttachesTyped == ASSUME TInv, ShellAttaches PROVE TInv'
<1>1. PICK s \in Slots : calls[s] = Idle /\ Begin(s, current)
  BY DEF ShellAttaches
<1>2. Around /\ current \in Screens
  BY DEF ShellAttaches, Around, TInv, Plain
<1>. QED
  BY <1>1, <1>2, BeginTyped

LEMMA CaptureDoneTyped == ASSUME TInv, NEW s \in Slots, CaptureDone(s) PROVE TInv'
<1>. PICK pg : pg = IF Connected /\ calls[s].tab \in DOMAIN open THEN Sent(PaintOverlay(page)) ELSE page
  OBVIOUS
<1>1. pg \in Pages(Screens)
  BY DEF Sent, PaintOverlay, Pages, TInv, Plain
<1>2. BringShell(s, calls[s].id, pg)
  BY DEF CaptureDone
<1>3. Around /\ ~Awaits(s) /\ calls[s].id \in Screens
  BY DEF CaptureDone, Around, Awaits, TInv, Plain, CallsTyped
<1>. QED
  BY <1>1, <1>2, <1>3, BringShellTyped

LEMMA LoadedTyped == ASSUME TInv, NEW s \in Slots, Loaded(s) PROVE TInv'
<1>1. Around /\ calls[s].id \in Urls /\ calls[s].tab \in Int
  BY DEF Loaded, Around, TInv, Plain, CallsTyped
<1>2. Acked(acks, Others(s))
  <2>1. Others(s) = {r \in Slots : Awaits(r)}
    BY DEF Loaded, Others, Awaits
  <2>. QED
    BY <2>1 DEF TInv
<1>3. ActivateTab(s, calls[s].id, calls[s].tab, page, acks) /\ page \in Pages(Screens)
  BY DEF Loaded, TInv, Plain
<1>. QED
  BY <1>1, <1>2, <1>3, ActivateTabTyped

\* The call whose activation is answered next awaits it, and none but it.
LEMMA AnsweredCall ==
  ASSUME TInv, acks # <<>>
  PROVE  LET s == Head(acks).slot
         IN  s \in Slots /\ Awaits(s) /\ Acked(Tail(acks), Others(s))
<1>. DEFINE s == Head(acks).slot
<1>1. Acked(acks, {r \in Slots : Awaits(r)})
  BY DEF TInv
<1>2. s \in {r \in Slots : Awaits(r)} /\ Acked(Tail(acks), {r \in Slots : Awaits(r)} \ {s})
  BY <1>1, AckedTail
<1>3. {r \in Slots : Awaits(r)} \ {s} = Others(s)
  BY DEF Others
<1>. QED
  BY <1>2, <1>3

LEMMA AnsweredTyped == ASSUME TInv, ActivationAnswered PROVE TInv'
<1>. PICK s : s = Head(acks).slot
  OBVIOUS
<1>. PICK ac : ac = Tail(acks)
  OBVIOUS
<1>1. s \in Slots /\ Awaits(s) /\ Acked(ac, Others(s))
  BY AnsweredCall DEF ActivationAnswered
<1>2. Around /\ calls[s].id \in Screens /\ page \in Pages(Screens)
  BY <1>1 DEF ActivationAnswered, Around, TInv, Plain, CallsTyped, Awaits
<1>3. CASE Render(s, calls[s].id, page, ac)
  BY <1>1, <1>2, <1>3, RenderTyped
<1>4. CASE Done(s, calls[s].id, page, ac)
  BY <1>1, <1>2, <1>4, DoneTyped
<1>5. CASE Fail(s, page, ac)
  BY <1>1, <1>2, <1>5, FailTyped
<1>. QED
  BY <1>3, <1>4, <1>5 DEF ActivationAnswered

\* A tab opens, for a screen that is then filed under it.
LEMMA OpenTabTyped ==
  ASSUME TInv, NEW id \in Urls, OpenTab(id)
  PROVE  /\ open' \in [DOMAIN open' -> Urls] /\ DOMAIN open' = DOMAIN open \cup {NewTab}
         /\ \A t \in DOMAIN open : open'[t] = open[t]
         /\ open'[NewTab] = id
         /\ IsFiniteSet(DOMAIN open') /\ DOMAIN open' \subseteq Nat \ {ShellTab}
         /\ MapLike(urlTabs')
         /\ \A e \in ToSet(urlTabs') : e.tab \in DOMAIN open' /\ open'[e.tab] = e.id
<1>1. NewTab \in Nat \ {ShellTab} /\ NewTab \notin DOMAIN open
  BY NewTabIsNew
<1>2. PICK t : t = NewTab
  OBVIOUS
<1>3. open' = [x \in DOMAIN open \cup {t} |-> IF x = t THEN id ELSE open[x]]
  BY <1>2 DEF OpenTab
<1>4. /\ DOMAIN open' = DOMAIN open \cup {t} /\ open'[t] = id
      /\ \A x \in DOMAIN open : open'[x] = open[x]
  BY <1>1, <1>2, <1>3
<1>5. open' \in [DOMAIN open' -> Urls]
  BY <1>3 DEF TInv, Tabs
<1>6. IsFiniteSet(DOMAIN open \cup {t})
  BY FS_AddElement DEF TInv, Tabs
<1>7. /\ MapLike(urlTabs')
      /\ ToSet(urlTabs') = {e \in ToSet(urlTabs) : e.id # id} \cup {[id |-> id, tab |-> t]}
  BY <1>1, <1>2, FiledMap DEF OpenTab, TInv, Mapped
<1>8. \A e \in ToSet(urlTabs') : e.tab \in DOMAIN open' /\ open'[e.tab] = e.id
  BY <1>4, <1>7 DEF OpenTab, TInv, Mapped
<1>. QED
  BY <1>1, <1>2, <1>4, <1>5, <1>6, <1>7, <1>8 DEF TInv, Tabs

LEMMA TabCreatedTyped == ASSUME TInv, NEW s \in Slots, TabCreated(s) PROVE TInv'
<1>. PICK id : id = calls[s].id
  OBVIOUS
<1>. PICK t : t = NewTab
  OBVIOUS
<1>1. id \in Urls /\ id \in Screens /\ calls[s].step = "create"
  BY DEF TabCreated, TInv, CallsTyped, Screens
<1>2. OpenTab(id) /\ alive /\ Connected
  BY DEF TabCreated, OpenTab
<1>3. /\ t \in Nat \ {ShellTab} /\ t \notin DOMAIN open
      /\ \A r \in Slots : calls[r].tab # t
  BY NewTabIsNew
<1>. DEFINE c == Call("load", id, t)
<1>4. Sound(c) /\ c.step = "load" /\ c.tab = t /\ c.id = id
  BY <1>1, <1>3 DEF Sound, Call, CallType, Steps
<1>5. calls' = [calls EXCEPT ![s] = c]
  BY DEF TabCreated
<1>. HIDE DEF c
<1>6. calls \in [Slots -> CallType] /\ \A r \in Slots : Sound(calls[r])
  BY DEF TInv, CallsTyped, Sound, CallType
<1>7. /\ calls' \in [Slots -> CallType] /\ calls'[s] = c
      /\ \A r \in Slots \ {s} : calls'[r] = calls[r]
  BY <1>4, <1>5, <1>6 DEF Sound
<1>8. CallsTyped'
  <2>1. \A r \in Slots : Sound(calls'[r])
    BY <1>4, <1>6, <1>7
  <2>. QED
    BY <1>7, <2>1 DEF CallsTyped, Sound, CallType
<1>9. {r \in Slots : Awaits(r)}' = {r \in Slots : Awaits(r)}
  BY <1>1, <1>4, <1>7 DEF Awaits
<1>10. Acked(acks, {r \in Slots : Awaits(r)})'
  BY <1>9 DEF TabCreated, TInv
<1>11. Plain' /\ Tabs'
  BY <1>1, <1>2, OpenTabTyped DEF TabCreated, TInv, Plain, Tabs, Connected
<1>12. Mapped'
  <2>1. \A r \in Slots :
          calls'[r].step = "load" /\ calls'[r].tab \in DOMAIN open'
            => open'[calls'[r].tab] = calls'[r].id
    <3>. SUFFICES ASSUME NEW r \in Slots, calls'[r].step = "load", calls'[r].tab \in DOMAIN open'
                  PROVE  open'[calls'[r].tab] = calls'[r].id
      OBVIOUS
    <3>1. CASE r = s
      BY <1>1, <1>2, <1>4, <1>7, <3>1, OpenTabTyped
    <3>2. CASE r # s
      <4>1. calls'[r] = calls[r] /\ calls[r].tab # t
        BY <1>3, <1>7, <3>2
      <4>2. calls[r].tab \in DOMAIN open
        BY <1>1, <1>2, <4>1, OpenTabTyped
      <4>3. open'[calls[r].tab] = open[calls[r].tab]
        BY <1>1, <1>2, <4>2, OpenTabTyped
      <4>. QED
        BY <4>1, <4>2, <4>3 DEF TInv, Mapped
    <3>. QED
      BY <3>1, <3>2
  <2>2. MapLike(urlTabs') /\ \A e \in ToSet(urlTabs') : e.tab \in DOMAIN open' /\ open'[e.tab] = e.id
    BY <1>1, <1>2, OpenTabTyped
  <2>3. Connected'
    BY <1>2 DEF TabCreated, Connected
  <2>. QED
    BY <2>1, <2>2, <2>3 DEF Mapped
<1>. QED
  BY <1>8, <1>10, <1>11, <1>12 DEF TInv

LEMMA PreloadCreatedTyped == ASSUME TInv, NEW id \in Urls, PreloadCreated(id) PROVE TInv'
<1>. PICK t : t = NewTab
  OBVIOUS
<1>1. OpenTab(id) /\ alive /\ Connected
  BY DEF PreloadCreated, OpenTab
<1>2. t \notin DOMAIN open /\ \A r \in Slots : calls[r].tab # t
  BY NewTabIsNew
<1>3. Plain'
  BY DEF PreloadCreated, TInv, Plain
<1>4. CallsTyped' /\ Acked(acks, {r \in Slots : Awaits(r)})'
  BY DEF PreloadCreated, TInv, CallsTyped, Awaits
<1>5. Tabs'
  BY <1>1, OpenTabTyped DEF PreloadCreated, TInv, Tabs, Connected
<1>6. Mapped'
  <2>1. \A r \in Slots :
          calls'[r].step = "load" /\ calls'[r].tab \in DOMAIN open'
            => open'[calls'[r].tab] = calls'[r].id
    <3>. SUFFICES ASSUME NEW r \in Slots, calls[r].step = "load", calls[r].tab \in DOMAIN open'
                  PROVE  open'[calls[r].tab] = calls[r].id
      BY DEF PreloadCreated
    <3>1. calls[r].tab \in DOMAIN open
      BY <1>1, <1>2, OpenTabTyped
    <3>2. open'[calls[r].tab] = open[calls[r].tab]
      BY <1>1, <3>1, OpenTabTyped
    <3>. QED
      BY <3>1, <3>2 DEF TInv, Mapped
  <2>2. MapLike(urlTabs') /\ \A e \in ToSet(urlTabs') : e.tab \in DOMAIN open' /\ open'[e.tab] = e.id
    BY <1>1, OpenTabTyped
  <2>3. Connected'
    BY <1>1 DEF PreloadCreated, Connected
  <2>. QED
    BY <2>1, <2>2, <2>3 DEF Mapped
<1>. QED
  BY <1>3, <1>4, <1>5, <1>6 DEF TInv

\* The tabs taken out of the map are closed.
LEMMA ApplyTyped ==
  ASSUME TInv, NEW st, Pruned(st), Apply(st), UNCHANGED <<alive, calls>>, Connected' = Connected
  PROVE  Tabs' /\ Mapped' /\ preloading' \in [Urls -> Nat]
<1>1. /\ urlTabs' = st.tabs
      /\ open' = [t \in DOMAIN open \ st.closed |-> open[t]]
      /\ front' \in IF front \in st.closed THEN DOMAIN open' \cup {ShellTab} ELSE {front}
      /\ preloading' = IF Connected THEN st.asked ELSE preloading
  BY DEF Apply
<1>2. DOMAIN open' = DOMAIN open \ st.closed /\ \A t \in DOMAIN open' : open'[t] = open[t]
  BY <1>1
<1>3. Tabs'
  <2>1. IsFiniteSet(DOMAIN open')
    BY <1>2, FS_Subset DEF TInv, Tabs
  <2>2. open' \in [DOMAIN open' -> Urls]
    BY <1>1, <1>2 DEF TInv, Tabs
  <2>. QED
    BY <1>1, <1>2, <2>1, <2>2 DEF TInv, Tabs
<1>4. Mapped'
  <2>1. MapLike(urlTabs')
    BY <1>1 DEF Pruned
  <2>2. ~Connected' => urlTabs' = <<>>
    <3>1. ~Connected => ToSet(st.tabs) = {}
      BY DEF Pruned, TInv, Mapped, ToSet
    <3>2. st.tabs \in Seq(Entry)
      BY DEF Pruned, MapLike
    <3>. QED
      BY <1>1, <3>1, <3>2, EmptyList
  <2>3. alive' => \A e \in ToSet(urlTabs') : e.tab \in DOMAIN open' /\ open'[e.tab] = e.id
    BY <1>1, <1>2 DEF Pruned, TInv, Mapped
  <2>4. \A r \in Slots :
          calls'[r].step = "load" /\ calls'[r].tab \in DOMAIN open'
            => open'[calls'[r].tab] = calls'[r].id
    BY <1>2 DEF TInv, Mapped
  <2>. QED
    BY <2>1, <2>2, <2>3, <2>4 DEF Mapped
<1>5. preloading' \in [Urls -> Nat]
  BY <1>1 DEF Pruned, Working, TInv, Plain
<1>. QED
  BY <1>3, <1>4, <1>5

LEMMA ReloadTyped == ASSUME TInv, NEW list \in Preloads, NEW n \in Caps, Reload(list, n) PROVE TInv'
<1>. PICK st : st = Trimmed(Registered(list), n)
  OBVIOUS
<1>1. Pruned(st)
  BY RegisteredPruned, TrimmedPruned
<1>2. Apply(st)
  BY DEF Reload
<1>3. UNCHANGED <<alive, cdp, sink, page, current, calls, acks, target>> /\ cap' = n
  BY DEF Reload
<1>4. Tabs' /\ Mapped' /\ preloading' \in [Urls -> Nat]
  BY <1>1, <1>2, <1>3, ApplyTyped DEF Connected
<1>5. Plain'
  BY <1>3, <1>4, ScreenControllerAssumption DEF TInv, Plain, ScreenControllerAssumption
<1>6. CallsTyped' /\ Acked(acks, {r \in Slots : Awaits(r)})'
  BY <1>3 DEF TInv, CallsTyped, Awaits
<1>. QED
  BY <1>4, <1>5, <1>6 DEF TInv

LEMMA CdpReadyTyped == ASSUME TInv, NEW list \in Preloads, CdpReady(list) PROVE TInv'
<1>. PICK st : st = Registered(list)
  OBVIOUS
<1>1. Pruned(st) /\ Apply(st)
  BY RegisteredPruned DEF CdpReady
<1>2. /\ UNCHANGED <<alive, sink, page, cap, current, calls, acks, target>>
      /\ cdp' \in {"up", "blind"} /\ cdp = "connecting"
  BY DEF CdpReady
<1>3. Tabs' /\ Mapped' /\ preloading' \in [Urls -> Nat]
  BY <1>1, <1>2, ApplyTyped DEF Connected
<1>4. Plain'
  BY <1>2, <1>3 DEF TInv, Plain
<1>5. CallsTyped' /\ Acked(acks, {r \in Slots : Awaits(r)})'
  BY <1>2 DEF TInv, CallsTyped, Awaits
<1>. QED
  BY <1>3, <1>4, <1>5 DEF TInv

LEMMA ChromiumExitsTyped == ASSUME TInv, ChromiumExits PROVE TInv'
<1>1. BlankPage \in Pages(Screens)
  BY DEF BlankPage, Pages
<1>2. Plain'
  BY <1>1 DEF ChromiumExits, TInv, Plain
<1>3. CallsTyped' /\ Acked(acks, {r \in Slots : Awaits(r)})'
  BY DEF ChromiumExits, TInv, CallsTyped, Awaits
<1>4. DOMAIN open' = {} /\ open' \in [DOMAIN open' -> Urls]
  BY DEF ChromiumExits
<1>5. Tabs' /\ Mapped'
  BY <1>4, FS_EmptySet DEF ChromiumExits, TInv, Tabs, Mapped, Connected
<1>. QED
  BY <1>2, <1>3, <1>5 DEF TInv

LEMMA CdpClosesTyped == ASSUME TInv, CdpCloses PROVE TInv'
<1>. DEFINE lost == {s \in Slots : calls[s].step \in {"front", "create", "activate"}}
<1>1. /\ calls' = [s \in Slots |-> IF s \in lost THEN Idle ELSE calls[s]]
      /\ acks' = <<>> /\ urlTabs' = <<>> /\ cdp' = "down" /\ ~alive
      /\ preloading' = [u \in Urls |-> 0]
      /\ UNCHANGED <<alive, sink, page, open, front, cap, current, target>>
  BY DEF CdpCloses
<1>2. Plain'
  BY <1>1 DEF TInv, Plain
<1>3. CallsTyped' /\ \A s \in Slots : ~Awaits(s)'
  BY <1>1 DEF TInv, CallsTyped, Awaits, Idle, Steps, NoTab
<1>4. Acked(acks, {r \in Slots : Awaits(r)})'
  BY <1>1, <1>3 DEF Acked
<1>5. Tabs'
  BY <1>1 DEF TInv, Tabs
<1>6. MapLike(urlTabs') /\ ToSet(urlTabs') = {}
  BY <1>1 DEF MapLike, ToSet
<1>7. \A r \in Slots :
        calls'[r].step = "load" /\ calls'[r].tab \in DOMAIN open'
          => open'[calls'[r].tab] = calls'[r].id
  BY <1>1 DEF TInv, Mapped, Idle
<1>. QED
  BY <1>1, <1>2, <1>3, <1>4, <1>5, <1>6, <1>7 DEF TInv, Mapped

LEMMA ChromiumStartsTyped == ASSUME TInv, ChromiumStarts PROVE TInv'
<1>1. urlTabs' = <<>> /\ ToSet(<<>>) = {}
  BY DEF ChromiumStarts, TInv, Mapped, ToSet
<1>2. Plain' /\ CallsTyped' /\ Acked(acks, {r \in Slots : Awaits(r)})'
  BY DEF ChromiumStarts, TInv, Plain, CallsTyped, Awaits
<1>3. Tabs' /\ Mapped'
  BY <1>1 DEF ChromiumStarts, TInv, Tabs, Mapped, Connected
<1>. QED
  BY <1>2, <1>3 DEF TInv

LEMMA CdpConnectsTyped == ASSUME TInv, CdpConnects PROVE TInv'
<1>1. Plain' /\ CallsTyped' /\ Acked(acks, {r \in Slots : Awaits(r)})'
  BY DEF CdpConnects, TInv, Plain, CallsTyped, Awaits
<1>2. Tabs' /\ Mapped'
  BY DEF CdpConnects, TInv, Tabs, Mapped, Connected
<1>. QED
  BY <1>1, <1>2 DEF TInv

LEMMA ShellDetachesTyped == ASSUME TInv, ShellDetaches PROVE TInv'
BY DEF ShellDetaches, TInv, Plain, CallsTyped, Awaits, Tabs, Mapped, Connected

LEMMA StutterTyped == ASSUME TInv, UNCHANGED vars PROVE TInv'
BY DEF vars, TInv, Plain, CallsTyped, Awaits, Tabs, Mapped, Connected

LEMMA InitTyped == Init => TInv
<1>. SUFFICES ASSUME Init PROVE TInv
  OBVIOUS
<1>1. Plain
  <2>1. Boot \in Screens /\ BlankPage \in Pages(Screens)
    BY ScreenControllerAssumption DEF ScreenControllerAssumption, Screens, BlankPage, Pages
  <2>. QED
    BY <2>1, ScreenControllerAssumption DEF ScreenControllerAssumption, Init, Plain
<1>2. CallsTyped /\ \A s \in Slots : ~Awaits(s)
  BY DEF Init, CallsTyped, Awaits, Idle, Steps, NoTab
<1>3. Acked(acks, {r \in Slots : Awaits(r)})
  BY <1>2 DEF Init, Acked
<1>4. Tabs
  BY FS_EmptySet DEF Init, Tabs
<1>5. MapLike(urlTabs) /\ ToSet(urlTabs) = {}
  BY DEF Init, MapLike, ToSet
<1>6. Mapped
  BY <1>2, <1>5 DEF Init, Mapped, Idle
<1>. QED
  BY <1>1, <1>2, <1>3, <1>4, <1>6 DEF TInv

LEMMA NextTyped == TInv /\ [Next]_vars => TInv'
<1>. SUFFICES ASSUME TInv, [Next]_vars PROVE TInv'
  OBVIOUS
<1>. QED
  BY ActivateTyped, CaptureDoneTyped, TabCreatedTyped, LoadedTyped, AnsweredTyped, ReloadTyped,
     CdpReadyTyped, PreloadCreatedTyped, ChromiumExitsTyped, CdpClosesTyped, ChromiumStartsTyped,
     CdpConnectsTyped, ShellDetachesTyped, ShellAttachesTyped, StutterTyped DEF Next

LEMMA AlwaysTyped == Spec => []TInv
BY InitTyped, NextTyped, PTL DEF Spec

\* A tab in the map is open with the screen it is filed under, no screen has two
\* entries, and the unanswered activations are those of the calls that await
\* one, through overlapping shows, evictions, reconnections and exits.
THEOREM ScreensTyped == Spec => []TypeOK
<1>1. TInv => TypeOK
  <2>. SUFFICES ASSUME TInv PROVE TypeOK
    OBVIOUS
  <2>1. Cardinality(Cached(urlTabs)) = Len(urlTabs) /\ Cached(urlTabs) \subseteq Urls
    BY Counted DEF TInv, Mapped
  <2>2. Range(open) \subseteq Urls
    BY DEF TInv, Tabs, Range
  <2>3. {acks[i].slot : i \in 1..Len(acks)} = {s \in Slots : calls[s].step \in {"front", "activate"}}
    <3>1. DOMAIN acks = 1..Len(acks)
      BY DEF TInv, Acked
    <3>. QED
      BY <3>1 DEF TInv, Acked, Awaits
  <2>. QED
    BY <2>1, <2>2, <2>3 DEF TInv, Plain, Tabs, Mapped, TypeOK
<1>. QED
  BY <1>1, AlwaysTyped, PTL

-------------------------------------------------------------------------------
(* The number of tabs, and the tab on the wall. *)

\* However preloads and shows overlapped before it, a reload leaves no more
\* tabs than its max_preloaded_url_screens, whatever it preloads.
THEOREM ReloadFits ==
  Spec => [][\A list \in Preloads, n \in Caps : Reload(list, n) => Len(urlTabs') <= n]_vars
<1>1. ASSUME TInv, NEW list \in Preloads, NEW n \in Caps, Reload(list, n)
      PROVE  Len(urlTabs') <= n
  <2>1. n \in Nat \ {0}
    BY ScreenControllerAssumption DEF ScreenControllerAssumption
  <2>2. Pruned(Registered(list))
    BY <1>1, RegisteredPruned
  <2>. PICK st : st = Registered(list)
    OBVIOUS
  <2>3. urlTabs' = Trimmed(st, n).tabs
    BY <1>1 DEF Reload, Apply
  <2>. QED
    BY <1>1, <2>1, <2>2, <2>3, TrimmedFits
<1>2. TInv => [\A list \in Preloads, n \in Caps : Reload(list, n) => Len(urlTabs') <= n]_vars
  BY <1>1
<1>. QED
  BY <1>2, AlwaysTyped, PTL

\* The tabs in the map stay open, but for those an eviction closes.
LEMMA EvictsOthers ==
  ASSUME TInv, NEW st, Pruned(st), Apply(st), alive, NEW e \in ToSet(urlTabs), e.id = current
  PROVE  e.tab \in DOMAIN open'
<1>1. e.tab \in DOMAIN open
  BY DEF TInv, Mapped
<1>2. e.tab \notin st.closed
  BY TabsDiffer DEF Pruned
<1>3. DOMAIN open' = DOMAIN open \ st.closed
  BY DEF Apply
<1>. QED
  BY <1>1, <1>2, <1>3

\* The tab of the current screen is open until chromium exits: no eviction, no
\* reload and no call that overlaps another closes it.
THEOREM CurrentKept ==
  Spec => [][alive' => \A e \in ToSet(urlTabs) : e.id = current => e.tab \in DOMAIN open']_vars
<1>1. ASSUME TInv, [Next]_vars, alive', NEW e \in ToSet(urlTabs), e.id = current
      PROVE  e.tab \in DOMAIN open'
  <2>1. alive
    <3>1. ToSet(<<>>) = {}
      BY DEF ToSet
    <3>2. ~alive /\ ~Connected => ToSet(urlTabs) = {}
      BY <1>1, <3>1 DEF TInv, Mapped
    <3>. QED
      BY <1>1, <3>2 DEF Next, vars, Activate, CaptureDone, TabCreated, Loaded, ActivationAnswered,
         Reload, CdpReady, PreloadCreated, ChromiumExits, CdpCloses, ChromiumStarts, CdpConnects,
         ShellDetaches, ShellAttaches
  <2>2. e.tab \in DOMAIN open
    BY <1>1, <2>1 DEF TInv, Mapped
  <2>3. CASE \E list \in Preloads, n \in Caps : Reload(list, n)
    <3>. PICK list \in Preloads, n \in Caps : Reload(list, n)
      BY <2>3
    <3>. PICK st : st = Trimmed(Registered(list), n)
      OBVIOUS
    <3>1. Pruned(st) /\ Apply(st)
      BY <1>1, RegisteredPruned, TrimmedPruned DEF Reload
    <3>. QED
      BY <1>1, <2>1, <3>1, EvictsOthers
  <2>4. CASE \E list \in Preloads : CdpReady(list)
    <3>. PICK list \in Preloads : CdpReady(list)
      BY <2>4
    <3>. PICK st : st = Registered(list)
      OBVIOUS
    <3>1. Pruned(st) /\ Apply(st)
      BY <1>1, RegisteredPruned DEF CdpReady
    <3>. QED
      BY <1>1, <2>1, <3>1, EvictsOthers
  <2>5. CASE \E id : OpenTab(id)
    BY <2>2, <2>5 DEF OpenTab
  <2>6. CASE UNCHANGED open
    BY <2>2, <2>6
  <2>7. \/ UNCHANGED open \/ \E id : OpenTab(id)
        \/ \E list \in Preloads, n \in Caps : Reload(list, n)
        \/ \E list \in Preloads : CdpReady(list)
    BY <1>1 DEF Next, vars, Activate, CaptureDone, TabCreated, Loaded, ActivationAnswered,
       PreloadCreated, ChromiumExits, CdpCloses, ChromiumStarts, CdpConnects, ShellDetaches,
       ShellAttaches
  <2>. QED
    BY <2>3, <2>4, <2>5, <2>6, <2>7
<1>2. TInv /\ [Next]_vars =>
        [alive' => \A e \in ToSet(urlTabs) : e.id = current => e.tab \in DOMAIN open']_vars
  BY <1>1
<1>. QED
  BY <1>2, AlwaysTyped, PTL DEF Spec

-------------------------------------------------------------------------------
(* The overlay.  The tail of show() leaves it down, or a call in flight, or *)
(* a restart due, or no socket - whatever it finds.                         *)

LEMMA DoneLowers ==
  ASSUME TInv, Around, NEW s \in Slots, NEW id \in Screens, NEW pg \in Pages(Screens), NEW ac,
         Done(s, id, pg, ac)
  PROVE  OverlayReleased'
<1>1. sink' => ~page'.overlay
  BY DEF Done, Sent, HideOverlay, ShowFrame, Pages
<1>. QED
  BY <1>1 DEF OverlayReleased, Settled

LEMMA FlightLowers ==
  ASSUME TInv, NEW s \in Slots, NEW c, c.step # "idle", calls' = [calls EXCEPT ![s] = c]
  PROVE  OverlayReleased'
<1>1. calls'[s] = c
  BY DEF TInv, CallsTyped
<1>. QED
  BY <1>1 DEF OverlayReleased, Settled, Quiet, Idle

LEMMA ActivateTabLowers ==
  ASSUME TInv, NEW s \in Slots, NEW id, NEW tab, NEW pg, NEW ac, ActivateTab(s, id, tab, pg, ac)
  PROVE  OverlayReleased'
<1>1. CASE calls' = [calls EXCEPT ![s] = Call("activate", id, tab)]
  BY <1>1, FlightLowers DEF Call
<1>2. CASE Fail(s, pg, ac)
  BY <1>2 DEF Fail, OverlayReleased, Settled
<1>. QED
  BY <1>1, <1>2 DEF ActivateTab

LEMMA RenderLowers ==
  ASSUME TInv, Around, NEW s \in Slots, NEW id \in Screens, NEW pg \in Pages(Screens), NEW ac,
         Render(s, id, pg, ac)
  PROVE  OverlayReleased'
<1>1. CASE Done(s, id, pg, ac)
  BY <1>1, DoneLowers
<1>2. CASE ActivateTab(s, id, TabFor(urlTabs, id), pg, ac)
  BY <1>2, ActivateTabLowers
<1>3. CASE calls' = [calls EXCEPT ![s] = Call("create", id, NoTab)]
  BY <1>3, FlightLowers DEF Call
<1>4. CASE Fail(s, pg, ac)
  BY <1>4 DEF Fail, OverlayReleased, Settled
<1>. QED
  BY <1>1, <1>2, <1>3, <1>4 DEF Render

LEMMA BringShellLowers ==
  ASSUME TInv, Around, NEW s \in Slots, NEW id \in Screens, NEW pg \in Pages(Screens),
         BringShell(s, id, pg)
  PROVE  OverlayReleased'
<1>1. CASE calls' = [calls EXCEPT ![s] = Call("front", id, NoTab)]
  BY <1>1, FlightLowers DEF Call
<1>2. CASE Render(s, id, pg, acks)
  BY <1>2, RenderLowers
<1>. QED
  BY <1>1, <1>2 DEF BringShell

LEMMA BeginLowers ==
  ASSUME TInv, Around, NEW s \in Slots, NEW id \in Screens, Begin(s, id)
  PROVE  OverlayReleased'
<1>. PICK pg : pg = Sent(IF id \in Builtins THEN PreloadFrame(page, id) ELSE page)
  OBVIOUS
<1>1. pg \in Pages(Screens)
  BY DEF Sent, PreloadFrame, Pages, TInv, Plain
<1>2. CASE page' = Sent(HideOverlay(ShowFrame(PreloadFrame(page, id), id)))
  <2>1. sink' => ~page'.overlay
    BY <1>2 DEF Sent, HideOverlay, ShowFrame, PreloadFrame, Pages, TInv, Plain
  <2>. QED
    BY <2>1 DEF OverlayReleased, Settled
<1>3. CASE calls' = [calls EXCEPT ![s] = Call("capture", id, TabFor(urlTabs, current))]
  BY <1>3, FlightLowers DEF Call
<1>4. CASE BringShell(s, id, pg)
  BY <1>1, <1>4, BringShellLowers
<1>. QED
  BY <1>2, <1>3, <1>4 DEF Begin

LEMMA NextLowers == TInv /\ OverlayReleased /\ [Next]_vars => OverlayReleased'
<1>. SUFFICES ASSUME TInv, OverlayReleased, [Next]_vars PROVE OverlayReleased'
  OBVIOUS
<1>1. ASSUME NEW id \in Screens, Activate(id) PROVE OverlayReleased'
  <2>1. PICK s \in Slots : Begin(s, id)
    BY <1>1 DEF Activate, Show
  <2>. QED
    BY <1>1, <2>1, BeginLowers DEF Activate, Show, Around, TInv, Plain
<1>2. CASE ShellAttaches
  <2>1. PICK s \in Slots : Begin(s, current)
    BY <1>2 DEF ShellAttaches
  <2>. QED
    BY <1>2, <2>1, BeginLowers DEF ShellAttaches, Around, TInv, Plain
<1>3. ASSUME NEW s \in Slots, CaptureDone(s) PROVE OverlayReleased'
  <2>. PICK pg : pg = IF Connected /\ calls[s].tab \in DOMAIN open THEN Sent(PaintOverlay(page)) ELSE page
    OBVIOUS
  <2>1. pg \in Pages(Screens)
    BY DEF Sent, PaintOverlay, Pages, TInv, Plain
  <2>2. BringShell(s, calls[s].id, pg)
    BY <1>3 DEF CaptureDone
  <2>3. Around /\ calls[s].id \in Screens
    BY <1>3 DEF CaptureDone, Around, TInv, Plain, CallsTyped
  <2>. QED
    BY <2>1, <2>2, <2>3, BringShellLowers
<1>4. CASE ActivationAnswered
  <2>. PICK s : s = Head(acks).slot
    OBVIOUS
  <2>. PICK ac : ac = Tail(acks)
    OBVIOUS
  <2>1. s \in Slots /\ Awaits(s)
    BY <1>4, AnsweredCall DEF ActivationAnswered
  <2>2. Around /\ calls[s].id \in Screens /\ page \in Pages(Screens)
    BY <1>4, <2>1 DEF ActivationAnswered, Around, TInv, Plain, CallsTyped, Awaits
  <2>3. CASE Render(s, calls[s].id, page, ac)
    BY <2>1, <2>2, <2>3, RenderLowers
  <2>4. CASE Done(s, calls[s].id, page, ac)
    BY <2>1, <2>2, <2>4, DoneLowers
  <2>5. CASE Fail(s, page, ac)
    BY <2>5 DEF Fail, OverlayReleased, Settled
  <2>. QED
    BY <1>4, <2>3, <2>4, <2>5 DEF ActivationAnswered
<1>5. ASSUME NEW s \in Slots, Loaded(s) PROVE OverlayReleased'
  BY <1>5, ActivateTabLowers DEF Loaded
<1>6. ASSUME NEW s \in Slots, TabCreated(s) PROVE OverlayReleased'
  BY <1>6, FlightLowers DEF TabCreated, Call
<1>7. CASE UNCHANGED <<alive, sink, page, calls, restartDue>>
  BY <1>7 DEF OverlayReleased, Settled, Quiet
<1>8. CASE ChromiumExits \/ CdpCloses \/ ChromiumStarts \/ ShellDetaches
  BY <1>8 DEF ChromiumExits, CdpCloses, ChromiumStarts, ShellDetaches, OverlayReleased, Settled
<1>. QED
  BY <1>1, <1>2, <1>3, <1>4, <1>5, <1>6, <1>7, <1>8
     DEF Next, Reload, CdpReady, PreloadCreated, CdpConnects, vars

\* The overlay that one of several overlapping calls painted is down once every
\* call has ended, unless a call failed and a restart is due.
THEOREM OverlayComesDown == Spec => []OverlayReleased
<1>1. Init => OverlayReleased
  BY DEF Init, OverlayReleased, Settled
<1>. QED
  BY <1>1, AlwaysTyped, NextLowers, PTL DEF Spec

-------------------------------------------------------------------------------
(* The screen on the wall. *)

\* Until it is next shown or the frame restarts, s is the only call.
Alone(s, id) ==
  Live' /\ ~raced' => target' = id /\ \A r \in Slots \ {s} : calls[r] = Idle

LEMMA DoneRight ==
  ASSUME TInv, Around, NEW s \in Slots, NEW id \in Screens, NEW pg \in Pages(Screens), NEW ac,
         Done(s, id, pg, ac), Alone(s, id),
         Live' /\ ~raced' =>
           \/ id \in Builtins /\ id \in pg.frames /\ (front = ShellTab \/ cdp = "blind")
           \/ front # ShellTab /\ open[front] = id
  PROVE  RightScreen'
<1>. SUFFICES ASSUME Live', ~raced'
              PROVE  /\ current' = target' /\ (Wall' = target' \/ Behind')
                     /\ \A r \in Slots : calls'[r] = Idle
  BY DEF RightScreen
<1>1. alive' /\ sink' /\ target' = id /\ \A r \in Slots \ {s} : calls[r] = Idle
  BY DEF Live, Alone
<1>2. \A r \in Slots : calls'[r] = Idle
  BY <1>1 DEF Done, TInv, CallsTyped
<1>3. front' = front /\ open' = open /\ current' = id
  BY DEF Done, Around
<1>4. CASE id \in Builtins /\ id \in pg.frames /\ (front = ShellTab \/ cdp = "blind")
  <2>1. page' = HideOverlay(ShowFrame(pg, id))
    BY <1>1, <1>4 DEF Done, Sent
  <2>2. page'.active = id /\ page'.frames = pg.frames
    BY <2>1 DEF HideOverlay, ShowFrame, Pages
  <2>. QED
    BY <1>1, <1>2, <1>3, <1>4, <2>1, <2>2 DEF Wall, FrameShown, Behind, Around
<1>5. CASE front # ShellTab /\ open[front] = id
  BY <1>1, <1>2, <1>3, <1>5 DEF Wall
<1>. QED
  BY <1>4, <1>5

\* A call goes on with its screen.
LEMMA FlightRight ==
  ASSUME TInv, NEW s \in Slots, NEW c, c.step # "idle", calls' = [calls EXCEPT ![s] = c],
         NEW id, Alone(s, id), Live' /\ ~raced' => Coming(s)'
  PROVE  RightScreen'
<1>1. calls'[s] = c /\ c # Idle /\ \A r \in Slots \ {s} : calls'[r] = calls[r]
  BY DEF TInv, CallsTyped, Idle
<1>. QED
  BY <1>1 DEF RightScreen, Alone, Quiet

LEMMA ActivateTabRight ==
  ASSUME TInv, Around, NEW s \in Slots, NEW id \in Urls, NEW tab \in Int, NEW pg, NEW ac,
         Acked(ac, Others(s)), ActivateTab(s, id, tab, pg, ac), Alone(s, id),
         Live' /\ ~raced' => cdp \in {"up", "blind"} /\ (tab \in DOMAIN open => open[tab] = id)
  PROVE  RightScreen'
<1>1. CASE Fail(s, pg, ac)
  BY <1>1 DEF Fail, RightScreen, Live
<1>2. CASE ~Fail(s, pg, ac)
  <2>. DEFINE c == Call("activate", id, tab)
              a == [slot |-> s, ok |-> tab \in DOMAIN open]
  <2>1. /\ front' = IF tab \in DOMAIN open THEN tab ELSE front
        /\ acks' = Append(ac, a)
        /\ calls' = [calls EXCEPT ![s] = c]
    BY <1>2 DEF ActivateTab
  <2>2. calls'[s] = c /\ c.step = "activate" /\ c.id = id
    BY <2>1 DEF TInv, CallsTyped, Call
  <2>3. ASSUME Live', ~raced' PROVE Coming(s)'
    <3>1. cdp' \in {"up", "blind"} /\ target' = id /\ open' = open
      BY <2>3 DEF Alone, Around
    <3>2. id \notin Builtins
      BY ScreenControllerAssumption DEF ScreenControllerAssumption
    <3>3. ASSUME NEW i \in DOMAIN acks', acks'[i].slot = s, acks'[i].ok
          PROVE  front' \in DOMAIN open' /\ open'[front'] = target'
      <4>1. \A j \in DOMAIN ac : ac[j].slot # s
        BY DEF Acked, Others
      <4>2. acks'[i] = a
        BY <2>1, <3>3, <4>1 DEF Acked
      <4>3. tab \in DOMAIN open
        <5>1. a.ok <=> tab \in DOMAIN open
          OBVIOUS
        <5>. HIDE DEF a
        <5>. QED
          BY <3>3, <4>2, <5>1, Zenon
      <4>. QED
        BY <2>1, <2>3, <3>1, <4>3
    <3>. QED
      BY <2>2, <3>1, <3>2, <3>3 DEF Coming
  <2>. HIDE DEF c
  <2>. QED
    BY <2>1, <2>2, <2>3, FlightRight
<1>. QED
  BY <1>1, <1>2

LEMMA RenderRight ==
  ASSUME TInv, Around, NEW s \in Slots, NEW id \in Screens, NEW pg \in Pages(Screens), NEW ac,
         Acked(ac, Others(s)), Render(s, id, pg, ac), Alone(s, id),
         Live' /\ ~raced' =>
           /\ front = ShellTab \/ cdp = "blind"
           /\ IF id \in Builtins THEN id \in pg.frames ELSE cdp \in {"up", "blind"}
  PROVE  RightScreen'
<1>1. CASE id \in Builtins /\ Done(s, id, pg, ac)
  BY <1>1, DoneRight
<1>2. CASE id \in Cached(urlTabs) /\ ActivateTab(s, id, TabFor(urlTabs, id), pg, ac)
  <2>1. PICK e \in ToSet(urlTabs) : e.id = id /\ TabFor(urlTabs, id) = e.tab
    BY <1>2, Found
  <2>2. e \in Entry
    BY DEF TInv, Mapped, MapLike, ToSet
  <2>3. id \in Urls /\ e.tab \in Int /\ id \notin Builtins
    BY <2>1, <2>2, ScreenControllerAssumption DEF Entry, ScreenControllerAssumption
  <2>4. Live' => open[e.tab] = id
    BY <2>1 DEF Live, Around, TInv, Mapped
  <2>. QED
    BY <1>2, <2>1, <2>3, <2>4, ActivateTabRight
<1>3. CASE /\ id \in Urls /\ calls' = [calls EXCEPT ![s] = Call("create", id, NoTab)]
           /\ page' = pg /\ acks' = ac /\ UNCHANGED <<front, urlTabs, current>>
  <2>. DEFINE c == Call("create", id, NoTab)
  <2>1. calls'[s] = c /\ c.step = "create" /\ c.id = id /\ id \notin Builtins
    BY <1>3, ScreenControllerAssumption DEF TInv, CallsTyped, Call, ScreenControllerAssumption
  <2>2. Live' /\ ~raced' => Coming(s)'
    BY <2>1 DEF Coming, Alone, Around
  <2>. HIDE DEF c
  <2>. QED
    BY <1>3, <2>1, <2>2, FlightRight DEF c
<1>4. CASE Fail(s, pg, ac)
  BY <1>4 DEF Fail, RightScreen, Live
<1>. QED
  BY <1>1, <1>2, <1>3, <1>4 DEF Render

LEMMA BringShellRight ==
  ASSUME TInv, Around, NEW s \in Slots, ~Awaits(s), NEW id \in Screens, NEW pg \in Pages(Screens),
         BringShell(s, id, pg), Alone(s, id),
         Live' /\ ~raced' =>
           /\ id \in Builtins => id \in pg.frames
           /\ cdp \in {"up", "blind"} \/ (id \in Builtins /\ front = ShellTab)
  PROVE  RightScreen'
<1>1. CASE /\ cdp = "up" /\ front' = ShellTab /\ page' = pg
           /\ calls' = [calls EXCEPT ![s] = Call("front", id, NoTab)]
  <2>. DEFINE c == Call("front", id, NoTab)
  <2>1. calls'[s] = c /\ c.step = "front" /\ c.id = id
    BY <1>1 DEF TInv, CallsTyped, Call
  <2>2. Live' /\ ~raced' => Coming(s)'
    BY <1>1, <2>1 DEF Coming, Alone, Around
  <2>. HIDE DEF c
  <2>. QED
    BY <1>1, <2>1, <2>2, FlightRight DEF c
<1>2. CASE cdp # "up" /\ Render(s, id, pg, acks)
  <2>1. Acked(acks, Others(s))
    <3>1. Others(s) = {r \in Slots : Awaits(r)}
      BY DEF Others
    <3>. QED
      BY <3>1 DEF TInv
  <2>. QED
    BY <1>2, <2>1, RenderRight
<1>. QED
  BY <1>1, <1>2 DEF BringShell

\* show() of a screen with no other call in flight and CDP up or down.
LEMMA BeginRight ==
  ASSUME TInv, Around, NEW s \in Slots, calls[s] = Idle, NEW id \in Screens, Begin(s, id),
         target' = id, raced' <=> ~Quiet \/ cdp = "connecting"
  PROVE  RightScreen'
<1>. PICK pg : pg = Sent(IF id \in Builtins THEN PreloadFrame(page, id) ELSE page)
  OBVIOUS
<1>1. pg \in Pages(Screens)
  BY DEF Sent, PreloadFrame, Pages, TInv, Plain
<1>2. sink' => (id \in Builtins => id \in pg.frames)
  BY DEF Sent, PreloadFrame, Pages, TInv, Plain
<1>3. Alone(s, id) /\ ~Awaits(s)
  BY DEF Alone, Quiet, Awaits, Idle
<1>4. ~raced' => cdp \in {"up", "blind", "down"}
  BY DEF TInv, Plain
<1>5. CASE /\ ~Connected /\ current' = id
           /\ page' = Sent(HideOverlay(ShowFrame(PreloadFrame(page, id), id)))
           /\ UNCHANGED <<calls, front>>
  <2>. SUFFICES ASSUME Live', ~raced' PROVE Wall' = id /\ \A r \in Slots : calls'[r] = Idle
    BY <1>5 DEF RightScreen
  <2>1. sink' /\ alive' /\ Quiet
    BY DEF Live
  <2>2. page'.active = id /\ id \in page'.frames
    BY <1>5, <2>1 DEF Sent, HideOverlay, ShowFrame, PreloadFrame, Pages, TInv, Plain
  <2>3. front' = ShellTab
    BY <1>5 DEF TInv, Tabs
  <2>. QED
    BY <1>5, <2>1, <2>2, <2>3 DEF Wall, FrameShown, Quiet
<1>6. CASE /\ current \in Cached(urlTabs) /\ page' = pg
           /\ calls' = [calls EXCEPT ![s] = Call("capture", id, TabFor(urlTabs, current))]
  <2>. PICK tab : tab = TabFor(urlTabs, current)
    OBVIOUS
  <2>. DEFINE c == Call("capture", id, tab)
  <2>1. calls'[s] = c /\ c.step = "capture" /\ c.id = id
    BY <1>6 DEF TInv, CallsTyped, Call
  <2>2. Connected
    BY <1>6 DEF TInv, Mapped, Cached
  <2>3. Live' /\ ~raced' => Coming(s)'
    BY <1>2, <1>4, <1>6, <2>1, <2>2 DEF Coming, Around, Connected, Live
  <2>. HIDE DEF c
  <2>. QED
    BY <1>3, <1>6, <2>1, <2>3, FlightRight DEF c
<1>7. CASE BringShell(s, id, pg) /\ (id \in Builtins \/ Connected)
  <2>1. cdp = "down" => id \in Builtins /\ front = ShellTab
    BY <1>7, ScreenControllerAssumption DEF Connected, TInv, Tabs
  <2>. QED
    BY <1>1, <1>2, <1>3, <1>4, <1>7, <2>1, BringShellRight DEF Live
<1>. QED
  BY <1>5, <1>6, <1>7 DEF Begin

\* Only a restart of chromium makes a restart no longer due.
LEMMA StillDue ==
  ASSUME NEW s, NEW id, NEW tab, NEW pg, NEW ac,
         \/ BringShell(s, id, pg) \/ Render(s, id, pg, ac) \/ Done(s, id, pg, ac)
         \/ ActivateTab(s, id, tab, pg, ac) \/ Fail(s, pg, ac)
  PROVE  restartDue => restartDue'
BY DEF BringShell, Render, Done, ActivateTab, Fail

\* What is known of a call in flight when its answer comes.
LEMMA ComingOn ==
  ASSUME TInv, RightScreen, Around, NEW s \in Slots, calls[s] # Idle,
         restartDue => restartDue', UNCHANGED <<sink, target, raced>>
  PROVE  Alone(s, calls[s].id) /\ (Live' /\ ~raced' => Coming(s))
<1>1. Live' /\ ~raced' => Live /\ ~raced
  BY DEF Live, Around
<1>2. Live' /\ ~raced' => Coming(s) /\ \A r \in Slots \ {s} : calls[r] = Idle
  BY <1>1 DEF RightScreen
<1>3. Coming(s) => target = calls[s].id
  BY DEF Coming
<1>. QED
  BY <1>2, <1>3 DEF Alone

LEMMA CaptureDoneRight ==
  ASSUME TInv, RightScreen, NEW s \in Slots, CaptureDone(s) PROVE RightScreen'
<1>. PICK pg : pg = IF Connected /\ calls[s].tab \in DOMAIN open THEN Sent(PaintOverlay(page)) ELSE page
  OBVIOUS
<1>1. pg \in Pages(Screens) /\ pg.frames = page.frames
  BY DEF Sent, PaintOverlay, Pages, TInv, Plain
<1>2. BringShell(s, calls[s].id, pg)
  BY DEF CaptureDone
<1>3. Around /\ ~Awaits(s) /\ calls[s].id \in Screens /\ calls[s] # Idle
  BY DEF CaptureDone, Around, Awaits, TInv, Plain, CallsTyped, Idle
<1>4. Alone(s, calls[s].id) /\ (Live' /\ ~raced' => Coming(s))
  BY <1>2, <1>3, ComingOn, StillDue DEF CaptureDone
<1>. QED
  BY <1>1, <1>2, <1>3, <1>4, BringShellRight DEF Coming

LEMMA AnsweredRight == ASSUME TInv, RightScreen, ActivationAnswered PROVE RightScreen'
<1>. PICK s : s = Head(acks).slot
  OBVIOUS
<1>. PICK ac : ac = Tail(acks)
  OBVIOUS
<1>1. s \in Slots /\ Awaits(s) /\ Acked(ac, Others(s))
  BY AnsweredCall DEF ActivationAnswered
<1>2. Around /\ calls[s].id \in Screens /\ page \in Pages(Screens) /\ calls[s] # Idle
  BY <1>1 DEF ActivationAnswered, Around, TInv, Plain, CallsTyped, Awaits, Idle
<1>3. ASSUME restartDue => restartDue'
      PROVE  Alone(s, calls[s].id) /\ (Live' /\ ~raced' => Coming(s))
  BY <1>1, <1>2, <1>3, ComingOn DEF ActivationAnswered
<1>4. CASE Render(s, calls[s].id, page, ac) /\ calls[s].step = "front"
  <2>1. Alone(s, calls[s].id) /\ (Live' /\ ~raced' => Coming(s))
    BY <1>3, <1>4, StillDue
  <2>. QED
    BY <1>1, <1>2, <1>4, <2>1, RenderRight DEF Coming
<1>5. CASE Done(s, calls[s].id, page, ac) /\ calls[s].step = "activate" /\ Head(acks).ok
  <2>1. Alone(s, calls[s].id) /\ (Live' /\ ~raced' => Coming(s))
    BY <1>3, <1>5, StillDue
  <2>2. 1 \in DOMAIN acks /\ acks[1] = Head(acks)
    BY DEF ActivationAnswered, TInv, Acked
  <2>3. Coming(s) => front \in DOMAIN open /\ open[front] = calls[s].id
    BY <1>5, <2>2 DEF Coming
  <2>4. ShellTab \notin DOMAIN open
    BY DEF TInv, Tabs
  <2>. QED
    BY <1>1, <1>2, <1>5, <2>1, <2>3, <2>4, DoneRight
<1>6. CASE Fail(s, page, ac)
  BY <1>6 DEF Fail, RightScreen, Live
<1>. QED
  BY <1>4, <1>5, <1>6 DEF ActivationAnswered

LEMMA LoadedRight == ASSUME TInv, RightScreen, NEW s \in Slots, Loaded(s) PROVE RightScreen'
<1>1. Around /\ calls[s].id \in Urls /\ calls[s].tab \in Int /\ calls[s] # Idle
  BY DEF Loaded, Around, TInv, Plain, CallsTyped, Idle
<1>2. Acked(acks, Others(s))
  <2>1. Others(s) = {r \in Slots : Awaits(r)}
    BY DEF Loaded, Others, Awaits
  <2>. QED
    BY <2>1 DEF TInv
<1>3. ActivateTab(s, calls[s].id, calls[s].tab, page, acks)
  BY DEF Loaded
<1>4. Alone(s, calls[s].id) /\ (Live' /\ ~raced' => Coming(s))
  BY <1>1, <1>3, ComingOn, StillDue DEF Loaded
<1>5. calls[s].tab \in DOMAIN open => open[calls[s].tab] = calls[s].id
  BY DEF Loaded, TInv, Mapped
<1>. QED
  BY <1>1, <1>2, <1>3, <1>4, <1>5, ActivateTabRight DEF Coming

\* A tab that opens changes nothing of what is in front.
LEMMA OpenTabKeeps ==
  ASSUME TInv, NEW id \in Urls, OpenTab(id)
  PROVE  \A t \in DOMAIN open : t \in DOMAIN open' /\ open'[t] = open[t]
BY OpenTabTyped

LEMMA TabCreatedRight ==
  ASSUME TInv, RightScreen, NEW s \in Slots, TabCreated(s) PROVE RightScreen'
<1>. PICK c : c = Call("load", calls[s].id, NewTab)
  OBVIOUS
<1>1. calls' = [calls EXCEPT ![s] = c] /\ c.step = "load" /\ c.id = calls[s].id
  BY DEF TabCreated, Call
<1>2. calls'[s] = c
  BY <1>1 DEF TInv, CallsTyped
<1>3. Live' /\ ~raced' => Live /\ ~raced /\ calls[s] # Idle
  BY DEF TabCreated, Live, Idle
<1>4. Alone(s, calls[s].id)
  BY <1>3 DEF Alone, RightScreen, Coming, TabCreated
<1>5. Live' /\ ~raced' => Coming(s)'
  BY <1>1, <1>2, <1>3 DEF RightScreen, Coming, TabCreated
<1>. QED
  BY <1>1, <1>4, <1>5, FlightRight

\* What was right stays right while nothing in front changes.
LEMMA KeptRight ==
  ASSUME TInv, RightScreen, Live' /\ ~raced' => Live /\ ~raced,
         UNCHANGED <<page, calls, acks, current, target>>,
         front' = front \/ ~(Live /\ ~raced), cdp' = cdp \/ cdp \notin {"up", "blind"},
         front \in DOMAIN open /\ Live /\ ~raced => front \in DOMAIN open' /\ open'[front] = open[front]
  PROVE  RightScreen'
<1>. SUFFICES ASSUME Live', ~raced'
              PROVE  /\ Quiet' => current' = target' /\ (Wall' = target' \/ Behind')
                     /\ \A s \in Slots : calls'[s] # Idle => Coming(s)'
                     /\ \A r, s \in Slots : calls'[r] # Idle /\ calls'[s] # Idle => r = s
  BY DEF RightScreen
<1>1. Live /\ ~raced /\ alive /\ alive' /\ front' = front
  BY DEF Live
<1>2. Wall' = Wall
  <2>1. front = ShellTab \/ front \in DOMAIN open
    BY DEF TInv, Tabs
  <2>. QED
    BY <1>1, <2>1 DEF Wall
<1>3. Quiet' => Quiet
  BY DEF Quiet
<1>4. \A s \in Slots : calls'[s] # Idle => Coming(s)'
  BY <1>1 DEF RightScreen, Coming
<1>5. Behind => Behind'
  BY DEF Behind, FrameShown
<1>. QED
  BY <1>1, <1>2, <1>3, <1>4, <1>5 DEF RightScreen

\* The tab in front is that of the current screen when no call is in flight,
\* and closing tabs under a call is remembered.
LEMMA ApplyRight ==
  ASSUME TInv, RightScreen, NEW st, Pruned(st), Apply(st),
         UNCHANGED <<alive, sink, page, calls, acks, current, target, restartDue>>,
         cdp' = cdp \/ cdp \notin {"up", "blind"}
  PROVE  RightScreen'
<1>1. /\ open' = [t \in DOMAIN open \ st.closed |-> open[t]]
      /\ front' \in IF front \in st.closed THEN DOMAIN open' \cup {ShellTab} ELSE {front}
      /\ raced' = (raced \/ (~Quiet /\ st.closed # {}))
  BY DEF Apply
<1>2. Live' /\ ~raced' => Live /\ ~raced
  BY <1>1 DEF Live
<1>3. ASSUME Live', ~raced', ~(Quiet /\ Behind) PROVE front \notin st.closed
  <2>1. CASE st.closed = {}
    BY <2>1
  <2>2. CASE Quiet
    <3>1. Wall = target /\ current = target /\ alive
      BY <1>2, <1>3, <2>2 DEF RightScreen, Live
    <3>2. front # ShellTab => open[front] = current
      BY <3>1 DEF Wall
    <3>3. \A t \in st.closed : t \in DOMAIN open /\ open[t] # current
      BY <3>1 DEF Pruned, TInv, Mapped
    <3>. QED
      BY <3>2, <3>3 DEF TInv, Tabs
  <2>. QED
    BY <1>1, <1>3, <2>1, <2>2
<1>4. CASE Live' /\ ~raced' /\ ~(Quiet /\ Behind)
  <2>1. front' = front /\ (front \in DOMAIN open => front \in DOMAIN open' /\ open'[front] = open[front])
    BY <1>1, <1>3, <1>4
  <2>. QED
    BY <1>2, <2>1, KeptRight
<1>5. CASE ~(Live' /\ ~raced')
  BY <1>5 DEF RightScreen
<1>6. CASE Live' /\ ~raced' /\ Quiet /\ Behind
  BY <1>2, <1>6 DEF RightScreen, Quiet, Behind, FrameShown
<1>. QED
  BY <1>4, <1>5, <1>6

LEMMA NextRight == TInv /\ RightScreen /\ [Next]_vars => RightScreen'
<1>. SUFFICES ASSUME TInv, RightScreen, [Next]_vars PROVE RightScreen'
  OBVIOUS
<1>1. ASSUME NEW id \in Screens, Activate(id) PROVE RightScreen'
  <2>1. PICK s \in Slots : calls[s] = Idle /\ Begin(s, id)
    BY <1>1 DEF Activate, Show
  <2>2. Around /\ target' = id /\ (raced' <=> ~Quiet \/ cdp = "connecting")
    BY <1>1 DEF Activate, Show, Around, TInv, Plain
  <2>. QED
    BY <2>1, <2>2, BeginRight
<1>2. CASE ShellAttaches
  <2>1. PICK s \in Slots : calls[s] = Idle /\ Begin(s, current)
    BY <1>2 DEF ShellAttaches
  <2>2. Around /\ target' = current /\ current \in Screens /\ (raced' <=> ~Quiet \/ cdp = "connecting")
    BY <1>2 DEF ShellAttaches, Around, TInv, Plain
  <2>. QED
    BY <2>1, <2>2, BeginRight
<1>3. ASSUME NEW list \in Preloads, NEW n \in Caps, Reload(list, n) PROVE RightScreen'
  <2>. PICK st : st = Trimmed(Registered(list), n)
    OBVIOUS
  <2>. QED
    BY <1>3, RegisteredPruned, TrimmedPruned, ApplyRight DEF Reload
<1>4. ASSUME NEW list \in Preloads, CdpReady(list) PROVE RightScreen'
  <2>. PICK st : st = Registered(list)
    OBVIOUS
  <2>. QED
    BY <1>4, RegisteredPruned, ApplyRight DEF CdpReady
<1>5. ASSUME NEW id \in Urls, PreloadCreated(id) PROVE RightScreen'
  BY <1>5, OpenTabKeeps, KeptRight DEF PreloadCreated, Live
<1>6. CASE CdpConnects \/ UNCHANGED vars
  BY <1>6, KeptRight DEF CdpConnects, vars, Live
<1>7. CASE ChromiumExits \/ CdpCloses \/ ChromiumStarts \/ ShellDetaches
  BY <1>7 DEF ChromiumExits, CdpCloses, ChromiumStarts, ShellDetaches, RightScreen, Live
<1>. QED
  BY <1>1, <1>2, <1>3, <1>4, <1>5, <1>6, <1>7, CaptureDoneRight, AnsweredRight, LoadedRight,
     TabCreatedRight DEF Next

\* A show() that ran alone put its screen on the wall, and reloads, evictions,
\* late preloads, reconnections and restarts leave it there: for any screens,
\* caps and preload lists, however many of each come.  A built-in shown while
\* CDP knows of no shell tab is at least what the shell page shows.
THEOREM WallShowsTarget == Spec => []SettledShowsTarget
<1>1. Init => RightScreen
  BY DEF Init, RightScreen, Live
<1>2. RightScreen => SettledShowsTarget
  BY DEF RightScreen, SettledShowsTarget, Settled, Live
<1>. QED
  BY <1>1, <1>2, AlwaysTyped, NextRight, PTL DEF Spec


-------------------------------------------------------------------------------
(* The Screens tab of the control panel *)

\* What a PUT is made of.
IsPut(p) ==
  \E core, pg, kind, list, seen : \E took \in BOOLEAN : p = Put(core, pg, kind, list, seen, took)
AllPuts == puts = [s \in Requests |-> puts[s]] /\ \A s \in Requests : IsPut(puts[s])

\* took is true of a list that was in force while its PUT was under way.
Noticed(s) ==
  /\ ~Free(s) /\ puts[s].list = screens => puts[s].took
  /\ puts[s].core = "ok" => puts[s].took
  /\ puts[s].page = "checked" /\ puts[s].seen = puts[s].list => puts[s].took

\* As long as no request failed or met another one: one is under way at most,
\* and the list read back is the one in force, until the page shows it.
ListCalm ==
  calm =>
    /\ \A s, t \in Requests : ~Free(s) /\ ~Free(t) => s = t
    /\ \A s \in Requests : ~Free(s) => puts[s].page = "waiting" /\ read = NoRead
    /\ (\A s \in Requests : Free(s)) =>
         /\ read = NoRead => shown = screens
         /\ read \notin {NoRead, Asked} => read[2] = screens

ListInv ==
  /\ AllPuts /\ \A s \in Requests : Noticed(s)
  /\ ~misled /\ ListCalm

LEMMA PutShape ==
  ASSUME NEW core, NEW pg, NEW kind, NEW list, NEW seen, NEW took \in BOOLEAN
  PROVE  LET p == Put(core, pg, kind, list, seen, took) IN
         /\ IsPut(p) /\ p.core = core /\ p.page = pg /\ p.kind = kind
         /\ p.list = list /\ p.seen = seen /\ p.took = took
BY DEF IsPut, Put

LEMMA PutTyped ==
  ASSUME NEW p, IsPut(p)
  PROVE  p.took \in BOOLEAN
BY DEF IsPut, Put

LEMMA MovedShape ==
  ASSUME NEW q, IsPut(q), NEW core, NEW pg
  PROVE  LET p == Moved(q, core, pg) IN
         /\ IsPut(p) /\ p.core = core /\ p.page = pg
         /\ p.list = q.list /\ p.seen = q.seen /\ p.took = q.took
BY PutTyped, PutShape DEF Moved

LEMMA NotedShape ==
  ASSUME NEW q, IsPut(q), NEW core, NEW list
  PROVE  LET p == Noted(q, core, list) IN
         /\ IsPut(p) /\ p.core = core /\ p.page = q.page
         /\ p.list = q.list /\ p.seen = q.seen /\ p.took = (q.took \/ q.list = list)
<1>. DEFINE b == q.took \/ q.list = list
            p == Put(core, q.page, q.kind, q.list, q.seen, b)
<1>1. b \in BOOLEAN /\ Noted(q, core, list) = p
  BY DEF Noted
<1>. HIDE DEF b
<1>2. /\ IsPut(p) /\ p.core = core /\ p.page = q.page
      /\ p.list = q.list /\ p.seen = q.seen /\ p.took = b
  BY <1>1, PutShape
<1>. QED
  BY <1>1, <1>2 DEF b

\* A PUT changes and the others stay.
PutMoves(s) ==
  /\ puts' = [o \in Requests |-> puts'[o]] /\ IsPut(puts'[s])
  /\ \A o \in Requests : o # s => puts'[o] = puts[o]

LEMMA MovesPut ==
  ASSUME AllPuts, NEW s \in Requests, NEW p, IsPut(p), puts' = [puts EXCEPT ![s] = p]
  PROVE  PutMoves(s) /\ puts'[s] = p
BY DEF AllPuts, PutMoves

\* What the page does with a PUT in hand: the core may still be to handle it.
LEMMA PageGoesOne ==
  ASSUME AllPuts, NEW s \in Requests, NEW pg, PageGoes(s, pg)
  PROVE  /\ PutMoves(s) /\ puts'[s].page = pg
         /\ puts'[s].core = IF puts[s].core = "waiting" THEN "waiting" ELSE "none"
         /\ puts'[s].list = puts[s].list /\ puts'[s].took = puts[s].took
<1>. DEFINE p == Moved(puts[s], IF puts[s].core = "waiting" THEN "waiting" ELSE "none", pg)
<1>1. puts' = [puts EXCEPT ![s] = p]
  BY DEF PageGoes
<1>2. /\ IsPut(p) /\ p.page = pg
      /\ p.core = IF puts[s].core = "waiting" THEN "waiting" ELSE "none"
      /\ p.list = puts[s].list /\ p.took = puts[s].took
  BY MovedShape DEF AllPuts
<1>. HIDE DEF p
<1>. QED
  BY <1>1, <1>2, MovesPut

\* A step of one PUT that changes no list in force.
LEMMA PutStep ==
  ASSUME ListInv, NEW s \in Requests, PutMoves(s), screens' = screens, Noticed(s)',
         ~misled', ListCalm'
  PROVE  ListInv'
<1>1. AllPuts'
  BY DEF ListInv, AllPuts, PutMoves
<1>2. ASSUME NEW o \in Requests, o # s PROVE Noticed(o)'
  BY <1>2 DEF ListInv, Noticed, PutMoves, Free
<1>. QED
  BY <1>1, <1>2 DEF ListInv

\* The page lets go of a PUT, or waits for the list instead.
LEMMA PageGoesStep ==
  ASSUME ListInv, NEW s \in Requests, NEW pg \in {"none", "checking"}, PageGoes(s, pg), ~Free(s),
         screens' = screens, ~misled', ListCalm'
  PROVE  ListInv'
<1>1. /\ PutMoves(s) /\ puts'[s].page = pg
      /\ puts'[s].core = IF puts[s].core = "waiting" THEN "waiting" ELSE "none"
      /\ puts'[s].list = puts[s].list /\ puts'[s].took = puts[s].took
  BY PageGoesOne DEF ListInv
<1>2. Noticed(s)'
  BY <1>1 DEF ListInv, Noticed
<1>. QED
  BY <1>1, <1>2, PutStep

\* Another list is in force, and every PUT takes note of it.
TakesNote(list) ==
  /\ puts' = [t \in Requests |-> puts'[t]] /\ \A t \in Requests : IsPut(puts'[t])
  /\ \A t \in Requests :
       /\ puts'[t].page = puts[t].page /\ puts'[t].list = puts[t].list
       /\ puts'[t].seen = puts[t].seen
       /\ puts'[t].took = (puts[t].took \/ puts[t].list = list)

LEMMA InForceNoted ==
  ASSUME AllPuts, NEW list, InForce(list)
  PROVE  TakesNote(list) /\ \A t \in Requests : puts'[t].core = puts[t].core
<1>. DEFINE p(t) == Noted(puts[t], puts[t].core, list)
<1>1. puts' = [t \in Requests |-> p(t)]
  BY DEF InForce
<1>2. \A t \in Requests :
        /\ IsPut(p(t)) /\ p(t).core = puts[t].core /\ p(t).page = puts[t].page
        /\ p(t).list = puts[t].list /\ p(t).seen = puts[t].seen
        /\ p(t).took = (puts[t].took \/ puts[t].list = list)
  BY NotedShape DEF AllPuts
<1>. HIDE DEF p
<1>. QED
  BY <1>1, <1>2 DEF TakesNote

LEMMA InForceStep ==
  ASSUME ListInv, NEW list, screens' = list, TakesNote(list),
         \A t \in Requests : \/ puts'[t].core \in {puts[t].core, "none"}
                             \/ puts[t].core # "none" /\ puts[t].list = list,
         ~misled', ListCalm'
  PROVE  ListInv'
<1>1. AllPuts'
  BY DEF AllPuts, TakesNote
<1>2. ASSUME NEW t \in Requests PROVE Noticed(t)'
  <2>1. puts[t].took \in BOOLEAN
    BY PutTyped DEF ListInv, AllPuts
  <2>. QED
    BY <2>1 DEF ListInv, Noticed, TakesNote, Free
<1>. QED
  BY <1>1, <1>2 DEF ListInv

LEMMA PutHandledStep ==
  ASSUME ListInv, NEW s \in Requests, PutHandled(s)
  PROVE  ListInv'
<1>. DEFINE list == puts[s].list
            answered(answer) == IF puts[s].page = "waiting" THEN answer ELSE "none"
<1>1. /\ AllPuts /\ puts[s].core = "waiting" /\ misled' = misled /\ calm' = calm
      /\ shown' = shown /\ read' = read
  BY DEF PutHandled, ListInv
<1>2. ~misled' /\ ~Free(s)
  BY <1>1 DEF ListInv, Free
<1>3. ASSUME \A t \in Requests : t # s => puts'[t].core = puts[t].core /\ puts'[t].page = puts[t].page,
             puts'[s].page = puts[s].page
      PROVE  ListCalm'
  <2>1. ASSUME calm PROVE /\ puts'[s].page = "waiting" /\ read = NoRead
                          /\ \A t \in Requests : t # s => Free(t)'
    BY <1>1, <1>2, <1>3, <2>1 DEF ListInv, ListCalm, Free
  <2>. QED
    BY <1>1, <2>1 DEF ListCalm, Free
<1>4. CASE \E x \in list : x.id = Default
  <2>. DEFINE core(t) == IF t = s THEN answered("ok") ELSE puts[t].core
              p(t) == Noted(puts[t], core(t), list)
  <2>1. screens' = list /\ puts' = [t \in Requests |-> p(t)]
    BY <1>4 DEF PutHandled
  <2>2. \A t \in Requests :
          /\ IsPut(p(t)) /\ p(t).core = core(t) /\ p(t).page = puts[t].page
          /\ p(t).list = puts[t].list /\ p(t).seen = puts[t].seen
          /\ p(t).took = (puts[t].took \/ puts[t].list = list)
    BY <1>1, NotedShape DEF AllPuts
  <2>. HIDE DEF p
  <2>3. TakesNote(list) /\ \A t \in Requests : puts'[t].core = core(t)
    BY <2>1, <2>2 DEF TakesNote
  <2>4. ListCalm'
    BY <1>3, <2>3 DEF TakesNote
  <2>. QED
    BY <1>1, <1>2, <2>1, <2>3, <2>4, InForceStep
<1>5. CASE ~\E x \in list : x.id = Default
  <2>. DEFINE p == Moved(puts[s], answered("refused"), puts[s].page)
  <2>1. screens' = screens /\ puts' = [puts EXCEPT ![s] = p]
    BY <1>5 DEF PutHandled
  <2>2. /\ IsPut(p) /\ p.core = answered("refused") /\ p.page = puts[s].page
        /\ p.list = puts[s].list /\ p.seen = puts[s].seen /\ p.took = puts[s].took
    BY <1>1, MovedShape DEF AllPuts
  <2>. HIDE DEF p
  <2>3. PutMoves(s) /\ puts'[s] = p
    BY <1>1, <2>1, <2>2, MovesPut
  <2>4. Noticed(s)'
    BY <1>2, <2>1, <2>2, <2>3 DEF ListInv, Noticed
  <2>5. ListCalm'
    BY <1>3, <2>2, <2>3 DEF PutMoves
  <2>. QED
    BY <1>2, <2>1, <2>3, <2>4, <2>5, PutStep
<1>. QED
  BY <1>4, <1>5

\* A list is sent, with a PUT whose slot was free.
LEMMA SendsStep ==
  ASSUME ListInv, NEW s \in Requests, NEW list, NEW kind, Sends(s, list, kind),
         UNCHANGED <<screens, shown, read, misled>>
  PROVE  ListInv'
<1>. DEFINE b == screens = list
            p == Put("waiting", "waiting", kind, list, {}, b)
<1>1. /\ AllPuts /\ puts' = [puts EXCEPT ![s] = p] /\ calm' = (calm /\ NoneInFlight)
      /\ screens' = screens /\ shown' = shown /\ read' = read /\ misled' = misled
  BY DEF Sends, ListInv
<1>2. b \in BOOLEAN
  OBVIOUS
<1>. HIDE DEF b
<1>3. /\ IsPut(p) /\ p.core = "waiting" /\ p.page = "waiting" /\ p.list = list
       /\ p.took = b
  BY <1>2, PutShape
<1>. HIDE DEF p
<1>4. PutMoves(s) /\ puts'[s] = p
  BY <1>1, <1>3, MovesPut
<1>5. Noticed(s)'
  BY <1>1, <1>3, <1>4 DEF Noticed, b
<1>6. ListCalm'
  <2>1. ASSUME calm' PROVE read' = NoRead /\ \A t \in Requests : t # s => Free(t)'
    BY <1>1, <1>4, <2>1 DEF NoneInFlight, Free, PutMoves
  <2>. QED
    BY <1>3, <1>4, <2>1 DEF ListCalm, Free
<1>7. ~misled'
  BY <1>1 DEF ListInv
<1>. QED
  BY <1>1, <1>4, <1>5, <1>6, <1>7, PutStep

\* What the page makes of an answer.
LEMMA AnswerStep ==
  ASSUME ListInv, NEW s \in Requests,
         \/ PutSucceeds(s) \/ PutRefused(s) \/ NetworkError(s)
         \/ CheckHandled(s) \/ CheckSucceeds(s) \/ CheckFails(s)
  PROVE  ListInv'
<1>1. screens' = screens /\ ~Free(s) /\ AllPuts /\ ~misled
  BY DEF PutSucceeds, PutRefused, NetworkError, CheckHandled, CheckSucceeds, CheckFails, Free, ListInv
<1>2. ASSUME Fails(s), misled' = misled PROVE ListInv'
  <2>1. PageGoes(s, "none") /\ ~misled' /\ ListCalm'
    BY <1>1, <1>2 DEF Fails, PageDone, ListCalm
  <2>. QED
    BY <1>1, <2>1, PageGoesStep
<1>3. PutRefused(s) \/ CheckFails(s) => Fails(s) /\ misled' = misled
  BY DEF PutRefused, CheckFails
<1>4. CASE NetworkError(s)
  <2>1. CASE puts[s].kind = "save"
    <3>1. PageGoes(s, "checking") /\ ~misled' /\ ListCalm'
      BY <1>1, <1>4, <2>1 DEF NetworkError, ListCalm
    <3>. QED
      BY <1>1, <3>1, PageGoesStep
  <2>2. CASE puts[s].kind # "save"
    BY <1>2, <1>4, <2>2 DEF NetworkError
  <2>. QED
    BY <2>1, <2>2
<1>5. CASE PutSucceeds(s)
  <2>1. /\ PageGoes(s, "none") /\ misled' = (misled \/ ~puts[s].took)
        /\ read' = Asked /\ puts[s].core = "ok" /\ calm' = calm
    BY <1>5 DEF PutSucceeds, PageDone, Refresh
  <2>2. puts[s].took
    BY <2>1 DEF ListInv, Noticed
  <2>3. PutMoves(s) /\ puts'[s].page = "none" /\ puts'[s].core = "none"
    BY <1>1, <2>1, PageGoesOne
  <2>4. ListCalm'
    <3>1. ASSUME calm PROVE \A t \in Requests : Free(t)'
      BY <1>1, <2>3, <3>1 DEF ListInv, ListCalm, Free, PutMoves
    <3>. QED
      BY <2>1, <3>1 DEF ListCalm, Asked, NoRead
  <2>. QED
    BY <1>1, <2>1, <2>2, <2>4, PageGoesStep
<1>6. CASE CheckHandled(s)
  <2>. DEFINE p == Put(puts[s].core, "checked", puts[s].kind, puts[s].list, screens, puts[s].took)
  <2>1. puts' = [puts EXCEPT ![s] = p] /\ puts[s].page = "checking" /\ UNCHANGED <<calm, misled>>
    BY <1>6 DEF CheckHandled
  <2>2. /\ IsPut(p) /\ p.core = puts[s].core /\ p.list = puts[s].list /\ p.seen = screens
        /\ p.took = puts[s].took
    BY <1>1, PutTyped, PutShape DEF AllPuts
  <2>. HIDE DEF p
  <2>3. PutMoves(s) /\ puts'[s] = p
    BY <1>1, <2>1, <2>2, MovesPut
  <2>4. Noticed(s)'
    BY <1>1, <2>2, <2>3 DEF ListInv, Noticed
  <2>5. ListCalm' /\ ~misled'
    BY <1>1, <2>1 DEF ListInv, ListCalm
  <2>. QED
    BY <1>1, <2>3, <2>4, <2>5, PutStep
<1>7. CASE CheckSucceeds(s)
  <2>1. /\ PageGoes(s, "none") /\ misled' = (misled \/ ~puts[s].took) /\ calm' = calm
        /\ puts[s].page = "checked" /\ puts[s].seen = puts[s].list
    BY <1>7 DEF CheckSucceeds, PageDone
  <2>2. puts[s].took /\ ~calm
    BY <1>1, <2>1 DEF ListInv, ListCalm, Noticed
  <2>3. ListCalm'
    BY <2>1, <2>2 DEF ListCalm
  <2>. QED
    BY <1>1, <2>1, <2>2, <2>3, PageGoesStep
<1>. QED
  BY <1>2, <1>3, <1>4, <1>5, <1>6, <1>7

LEMMA ListStep ==
  ASSUME ListInv, [ScreensTabNext]_screensTabVars
  PROVE  ListInv'
<1>1. ASSUME OtherClient PROVE ListInv'
  <2>1. PICK list : InForce(list)
    BY <1>1 DEF OtherClient
  <2>2. ~misled' /\ ListCalm' /\ screens' = list
    BY <1>1, <2>1 DEF OtherClient, InForce, ListInv, ListCalm
  <2>3. TakesNote(list) /\ \A t \in Requests : puts'[t].core = puts[t].core
    BY <2>1, InForceNoted DEF ListInv
  <2>. QED
    BY <2>2, <2>3, InForceStep
<1>2. ASSUME NEW s \in Requests, PutGone(s) PROVE ListInv'
  <2>. DEFINE p == Moved(puts[s], "none", puts[s].page)
  <2>1. /\ puts' = [puts EXCEPT ![s] = p] /\ UNCHANGED <<screens, calm, misled>>
        /\ puts[s].core = "waiting" /\ puts[s].page # "waiting" /\ AllPuts
    BY <1>2 DEF PutGone, ListInv
  <2>2. /\ IsPut(p) /\ p.core = "none" /\ p.page = puts[s].page /\ p.list = puts[s].list
        /\ p.seen = puts[s].seen /\ p.took = puts[s].took
    BY <2>1, MovedShape DEF AllPuts
  <2>. HIDE DEF p
  <2>3. PutMoves(s) /\ puts'[s] = p
    BY <2>1, <2>2, MovesPut
  <2>4. Noticed(s)'
    BY <2>1, <2>2, <2>3 DEF ListInv, Noticed, Free
  <2>5. ListCalm' /\ ~misled'
    BY <2>1 DEF ListInv, ListCalm, Free
  <2>. QED
    BY <2>1, <2>3, <2>4, <2>5, PutStep
<1>3. ASSUME NEW s \in Requests, Saves(s) \/ Removes(s) PROVE ListInv'
  <2>1. PICK list, kind : Sends(s, list, kind)
    BY <1>3 DEF Saves, Removes
  <2>2. UNCHANGED <<screens, shown, read, misled>>
    BY <1>3 DEF Saves, Removes
  <2>. QED
    BY <2>1, <2>2, SendsStep
<1>4. ASSUME screens' = screens, puts' = puts, misled' = misled, ListCalm' PROVE ListInv'
  BY <1>4 DEF ListInv, AllPuts, Noticed, Free
<1>5. CASE UNCHANGED <<screens, puts, shown, read, misled, calm>>
  <2>1. ListCalm'
    BY <1>5 DEF ListInv, ListCalm, Free
  <2>. QED
    BY <1>4, <1>5, <2>1
<1>6. CASE ReadHandled \/ ReadArrives \/ ReadFails
  <2>1. screens' = screens /\ puts' = puts /\ misled' = misled /\ read # NoRead
    BY <1>6 DEF ReadHandled, ReadArrives, ReadFails, listVars, Asked, NoRead
  <2>2. calm => \A s \in Requests : Free(s)
    BY <2>1 DEF ListInv, ListCalm
  <2>3. \A s \in Requests : Free(s) <=> Free(s)'
    BY <2>1 DEF Free
  <2>4. CASE ReadHandled
    <3>1. read' = <<"list", screens>> /\ calm' = calm
      BY <2>4 DEF ReadHandled
    <3>2. read' # NoRead /\ read'[2] = screens
      BY <3>1 DEF NoRead
    <3>. QED
      BY <1>4, <2>1, <2>2, <2>3, <3>1, <3>2 DEF ListCalm
  <2>5. CASE ReadArrives
    <3>1. /\ shown' = read[2] /\ read' = NoRead /\ calm' = calm
          /\ read \notin {NoRead, Asked}
      BY <2>5 DEF ReadArrives
    <3>2. calm => shown' = screens
      BY <2>2, <3>1 DEF ListInv, ListCalm
    <3>. QED
      BY <1>4, <2>1, <2>2, <2>3, <3>1, <3>2 DEF ListCalm
  <2>6. CASE ReadFails
    BY <1>4, <2>1, <2>6 DEF ReadFails, ListCalm
  <2>. QED
    BY <1>6, <2>4, <2>5, <2>6
<1>7. ASSUME \/ Enters \/ ManifestsArrive \/ Cancels \/ Filters \/ OpensEditor \/ Dismissed
             \/ UNCHANGED screensTabVars
      PROVE  UNCHANGED <<screens, puts, shown, read, misled, calm>>
  BY <1>7 DEF Enters, ManifestsArrive, Cancels, Filters, OpensEditor, Dismissed, screensTabVars, listVars
<1>8. CASE \E s \in Requests :
        \/ PutHandled(s) \/ PutGone(s) \/ Saves(s) \/ Removes(s) \/ PutSucceeds(s) \/ PutRefused(s)
        \/ NetworkError(s) \/ CheckHandled(s) \/ CheckSucceeds(s) \/ CheckFails(s)
  BY <1>2, <1>3, <1>8, PutHandledStep, AnswerStep
<1>. QED
  BY <1>1, <1>5, <1>6, <1>7, <1>8 DEF ScreensTabNext

\* What the Screens tab tells of the list is true, for any screens, number of
\* requests and order of their handling, their answers and the lists read back.
THEOREM ListIsTrue == ScreensTabSpec => []ScreensTabTruthful
<1>1. ScreensTabInit => ListInv
  <2>1. /\ IsPut(NoPut) /\ NoPut.core = "none" /\ NoPut.page = "none" /\ ~NoPut.took
    BY DEF IsPut, Put, NoPut
  <2>2. ScreensTabInit => puts = [s \in Requests |-> NoPut] /\ read = Asked /\ ~misled
    BY DEF ScreensTabInit
  <2>3. Asked # NoRead
    BY DEF Asked, NoRead
  <2>. QED
    BY <2>1, <2>2, <2>3 DEF ListInv, AllPuts, Noticed, ListCalm, Free
<1>2. ListInv => ScreensTabTruthful
  BY DEF ListInv, ListCalm, ScreensTabTruthful, NoneInFlight
<1>. QED
  BY <1>1, <1>2, ListStep, PTL DEF ScreensTabSpec
===============================================================================
