---------------------------- MODULE ScheduleProofs ----------------------------
(***************************************************************************)
(* Proofs about the schedule with the tab that edits it, for any lists of  *)
(* rules, any reach of setTimeout and any number of requests and           *)
(* refreshes, and about the session of the control panel.                  *)
(***************************************************************************)
EXTENDS RulesTab, Session, FiniteSetTheorems, TLAPS

Contents(place) == place \in {Absent, Torn} \/ \E list : IsList(list) /\ place = Text(list)

\* A request, with its list and the text of its save.
PutOK(p) ==
  \E step, list, text, at :
    /\ p = [step |-> step, list |-> list, text |-> text, at |-> at]
    /\ IsList(list) /\ IsList(text)

\* All lists under way, in force or in a file are lists.
ListsOK ==
  /\ IsList(rules) /\ Contents(ruleFile) /\ Contents(ruleTmp)
  /\ puts = [s \in Slots |-> puts[s]]
  /\ \A s \in Slots : PutOK(puts[s])

IsTimer(t) == \E rule, at, due, held : t = [rule |-> rule, at |-> at, due |-> due, held |-> held]

\* As long as no list named an id twice: the rules in force do not, and each
\* live timer is the one the map leads to for its rule.
TimersOK ==
  ~repeated => Distinct(rules) /\ (\A t \in timers : IsTimer(t)) /\ TimersFollowRules

-------------------------------------------------------------------------------

\* What is a sequence over some set is a list.
LEMMA ListIs == ASSUME NEW S, NEW list \in Seq(S) PROVE IsList(list)
<1>. DEFINE R == {list[i] : i \in DOMAIN list}
<1>1. Len(list) \in Nat /\ DOMAIN list = 1..Len(list) /\ list = [i \in 1..Len(list) |-> list[i]]
  OBVIOUS
<1>2. \A i \in 1..Len(list) : list[i] \in R
  BY <1>1
<1>. HIDE DEF R
<1>3. list \in Seq(R)
  BY <1>1, <1>2
<1>. QED
  BY <1>3 DEF IsList, R

LEMMA ListIndex ==
  ASSUME NEW list, IsList(list)
  PROVE  DOMAIN list = 1..Len(list) /\ Len(list) \in Nat /\ DOMAIN list \subseteq Int
BY DEF IsList

LEMMA EmptyIsList == IsList(<<>>)
<1>1. <<>> \in Seq({})
  OBVIOUS
<1>. QED
  BY <1>1, ListIs

LEMMA TextList == ASSUME NEW list PROVE Text(list)[2] = list /\ Text(list) \notin {Absent, Torn}
BY DEF Text, Absent, Torn

\* A file that has a text leads to a list, any other to none.
LEMMA LoadedIsList == ASSUME Contents(ruleFile) PROVE IsList(Loaded)
<1>1. CASE ruleFile \in {Absent, Torn}
  BY <1>1, EmptyIsList DEF Loaded
<1>2. CASE ruleFile \notin {Absent, Torn}
  BY <1>2, TextList DEF Loaded, Contents
<1>3. QED
  BY <1>1, <1>2

\* The timers that setRules() makes of a list in which no id comes twice.
Made(list) == {Timer(list[i], InMap(list, i)) : i \in Started(list)}

LEMMA TimerShape ==
  ASSUME NEW rule, NEW held
  PROVE  IsTimer(Timer(rule, held)) /\ Timer(rule, held).rule = rule /\ Timer(rule, held).held = held
BY DEF IsTimer, Timer

LEMMA MadeOnce ==
  ASSUME NEW list, IsList(list), Distinct(list)
  PROVE  /\ \A t \in Made(list) : IsTimer(t) /\ t.held /\ \E i \in Started(list) : t.rule = list[i]
         /\ \A i \in Started(list) : \E t \in Made(list) : t.rule = list[i]
         /\ \A t, u \in Made(list) : t.rule.id = u.rule.id => t = u
<1>1. \A i \in Started(list) : i \in DOMAIN list /\ i \in Int
  BY ListIndex DEF Started
<1>2. \A i \in Started(list) : InMap(list, i) = TRUE
  <2>1. SUFFICES ASSUME NEW i \in Started(list), NEW j \in Started(list), j > i
                 PROVE  list[j].id # list[i].id
    BY DEF InMap
  <2>2. i # j
    BY <1>1, <2>1
  <2>3. QED
    BY <1>1, <2>2 DEF Distinct
<1>3. ASSUME NEW t \in Made(list)
      PROVE  \E i \in Started(list) : t = Timer(list[i], TRUE)
  BY <1>2 DEF Made
<1>4. \A i \in Started(list) : Timer(list[i], TRUE) \in Made(list)
  BY <1>2 DEF Made
<1>5. ASSUME NEW t \in Made(list), NEW u \in Made(list), t.rule.id = u.rule.id
      PROVE  t = u
  <2>1. PICK i \in Started(list) : t = Timer(list[i], TRUE)
    BY <1>3
  <2>2. PICK j \in Started(list) : u = Timer(list[j], TRUE)
    BY <1>3
  <2>3. list[i].id = list[j].id
    BY <1>5, <2>1, <2>2, TimerShape
  <2>4. i = j
    BY <1>1, <2>3 DEF Distinct
  <2>5. QED
    BY <2>1, <2>2, <2>4
<1>6. ASSUME NEW t \in Made(list)
      PROVE  IsTimer(t) /\ t.held /\ \E i \in Started(list) : t.rule = list[i]
  <2>1. PICK i \in Started(list) : t = Timer(list[i], TRUE)
    BY <1>3
  <2>2. QED
    BY <2>1, TimerShape
<1>7. ASSUME NEW i \in Started(list) PROVE \E t \in Made(list) : t.rule = list[i]
  BY <1>4, TimerShape
<1>8. QED
  BY <1>5, <1>6, <1>7

-------------------------------------------------------------------------------
(* Lists *)

LEMMA PutOKMade ==
  ASSUME NEW step, NEW list, NEW text, NEW at, IsList(list), IsList(text)
  PROVE  PutOK([step |-> step, list |-> list, text |-> text, at |-> at])
BY DEF PutOK

LEMMA PutShape ==
  ASSUME NEW step, NEW list, NEW text, IsList(list), IsList(text)
  PROVE  /\ PutOK(Put(step, list, text)) /\ Put(step, list, text).step = step
         /\ Put(step, list, text).text = text /\ Put(step, list, text).at = "tmp"
BY DEF PutOK, Put

LEMMA EmptyPut ==
  PutOK(NoPut) /\ NoPut.step = "idle"
  /\ \A step : PutOK(Put(step, <<>>, <<>>)) /\ Put(step, <<>>, <<>>).step = step
BY PutShape, EmptyIsList DEF NoPut

\* One request moves on, the others stay.
LEMMA OnePut ==
  ASSUME ListsOK, NEW s \in Slots, NEW p, PutOK(p), puts' = [puts EXCEPT ![s] = p]
  PROVE  /\ puts' = [t \in Slots |-> puts'[t]]
         /\ \A t \in Slots : PutOK(puts'[t])
         /\ puts'[s] = p
         /\ \A t \in Slots : t # s => puts'[t] = puts[t]
BY DEF ListsOK

\* Step() leaves an empty request behind, whatever its step.
LEMMA StepPut ==
  ASSUME ListsOK, NEW s \in Slots, NEW step, Step(s, step)
  PROVE  /\ puts' = [t \in Slots |-> puts'[t]]
         /\ \A t \in Slots : PutOK(puts'[t])
         /\ puts'[s].step = step
         /\ \A t \in Slots : t # s => puts'[t] = puts[t]
BY OnePut, EmptyPut DEF Step

LEMMA ListsInit == CronInit => ListsOK
<1>. SUFFICES ASSUME CronInit PROVE ListsOK
  OBVIOUS
<1>1. IsList(rules) /\ Contents(ruleFile) /\ Contents(ruleTmp)
  BY EmptyIsList DEF CronInit, Contents
<1>2. puts = [s \in Slots |-> NoPut]
  BY DEF CronInit
<1>3. QED
  BY <1>1, <1>2, EmptyPut DEF ListsOK

LEMMA SendLists ==
  ASSUME ListsOK, NEW s \in Slots, NEW list, IsList(list), Send(s, list)
  PROVE  ListsOK' /\ puts'[s].step = "sent" /\ \A t \in Slots : t # s => puts'[t] = puts[t]
<1>1. puts' = [puts EXCEPT ![s] = Put("sent", list, <<>>)] /\ UNCHANGED <<rules, ruleFile, ruleTmp>>
  BY DEF Send
<1>2. QED
  BY <1>1, PutShape, EmptyIsList, OnePut DEF ListsOK

LEMMA ReplaceLists ==
  ASSUME ListsOK, NEW s \in Slots, Replace(s)
  PROVE  /\ ListsOK' /\ IsList(puts[s].list)
         /\ puts'[s].step \in {"failed", "mkdir"} /\ \A t \in Slots : t # s => puts'[t] = puts[t]
<1>1. PICK step, list, text, at :
        puts[s] = [step |-> step, list |-> list, text |-> text, at |-> at] /\ IsList(list)
  BY DEF ListsOK, PutOK
<1>2. IsList(puts[s].list)
  BY <1>1
<1>3. PICK next \in {"failed", "mkdir"} : Step(s, next)
  BY DEF Replace
<1>4. IsList(rules')
  BY <1>2 DEF Replace, ListsOK
<1>5. Contents(ruleFile') /\ Contents(ruleTmp')
  BY DEF Replace, ListsOK
<1>6. QED
  BY <1>2, <1>3, <1>4, <1>5, StepPut DEF ListsOK

LEMMA OpensTmpLists ==
  ASSUME ListsOK, NEW s \in Slots, OpensTmp(s)
  PROVE  /\ ListsOK'
         /\ puts'[s].step = "write" /\ puts'[s].text = rules /\ puts'[s].at = "tmp"
         /\ \A t \in Slots : t # s => puts'[t] = puts[t]
<1>1. puts' = [puts EXCEPT ![s] = Put("write", <<>>, rules)] /\ UNCHANGED <<rules, ruleFile>>
  BY DEF OpensTmp
<1>2. Contents(ruleTmp')
  BY DEF OpensTmp, Contents
<1>3. QED
  BY <1>1, <1>2, PutShape, EmptyIsList, OnePut DEF ListsOK

LEMMA WritesTextLists ==
  ASSUME ListsOK, NEW s \in Slots, WritesText(s)
  PROVE  /\ ListsOK' /\ puts'[s].step = "rename" /\ \A t \in Slots : t # s => puts'[t] = puts[t]
<1>1. PICK step, list, text, at :
        puts[s] = [step |-> step, list |-> list, text |-> text, at |-> at] /\ IsList(text)
  BY DEF ListsOK, PutOK
<1>2. IsList(puts[s].text)
  BY <1>1
<1>3. \A place : \A made \in Written(s, place) : Contents(made)
  BY <1>2 DEF Written, Contents
<1>4. Contents(ruleFile') /\ Contents(ruleTmp')
  BY <1>3 DEF WritesText, ListsOK
<1>5. Step(s, "rename") /\ rules' = rules
  BY DEF WritesText
<1>6. QED
  BY <1>4, <1>5, StepPut DEF ListsOK

LEMMA RenamesTmpLists ==
  ASSUME ListsOK, NEW s \in Slots, RenamesTmp(s)
  PROVE  /\ ListsOK' /\ puts'[s].step \in {"failed", "saved"}
         /\ \A t \in Slots : t # s => puts'[t].step = puts[t].step
<1>1. CASE ruleTmp = Absent
  <2>1. Step(s, "failed") /\ UNCHANGED <<rules, ruleFile, ruleTmp>>
    BY <1>1 DEF RenamesTmp
  <2>2. QED
    BY <2>1, StepPut DEF ListsOK
<1>2. CASE ruleTmp # Absent
  <2>. DEFINE p(o) == IF o = s THEN Put("saved", <<>>, <<>>)
                      ELSE IF puts[o].step = "write" THEN [puts[o] EXCEPT !.at = Moved(puts[o].at)]
                      ELSE puts[o]
  <2>1. puts' = [o \in Slots |-> p(o)]
    BY <1>2 DEF RenamesTmp
  <2>2. PutOK(p(s)) /\ p(s).step = "saved"
    BY EmptyPut
  <2>3. ASSUME NEW o \in Slots, o # s PROVE PutOK(p(o)) /\ p(o).step = puts[o].step
    <3>1. PICK step, list, text, at :
            /\ puts[o] = [step |-> step, list |-> list, text |-> text, at |-> at]
            /\ IsList(list) /\ IsList(text)
      BY DEF ListsOK, PutOK
    <3>2. CASE puts[o].step = "write"
      <4>1. p(o) = [puts[o] EXCEPT !.at = Moved(puts[o].at)]
        BY <2>3, <3>2
      <4>2. p(o) = [step |-> step, list |-> list, text |-> text, at |-> Moved(at)]
        BY <3>1, <4>1
      <4>. HIDE DEF p
      <4>3. QED
        BY <3>1, <4>2, PutOKMade
    <3>3. CASE puts[o].step # "write"
      BY <2>3, <3>1, <3>3 DEF PutOK
    <3>4. QED
      BY <3>2, <3>3
  <2>. HIDE DEF p
  <2>4. /\ puts' = [t \in Slots |-> puts'[t]] /\ \A t \in Slots : PutOK(puts'[t])
        /\ puts'[s].step = "saved" /\ \A t \in Slots : t # s => puts'[t].step = puts[t].step
    BY <2>1, <2>2, <2>3
  <2>5. Contents(ruleFile') /\ Contents(ruleTmp') /\ rules' = rules
    BY <1>2 DEF RenamesTmp, ListsOK, Contents
  <2>6. QED
    BY <2>4, <2>5 DEF ListsOK
<1>3. QED
  BY <1>1, <1>2

LEMMA EndsLists ==
  ASSUME ListsOK, NEW s \in Slots, DiskFails(s) \/ Answered(s)
  PROVE  /\ ListsOK' /\ ~Busy(s)' /\ puts'[s].step # "saved" /\ \A t \in Slots : t # s => puts'[t] = puts[t]
<1>1. CASE DiskFails(s)
  <2>1. Step(s, "failed") /\ UNCHANGED <<rules, ruleFile, ruleTmp>>
    BY <1>1 DEF DiskFails
  <2>2. QED
    BY <2>1, StepPut DEF ListsOK, Busy
<1>2. CASE Answered(s)
  <2>1. puts' = [puts EXCEPT ![s] = NoPut] /\ UNCHANGED <<rules, ruleFile, ruleTmp>>
    BY <1>2 DEF Answered
  <2>2. QED
    BY <2>1, OnePut, EmptyPut DEF ListsOK, Busy
<1>3. QED
  BY <1>1, <1>2

LEMMA RestartLists == ASSUME ListsOK, Restart PROVE ListsOK'
<1>1. rules' = Loaded /\ UNCHANGED <<ruleFile, ruleTmp>>
  BY DEF Restart
<1>2. IsList(Loaded)
  BY LoadedIsList DEF ListsOK
<1>. DEFINE p(s) == IF puts[s].step = "idle" THEN NoPut ELSE Put("failed", <<>>, <<>>)
<1>3. puts' = [s \in Slots |-> p(s)]
  BY DEF Restart
<1>4. \A s \in Slots : PutOK(p(s))
  BY EmptyPut
<1>. HIDE DEF p
<1>5. QED
  BY <1>1, <1>2, <1>3, <1>4 DEF ListsOK

\* A step of the schedule, whichever list a client sends.
Sent(s) == \E list : IsList(list) /\ Send(s, list)
AnyNext == Core \/ \E s \in Slots : Answered(s) \/ Sent(s)

LEMMA CronStep == [CronNext]_cronVars => [AnyNext]_cronVars
BY ListsAssumption DEF CronNext, AnyNext, Sent

LEMMA ListsNext ==
  ASSUME ListsOK, [AnyNext]_cronVars
  PROVE  ListsOK'
<1>1. ASSUME NEW s \in Slots, NEW list, IsList(list), Send(s, list) PROVE ListsOK'
  BY <1>1, SendLists
<1>2. ASSUME NEW s \in Slots,
             Replace(s) \/ OpensTmp(s) \/ WritesText(s) \/ RenamesTmp(s) \/ DiskFails(s) \/ Answered(s)
      PROVE  ListsOK'
  BY <1>2, ReplaceLists, OpensTmpLists, WritesTextLists, RenamesTmpLists, EndsLists
<1>3. ASSUME NEW t \in timers, Fires(t) PROVE ListsOK'
  BY <1>3 DEF Fires, ListsOK
<1>4. CASE ClockTicks \/ UNCHANGED cronVars
  BY <1>4 DEF ClockTicks, cronVars, ListsOK
<1>5. QED
  BY <1>1, <1>2, <1>3, <1>4, RestartLists DEF AnyNext, Core, Sent

-------------------------------------------------------------------------------
(* Timers *)

LEMMA ReplaceTimers ==
  ASSUME TimersOK, NEW s \in Slots, IsList(puts[s].list), Replace(s)
  PROVE  TimersOK'
<1>. DEFINE list == puts[s].list
<1>1. CASE Accepted(list)
  <2>1. rules' = list /\ timers' = Uncleared \cup Made(list) /\ repeated' = (repeated \/ ~Distinct(list))
    BY <1>1 DEF Replace, SetRules, Made
  <2>2. SUFFICES ASSUME ~repeated' PROVE TimersOK'
    BY DEF TimersOK
  <2>3. Distinct(list) /\ Uncleared = {}
    BY <2>1, <2>2 DEF TimersOK, TimersFollowRules, Uncleared
  <2>. HIDE DEF list
  <2>4. rules' = list /\ timers' = Made(list)
    BY <2>1, <2>3
  <2>5. IsList(list)
    BY DEF list
  <2>6. QED
    BY <2>3, <2>4, <2>5, MadeOnce DEF TimersOK, TimersFollowRules
<1>2. CASE ~Accepted(list)
  BY <1>2 DEF Replace, TimersOK, TimersFollowRules
<1>3. QED
  BY <1>1, <1>2

\* A timer that calls back is replaced by the next one of its rule; those of
\* other rules stay as they are.
LEMMA FiresTimers == ASSUME TimersOK, NEW t \in timers, Fires(t) PROVE TimersOK'
<1>1. /\ timers' = Forgotten(timers \ {t}, t.rule.id) \cup {Timer(t.rule, TRUE)}
      /\ rules' = rules /\ repeated' = repeated
  BY DEF Fires, ScheduleNext
<1>2. SUFFICES ASSUME ~repeated PROVE TimersOK'
  BY <1>1 DEF TimersOK
<1>3. /\ Distinct(rules) /\ \A u \in timers : IsTimer(u) /\ u.held
      /\ \A u \in timers : u # t => u.rule.id # t.rule.id
  BY <1>2 DEF TimersOK, TimersFollowRules
<1>4. ASSUME NEW u \in timers \ {t} PROVE [u EXCEPT !.held = u.held /\ u.rule.id # t.rule.id] = u
  <2>1. PICK rule, at, due, held : u = [rule |-> rule, at |-> at, due |-> due, held |-> held]
    BY <1>3 DEF IsTimer
  <2>2. u.rule.id # t.rule.id /\ u.held
    BY <1>3
  <2>3. CASE u.held = TRUE
    <3>1. (u.held /\ u.rule.id # t.rule.id) = TRUE
      BY <2>2
    <3>2. QED
      BY <2>1, <2>3, <3>1
  <2>4. QED
    BY <2>2, <2>3
<1>5. Forgotten(timers \ {t}, t.rule.id) = timers \ {t}
  BY <1>4 DEF Forgotten
<1>6. timers' = (timers \ {t}) \cup {Timer(t.rule, TRUE)}
  BY <1>1, <1>5
<1>7. IsTimer(Timer(t.rule, TRUE)) /\ Timer(t.rule, TRUE).rule = t.rule /\ Timer(t.rule, TRUE).held = TRUE
  BY TimerShape
<1>8. /\ \A i \in Started(rules) : \E u \in timers : u.rule = rules[i]
      /\ \A u \in timers : \E i \in Started(rules) : u.rule = rules[i]
  BY <1>2 DEF TimersOK, TimersFollowRules
<1>9. ASSUME NEW u \in timers'
      PROVE  IsTimer(u) /\ u.held /\ \E i \in Started(rules) : u.rule = rules[i]
  BY <1>3, <1>6, <1>7, <1>8
<1>10. ASSUME NEW i \in Started(rules) PROVE \E u \in timers' : u.rule = rules[i]
  BY <1>6, <1>7, <1>8
<1>11. ASSUME NEW u \in timers', NEW v \in timers', u.rule.id = v.rule.id PROVE u = v
  <2>1. \A w \in timers \ {t} : w.rule.id # t.rule.id
    BY <1>3
  <2>2. \A w, x \in timers : w.rule.id = x.rule.id => w = x
    BY <1>2 DEF TimersOK, TimersFollowRules
  <2>3. QED
    BY <1>6, <1>7, <1>11, <2>1, <2>2
<1>12. QED
  BY <1>1, <1>3, <1>9, <1>10, <1>11 DEF TimersOK, TimersFollowRules

LEMMA RestartTimers == ASSUME IsList(Loaded), Restart PROVE TimersOK'
<1>1. rules' = Loaded /\ timers' = Made(Loaded) /\ repeated' = ~Distinct(Loaded)
  BY DEF Restart, Made
<1>2. SUFFICES ASSUME ~repeated' PROVE TimersOK'
  BY DEF TimersOK
<1>3. Distinct(Loaded)
  BY <1>1, <1>2
<1>4. QED
  BY <1>1, <1>3, MadeOnce DEF TimersOK, TimersFollowRules

LEMMA TimersNext == ASSUME ListsOK, TimersOK, [AnyNext]_cronVars PROVE TimersOK'
<1>1. ASSUME NEW s \in Slots, Replace(s) PROVE TimersOK'
  BY <1>1, ReplaceLists, ReplaceTimers
<1>2. ASSUME NEW t \in timers, Fires(t) PROVE TimersOK'
  BY <1>2, FiresTimers
<1>3. CASE Restart
  BY <1>3, LoadedIsList, RestartTimers DEF ListsOK
<1>4. ASSUME UNCHANGED <<rules, timers, repeated>> PROVE TimersOK'
  BY <1>4 DEF TimersOK, TimersFollowRules
<1>5. ASSUME NEW s \in Slots,
             \/ OpensTmp(s) \/ WritesText(s) \/ RenamesTmp(s) \/ DiskFails(s) \/ Answered(s)
             \/ Sent(s)
      PROVE  TimersOK'
  BY <1>4, <1>5 DEF OpensTmp, WritesText, RenamesTmp, DiskFails, Answered, Sent, Send
<1>6. CASE ClockTicks \/ UNCHANGED cronVars
  BY <1>4, <1>6 DEF ClockTicks, cronVars
<1>7. QED
  BY <1>1, <1>2, <1>3, <1>5, <1>6 DEF AnyNext, Core

LEMMA TimersInit == CronInit => TimersOK
<1>1. ASSUME CronInit PROVE Distinct(rules) /\ timers = {} /\ Started(rules) = {}
  BY <1>1 DEF CronInit, Distinct, Started
<1>. QED
  BY <1>1 DEF TimersOK, TimersFollowRules

\* For any rules and requests, in any interleaving of their saves, disk errors
\* and restarts: as long as no list names an id twice, the live timers are
\* those of the enabled rules in force, one each.
THEOREM TimersAreThoseOfRules == CronSpec => []TimersFollowRules
<1>. DEFINE Inv == ListsOK /\ TimersOK
<1>1. CronInit => Inv
  BY TimersInit, ListsInit
<1>2. Inv /\ [CronNext]_cronVars => Inv'
  BY CronStep, ListsNext, TimersNext
<1>3. Inv => TimersFollowRules
  BY DEF TimersOK, TimersFollowRules
<1>4. QED
  BY <1>1, <1>2, <1>3, PTL DEF CronSpec

-------------------------------------------------------------------------------
(* Saves *)

\* How far a save has come that met no other request, and what it has done.
SaveAt(s) ==
  /\ puts[s].step = "write" => puts[s].at = "tmp" /\ puts[s].text = rules /\ ruleTmp = Torn
  /\ puts[s].step = "rename" => ruleTmp = Text(rules)
  /\ puts[s].step = "saved" => ruleFile = Text(rules)

SavesOK ==
  \A s \in alone : s \in Slots /\ (\A o \in Slots \ {s} : ~Busy(o)) /\ SaveAt(s)

\* A step that ends a request, begins one or has it refused does not harm the
\* save of another one.
LEMMA Harmless ==
  ASSUME SavesOK, UNCHANGED <<rules, ruleFile, ruleTmp, alone>>, NEW s \in Slots,
         puts'[s].step \in {"idle", "sent", "failed"},
         \A t \in Slots : t # s => puts'[t] = puts[t]
  PROVE  SavesOK'
BY DEF SavesOK, SaveAt, Busy

LEMMA ReplaceSaves == ASSUME ListsOK, SavesOK, NEW s \in Slots, Replace(s) PROVE SavesOK'
<1>1. puts'[s].step \in {"failed", "mkdir"} /\ \A t \in Slots : t # s => puts'[t] = puts[t]
  BY ReplaceLists
<1>2. CASE Accepted(puts[s].list)
  <2>1. alone' = {t \in {s} : \A o \in Slots : ~Busy(o)}
    BY <1>2 DEF Replace
  <2>2. ASSUME NEW t \in alone' PROVE t = s /\ \A o \in Slots \ {t} : ~Busy(o)'
    BY <1>1, <2>1 DEF Busy
  <2>3. SaveAt(s)'
    BY <1>1 DEF SaveAt
  <2>4. QED
    BY <2>2, <2>3 DEF SavesOK
<1>3. CASE ~Accepted(puts[s].list)
  <2>1. Step(s, "failed") /\ UNCHANGED <<rules, ruleFile, ruleTmp, alone>>
    BY <1>3 DEF Replace
  <2>2. puts'[s].step = "failed"
    BY <2>1, StepPut
  <2>3. QED
    BY <1>1, <2>1, <2>2, Harmless
<1>4. QED
  BY <1>2, <1>3

\* Only the save itself can be busy, so it is the one that takes a step.
LEMMA SaverOnly ==
  ASSUME SavesOK, NEW s \in Slots, Busy(s), NEW t \in alone
  PROVE  t = s /\ SaveAt(s) /\ \A o \in Slots \ {s} : ~Busy(o)
BY DEF SavesOK

LEMMA SavedStep ==
  ASSUME SavesOK, NEW s \in Slots, Busy(s), alone' = alone,
         \A t \in Slots : t # s => puts'[t].step = puts[t].step,
         s \in alone => SaveAt(s)'
  PROVE  SavesOK'
BY SaverOnly DEF SavesOK, Busy

LEMMA OpensTmpSaves == ASSUME ListsOK, SavesOK, NEW s \in Slots, OpensTmp(s) PROVE SavesOK'
<1>1. /\ puts'[s].step = "write" /\ puts'[s].text = rules /\ puts'[s].at = "tmp"
      /\ \A t \in Slots : t # s => puts'[t] = puts[t]
  BY OpensTmpLists
<1>2. ruleTmp' = Torn /\ UNCHANGED <<rules, alone>> /\ Busy(s)
  BY DEF OpensTmp, Busy
<1>3. SaveAt(s)'
  BY <1>1, <1>2 DEF SaveAt
<1>4. QED
  BY <1>1, <1>2, <1>3, SavedStep

LEMMA WritesTextSaves == ASSUME ListsOK, SavesOK, NEW s \in Slots, WritesText(s) PROVE SavesOK'
<1>1. puts'[s].step = "rename" /\ \A t \in Slots : t # s => puts'[t] = puts[t]
  BY WritesTextLists
<1>2. UNCHANGED <<rules, alone>> /\ Busy(s) /\ puts[s].step = "write"
  BY DEF WritesText, Busy
<1>3. ASSUME s \in alone PROVE ruleTmp' = Text(rules)
  <2>1. puts[s].at = "tmp" /\ puts[s].text = rules /\ ruleTmp = Torn
    BY <1>2, <1>3 DEF SavesOK, SaveAt
  <2>2. ruleTmp' \in Written(s, ruleTmp)
    BY <2>1 DEF WritesText
  <2>3. QED
    BY <2>1, <2>2 DEF Written
<1>4. s \in alone => SaveAt(s)'
  BY <1>1, <1>2, <1>3 DEF SaveAt
<1>5. QED
  BY <1>1, <1>2, <1>4, SavedStep

LEMMA RenamesTmpSaves == ASSUME ListsOK, SavesOK, NEW s \in Slots, RenamesTmp(s) PROVE SavesOK'
<1>1. puts'[s].step \in {"failed", "saved"} /\ \A t \in Slots : t # s => puts'[t].step = puts[t].step
  BY RenamesTmpLists
<1>2. UNCHANGED <<rules, alone>> /\ Busy(s) /\ puts[s].step = "rename"
  BY DEF RenamesTmp, Busy
<1>3. ASSUME s \in alone PROVE ruleFile' = Text(rules)
  <2>1. ruleTmp = Text(rules)
    BY <1>2, <1>3 DEF SavesOK, SaveAt
  <2>2. QED
    BY <2>1, TextList DEF RenamesTmp
<1>4. s \in alone => SaveAt(s)'
  BY <1>1, <1>2, <1>3 DEF SaveAt
<1>5. QED
  BY <1>1, <1>2, <1>4, SavedStep

LEMMA SavesNext ==
  ASSUME ListsOK, SavesOK, [AnyNext]_cronVars
  PROVE  SavesOK'
<1>1. ASSUME NEW s \in Slots, NEW list, IsList(list), Send(s, list) PROVE SavesOK'
  <2>1. puts'[s].step = "sent" /\ \A t \in Slots : t # s => puts'[t] = puts[t]
    BY <1>1, SendLists
  <2>2. UNCHANGED <<rules, ruleFile, ruleTmp, alone>>
    BY <1>1 DEF Send
  <2>3. QED
    BY <2>1, <2>2, Harmless
<1>2. ASSUME NEW s \in Slots, DiskFails(s) PROVE SavesOK'
  <2>1. Step(s, "failed") /\ UNCHANGED <<rules, ruleFile, ruleTmp, alone>>
    BY <1>2 DEF DiskFails
  <2>2. QED
    BY <2>1, StepPut, Harmless
<1>3. ASSUME NEW s \in Slots, Answered(s) PROVE SavesOK'
  <2>1. puts' = [puts EXCEPT ![s] = NoPut] /\ UNCHANGED <<rules, ruleFile, ruleTmp, alone>>
    BY <1>3 DEF Answered
  <2>2. puts'[s].step = "idle" /\ \A t \in Slots : t # s => puts'[t] = puts[t]
    BY <2>1, OnePut, EmptyPut
  <2>3. QED
    BY <2>1, <2>2, Harmless
<1>4. CASE Restart
  BY <1>4 DEF Restart, SavesOK
<1>5. ASSUME UNCHANGED <<rules, ruleFile, ruleTmp, alone, puts>> PROVE SavesOK'
  BY <1>5 DEF SavesOK, SaveAt, Busy
<1>6. ASSUME NEW t \in timers, Fires(t) PROVE SavesOK'
  BY <1>5, <1>6 DEF Fires
<1>7. CASE ClockTicks \/ UNCHANGED cronVars
  BY <1>5, <1>7 DEF ClockTicks, cronVars
<1>8. QED
  BY <1>1, <1>2, <1>3, <1>4, <1>6, <1>7, ReplaceSaves, OpensTmpSaves, WritesTextSaves, RenamesTmpSaves
  DEF AnyNext, Core, Sent

\* For any rules, requests, disk errors and restarts: a save that met no other
\* request and was answered with success has the rules in force on disk.
THEOREM SavedOnDisk == CronSpec => []RulesSaved
<1>. DEFINE Inv == ListsOK /\ SavesOK
<1>1. CronInit => Inv
  BY ListsInit DEF CronInit, SavesOK
<1>2. Inv /\ [CronNext]_cronVars => Inv'
  BY CronStep, ListsNext, SavesNext
<1>3. Inv => RulesSaved
  BY DEF SavesOK, SaveAt, RulesSaved
<1>4. QED
  BY <1>1, <1>2, <1>3, PTL DEF CronSpec

-------------------------------------------------------------------------------
(* The tab *)

\* What the page shows is a list, and so is an answer on its way.
PageLists ==
  /\ IsList(listed)
  /\ reads = [r \in ReadSlots |-> reads[r]] /\ asks = [s \in Slots |-> asks[s]]
  /\ \A r \in ReadSlots : reads[r] \in {Unasked, Asked} \/ \E list : IsList(list) /\ reads[r] = Text(list)

\* As long as all is calm, a change is the page's own, the only one, and there
\* is no refresh next to it; an answer on its way has the rules in force.
CalmInv ==
  calm =>
    /\ \A s \in Slots : puts[s].step # "idle" =>
         asks[s] # Elsewhere /\ NoReads /\ \A t \in Slots \ {s} : puts[t].step = "idle"
    /\ \A r \in ReadSlots : reads[r] \in {Unasked, Asked, Text(rules)}
    /\ PageShowsRules

TabInv == ListsOK /\ PageLists /\ CalmInv

LEMMA ReadTexts ==
  ASSUME NEW list
  PROVE  Text(list) # Unasked /\ Text(list) # Asked /\ Asked # Unasked /\ Text(list)[2] = list
BY DEF Text, Asked, Unasked

\* The list the page sends for a rule that is entered or switched.
LEMMA MergedIsList == ASSUME IsList(listed), NEW rule PROVE IsList(Merged(rule))
<1>. DEFINE S == {listed[i] : i \in DOMAIN listed} \cup {rule}
<1>1. listed \in Seq(S)
  <2>1. listed \in Seq({listed[i] : i \in DOMAIN listed})
    BY DEF IsList
  <2>. QED
    BY <2>1
<1>2. rule \in S
  OBVIOUS
<1>3. Len(listed) \in Nat /\ DOMAIN listed = 1..Len(listed) /\ \A i \in 1..Len(listed) : listed[i] \in S
  BY <1>1
<1>. HIDE DEF S
<1>4. Append(listed, rule) \in Seq(S)
  BY <1>1, <1>2
<1>5. [i \in 1..Len(listed) |-> IF listed[i].id = rule.id THEN rule ELSE listed[i]] \in Seq(S)
  BY <1>2, <1>3
<1>6. Merged(rule) \in Seq(S)
  BY <1>3, <1>4, <1>5 DEF Merged
<1>. QED
  BY <1>6, ListIs

\* The list without a rule.
LEMMA WithoutIsList == ASSUME IsList(listed), NEW id PROVE IsList(Without(listed, id))
<1>. DEFINE kept == {i \in DOMAIN listed : listed[i].id # id}
            n == Cardinality(kept)
            Nth(k) == CHOOSE i \in kept : Cardinality({j \in kept : j <= i}) = k
            S == {listed[Nth(k)] : k \in 1..n}
<1>1. IsFiniteSet(1..Len(listed)) /\ kept \subseteq 1..Len(listed)
  <2>1. Len(listed) \in Nat /\ DOMAIN listed = 1..Len(listed)
    BY ListIndex
  <2>2. IsFiniteSet(1..Len(listed))
    BY <2>1, FS_Interval
  <2>. QED
    BY <2>1, <2>2
<1>2. n \in Nat
  <2>. HIDE DEF kept
  <2>. QED
    BY <1>1, FS_Subset, FS_CardinalityType
<1>3. Without(listed, id) = [k \in 1..n |-> listed[Nth(k)]]
  BY DEF Without
<1>4. \A k \in 1..n : listed[Nth(k)] \in S
  OBVIOUS
<1>. HIDE DEF S, Nth, n
<1>5. Without(listed, id) \in Seq(S)
  BY <1>2, <1>3, <1>4
<1>. QED
  BY <1>5, ListIs

\* A refresh asks once more.
LEMMA RefreshAsks ==
  ASSUME PageLists, Refresh
  PROVE  /\ reads' = [r \in ReadSlots |-> reads'[r]]
         /\ \A r \in ReadSlots : reads'[r] = reads[r] \/ reads'[r] = Asked
         /\ \E r \in ReadSlots : reads'[r] = Asked
BY DEF Refresh, PageLists

\* One refresh moves on.
LEMMA OneRead ==
  ASSUME PageLists, NEW r \in ReadSlots, NEW v, reads' = [reads EXCEPT ![r] = v]
  PROVE  /\ reads' = [q \in ReadSlots |-> reads'[q]]
         /\ reads'[r] = v /\ \A q \in ReadSlots : q # r => reads'[q] = reads[q]
BY DEF PageLists

\* What the page asks of the core is a list.
LEMMA AsksSend ==
  ASSUME PageLists, NEW s \in Slots, Toggles(s) \/ Removes(s) \/ EditorSaves(s)
  PROVE  \E list, what : IsList(list) /\ what \in {"save", "remove"} /\ Asks(s, list, what)
<1>1. CASE Toggles(s)
  BY <1>1, MergedIsList DEF Toggles, PageLists
<1>2. CASE Removes(s)
  BY <1>2, WithoutIsList DEF Removes, PageLists
<1>3. CASE EditorSaves(s)
  BY <1>3, MergedIsList DEF EditorSaves, PageLists
<1>. QED
  BY <1>1, <1>2, <1>3

\* The tab and the other clients only take the steps of the schedule.
LEMMA TabStep == ASSUME PageLists, [TabNext]_tabVars PROVE [AnyNext]_cronVars
<1>1. ASSUME NEW s \in Slots, Toggles(s) \/ Removes(s) \/ EditorSaves(s) PROVE AnyNext
  BY <1>1, AsksSend DEF Asks, AnyNext, Sent
<1>2. ASSUME NEW s \in Slots, PutAnswered(s) \/ PutTimesOut(s) \/ OtherClient(s)
      PROVE  [AnyNext]_cronVars
  BY <1>2, ListsAssumption DEF PutAnswered, PutTimesOut, OtherClient, AnyNext, Sent
<1>3. ASSUME NEW r \in ReadSlots, ReadHandled(r) \/ ReadArrives(r) \/ ReadFails(r)
      PROVE  UNCHANGED cronVars
  BY <1>3 DEF ReadHandled, ReadArrives, ReadFails
<1>4. CASE Opens \/ OpensEditor \/ EditorCancelled \/ Dismissed
  BY <1>4 DEF Opens, OpensEditor, EditorCancelled, Dismissed
<1>5. CASE CoreSteps
  BY <1>5 DEF CoreSteps, AnyNext
<1>6. CASE UNCHANGED tabVars
  BY <1>6 DEF tabVars
<1>. QED
  BY <1>1, <1>2, <1>3, <1>4, <1>5, <1>6 DEF TabNext

LEMMA PageNext == ASSUME ListsOK, PageLists, [TabNext]_tabVars PROVE PageLists'
<1>1. ASSUME NEW r \in ReadSlots, ReadHandled(r) PROVE PageLists'
  <2>1. reads' = [reads EXCEPT ![r] = Text(rules)] /\ UNCHANGED <<listed, asks>>
    BY <1>1 DEF ReadHandled
  <2>2. IsList(rules)
    BY DEF ListsOK
  <2>. QED
    BY <2>1, <2>2, OneRead DEF PageLists
<1>2. ASSUME NEW r \in ReadSlots, ReadArrives(r) PROVE PageLists'
  <2>1. reads' = [reads EXCEPT ![r] = Unasked] /\ listed' = reads[r][2] /\ UNCHANGED asks
    BY <1>2 DEF ReadArrives
  <2>2. PICK list : IsList(list) /\ reads[r] = Text(list)
    BY <1>2 DEF ReadArrives, PageLists
  <2>3. IsList(listed')
    BY <2>1, <2>2, ReadTexts
  <2>. QED
    BY <2>1, <2>3, OneRead DEF PageLists
<1>3. ASSUME NEW r \in ReadSlots, ReadFails(r) PROVE PageLists'
  <2>1. reads' = [reads EXCEPT ![r] = Unasked] /\ UNCHANGED <<listed, asks>>
    BY <1>3 DEF ReadFails
  <2>. QED
    BY <2>1, OneRead DEF PageLists
<1>4. ASSUME NEW s \in Slots, Toggles(s) \/ Removes(s) \/ EditorSaves(s) PROVE PageLists'
  <2>1. PICK what : asks' = [asks EXCEPT ![s] = what] /\ UNCHANGED <<listed, reads>>
    BY <1>4, AsksSend DEF Asks
  <2>. QED
    BY <2>1 DEF PageLists
<1>5. ASSUME NEW s \in Slots, PutAnswered(s) PROVE PageLists'
  <2>1. asks' = [asks EXCEPT ![s] = Elsewhere] /\ UNCHANGED listed
    BY <1>5 DEF PutAnswered
  <2>2. /\ reads' = [r \in ReadSlots |-> reads'[r]]
        /\ \A r \in ReadSlots : reads'[r] = reads[r] \/ reads'[r] = Asked
    BY <1>5, RefreshAsks DEF PutAnswered, PageLists
  <2>. QED
    BY <2>1, <2>2 DEF PageLists
<1>6. ASSUME NEW s \in Slots, PutTimesOut(s) \/ OtherClient(s) PROVE PageLists'
  BY <1>6 DEF PutTimesOut, OtherClient, PageLists
<1>7. CASE Opens
  <2>1. IsList(listed') /\ UNCHANGED asks
    BY <1>7, EmptyIsList DEF Opens
  <2>2. /\ reads' = [r \in ReadSlots |-> reads'[r]]
        /\ \A r \in ReadSlots : reads'[r] = reads[r] \/ reads'[r] = Asked
    BY <1>7, RefreshAsks DEF Opens
  <2>. QED
    BY <2>1, <2>2 DEF PageLists
<1>8. CASE OpensEditor \/ EditorCancelled \/ Dismissed \/ CoreSteps \/ UNCHANGED tabVars
  BY <1>8 DEF OpensEditor, EditorCancelled, Dismissed, CoreSteps, tabVars, pageVars, PageLists
<1>. QED
  BY <1>1, <1>2, <1>3, <1>4, <1>5, <1>6, <1>7, <1>8 DEF TabNext

\* A step of the core leaves idle requests idle; the rules change only with a
\* request or a restart, and no step ends a request of the page's.
LEMMA CoreKeeps ==
  ASSUME ListsOK, Core, ~Restart
  PROVE  /\ \A s \in Slots : puts[s].step = "idle" <=> puts'[s].step = "idle"
         /\ Quiet => rules' = rules
<1>1. ASSUME NEW s \in Slots, Replace(s) \/ OpensTmp(s) \/ WritesText(s) \/ RenamesTmp(s) \/ DiskFails(s)
      PROVE  /\ puts[s].step # "idle" /\ puts'[s].step # "idle"
             /\ \A t \in Slots : t # s => puts'[t].step = puts[t].step
  <2>1. puts[s].step # "idle"
    BY <1>1 DEF Replace, OpensTmp, WritesText, RenamesTmp, DiskFails, Busy
  <2>2. CASE DiskFails(s)
    BY <2>1, <2>2, StepPut DEF DiskFails
  <2>3. CASE Replace(s) \/ OpensTmp(s) \/ WritesText(s) \/ RenamesTmp(s)
    BY <2>1, <2>3, ReplaceLists, OpensTmpLists, WritesTextLists, RenamesTmpLists
  <2>. QED
    BY <1>1, <2>2, <2>3
<1>2. CASE \E s \in Slots :
             Replace(s) \/ OpensTmp(s) \/ WritesText(s) \/ RenamesTmp(s) \/ DiskFails(s)
  BY <1>1, <1>2 DEF Quiet
<1>3. CASE (\E t \in timers : Fires(t)) \/ ClockTicks
  BY <1>3 DEF Fires, ClockTicks
<1>. QED
  BY <1>2, <1>3 DEF Core

LEMMA AnswersIdle ==
  ASSUME ListsOK, NEW s \in Slots, Answered(s)
  PROVE  /\ puts[s].step # "idle" /\ puts'[s].step = "idle" /\ rules' = rules
         /\ \A t \in Slots : t # s => puts'[t] = puts[t]
<1>1. puts' = [puts EXCEPT ![s] = NoPut] /\ puts[s].step # "idle" /\ rules' = rules
  BY DEF Answered
<1>. QED
  BY <1>1, OnePut, EmptyPut

LEMMA CalmNext == ASSUME TabInv, [TabNext]_tabVars PROVE CalmInv'
<1>. USE DEF TabInv
<1>1. ASSUME NEW r \in ReadSlots, ReadHandled(r) PROVE CalmInv'
  <2>1. /\ reads' = [reads EXCEPT ![r] = Text(rules)] /\ reads[r] = Asked
        /\ UNCHANGED <<puts, rules, listed, asks, calm>>
    BY <1>1 DEF ReadHandled, cronVars
  <2>2. reads'[r] = Text(rules) /\ \A q \in ReadSlots : q # r => reads'[q] = reads[q]
    BY <2>1, OneRead
  <2>3. ~NoReads /\ ~NoReads'
    BY <2>1, <2>2, ReadTexts DEF NoReads
  <2>. QED
    BY <2>1, <2>2, <2>3 DEF CalmInv, PageShowsRules
<1>2. ASSUME NEW r \in ReadSlots, ReadArrives(r) PROVE CalmInv'
  <2>1. /\ reads' = [reads EXCEPT ![r] = Unasked] /\ reads[r] \notin {Unasked, Asked}
        /\ listed' = reads[r][2] /\ UNCHANGED <<puts, rules, asks, calm>>
    BY <1>2 DEF ReadArrives, cronVars
  <2>2. reads'[r] = Unasked /\ \A q \in ReadSlots : q # r => reads'[q] = reads[q]
    BY <2>1, OneRead
  <2>3. ~NoReads
    BY <2>1 DEF NoReads
  <2>4. calm => listed' = rules
    BY <2>1, ReadTexts DEF CalmInv
  <2>. QED
    BY <2>1, <2>2, <2>3, <2>4 DEF CalmInv, PageShowsRules
<1>3. ASSUME ~calm' PROVE CalmInv'
  BY <1>3 DEF CalmInv
<1>4. ASSUME NEW s \in Slots, Toggles(s) \/ Removes(s) \/ EditorSaves(s) PROVE CalmInv'
  <2>1. PICK list, what : IsList(list) /\ what \in {"save", "remove"} /\ Asks(s, list, what)
    BY <1>4, AsksSend
  <2>2. Send(s, list) /\ asks' = [asks EXCEPT ![s] = what] /\ calm' = (calm /\ Quiet /\ NoReads)
        /\ UNCHANGED <<listed, reads>>
    BY <2>1 DEF Asks
  <2>3. puts'[s].step = "sent" /\ \A t \in Slots : t # s => puts'[t] = puts[t]
    BY <2>1, <2>2, SendLists
  <2>4. asks'[s] # Elsewhere
    BY <2>1, <2>2 DEF PageLists, Elsewhere
  <2>. SUFFICES ASSUME calm' PROVE CalmInv'
    BY <1>3
  <2>5. Quiet /\ NoReads /\ NoReads'
    BY <2>2 DEF NoReads
  <2>6. ~Quiet'
    BY <2>3 DEF Quiet
  <2>7. \A r \in ReadSlots : reads'[r] = Unasked
    BY <2>5 DEF NoReads
  <2>. QED
    BY <2>3, <2>4, <2>5, <2>6, <2>7 DEF CalmInv, PageShowsRules, Quiet
<1>5. ASSUME NEW s \in Slots, PutAnswered(s) PROVE CalmInv'
  <2>. SUFFICES ASSUME calm' PROVE CalmInv'
    BY <1>3
  <2>1. Answered(s) /\ calm /\ Refresh /\ UNCHANGED listed
    BY <1>5 DEF PutAnswered
  <2>2. /\ puts[s].step # "idle" /\ puts'[s].step = "idle" /\ rules' = rules
        /\ \A t \in Slots : t # s => puts'[t] = puts[t]
    BY <2>1, AnswersIdle
  <2>3. NoReads /\ \A t \in Slots : puts'[t].step = "idle"
    BY <2>1, <2>2 DEF CalmInv
  <2>4. /\ \A r \in ReadSlots : reads'[r] \in {Unasked, Asked}
        /\ \E r \in ReadSlots : reads'[r] = Asked
    BY <2>1, <2>3, RefreshAsks DEF NoReads
  <2>5. ~NoReads'
    BY <2>4, ReadTexts DEF NoReads
  <2>. QED
    BY <2>3, <2>4, <2>5 DEF CalmInv, PageShowsRules
<1>6. ASSUME NEW s \in Slots, PutTimesOut(s) \/ OtherClient(s) PROVE CalmInv'
  BY <1>3, <1>6 DEF PutTimesOut, OtherClient
<1>7. ASSUME NEW r \in ReadSlots, ReadFails(r) PROVE CalmInv'
  BY <1>3, <1>7 DEF ReadFails
<1>8. CASE Opens
  <2>1. Quiet /\ NoReads /\ Refresh /\ UNCHANGED <<puts, rules>>
    BY <1>8 DEF Opens, cronVars
  <2>2. /\ \A r \in ReadSlots : reads'[r] \in {Unasked, Asked}
        /\ \E r \in ReadSlots : reads'[r] = Asked
    BY <2>1, RefreshAsks DEF NoReads
  <2>3. ~NoReads'
    BY <2>2, ReadTexts DEF NoReads
  <2>. QED
    BY <2>1, <2>2, <2>3 DEF CalmInv, PageShowsRules, Quiet
<1>9. CASE OpensEditor \/ EditorCancelled \/ Dismissed \/ UNCHANGED tabVars
  <2>1. UNCHANGED <<puts, rules, listed, reads, asks, calm>>
    BY <1>9 DEF OpensEditor, EditorCancelled, Dismissed, tabVars, cronVars, pageVars
  <2>. QED
    BY <2>1 DEF CalmInv, PageShowsRules, Quiet, NoReads
<1>10. CASE CoreSteps
  <2>1. Core /\ calm' = (calm /\ ~Restart) /\ UNCHANGED <<listed, reads, asks>>
    BY <1>10 DEF CoreSteps
  <2>. SUFFICES ASSUME calm' PROVE CalmInv'
    BY <1>3
  <2>2. calm /\ ~Restart
    BY <2>1
  <2>3. /\ \A s \in Slots : puts[s].step = "idle" <=> puts'[s].step = "idle"
        /\ Quiet => rules' = rules
    BY <2>1, <2>2, CoreKeeps
  <2>4. (Quiet <=> Quiet') /\ (NoReads <=> NoReads')
    BY <2>1, <2>3 DEF Quiet, NoReads
  <2>5. ~Quiet => NoReads
    BY <2>2 DEF Quiet, CalmInv
  <2>6. \A r \in ReadSlots : reads'[r] \in {Unasked, Asked, Text(rules')}
    BY <2>1, <2>2, <2>3, <2>5 DEF CalmInv, NoReads
  <2>7. \A s \in Slots : puts'[s].step # "idle" =>
          asks'[s] # Elsewhere /\ NoReads' /\ \A t \in Slots \ {s} : puts'[t].step = "idle"
    BY <2>1, <2>2, <2>3, <2>4 DEF CalmInv
  <2>8. PageShowsRules'
    BY <2>1, <2>2, <2>3, <2>4 DEF CalmInv, PageShowsRules
  <2>. QED
    BY <2>6, <2>7, <2>8 DEF CalmInv
<1>. QED
  BY <1>1, <1>2, <1>4, <1>5, <1>6, <1>7, <1>8, <1>9, <1>10 DEF TabNext

LEMMA TabStarts == TabInit => TabInv
<1>. SUFFICES ASSUME TabInit PROVE TabInv
  OBVIOUS
<1>1. ListsOK
  BY ListsInit DEF TabInit
<1>2. PageLists
  BY EmptyIsList DEF TabInit, PageLists
<1>3. Quiet /\ \A r \in ReadSlots : reads[r] = Asked
  BY DEF TabInit, CronInit, Quiet, NoPut, Put
<1>4. listed = rules
  BY DEF TabInit, CronInit
<1>. QED
  BY <1>1, <1>2, <1>3, <1>4 DEF TabInv, CalmInv, PageShowsRules, Quiet

LEMMA TabAlways == TabSpec => []TabInv
<1>1. TabInv /\ [TabNext]_tabVars => TabInv'
  BY TabStep, ListsNext, PageNext, CalmNext DEF TabInv
<1>. QED
  BY <1>1, TabStarts, PTL DEF TabSpec

\* With the tab and other clients at work, for any lists they send, drafts
\* entered and numbers of requests: as long as no list names an id twice, the
\* live timers are those of the enabled rules in force, one each.
THEOREM TimersFollow == TabSpec => []TimersFollowRules
<1>. DEFINE Inv == TabInv /\ TimersOK
<1>1. TabInit => Inv
  BY TabStarts, TimersInit DEF TabInit
<1>2. Inv /\ [TabNext]_tabVars => Inv'
  BY TabStep, ListsNext, PageNext, CalmNext, TimersNext DEF TabInv
<1>3. Inv => TimersFollowRules
  BY DEF TimersOK, TimersFollowRules
<1>. QED
  BY <1>1, <1>2, <1>3, PTL DEF TabSpec

\* Likewise, a save that met no other request and was answered with success
\* has the rules in force on disk.
THEOREM SavedByTab == TabSpec => []RulesSaved
<1>. DEFINE Inv == TabInv /\ SavesOK
<1>1. TabInit => Inv
  BY TabStarts DEF TabInit, CronInit, SavesOK
<1>2. Inv /\ [TabNext]_tabVars => Inv'
  BY TabStep, ListsNext, PageNext, CalmNext, SavesNext DEF TabInv
<1>3. Inv => RulesSaved
  BY DEF SavesOK, SaveAt, RulesSaved
<1>. QED
  BY <1>1, <1>2, <1>3, PTL DEF TabSpec

\* A page with nothing in flight shows the rules in force, as long as no request
\* failed or met another one, for any number of requests and refreshes, any
\* restarts of the core and times at which answers come.
THEOREM PageIsTrue == TabSpec => []PageShowsRules
<1>1. TabInv => PageShowsRules
  BY DEF TabInv, CalmInv, PageShowsRules
<1>. QED
  BY <1>1, TabAlways, PTL

-------------------------------------------------------------------------------
(* The session *)

\* A request has its four fields, and only a rotation has steps of its own.
CallOK(c) ==
  \E kind, token, step, made :
    /\ c = [kind |-> kind, token |-> token, step |-> step, made |-> made]
    /\ kind \in {"free", "poll", "rotate", "login"} /\ (kind = "free" <=> step = "none")
    /\ step \in {"accepted", "filed", "error"} => kind = "rotate"

\* No token is ahead of the one in its file.
Known == 0..filed \cup {Wrong}
TokensOK ==
  /\ filed \in 1..(MaxRotations + 1) /\ expected \in 1..filed /\ stored \in Known
  /\ calls = [c \in Calls |-> calls[c]]
  /\ \A c \in Calls :
       CallOK(calls[c]) /\ calls[c].token \in Known /\ calls[c].made \in 0..filed

\* Between two rotations the browser, the core and the file agree.
Steady == stored = expected /\ expected = filed
\* No request has the token in the file yet, nor has the browser.
Fresh == stored # filed /\ \A d \in Calls : calls[d].token # filed
\* A rotation is the only one; until its token is in the file nothing changes.
OwnRotation(c) ==
  /\ \A d \in Calls : calls[d].kind = "rotate" => d = c
  /\ \/ calls[c].step = "sent" /\ Steady /\ calls[c].token = stored
     \/ calls[c].step \in {"accepted", "error"} /\ Steady
     \/ calls[c].step = "filed" /\ calls[c].made = filed /\ Fresh
     \/ calls[c].step = "ok" /\ calls[c].made = filed /\ Fresh /\ expected = filed
\* A request with the browser's token is refused only once it was replaced.
OwnPoll(c) == calls[c].step = "401" /\ calls[c].token = stored => expected # stored

SessionInv ==
  /\ TokensOK
  /\ authed /\ lone =>
       /\ ~Rotating => Steady
       /\ \A c \in Calls : calls[c].kind = "rotate" => OwnRotation(c)
       /\ \A c \in Calls : calls[c].kind = "poll" => OwnPoll(c)

LEMMA CallShape ==
  ASSUME NEW kind \in {"free", "poll", "rotate", "login"}, NEW token, NEW step, NEW made,
         kind = "free" <=> step = "none",
         step \in {"accepted", "filed", "error"} => kind = "rotate"
  PROVE  /\ CallOK(Call(kind, token, step, made))
         /\ Call(kind, token, step, made).kind = kind /\ Call(kind, token, step, made).step = step
         /\ Call(kind, token, step, made).token = token /\ Call(kind, token, step, made).made = made
BY DEF CallOK, Call

LEMMA FreeCall ==
  CallOK(Free) /\ Free.kind = "free" /\ Free.step = "none" /\ Free.token = 0 /\ Free.made = 0
BY CallShape DEF Free, NoToken

\* One request changes and the others stay as they are.
Changed(c) ==
  /\ calls' = [d \in Calls |-> calls'[d]] /\ \A d \in Calls : CallOK(calls'[d])
  /\ \A d \in Calls : d # c => calls'[d] = calls[d]

LEMMA OneCall ==
  ASSUME TokensOK, NEW c \in Calls, NEW v, CallOK(v), calls' = [calls EXCEPT ![c] = v]
  PROVE  Changed(c) /\ calls'[c] = v
BY DEF TokensOK, Changed

LEMMA SendsCall ==
  ASSUME TokensOK, NEW c \in Calls, NEW kind \in {"poll", "rotate", "login"}, NEW token,
         Sends(c, kind, token)
  PROVE  /\ Changed(c) /\ IsFree(c)
         /\ calls'[c].kind = kind /\ calls'[c].token = token
         /\ calls'[c].step = "sent" /\ calls'[c].made = 0
<1>. DEFINE v == Call(kind, token, "sent", NoToken)
<1>1. CallOK(v) /\ v.kind = kind /\ v.token = token /\ v.step = "sent" /\ v.made = 0
  BY CallShape DEF NoToken
<1>2. calls' = [calls EXCEPT ![c] = v] /\ IsFree(c)
  BY DEF Sends
<1>. HIDE DEF v
<1>. QED
  BY <1>1, <1>2, OneCall

LEMMA EndsCall ==
  ASSUME TokensOK, NEW c \in Calls, Ends(c)
  PROVE  /\ Changed(c) /\ calls'[c].kind = "free" /\ calls'[c].step = "none"
         /\ calls'[c].token = 0 /\ calls'[c].made = 0
BY OneCall, FreeCall DEF Ends

LEMMA MovesCall ==
  ASSUME TokensOK, NEW c \in Calls, ~IsFree(c), NEW step, Moves(c, step), step # "none",
         step \in {"accepted", "filed", "error"} => calls[c].kind = "rotate"
  PROVE  /\ Changed(c) /\ calls'[c].kind = calls[c].kind /\ calls'[c].step = step
         /\ calls'[c].token = calls[c].token /\ calls'[c].made = calls[c].made
<1>1. PICK kind, token, old, made :
        /\ calls[c] = [kind |-> kind, token |-> token, step |-> old, made |-> made]
        /\ kind \in {"free", "poll", "rotate", "login"}
  BY DEF TokensOK, CallOK
<1>. DEFINE v == Call(kind, token, step, made)
<1>2. [calls[c] EXCEPT !.step = step] = v
  BY <1>1 DEF Call
<1>3. CallOK(v) /\ v.kind = kind /\ v.step = step /\ v.token = token /\ v.made = made
  BY <1>1, CallShape DEF IsFree
<1>4. calls' = [calls EXCEPT ![c] = v]
  BY <1>2 DEF Moves
<1>. HIDE DEF v
<1>5. Changed(c) /\ calls'[c] = v
  BY <1>3, <1>4, OneCall
<1>. QED
  BY <1>1, <1>3, <1>5

LEMMA FiledCall ==
  ASSUME TokensOK, NEW c \in Calls, Filed(c)
  PROVE  /\ Changed(c) /\ calls[c].kind = "rotate" /\ calls'[c].kind = "rotate"
         /\ calls'[c].step = "filed" /\ calls'[c].made = filed' /\ calls'[c].token = calls[c].token
<1>. DEFINE v == Call(calls[c].kind, calls[c].token, "filed", filed')
<1>1. calls[c].kind = "rotate"
  BY DEF TokensOK, CallOK, Filed
<1>2. /\ CallOK(v) /\ v.kind = "rotate" /\ v.step = "filed" /\ v.made = filed'
      /\ v.token = calls[c].token
  BY <1>1, CallShape
<1>3. calls' = [calls EXCEPT ![c] = v]
  BY DEF Filed
<1>. HIDE DEF v
<1>. QED
  BY <1>1, <1>2, <1>3, OneCall

\* Only a request that is not free has a step to take.
LEMMA Stepping ==
  ASSUME TokensOK, NEW c \in Calls, calls[c].step # "none"
  PROVE  /\ ~IsFree(c)
         /\ calls[c].step \in {"accepted", "filed", "error"} => calls[c].kind = "rotate"
BY DEF TokensOK, CallOK, IsFree

\* A session at rest, or one rotation under way, by what changes.
LEMMA PollsKept == ASSUME SessionInv, NEW c \in Calls, Polls(c) PROVE SessionInv'
<1>1. /\ Changed(c) /\ IsFree(c) /\ calls'[c].kind = "poll" /\ calls'[c].token = stored
      /\ calls'[c].step = "sent" /\ calls'[c].made = 0
      /\ UNCHANGED <<filed, expected, stored, authed, lone>>
  BY SendsCall DEF Polls, SessionInv
<1>2. TokensOK'
  BY <1>1 DEF SessionInv, TokensOK, Changed, Known
<1>3. \A d \in Calls : calls'[d].kind = "rotate" => calls[d].kind = "rotate" /\ d # c
  BY <1>1 DEF Changed
<1>4. ~Rotating' => ~Rotating
  BY <1>1 DEF Rotating, Changed, IsFree
<1>. QED
  BY <1>1, <1>2, <1>3, <1>4 DEF SessionInv, OwnRotation, OwnPoll, Steady, Fresh, Changed

LEMMA RotateKept == ASSUME SessionInv, NEW c \in Calls, RotateClicked(c) PROVE SessionInv'
<1>1. /\ Changed(c) /\ IsFree(c) /\ calls'[c].kind = "rotate" /\ calls'[c].token = stored
      /\ calls'[c].step = "sent" /\ calls'[c].made = 0 /\ authed
      /\ UNCHANGED <<filed, expected, stored, authed>> /\ lone' = (lone /\ ~Rotating)
  BY SendsCall DEF RotateClicked, SessionInv
<1>2. TokensOK'
  BY <1>1 DEF SessionInv, TokensOK, Changed, Known
<1>3. ASSUME lone'
      PROVE  /\ lone /\ Steady' /\ Rotating'
             /\ \A d \in Calls : calls'[d].kind = "rotate" => d = c
  BY <1>1, <1>3 DEF SessionInv, Steady, Rotating, Changed
<1>. QED
  BY <1>1, <1>2, <1>3 DEF SessionInv, OwnRotation, OwnPoll, Changed

LEMMA LoginKept == ASSUME SessionInv, NEW c \in Calls, LoginSubmitted(c) PROVE SessionInv'
<1>1. PICK typed \in 1..filed \cup {Wrong} : stored' = typed /\ Sends(c, "login", typed)
  BY DEF LoginSubmitted
<1>2. /\ Changed(c) /\ calls'[c].token = typed /\ calls'[c].made = 0 /\ ~authed'
      /\ UNCHANGED <<filed, expected, authed, lone>>
  BY <1>1, SendsCall DEF SessionInv, LoginSubmitted
<1>. QED
  BY <1>1, <1>2 DEF SessionInv, TokensOK, Changed, Known

LEMMA CheckedKept == ASSUME SessionInv, NEW c \in Calls, Checked(c) PROVE SessionInv'
<1>. DEFINE step == IF calls[c].token # expected THEN "401"
                    ELSE IF calls[c].kind = "rotate" THEN "accepted" ELSE "ok"
<1>1. /\ calls[c].step = "sent" /\ ~IsFree(c) /\ Moves(c, step)
      /\ UNCHANGED <<filed, expected, stored, authed, lone>>
  BY Stepping DEF Checked, SessionInv
<1>2. step # "none" /\ (step \in {"accepted", "filed", "error"} => calls[c].kind = "rotate")
  OBVIOUS
<1>3. calls[c].token # expected => step = "401"
  OBVIOUS
<1>4. calls[c].token = expected => step # "401" /\ (calls[c].kind = "rotate" => step = "accepted")
  OBVIOUS
<1>. HIDE DEF step
<1>5. /\ Changed(c) /\ calls'[c].kind = calls[c].kind /\ calls'[c].step = step
      /\ calls'[c].token = calls[c].token /\ calls'[c].made = calls[c].made
  BY <1>1, <1>2, MovesCall DEF SessionInv
<1>6. TokensOK'
  BY <1>1, <1>5 DEF SessionInv, TokensOK, Changed, Known
<1>7. ~Rotating' => ~Rotating
  BY <1>5 DEF Rotating, Changed
<1>8. \A d \in Calls : calls'[d].kind = calls[d].kind /\ calls'[d].token = calls[d].token
  BY <1>5 DEF Changed
<1>9. ASSUME authed', lone', NEW d \in Calls, calls'[d].kind = "rotate" PROVE OwnRotation(d)'
  <2>1. OwnRotation(d) /\ calls[d].kind = "rotate"
    BY <1>1, <1>8, <1>9 DEF SessionInv
  <2>2. CASE d = c
    BY <1>1, <1>4, <1>5, <1>8, <2>1, <2>2 DEF OwnRotation, Steady
  <2>3. CASE d # c
    BY <1>1, <1>5, <1>8, <2>1, <2>3 DEF OwnRotation, Steady, Fresh, Changed
  <2>. QED
    BY <2>2, <2>3
<1>10. ASSUME authed', lone', NEW d \in Calls, calls'[d].kind = "poll" PROVE OwnPoll(d)'
  <2>1. OwnPoll(d)
    BY <1>1, <1>8, <1>10 DEF SessionInv
  <2>. QED
    BY <1>1, <1>4, <1>5, <1>8, <2>1 DEF OwnPoll, Changed
<1>. QED
  BY <1>1, <1>6, <1>7, <1>9, <1>10 DEF SessionInv, Steady

LEMMA FailsKept == ASSUME SessionInv, NEW c \in Calls, RotationFails(c) PROVE SessionInv'
<1>1. /\ calls[c].step = "accepted" /\ calls[c].kind = "rotate" /\ ~IsFree(c) /\ Moves(c, "error")
      /\ UNCHANGED <<filed, expected, stored, authed, lone>>
  BY Stepping DEF RotationFails, SessionInv
<1>2. /\ Changed(c) /\ calls'[c].kind = calls[c].kind /\ calls'[c].step = "error"
      /\ calls'[c].token = calls[c].token /\ calls'[c].made = calls[c].made
  BY <1>1, MovesCall DEF SessionInv
<1>3. TokensOK'
  BY <1>1, <1>2 DEF SessionInv, TokensOK, Changed, Known
<1>4. Rotating' /\ \A d \in Calls : calls'[d].kind = calls[d].kind
  BY <1>1, <1>2 DEF Rotating, Changed
<1>. QED
  BY <1>1, <1>2, <1>3, <1>4 DEF SessionInv, OwnRotation, OwnPoll, Steady, Changed

LEMMA FiledKept == ASSUME SessionInv, NEW c \in Calls, Filed(c) PROVE SessionInv'
<1>1. /\ Changed(c) /\ calls[c].kind = "rotate" /\ calls'[c].kind = "rotate"
      /\ calls'[c].step = "filed" /\ calls'[c].made = filed' /\ calls'[c].token = calls[c].token
  BY FiledCall DEF SessionInv
<1>2. /\ calls[c].step = "accepted" /\ filed' = filed + 1 /\ filed <= MaxRotations
      /\ UNCHANGED <<expected, stored, authed, lone>>
  BY DEF Filed
<1>3. TokensOK'
  <2>1. filed' \in 1..(MaxRotations + 1) /\ 0..filed \subseteq 0..filed' /\ filed \in Nat
    BY <1>2, SessionAssumption DEF SessionInv, TokensOK
  <2>2. expected' \in 1..filed' /\ stored' \in Known' /\ Known \subseteq Known'
    BY <1>2, <2>1 DEF SessionInv, TokensOK, Known
  <2>3. \A d \in Calls : calls'[d].token \in Known' /\ calls'[d].made \in 0..filed'
    BY <1>1, <2>1, <2>2 DEF SessionInv, TokensOK, Changed
  <2>. QED
    BY <1>1, <2>1, <2>2, <2>3 DEF TokensOK, Changed
<1>4. Rotating' /\ \A d \in Calls : calls'[d].kind = calls[d].kind /\ calls'[d].token = calls[d].token
  BY <1>1 DEF Rotating, Changed
<1>5. Fresh'
  <2>1. filed \in Nat /\ filed' # Wrong /\ filed' \notin Known
    BY <1>2, SessionAssumption DEF SessionInv, TokensOK, Known, Wrong
  <2>. QED
    BY <1>2, <1>4, <2>1 DEF SessionInv, TokensOK, Fresh
<1>6. ASSUME authed', lone', NEW d \in Calls, calls'[d].kind = "rotate" PROVE OwnRotation(d)'
  <2>1. OwnRotation(d) /\ calls[d].kind = "rotate"
    BY <1>2, <1>4, <1>6 DEF SessionInv
  <2>. QED
    BY <1>1, <1>4, <1>5, <2>1 DEF OwnRotation
<1>7. ASSUME authed', lone', NEW d \in Calls, calls'[d].kind = "poll" PROVE OwnPoll(d)'
  BY <1>1, <1>2, <1>7 DEF SessionInv, OwnPoll, Changed
<1>. QED
  BY <1>3, <1>4, <1>6, <1>7 DEF SessionInv

LEMMA RotatedKept == ASSUME SessionInv, NEW c \in Calls, Rotated(c) PROVE SessionInv'
<1>1. /\ calls[c].step = "filed" /\ calls[c].kind = "rotate" /\ ~IsFree(c) /\ Moves(c, "ok")
      /\ expected' \in {filed, expected} /\ lone' = (lone /\ expected' = calls[c].made)
      /\ UNCHANGED <<filed, stored, authed>>
  BY Stepping DEF Rotated, SessionInv
<1>2. /\ Changed(c) /\ calls'[c].kind = calls[c].kind /\ calls'[c].step = "ok"
      /\ calls'[c].token = calls[c].token /\ calls'[c].made = calls[c].made
  BY <1>1, MovesCall DEF SessionInv
<1>3. TokensOK'
  BY <1>1, <1>2 DEF SessionInv, TokensOK, Changed, Known
<1>4. Rotating' /\ \A d \in Calls : calls'[d].kind = calls[d].kind /\ calls'[d].token = calls[d].token
  BY <1>1, <1>2 DEF Rotating, Changed
<1>5. ASSUME authed', lone', NEW d \in Calls, calls'[d].kind = "rotate" PROVE OwnRotation(d)'
  <2>1. OwnRotation(d) /\ OwnRotation(c)
    BY <1>1, <1>4, <1>5 DEF SessionInv
  <2>. QED
    BY <1>1, <1>2, <1>4, <1>5, <2>1 DEF OwnRotation, Fresh
<1>6. ASSUME authed', lone', NEW d \in Calls, calls'[d].kind = "poll" PROVE OwnPoll(d)'
  <2>1. OwnRotation(c)
    BY <1>1, <1>6 DEF SessionInv
  <2>2. expected' # stored
    BY <1>1, <1>6, <2>1 DEF OwnRotation, Fresh
  <2>. QED
    BY <1>1, <2>2 DEF OwnPoll
<1>. QED
  BY <1>3, <1>4, <1>5, <1>6 DEF SessionInv

\* Another reload that leaves the session alone brings in what is in the file.
LEMMA OtherReloadKept == ASSUME SessionInv, OtherReload PROVE SessionInv'
<1>1. /\ expected' \in 1..filed /\ lone' = (lone /\ expected' \in {filed, expected})
      /\ UNCHANGED <<filed, stored, authed, calls>>
  BY DEF OtherReload
<1>2. TokensOK' /\ Rotating' = Rotating
  BY <1>1 DEF SessionInv, TokensOK, Known, Rotating
<1>3. ASSUME authed, lone PROVE Steady \/ stored # filed
  <2>1. CASE ~Rotating
    BY <1>3, <2>1 DEF SessionInv
  <2>2. CASE Rotating
    BY <1>3, <2>2 DEF SessionInv, Rotating, OwnRotation, Fresh
  <2>. QED
    BY <2>1, <2>2
<1>4. ASSUME authed', lone', NEW d \in Calls, calls'[d].kind = "rotate" PROVE OwnRotation(d)'
  <2>1. OwnRotation(d)
    BY <1>1, <1>4 DEF SessionInv
  <2>. QED
    BY <1>1, <1>4, <2>1 DEF OwnRotation, Steady, Fresh
<1>5. ASSUME authed', lone', NEW d \in Calls, calls'[d].kind = "poll" PROVE OwnPoll(d)'
  BY <1>1, <1>3, <1>5 DEF SessionInv, OwnPoll, Steady
<1>. QED
  BY <1>1, <1>2, <1>4, <1>5 DEF SessionInv, Steady

\* A 401 clears the token in force only when it came for another one.
LEMMA PollAnsweredKept == ASSUME SessionInv, NEW c \in Calls, PollAnswered(c) PROVE SessionInv'
<1>1. /\ calls[c].kind = "poll" /\ Ends(c) /\ UNCHANGED <<filed, expected, authed>>
      /\ \/ UNCHANGED <<stored, lone>>
         \/ calls[c].step = "401" /\ stored' = 0 /\ lone' = (lone /\ calls[c].token = stored)
  BY DEF PollAnswered, NoToken
<1>2. /\ Changed(c) /\ calls'[c].kind = "free" /\ calls'[c].step = "none"
      /\ calls'[c].token = 0 /\ calls'[c].made = 0
  BY <1>1, EndsCall DEF SessionInv
<1>3. TokensOK'
  BY <1>1, <1>2 DEF SessionInv, TokensOK, Changed, Known
<1>4. /\ Rotating' = Rotating
      /\ \A d \in Calls : calls'[d].kind = "rotate" <=> calls[d].kind = "rotate"
  BY <1>1, <1>2 DEF Rotating, Changed
<1>5. expected # 0 /\ filed # 0
  BY DEF SessionInv, TokensOK
<1>6. ASSUME authed', lone' PROVE UNCHANGED stored \/ (stored' = 0 /\ expected # stored)
  BY <1>1, <1>6 DEF SessionInv, OwnPoll
<1>7. ASSUME authed', lone', ~Rotating' PROVE Steady'
  BY <1>1, <1>4, <1>6, <1>7 DEF SessionInv, Steady
<1>8. ASSUME authed', lone', NEW d \in Calls, calls'[d].kind = "rotate" PROVE OwnRotation(d)'
  <2>1. OwnRotation(d) /\ calls'[d] = calls[d]
    BY <1>1, <1>2, <1>8 DEF SessionInv, Changed
  <2>2. Fresh => Fresh'
    BY <1>1, <1>2, <1>5, <1>6, <1>8 DEF Fresh, Changed
  <2>. QED
    BY <1>1, <1>4, <1>6, <1>8, <2>1, <2>2 DEF OwnRotation, Steady
<1>9. ASSUME authed', lone', NEW d \in Calls, calls'[d].kind = "poll" PROVE OwnPoll(d)'
  BY <1>1, <1>2, <1>5, <1>6, <1>9 DEF SessionInv, OwnPoll, Changed
<1>. QED
  BY <1>3, <1>7, <1>8, <1>9 DEF SessionInv

\* The answer of a rotation brings the browser what the core goes by.
LEMMA RotateAnsweredKept == ASSUME SessionInv, NEW c \in Calls, RotateAnswered(c) PROVE SessionInv'
<1>1. /\ calls[c].kind = "rotate" /\ Ends(c) /\ UNCHANGED <<filed, expected, authed, lone>>
      /\ \/ calls[c].step = "ok" /\ stored' = calls[c].made
         \/ calls[c].step = "error" /\ stored' = stored
         \/ calls[c].step = "401" /\ stored' = 0
  BY DEF RotateAnswered, NoToken
<1>2. /\ Changed(c) /\ calls'[c].kind = "free" /\ calls'[c].step = "none"
      /\ calls'[c].token = 0 /\ calls'[c].made = 0
  BY <1>1, EndsCall DEF SessionInv
<1>3. TokensOK'
  BY <1>1, <1>2 DEF SessionInv, TokensOK, Changed, Known
<1>4. ASSUME authed, lone
      PROVE  /\ Steady' /\ \A d \in Calls : calls'[d].kind # "rotate"
             /\ stored' = stored \/ \A d \in Calls : calls[d].token # stored'
  <2>1. OwnRotation(c)
    BY <1>1, <1>4 DEF SessionInv
  <2>. QED
    BY <1>1, <1>2, <2>1 DEF OwnRotation, Steady, Fresh, Changed
<1>5. ASSUME authed', lone', NEW d \in Calls, calls'[d].kind = "poll" PROVE OwnPoll(d)'
  BY <1>1, <1>2, <1>4, <1>5 DEF SessionInv, OwnPoll, Changed
<1>. QED
  BY <1>1, <1>3, <1>4, <1>5 DEF SessionInv

LEMMA LoginAnsweredKept == ASSUME SessionInv, NEW c \in Calls, LoginAnswered(c) PROVE SessionInv'
<1>1. /\ calls[c].kind = "login" /\ Ends(c) /\ UNCHANGED <<filed, expected>>
      /\ stored' = stored \/ stored' = 0
      /\ lone' => /\ stored' = stored /\ Steady /\ ~Rotating
                  /\ \A d \in Calls \ {c} : IsFree(d) \/ calls[d].token # stored
  BY DEF LoginAnswered, NoToken, Steady
<1>2. /\ Changed(c) /\ calls'[c].kind = "free" /\ calls'[c].step = "none"
      /\ calls'[c].token = 0 /\ calls'[c].made = 0
  BY <1>1, EndsCall DEF SessionInv
<1>3. TokensOK'
  BY <1>1, <1>2 DEF SessionInv, TokensOK, Changed, Known
<1>4. ASSUME lone'
      PROVE  /\ Steady' /\ \A d \in Calls : calls'[d].kind # "rotate"
             /\ \A d \in Calls : calls'[d].kind = "poll" => calls'[d].token # stored'
  BY <1>1, <1>2, <1>4 DEF Steady, Rotating, Changed, IsFree
<1>. QED
  BY <1>3, <1>4 DEF SessionInv, OwnPoll

LEMMA UnansweredKept == ASSUME SessionInv, NEW c \in Calls, Unanswered(c) PROVE SessionInv'
<1>1. /\ Ends(c) /\ lone' = (lone /\ calls[c].kind = "poll")
      /\ UNCHANGED <<filed, expected, stored, authed>>
  BY DEF Unanswered
<1>2. /\ Changed(c) /\ calls'[c].kind = "free" /\ calls'[c].step = "none"
      /\ calls'[c].token = 0 /\ calls'[c].made = 0
  BY <1>1, EndsCall DEF SessionInv
<1>3. TokensOK'
  BY <1>1, <1>2 DEF SessionInv, TokensOK, Changed, Known
<1>4. ASSUME lone' PROVE \A d \in Calls : calls'[d].kind = "rotate" <=> calls[d].kind = "rotate"
  BY <1>1, <1>2, <1>4 DEF Changed
<1>5. filed # 0
  BY DEF SessionInv, TokensOK
<1>6. ASSUME authed', lone', NEW d \in Calls, calls'[d].kind = "rotate" PROVE OwnRotation(d)'
  <2>1. OwnRotation(d) /\ calls'[d] = calls[d]
    BY <1>1, <1>2, <1>6 DEF SessionInv, Changed
  <2>. QED
    BY <1>1, <1>2, <1>4, <1>5, <1>6, <2>1 DEF OwnRotation, Steady, Fresh, Changed
<1>. QED
  BY <1>1, <1>2, <1>3, <1>4, <1>6 DEF SessionInv, Rotating, OwnPoll, Steady, Changed

LEMMA SessionNextInv == ASSUME SessionInv, [SessionNext]_sessionVars PROVE SessionInv'
<1>1. CASE OtherClientRotates
  BY <1>1, SessionAssumption DEF OtherClientRotates, SessionInv, TokensOK, Known
<1>2. CASE SignsOut
  BY <1>2 DEF SignsOut, SessionInv, TokensOK, Known, NoToken
<1>3. CASE Reloads
  <2>1. /\ calls' = [c \in Calls |-> Free] /\ UNCHANGED <<filed, expected, stored>>
        /\ lone' = (lone /\ authed /\ ~Rotating)
    BY <1>3 DEF Reloads
  <2>2. /\ calls' = [c \in Calls |-> calls'[c]]
        /\ \A c \in Calls : CallOK(calls'[c]) /\ calls'[c].token = 0 /\ calls'[c].made = 0
        /\ \A c \in Calls : calls'[c].kind = "free"
    BY <2>1, FreeCall
  <2>3. TokensOK'
    BY <2>1, <2>2 DEF SessionInv, TokensOK, Known
  <2>. QED
    BY <2>1, <2>2, <2>3 DEF SessionInv, Steady
<1>4. CASE UNCHANGED sessionVars
  BY <1>4 DEF sessionVars, SessionInv, TokensOK, Known, Rotating, Steady, OwnRotation, Fresh, OwnPoll
<1>. QED
  BY <1>1, <1>2, <1>3, <1>4, PollsKept, RotateKept, LoginKept, CheckedKept, FailsKept, FiledKept,
     RotatedKept, OtherReloadKept, PollAnsweredKept, RotateAnsweredKept, LoginAnsweredKept,
     UnansweredKept
  DEF SessionNext

\* After any number of its own rotations, refused and failed ones among them, of
\* polls, sign-outs, logins and reloads of the page, the page has the token in
\* force, until one of the things happens that `lone` names.
THEOREM TokenInForce == SessionSpec => []SessionKept
<1>1. SessionInit => SessionInv
  BY FreeCall, SessionAssumption DEF SessionInit, SessionInv, TokensOK, Known, NoToken
<1>2. SessionInv => SessionKept
  BY DEF SessionInv, SessionKept, Steady
<1>. QED
  BY <1>1, <1>2, SessionNextInv, PTL DEF SessionSpec
===============================================================================
