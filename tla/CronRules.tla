------------------------------ MODULE CronRules ------------------------------
(***************************************************************************)
(* The schedule of frame-core: CronEngine (core/src/scheduler/cron.ts)     *)
(* keeps one timer per enabled rule, RuleStore (core/src/scheduler/        *)
(* rules.ts) keeps the rules, hands them to the engine and saves them to   *)
(* rules.yaml, and PUT /api/rules replaces them.                           *)
(*                                                                         *)
(* A rule is [id, every, on]: an expression is abstracted to the period of *)
(* its occurrences.  `every` is Bad for one that cron-parser rejects and   *)
(* NoneFound for one it accepts but for which next() throws                *)
(* ("0 0 31 2,4 *").                                                       *)
(* A timer is [rule, at, due, held]: the occurrence it was set for, when   *)
(* setTimeout calls back, and whether the map still leads to it; a timer   *)
(* the map does not lead to cannot be cleared.  Timers that agree in all   *)
(* of these behave alike and are one element.                              *)
(*                                                                         *)
(* mkdir, writeFile and rename are awaits, and any of them may fail.  The  *)
(* text is made when writeFile starts, which truncates the file; a save    *)
(* whose temporary file was renamed under it goes on writing at the new    *)
(* name.                                                                   *)
(***************************************************************************)
EXTENDS Integers, FiniteSets, Sequences, SequencesExt

CONSTANTS
  Lists,      \* the lists of rules a client sends
  Reach,      \* the longest delay setTimeout honours, 2^31-1 ms
  Slots,      \* bound: PUT requests in flight at once
  MaxClock,   \* bound: the clock stops here
  MaxPuts     \* bound: PUT requests sent

Bad == 0
NoneFound == -1

\* A list is a sequence, whatever it has in it.
IsList(list) == list \in Seq({list[i] : i \in DOMAIN list})

ASSUME ListsAssumption == \A list \in Lists : IsList(list)

VARIABLES
  clock,      \* Date.now()
  rules,      \* RuleStore.rules
  timers,     \* the live timers of the engine
  ruleFile,   \* rules.yaml
  ruleTmp,    \* rules.yaml.tmp
  puts,       \* requests in flight, by slot
  sent,       \* bound: requests so far
  repeated,   \* history: a list that names an id twice was in force
  alone       \* history: the slots whose save met no other request

cronVars == <<clock, rules, timers, ruleFile, ruleTmp, puts, sent, repeated, alone>>

Absent == <<"absent">>          \* no such file
Torn == <<"torn">>              \* truncated, or a mixture of two texts
Text(list) == <<"text", list>>

Put(step, list, text) == [step |-> step, list |-> list, text |-> text, at |-> "tmp"]
NoPut == Put("idle", <<>>, <<>>)

\* The first occurrence after the present.
Upcoming(every) == ((clock \div every) + 1) * every

\* setTimeout: a delay that does not fit is taken as 1 ms, shorter than a tick.
Delay(d) == IF d > Reach THEN 0 ELSE d

Timer(r, held) ==
  [rule |-> r, at |-> Upcoming(r.every), due |-> clock + Delay(Upcoming(r.every) - clock), held |-> held]

\* scheduleNext() sets the map's entry; the timer it led to stays live.
Forgotten(ts, id) == {[t EXCEPT !.held = t.held /\ t.rule.id # id] : t \in ts}
ScheduleNext(ts, r) == Forgotten(ts, r.id) \cup {Timer(r, TRUE)}

\* setRules() starts the enabled rules, up to one whose next() throws.
Throws(list) == \E i \in DOMAIN list : list[i].on /\ list[i].every = NoneFound
Started(list) ==
  {i \in DOMAIN list : list[i].on /\ \A j \in 1..i : ~(list[j].on /\ list[j].every = NoneFound)}

\* Of two rules with one id, the map leads to the timer of the later one.
InMap(list, i) == \A j \in Started(list) : j > i => list[j].id # list[i].id
Uncleared == {t \in timers : ~t.held}
\* Seeded fault: the timers of the old rules are not cleared.
SetRules_fault(list) == timers \cup {Timer(list[i], InMap(list, i)) : i \in Started(list)}
SetRules(list) == Uncleared \cup {Timer(list[i], InMap(list, i)) : i \in Started(list)}

Distinct(list) == \A i, j \in DOMAIN list : list[i].id = list[j].id => i = j
Accepted(list) == \A i \in DOMAIN list : list[i].every # Bad

------------------------------------------------------------------------------
(* RuleStore *)

Step(s, step) == puts' = [puts EXCEPT ![s] = Put(step, <<>>, <<>>)]
Busy(s) == puts[s].step \in {"mkdir", "write", "rename"}

\* A client sends PUT /api/rules.
Send(s, list) ==
  /\ puts[s].step = "idle" /\ sent < MaxPuts
  /\ \A t \in Slots : puts[t].step = "idle" => s <= t
  /\ puts' = [puts EXCEPT ![s] = Put("sent", list, <<>>)]
  /\ sent' = sent + 1
  /\ UNCHANGED <<clock, rules, timers, ruleFile, ruleTmp, repeated, alone>>

\* replace(): the rules are in force before they are saved.  If setRules()
\* throws they stay in force and are not saved.
Replace(s) ==
  LET list == puts[s].list IN
  /\ puts[s].step = "sent"
  /\ IF Accepted(list)
     THEN /\ rules' = list /\ timers' = SetRules(list)
          /\ repeated' = (repeated \/ ~Distinct(list))
          /\ alone' = {t \in {s} : \A o \in Slots : ~Busy(o)}
          /\ Step(s, IF Throws(list) THEN "failed" ELSE "mkdir")
     ELSE /\ Step(s, "failed") /\ UNCHANGED <<rules, timers, repeated, alone>>
  /\ UNCHANGED <<clock, ruleFile, ruleTmp, sent>>

\* persist(): mkdir() is done, writeFile() opens and truncates the temporary
\* file.
OpensTmp(s) ==
  /\ puts[s].step = "mkdir"
  /\ ruleTmp' = Torn
  /\ puts' = [puts EXCEPT ![s] = Put("write", <<>>, rules)]
  /\ UNCHANGED <<clock, rules, timers, ruleFile, sent, repeated, alone>>

\* The text is on disk.  Over a text that another save wrote to the same file
\* it may leave the end of the longer one.
Written(s, place) ==
  {Text(puts[s].text)} \cup (IF place = Torn THEN {} ELSE {Torn})
WritesText(s) ==
  /\ puts[s].step = "write"
  /\ \/ puts[s].at = "tmp" /\ ruleTmp' \in Written(s, ruleTmp) /\ UNCHANGED ruleFile
     \/ puts[s].at = "file" /\ ruleFile' \in Written(s, ruleFile) /\ UNCHANGED ruleTmp
     \/ puts[s].at = "gone" /\ UNCHANGED <<ruleTmp, ruleFile>>
  /\ Step(s, "rename")
  /\ UNCHANGED <<clock, rules, timers, sent, repeated, alone>>

\* rename(): writers that are open follow the file to its new name.
Moved(at) == CASE at = "tmp" -> "file" [] OTHER -> "gone"
\* Seeded fault: the request is answered although the file was not renamed.
RenamesTmp_fault(s) ==
  /\ puts[s].step = "rename"
  /\ Step(s, "saved")
  /\ UNCHANGED <<clock, rules, timers, ruleFile, ruleTmp, sent, repeated, alone>>
RenamesTmp(s) ==
  /\ puts[s].step = "rename"
  /\ IF ruleTmp = Absent
     THEN Step(s, "failed") /\ UNCHANGED <<ruleFile, ruleTmp>>
     ELSE /\ ruleFile' = ruleTmp /\ ruleTmp' = Absent
          /\ puts' = [o \in Slots |->
               IF o = s THEN Put("saved", <<>>, <<>>)
               ELSE IF puts[o].step = "write" THEN [puts[o] EXCEPT !.at = Moved(@)]
               ELSE puts[o]]
  /\ UNCHANGED <<clock, rules, timers, sent, repeated, alone>>

\* A full or read-only disk.
DiskFails(s) ==
  /\ Busy(s)
  /\ Step(s, "failed")
  /\ UNCHANGED <<clock, rules, timers, ruleFile, ruleTmp, sent, repeated, alone>>

\* The client has the answer, or has given up on a request not handled yet.
Answered(s) ==
  /\ puts[s].step \in {"saved", "failed"}
  /\ puts' = [puts EXCEPT ![s] = NoPut]
  /\ UNCHANGED <<clock, rules, timers, ruleFile, ruleTmp, sent, repeated, alone>>

------------------------------------------------------------------------------
(* CronEngine *)

\* The timer of a rule calls back: the screen is claimed (an error of show()
\* is logged) and the rule is scheduled again.
Fires(t) ==
  /\ t \in timers /\ t.due <= clock
  /\ timers' = ScheduleNext(timers \ {t}, t.rule)
  /\ UNCHANGED <<clock, rules, ruleFile, ruleTmp, puts, sent, repeated, alone>>

\* The core is restarted: the engine's timers go, load() reads rules.yaml, and
\* a file that is missing or torn gives no rules.
Loaded == IF ruleFile \in {Absent, Torn} THEN <<>> ELSE ruleFile[2]
Restart ==
  /\ rules' = Loaded
  /\ timers' = {Timer(Loaded[i], InMap(Loaded, i)) : i \in Started(Loaded)}
  /\ repeated' = ~Distinct(Loaded)
  /\ puts' = [s \in Slots |-> IF puts[s].step = "idle" THEN NoPut
                              ELSE Put("failed", <<>>, <<>>)]
  /\ alone' = {}
  /\ UNCHANGED <<clock, ruleFile, ruleTmp, sent>>

ClockTicks == clock < MaxClock /\ clock' = clock + 1
        /\ UNCHANGED <<rules, timers, ruleFile, ruleTmp, puts, sent, repeated, alone>>

CronInit ==
  /\ clock = 0 /\ rules = <<>> /\ timers = {}
  /\ ruleFile = Absent /\ ruleTmp = Absent
  /\ puts = [s \in Slots |-> NoPut] /\ sent = 0
  /\ repeated = FALSE /\ alone = {}

\* The steps of the core.
Core ==
  \/ \E s \in Slots :
       Replace(s) \/ OpensTmp(s) \/ WritesText(s) \/ RenamesTmp(s) \/ DiskFails(s)
  \/ \E t \in timers : Fires(t)
  \/ Restart
  \/ ClockTicks

CronNext == Core \/ \E s \in Slots : Answered(s) \/ \E list \in Lists : Send(s, list)

CronSpec == CronInit /\ [][CronNext]_cronVars

------------------------------------------------------------------------------
(* Properties *)

\* RulesSection.tsx, on deleting: "The rule stops firing immediately."  As
\* long as no list named an id twice, the live timers are those of the enabled
\* rules in force, one each, and all can be cleared; only a rule behind one
\* whose next() throws has none.
TimersFollowRules ==
  ~repeated =>
    /\ \A t \in timers : t.held /\ \E i \in Started(rules) : t.rule = rules[i]
    /\ \A i \in Started(rules) : \E t \in timers : t.rule = rules[i]
    /\ \A t, u \in timers : t.rule.id = u.rule.id => t = u

\* A save that met no other request and was answered with success has the
\* rules in force on disk.
RulesSaved ==
  \A s \in alone : puts[s].step = "saved" => ruleFile = Text(rules)

\* RulesSection.tsx: "Cron expressions claim a screen at the configured time."
OnTime == [][\A t \in timers : Fires(t) => t.at <= clock]_cronVars
==============================================================================
