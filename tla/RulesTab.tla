------------------------------- MODULE RulesTab -------------------------------
(***************************************************************************)
(* The Schedule tab of the control panel (web/src/components/              *)
(* RulesSection.tsx) on top of the core's schedule.  Every change sends    *)
(* the whole list, made from the one the page shows; no button waits for   *)
(* the request before it.  A refresh is two GETs that count together; the  *)
(* list of screens only fills a selector and is left out.                  *)
(***************************************************************************)
EXTENDS CronRules

CONSTANTS
  Drafts,     \* the rules a user enters in the editor
  ReadSlots   \* bound: refreshes in flight at once

VARIABLES
  listed,     \* rules, as the page has them
  editing,    \* the id in the editor, which is fixed; "" for a new rule
  oops,       \* err: an error is on the page
  reads,      \* refreshes in flight, by slot
  asks,       \* what the page asked for in a slot of puts; Elsewhere is a
              \* request of another client, or one the page gave up on
  calm        \* history: since the tab was opened no request failed, met
              \* another one or came from another client

pageVars == <<listed, editing, oops, reads, asks, calm>>
tabVars == <<cronVars, pageVars>>

Unasked == <<"idle">>
Asked == <<"asked">>
Elsewhere == "elsewhere"
NotEditing == "no editor"
Quiet == \A s \in Slots : puts[s].step = "idle"
NoReads == \A r \in ReadSlots : reads[r] = Unasked

\* refresh(), called without await.
Refresh == \E r \in ReadSlots : reads[r] = Unasked /\ reads' = [reads EXCEPT ![r] = Asked]

\* The tab is opened: the section is mounted afresh.
Opens ==
  /\ Quiet /\ NoReads
  /\ listed' = <<>> /\ editing' = NotEditing /\ oops' = FALSE /\ calm' = TRUE
  /\ Refresh
  /\ UNCHANGED <<cronVars, asks>>

\* The core answers GET /api/rules, and the answer reaches the page.
ReadHandled(r) ==
  /\ reads[r] = Asked
  /\ reads' = [reads EXCEPT ![r] = Text(rules)]
  /\ UNCHANGED <<cronVars, listed, editing, oops, asks, calm>>
ReadArrives(r) ==
  /\ reads[r] \notin {Unasked, Asked}
  /\ listed' = reads[r][2]
  /\ reads' = [reads EXCEPT ![r] = Unasked]
  /\ UNCHANGED <<cronVars, editing, oops, asks, calm>>
ReadFails(r) ==
  /\ reads[r] # Unasked
  /\ reads' = [reads EXCEPT ![r] = Unasked]
  /\ oops' = TRUE /\ calm' = FALSE
  /\ UNCHANGED <<cronVars, listed, editing, asks>>

\* The list the page sends: the rule replaces the one with its id or is added.
Merged(rule) ==
  IF \E i \in DOMAIN listed : listed[i].id = rule.id
  THEN [i \in DOMAIN listed |-> IF listed[i].id = rule.id THEN rule ELSE listed[i]]
  ELSE Append(listed, rule)

\* rules.filter(): the rules with another id, in their order.
Without(list, id) ==
  LET kept == {i \in DOMAIN list : list[i].id # id}
      Nth(k) == CHOOSE i \in kept : Cardinality({j \in kept : j <= i}) = k
  IN  [k \in 1..Cardinality(kept) |-> list[Nth(k)]]

Asks(s, list, what) ==
  /\ Send(s, list)
  /\ asks' = [asks EXCEPT ![s] = what]
  /\ calm' = (calm /\ Quiet /\ NoReads)
  /\ UNCHANGED <<listed, editing, oops, reads>>

\* The list with its buttons is on the page unless the editor is open or an
\* error is all there is to show.
ListOnPage == editing = NotEditing /\ ~(oops /\ listed = <<>>)

Toggles(s) ==
  \E i \in DOMAIN listed :
    ListOnPage /\ Asks(s, Merged([listed[i] EXCEPT !.on = ~@]), "save")
Removes(s) ==
  \E i \in DOMAIN listed :
    ListOnPage /\ Asks(s, Without(listed, listed[i].id), "remove")

\* Add and Edit open the editor; the id of an existing rule is fixed.
OpensEditor ==
  /\ ListOnPage
  /\ editing' \in {""} \cup {listed[i].id : i \in DOMAIN listed}
  /\ UNCHANGED <<cronVars, listed, oops, reads, asks, calm>>
EditorSaves(s) ==
  /\ editing # NotEditing
  /\ \E d \in Drafts : editing \in {"", d.id} /\ Asks(s, Merged(d), "save")
EditorCancelled ==
  /\ editing # NotEditing /\ editing' = NotEditing
  /\ UNCHANGED <<cronVars, listed, oops, reads, asks, calm>>
Dismissed ==
  /\ oops /\ editing = NotEditing /\ oops' = FALSE
  /\ UNCHANGED <<cronVars, listed, editing, reads, asks, calm>>

\* Seeded fault: the page is not refreshed after its own change.
PutAnswered_fault(s) ==
  /\ Answered(s) /\ asks[s] # Elsewhere
  /\ editing' = NotEditing
  /\ oops' = (oops \/ puts[s].step = "failed")
  /\ calm' = (calm /\ puts[s].step # "failed")
  /\ asks' = [asks EXCEPT ![s] = Elsewhere]
  /\ UNCHANGED <<listed, reads>>
\* The answer of a change: after a success the page refreshes, and closes the
\* editor if it was a save; after an error it keeps what it shows.
PutAnswered(s) ==
  /\ Answered(s) /\ asks[s] # Elsewhere
  /\ IF puts[s].step = "saved"
     THEN /\ Refresh
          /\ editing' = IF asks[s] = "save" THEN NotEditing ELSE editing
          /\ UNCHANGED <<oops, calm>>
     ELSE /\ oops' = TRUE /\ calm' = FALSE
          /\ UNCHANGED <<reads, editing>>
  /\ asks' = [asks EXCEPT ![s] = Elsewhere]
  /\ UNCHANGED listed

\* After 30 s, or when the network fails, api() throws; the core goes on.
PutTimesOut(s) ==
  /\ asks[s] # Elsewhere /\ puts[s].step # "idle"
  /\ asks' = [asks EXCEPT ![s] = Elsewhere]
  /\ oops' = TRUE /\ calm' = FALSE
  /\ UNCHANGED <<cronVars, listed, editing, reads>>

OtherClient(s) ==
  /\ \/ \E list \in Lists : Send(s, list)
     \/ asks[s] = Elsewhere /\ Answered(s)
  /\ calm' = FALSE
  /\ UNCHANGED <<listed, editing, oops, reads, asks>>

CoreSteps == Core /\ calm' = (calm /\ ~Restart) /\ UNCHANGED <<listed, editing, oops, reads, asks>>

TabInit ==
  /\ CronInit
  /\ listed = <<>> /\ editing = NotEditing /\ oops = FALSE
  /\ reads = [r \in ReadSlots |-> Asked]
  /\ asks = [s \in Slots |-> Elsewhere] /\ calm = TRUE

TabNext ==
  \/ Opens \/ OpensEditor \/ EditorCancelled \/ Dismissed
  \/ \E r \in ReadSlots : ReadHandled(r) \/ ReadArrives(r) \/ ReadFails(r)
  \/ \E s \in Slots :
       \/ Toggles(s) \/ Removes(s) \/ EditorSaves(s)
       \/ PutAnswered(s) \/ PutTimesOut(s) \/ OtherClient(s)
  \/ CoreSteps

TabSpec == TabInit /\ [][TabNext]_tabVars

\* A page that has nothing in flight shows the rules in force, as long as no
\* request failed or met another one: after each of its own changes it asks
\* for the list again.
PageShowsRules == calm /\ Quiet /\ NoReads => listed = rules
==============================================================================
