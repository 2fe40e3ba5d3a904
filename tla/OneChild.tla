------------------------------- MODULE OneChild -------------------------------
(***************************************************************************)
(* What a supervisor of a child process promises: as long as no call met   *)
(* another one, at most one child runs, and it is the one the supervisor   *)
(* holds and can end.  VncSupervisor and PowerInhibitor implement it.      *)
(***************************************************************************)
EXTENDS FiniteSets

CONSTANTS
  Kids,       \* the processes that can be started
  Nobody      \* no process, and not one of Kids

VARIABLES
  kids,       \* the children that run and have not been told to end
  held,       \* the child the supervisor holds
  careful     \* no call met another one so far

childVars == <<kids, held, careful>>

Init == kids = {} /\ held = Nobody /\ careful = TRUE

\* A child is started only when there is none.
Begin(p) ==
  /\ careful /\ kids = {}
  /\ kids' = {p} /\ held' = p /\ careful' = TRUE

\* The child the supervisor holds ends by itself or is told to end.
End ==
  /\ careful /\ kids' = {} /\ held' = Nobody /\ careful' = TRUE

\* A call meets another one; from then on nothing is promised.
Meet == careful' = FALSE
Careless == ~careful /\ ~careful'

Next == (\E p \in Kids : Begin(p)) \/ End \/ Meet \/ Careless

Spec == Init /\ [][Next]_childVars

\* What it is good for.
OneAtMost == careful => kids = {held} \ {Nobody}
==============================================================================
