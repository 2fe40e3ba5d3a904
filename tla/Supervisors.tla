------------------------------ MODULE Supervisors ------------------------------
(***************************************************************************)
(* The two supervisors of child processes in one frame-core: the sleep     *)
(* inhibitor and the VNC supervisor with its tab.  They share no state.    *)
(***************************************************************************)
EXTENDS PowerInhibitor, VncTab

SupervisorsSpec == InhibitorSpec /\ VncTabSpec

\* The sleep inhibitor and both programs of the VNC supervisor implement
\* OneChild: as long as no call met a start under way, at most one of each
\* runs, whatever ends by itself, and it is the one that can be ended.
ChildrenOnce ==
  /\ ImplementsOneChild
  /\ VncOneChild
==============================================================================
