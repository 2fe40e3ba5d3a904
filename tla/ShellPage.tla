------------------------------ MODULE ShellPage ------------------------------
(***************************************************************************)
(* The shell page (kiosk/src/shell.ts): the Chromium tab that holds one    *)
(* iframe per built-in screen and the overlay drawn during a transition.   *)
(* A page is a record and each message handler an operator on it.          *)
(***************************************************************************)
NoScreen == "none"

BlankPage ==
  [frames  |-> {},        \* ids with an iframe
   active  |-> NoScreen,  \* the id show_builtin or show_url named last
   overlay |-> FALSE]     \* data-state = "visible"

Pages(S) ==
  [frames: SUBSET S, active: S \cup {NoScreen}, overlay: BOOLEAN]

\* preload_builtin, preload_url: an id that has an iframe keeps it.
PreloadFrame(p, id) == [p EXCEPT !.frames = @ \cup {id}]

\* show_builtin, show_url: every other iframe becomes inactive.
ShowFrame(p, id) == [p EXCEPT !.active = id]

\* show_overlay_image
PaintOverlay(p) == [p EXCEPT !.overlay = TRUE]

\* hide_overlay: the picture fades; clearing it afterwards is left out.
HideOverlay(p) == [p EXCEPT !.overlay = FALSE]

\* The screen the page displays under the overlay.
FrameShown(p) == IF p.active \in p.frames THEN p.active ELSE NoScreen

==============================================================================
