-------------------------------- MODULE Session --------------------------------
(***************************************************************************)
(* The control panel's session: the bearer token the browser keeps         *)
(* (web/src/api.ts, App.tsx), the one the core goes by (requireAuth and    *)
(* rotate_bearer in core/src/api/server.ts), and the requests between      *)
(* them.  Any request that is answered 401 makes the page forget its       *)
(* token; a rotation gives it the new one.                                 *)
(***************************************************************************)
EXTENDS Naturals

CONSTANTS
  Calls,         \* bound: requests in flight at once
  MaxRotations   \* bound: tokens made after the first

ASSUME SessionAssumption == MaxRotations \in Nat

VARIABLES
  filed,      \* the token in its file, tokens are numbered from 1
  expected,   \* the core's bearerToken
  stored,     \* localStorage: NoToken, a token, or Wrong
  authed,     \* the page shows the panel instead of the login
  calls,      \* requests in flight, by slot
  lone        \* history: the login found its token in force, and since then no
              \* other client or late reload changed it, the page rotated it one
              \* rotation at a time, each was answered and its reload worked, and
              \* no 401 to a request with another token has come in

sessionVars == <<filed, expected, stored, authed, calls, lone>>

NoToken == 0
Wrong == MaxRotations + 2

Call(kind, token, step, made) == [kind |-> kind, token |-> token, step |-> step, made |-> made]
Free == Call("free", NoToken, "none", NoToken)
IsFree(c) == calls[c].kind = "free"
Rotating == \E c \in Calls : calls[c].kind = "rotate"
Sends(c, kind, token) ==
  /\ IsFree(c)
  /\ calls' = [calls EXCEPT ![c] = Call(kind, token, "sent", NoToken)]
Ends(c) == calls' = [calls EXCEPT ![c] = Free]
Moves(c, step) == calls' = [calls EXCEPT ![c].step = step]

\* The tabs' polls and buttons.
Polls(c) ==
  /\ authed /\ Sends(c, "poll", stored)
  /\ UNCHANGED <<filed, expected, stored, authed, lone>>
\* Settings, Rotate token.  Leaving the tab and coming back clears `busy`, so
\* that it can be clicked while a rotation is under way.
RotateClicked(c) ==
  /\ authed /\ Sends(c, "rotate", stored)
  /\ lone' = (lone /\ ~Rotating)
  /\ UNCHANGED <<filed, expected, stored, authed>>
\* The login stores what was typed before it is checked.  Requests of the panel
\* that was signed out may still be unanswered.
LoginSubmitted(c) ==
  /\ ~authed /\ \A d \in Calls : calls[d].kind # "login"
  /\ \E typed \in 1..filed \cup {Wrong} : stored' = typed /\ Sends(c, "login", typed)
  /\ UNCHANGED <<filed, expected, authed, lone>>

\* requireAuth, as the request comes in.
Checked(c) ==
  /\ calls[c].step = "sent"
  /\ Moves(c, IF calls[c].token # expected THEN "401"
              ELSE IF calls[c].kind = "rotate" THEN "accepted" ELSE "ok")
  /\ UNCHANGED <<filed, expected, stored, authed, lone>>
\* Safe mode (409), or a write or rename that fails (500).
RotationFails(c) ==
  /\ calls[c].step = "accepted" /\ Moves(c, "error")
  /\ UNCHANGED <<filed, expected, stored, authed, lone>>
\* The new token is in its file.
Filed(c) ==
  /\ calls[c].step = "accepted" /\ filed <= MaxRotations
  /\ filed' = filed + 1
  /\ calls' = [calls EXCEPT ![c] = Call(@.kind, @.token, "filed", filed + 1)]
  /\ UNCHANGED <<expected, stored, authed, lone>>
\* reload() returns without a word when it fails: the answer is the same.
Rotated(c) ==
  /\ calls[c].step = "filed" /\ Moves(c, "ok")
  /\ expected' \in {filed, expected}
  /\ lone' = (lone /\ expected' = calls[c].made)
  /\ UNCHANGED <<filed, stored, authed>>
\* Another client's rotation, or one the page has given up.
OtherClientRotates ==
  /\ filed <= MaxRotations /\ filed' = filed + 1
  /\ expected' \in {filed', expected}
  /\ lone' = FALSE
  /\ UNCHANGED <<stored, authed, calls>>
\* Any other reload; one that read the file earlier brings back what it read.
OtherReload ==
  /\ expected' \in 1..filed
  /\ lone' = (lone /\ expected' \in {filed, expected})
  /\ UNCHANGED <<filed, stored, authed, calls>>

\* "ok" is any answer but a 401.
PollAnswered(c) ==
  /\ calls[c].kind = "poll" /\ calls[c].step \in {"ok", "401"} /\ Ends(c)
  /\ \/ calls[c].step = "ok" /\ UNCHANGED <<stored, lone>>
     \/ /\ calls[c].step = "401" /\ stored' = NoToken
        /\ lone' = (lone /\ calls[c].token = stored)
  /\ UNCHANGED <<filed, expected, authed>>
\* Seeded fault: the page shows the new token and does not store it.
RotateAnswered_fault(c) ==
  /\ calls[c].kind = "rotate" /\ calls[c].step \in {"ok", "error", "401"} /\ Ends(c)
  /\ stored' = IF calls[c].step = "401" THEN NoToken ELSE stored
  /\ UNCHANGED <<filed, expected, authed, lone>>
RotateAnswered(c) ==
  /\ calls[c].kind = "rotate" /\ Ends(c)
  /\ \/ calls[c].step = "ok" /\ stored' = calls[c].made
     \/ calls[c].step = "error" /\ stored' = stored
     \/ calls[c].step = "401" /\ stored' = NoToken
  /\ UNCHANGED <<filed, expected, authed, lone>>
\* onAuth, or "Bearer token rejected."
LoginAnswered(c) ==
  /\ calls[c].kind = "login" /\ calls[c].step \in {"ok", "401"} /\ Ends(c)
  /\ authed' = (calls[c].step = "ok")
  /\ stored' = IF calls[c].step = "ok" THEN stored ELSE NoToken
  /\ lone' = (/\ calls[c].step = "ok" /\ stored = expected /\ expected = filed /\ ~Rotating
              /\ \A d \in Calls \ {c} : IsFree(d) \/ calls[d].token # stored)
  /\ UNCHANGED <<filed, expected>>
\* No answer: the token stays as it is, after a login as well.
Unanswered(c) ==
  /\ ~IsFree(c) /\ Ends(c)
  /\ lone' = (lone /\ calls[c].kind = "poll")
  /\ UNCHANGED <<filed, expected, stored, authed>>

\* What is in flight goes on, and a rotation that is answered later stores its
\* token.
SignsOut ==
  /\ authed /\ authed' = FALSE /\ stored' = NoToken
  /\ UNCHANGED <<filed, expected, calls, lone>>
\* The page is loaded again: any token that is stored counts as a session.
Reloads ==
  /\ authed' = (stored # NoToken) /\ calls' = [c \in Calls |-> Free]
  /\ lone' = (lone /\ authed /\ ~Rotating)
  /\ UNCHANGED <<filed, expected, stored>>

SessionInit ==
  /\ filed = 1 /\ expected = 1 /\ stored = NoToken /\ authed = FALSE
  /\ calls = [c \in Calls |-> Free] /\ lone = FALSE

SessionNext ==
  \/ OtherClientRotates \/ OtherReload \/ SignsOut \/ Reloads
  \/ \E c \in Calls :
       \/ Polls(c) \/ RotateClicked(c) \/ LoginSubmitted(c) \/ Checked(c)
       \/ RotationFails(c) \/ Filed(c) \/ Rotated(c)
       \/ PollAnswered(c) \/ RotateAnswered(c) \/ LoginAnswered(c) \/ Unanswered(c)

SessionSpec == SessionInit /\ [][SessionNext]_sessionVars

\* "Your current session is updated automatically": the page's own rotations,
\* with polls before, beside and after each, a refused or failed one, another
\* reload while the token is in its file, a sign-out and a new login leave the
\* browser with the token in force.  What `lone` names does not.
SessionKept == authed /\ lone /\ ~Rotating => stored = expected
==============================================================================
