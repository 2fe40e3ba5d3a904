------------------------------ MODULE HaBridge ------------------------------
(***************************************************************************)
(* The connection of frame-core to the MQTT broker of Home Assistant:      *)
(* core/src/mqtt/index.ts, start, stop, restart and the handlers of the    *)
(* client.  start() reads the password file before it makes its client, so *)
(* a restart may come while a start is under way.                          *)
(***************************************************************************)
EXTENDS Naturals, Sequences, SequencesExt

CONSTANTS HaSettings,   \* values of the `ha` section, Off among them
          Off,          \* ha.enabled is false
          AuthLimit     \* refusals until the client gives up, 5 in the code

VARIABLES cfg,          \* HaBridge.cfg, with lastHaSig of index.ts
          booting,      \* main has not come to ha.start() yet
          starting,     \* settings of the starts that read the password
          clients,      \* MQTT clients that live; `held` is HaBridge.client
          status,       \* HaBridge.state
          authFailures,
          hurried       \* history: a start was under way when another began

bridgeVars == <<cfg, booting, starting, clients, status, authFailures, hurried>>

Statuses == {"disconnected", "connecting", "connected", "retrying", "auth_failed"}
Client == [conf: HaSettings \ {Off}, link: {"connecting", "online", "down", "ended"}, held: BOOLEAN]

\* The process has started with setting conf.
Booted(conf) ==
  /\ cfg' = conf
  /\ booting' = TRUE
  /\ starting' = <<>> /\ clients' = {}
  /\ status' = "disconnected"
  /\ authFailures' = 0
  /\ hurried' = FALSE

Init ==
  /\ cfg \in HaSettings
  /\ booting = TRUE
  /\ starting = <<>> /\ clients = {}
  /\ status = "disconnected"
  /\ authFailures = 0
  /\ hurried = FALSE

-----------------------------------------------------------------------------
\* The end of main, after the server listens: start() unless disabled.
StartAtBoot ==
  /\ booting
  /\ booting' = FALSE
  /\ starting' = IF cfg = Off THEN starting ELSE Append(starting, cfg)
  /\ hurried' = (hurried \/ (cfg # Off /\ (starting # <<>> \/ clients # {})))
  /\ UNCHANGED <<cfg, clients, status, authFailures>>

\* stop(): the client that is held ends for good.
Others == {c \in clients : ~c.held}

\* Seeded fault: the client that is held goes on.
Reconfigured_running(conf) ==
  \/ conf = cfg /\ UNCHANGED bridgeVars
  \/ /\ conf # cfg
     /\ cfg' = conf
     /\ status' = "disconnected"
     /\ starting' = IF conf = Off THEN starting ELSE Append(starting, conf)
     /\ hurried' = (hurried \/ starting # <<>>)
     /\ UNCHANGED <<booting, clients, authFailures>>

\* The configuration was loaded again.  If the setting differs: updateConfig
\* and restart, that is stop() and the beginning of start().
Reconfigured(conf) ==
  \/ conf = cfg /\ UNCHANGED bridgeVars
  \/ /\ conf # cfg
     /\ cfg' = conf
     /\ clients' = Others
     /\ status' = "disconnected"
     /\ starting' = IF conf = Off THEN starting ELSE Append(starting, conf)
     /\ hurried' = (hurried \/ starting # <<>>)
     /\ UNCHANGED <<booting, authFailures>>

\* Nobody holds the clients there are.
Dropped == {[c EXCEPT !.held = FALSE] : c \in clients}

\* The rest of start(): the password is read, and the new client takes the
\* place of the one that is held.
PasswordRead ==
  \E i \in DOMAIN starting :
    /\ starting' = RemoveAt(starting, i)
    /\ status' = "connecting"
    /\ clients' = Dropped \cup {[conf |-> starting[i], link |-> "connecting", held |-> TRUE]}
    /\ UNCHANGED <<cfg, booting, authFailures, hurried>>

-----------------------------------------------------------------------------
\* Events of a client.  All clients share status and authFailures.

Becomes(c, link) == clients' = (clients \ {c}) \cup {[c EXCEPT !.link = link]}

Connects(c) ==
  /\ c.link = "connecting"
  /\ Becomes(c, "online")
  /\ status' = "connected"
  /\ authFailures' = 0
  /\ UNCHANGED <<cfg, booting, starting, hurried>>

\* "close"
Closes(c) ==
  /\ c.link \in {"connecting", "online"}
  /\ Becomes(c, "down")
  /\ status' = IF status = "connected" THEN "disconnected" ELSE status
  /\ UNCHANGED <<cfg, booting, starting, authFailures, hurried>>

\* "reconnect", 5 s later
Reconnects(c) ==
  /\ c.link = "down"
  /\ Becomes(c, "connecting")
  /\ status' = IF status = "connected" THEN "retrying" ELSE status
  /\ UNCHANGED <<cfg, booting, starting, authFailures, hurried>>

\* Seeded fault: the client is not ended.
Refused_again(c) ==
  /\ c.link = "connecting"
  /\ authFailures' = IF authFailures < AuthLimit THEN authFailures + 1 ELSE authFailures
  /\ Becomes(c, "down")
  /\ status' = IF authFailures' = AuthLimit THEN "auth_failed" ELSE status
  /\ UNCHANGED <<cfg, booting, starting, hurried>>

\* "error", the broker does not accept the credentials.  The count goes on
\* above the limit; that it is above is all that matters.
Refused(c) ==
  /\ c.link = "connecting"
  /\ authFailures' = IF authFailures < AuthLimit THEN authFailures + 1 ELSE authFailures
  /\ \/ authFailures' < AuthLimit /\ Becomes(c, "down") /\ UNCHANGED status
     \/ authFailures' = AuthLimit /\ Becomes(c, "ended") /\ status' = "auth_failed"
  /\ UNCHANGED <<cfg, booting, starting, hurried>>

\* What the bridge does without the broker's or the network's doing.
BridgeStep ==
  \/ StartAtBoot
  \/ PasswordRead
  \/ \E c \in clients : Connects(c) \/ Reconnects(c)

Failure == \E c \in clients : Closes(c) \/ Refused(c)

Next == BridgeStep \/ Failure \/ \E conf \in HaSettings : Reconfigured(conf) \/ Booted(conf)

Spec == Init /\ [][Next]_bridgeVars

-----------------------------------------------------------------------------
\* No more than one client is held, and refusals are counted to the limit.
TypeOK ==
  /\ cfg \in HaSettings /\ booting \in BOOLEAN /\ hurried \in BOOLEAN
  /\ starting \in Seq(HaSettings \ {Off})
  /\ clients \subseteq Client
  /\ \A c, d \in clients : c.held /\ d.held => c = d
  /\ status \in Statuses
  /\ authFailures \in 0..AuthLimit

\* Once no start is under way there is one client, for the setting in use, or
\* none if that is off - through restarts, a restart during boot, and lost and
\* refused connections.  Excused are starts that overlap: start() of an old
\* setting then goes on and its client is not ended by anyone.
OneConnection ==
  ~hurried /\ ~booting /\ starting = <<>> =>
    IF cfg = Off THEN clients = {}
    ELSE \E c \in clients : clients = {c} /\ c.held /\ c.conf = cfg

\* The state that HaBridge.status() returns is what the client does: it is
\* "connected" if and only if the client is online, and after "auth_failed" no
\* client tries again.  That is the state in the process; mqtt_auth_ok on the
\* broker is not modelled, and does not follow it (README, section 4).
StatusTruthful ==
  ~hurried =>
    /\ status = "connected" <=> \E c \in clients : c.link = "online"
    /\ status = "auth_failed" => \A c \in clients : c.link = "ended"
=============================================================================
