------------------------- MODULE ConnectionProperties --------------------------
(***************************************************************************)
(* What the connections of the application promise, over the sessions, the *)
(* open drivers, the monitors, the tunnels and the tasks that are running. *)
(***************************************************************************)
EXTENDS ConnectionSessions

Statuses == {"none", "connecting", "connected", "error"}

Kinds == {"none", "ensure", "disconnect", "reconnect", "recover", "monitor", "closer"}

Points == {"none", "dedup", "connect", "leave", "openTunnel", "tunnelling", "prepare",
           "create", "opening", "install", "startMonitor", "started", "closeTunnel", "stopMonitor",
           "stopped", "invalidate", "reconnect", "died", "woken", "recover", "backoff",
           "sleep", "ping", "revive", "healthy", "failed"}

Sessions ==
  [status : Statuses, driver : DriverIds \cup {0}, tunnel : TunnelIds \cup {0}]

Tasks ==
  [kind : Kinds, conn : Connections \cup {NoConnection}, pc : Points,
   driver : DriverIds \cup {0}, tunnel : TunnelIds \cup {0}, waits : TaskIds \cup {0},
   cancelled : BOOLEAN, retry : 0..(MaxRetries - 1)]

(* Every task works for a connection.                                      *)
TasksTyped(ts) ==
  /\ ts \in [TaskIds -> Tasks]
  /\ \A t \in TaskIds : ts[t].kind # "none" => ts[t].conn \in Connections

(* Every variable has the values its declaration allows.                   *)
TypeOK ==
  /\ tunnels \in [Connections -> TunnelIds \cup {0}]
  /\ running \in [Connections -> SUBSET TunnelIds]
  /\ activeSessions \in [Connections -> Sessions]
  /\ currentSessionId \in Connections \cup {NoConnection}
  /\ healthMonitors \in [Connections -> TaskIds \cup {0}]
  /\ recoveringConnectionIds \subseteq Connections
  /\ inFlight \subseteq Connections
  /\ open \in [Connections -> SUBSET DriverIds]
  /\ TasksTyped(tasks)
  /\ starts \in 0..MaxStarts
  /\ deaths \in 0..MaxDeaths

TasksOf(c, kind) == {t \in Live(c) : tasks[t].kind = kind}

-------------------------------------------------------------------------------
(* Every open driver can still be closed: it is the session's, or a task   *)
(* that will install or close it holds it.  Whatever else happens, no      *)
(* connection to a database server stays open behind the user's back.      *)
OpenDriversAreHeld ==
  \A c \in Connections :
    open[c] \subseteq {activeSessions[c].driver} \cup {tasks[t].driver : t \in Live(c)}

(* A connection has one monitoring task at most, the one healthMonitors    *)
(* can stop: no orphan goes on pinging and reconnecting after a new        *)
(* monitor is started (ConnectionHealthMonitor.swift:115-116).             *)
OneMonitor ==
  \A c \in Connections : \A t \in TasksOf(c, "monitor") :
    /\ TasksOf(c, "monitor") = {t}
    /\ tasks[t].cancelled \/ healthMonitors[c] = t

Recovering(c) == {t \in TasksOf(c, "recover") : tasks[t].pc \notin {"died", "woken", "recover"}}

(* A connection has one recovery at most, however death callbacks and      *)
(* wake-ups fall (DatabaseManager+SSH.swift:105-108), and its mark stays   *)
(* for exactly as long.                                                    *)
OneRecovery ==
  \A c \in Connections :
    /\ \A t, u \in Recovering(c) : t = u
    /\ c \in recoveringConnectionIds <=> Recovering(c) # {}

(* A session shown as connected has an open driver: nothing closes the     *)
(* driver of a session without taking its status back in the same step.    *)
ConnectedIsOpen ==
  \A c \in Connections : IsConnected(c) => activeSessions[c].driver \in open[c]

(* A session shown as connecting is being connected: some task is on the   *)
(* way to a driver or to an error, so the indicator cannot stay for ever.  *)
ConnectingIsWorkedOn ==
  \A c \in Connections : activeSessions[c].status = "connecting" =>
    \E t \in Live(c) :
      \/ tasks[t].kind \in {"ensure", "reconnect", "recover", "disconnect"}
      \/ tasks[t].kind = "monitor" /\ tasks[t].pc \notin {"sleep", "ping"}

(* The current session is an active one, except while disconnectSession is *)
(* still to choose the next.                                               *)
CurrentIsActive ==
  \/ currentSessionId = NoConnection
  \/ HasSession(currentSessionId)
  \/ \E t \in Live(currentSessionId) : IsTask(t, {"disconnect"}, "invalidate")

(* Disconnecting closes the connection (docs/external-api/mcp-tools.mdx:95 *)
(* and 97): once it has no session and nothing runs for it any more, no    *)
(* driver of it is open.                                                   *)
DisconnectedIsClosed ==
  \A c \in Connections : ~ HasSession(c) /\ Live(c) = {} => open[c] = {}

(* Whatever is started ends, if the runtime runs the tasks: no operation   *)
(* waits for ever for a monitor that it has cancelled, and the recovery    *)
(* does not retry for ever.                                                *)
OperationsEnd ==
  \A t \in TaskIds : tasks[t].kind \notin {"none", "monitor"} ~> tasks[t].kind \in {"none", "monitor"}
================================================================================
