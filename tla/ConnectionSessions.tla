-------------------------- MODULE ConnectionSessions ---------------------------
(***************************************************************************)
(* DatabaseManager and ConnectionHealthMonitor: opening, keeping and       *)
(* closing database connections.                                           *)
(*                                                                         *)
(* Every operation is an asynchronous task on the main actor.  An await is *)
(* a point where any other task may run, so a task is a record with a      *)
(* program counter, pc, that says which await it is at, and an action is   *)
(* what a task does from one await to the next.  A health monitor is such  *)
(* a task too: its loop, its ping and its reconnects.                      *)
(*                                                                         *)
(* A driver is a number per connection; open holds those that have         *)
(* connected and that disconnect() has not closed.                         *)
(***************************************************************************)
EXTENDS SSHTunnels

CONSTANTS
  Monitored,      \* connections whose plug-in supports the health monitor
  NoConnection,   \* nil for currentSessionId
  Operations,     \* the kinds of operation this instance exercises
  Alone,          \* operations that start only when no other one of their connection runs
  AtRest,         \* and those of them that wait for its monitor's reconnect to be over, too
  MaxTasks,       \* bound on the tasks that exist at once
  MaxDrivers,     \* bound on the drivers of one connection that exist at once
  MaxStarts,      \* bound on the operations that are started
  MaxDeaths,      \* bound on the tunnels that die
  MaxRetries      \* maxRetries of the tunnel recovery (10 in the code)

AllOperations == {"ensure", "disconnect", "reconnect", "wake", "death"}

ASSUME MonitoredAssumption == Monitored \subseteq Connections
ASSUME NoConnectionAssumption == NoConnection \notin Connections
ASSUME OperationsAssumption ==
  Operations \subseteq AllOperations /\ Alone \subseteq AllOperations /\ AtRest \subseteq Alone
ASSUME LimitsAssumption ==
  /\ MaxTasks \in Nat /\ MaxDrivers \in Nat /\ MaxStarts \in Nat /\ MaxDeaths \in Nat
  /\ MaxRetries \in Nat \ {0}

VARIABLES
  activeSessions,           \* connection -> session
  currentSessionId,
  healthMonitors,           \* connection -> the task of its monitor, 0 for none
  recoveringConnectionIds,
  inFlight,                 \* connections with an entry in ensureConnectedDedup
  open,                     \* connection -> the open drivers
  tasks,                    \* task number -> task
  starts,                   \* operations started so far
  deaths                    \* tunnels that died so far

vars == <<tunnels, running, activeSessions, currentSessionId, healthMonitors,
          recoveringConnectionIds, inFlight, open, tasks, starts, deaths>>

TaskIds == 1..MaxTasks
DriverIds == 1..MaxDrivers

(* status is none when activeSessions has no entry; driver and tunnel are  *)
(* 0 for nil.  tunnel is the port of effectiveConnection.                  *)
NoSession == [status |-> "none", driver |-> 0, tunnel |-> 0]

(* driver and tunnel: what the task has created or captured; waits: the    *)
(* monitor whose end it awaits; retry: the recovery's attempt.             *)
Task(kind, c, pc) ==
  [kind |-> kind, conn |-> c, pc |-> pc, driver |-> 0, tunnel |-> 0,
   waits |-> 0, cancelled |-> FALSE, retry |-> 0]

NoTask == Task("none", NoConnection, "none")

Init ==
  /\ TunnelsInit
  /\ activeSessions = [c \in Connections |-> NoSession]
  /\ currentSessionId = NoConnection
  /\ healthMonitors = [c \in Connections |-> 0]
  /\ recoveringConnectionIds = {}
  /\ inFlight = {}
  /\ open = [c \in Connections |-> {}]
  /\ tasks = [t \in TaskIds |-> NoTask]
  /\ starts = 0
  /\ deaths = 0

-------------------------------------------------------------------------------
(***************************************************************************)
(* Sessions.                                                               *)
(***************************************************************************)
HasSession(c) == activeSessions[c].status # "none"

IsConnected(c) == activeSessions[c].status = "connected"

(* updateSession does nothing when the session is gone.                    *)
SetStatus(c, status) ==
  activeSessions' =
    IF HasSession(c) THEN [activeSessions EXCEPT ![c].status = status] ELSE activeSessions

InstallDriver(c, driver, tunnel) ==
  activeSessions' =
    IF HasSession(c)
    THEN [activeSessions EXCEPT ![c] = [status |-> "connected", driver |-> driver, tunnel |-> tunnel]]
    ELSE activeSessions

(* Mutant: a failed connect leaves the session as it is.                   *)
KeepSessionEntry(c) == UNCHANGED activeSessions

RemoveSessionEntry(c) == activeSessions' = [activeSessions EXCEPT ![c] = NoSession]

(* Mutant: the session that went stays current.                            *)
KeepCurrentSession(c, sessions) == UNCHANGED currentSessionId

(* Some other session becomes current, if there is one.                    *)
PickNextSession(c, sessions) ==
  IF currentSessionId # c THEN UNCHANGED currentSessionId
  ELSE LET others == {d \in Connections : sessions[d].status # "none"}
       IN  IF others = {} THEN currentSessionId' = NoConnection
           ELSE currentSessionId' \in others

(* disconnect() on a driver that may be nil or closed already.             *)
Disconnect(c, driver) == open' = [open EXCEPT ![c] = @ \ {driver}]

-------------------------------------------------------------------------------
(***************************************************************************)
(* Tasks.                                                                  *)
(***************************************************************************)
IsTask(t, kinds, pc) == tasks[t].kind \in kinds /\ tasks[t].pc = pc

Conn(t) == tasks[t].conn

Live(c) == {t \in TaskIds : tasks[t].kind # "none" /\ Conn(t) = c}

FreeTasks == {t \in TaskIds : tasks[t].kind = "none"}

(* Which of the free numbers a new object or task gets makes no difference. *)
AnyOf(S) == CHOOSE n \in S : TRUE

(* A task ends and whoever awaits it goes on.                              *)
Ended(ts, t) ==
  [u \in TaskIds |-> IF u = t THEN NoTask
                     ELSE [ts[u] EXCEPT !.waits = IF @ = t THEN 0 ELSE @]]

Goto(t, pc) == tasks' = [tasks EXCEPT ![t].pc = pc]

End(t) == tasks' = Ended(tasks, t)

(* ts with a new task in a free place, if the condition holds.             *)
Spawned(ts, condition, task) ==
  IF condition THEN [ts EXCEPT ![AnyOf({t \in TaskIds : ts[t].kind = "none"})] = task] ELSE ts

(* A number no object of the connection has.                               *)
FreshDriver(c) ==
  DriverIds \ (open[c] \cup {activeSessions[c].driver} \cup {tasks[t].driver : t \in Live(c)})

FreshTunnel(c) ==
  TunnelIds \ (running[c] \cup {tunnels[c], activeSessions[c].tunnel}
                 \cup {tasks[t].tunnel : t \in Live(c)})

(* Mutant: the monitor is awaited but was not cancelled.                   *)
StopWithoutCancel(ts, t, c, pc) ==
  /\ healthMonitors[c] # 0
  /\ healthMonitors' = [healthMonitors EXCEPT ![c] = 0]
  /\ tasks' = [ts EXCEPT ![t].waits = healthMonitors[c], ![t].pc = pc]

(* Mutant: the monitor is cancelled and not awaited.                       *)
StopWithoutAwait(ts, t, c, pc) ==
  /\ healthMonitors[c] # 0
  /\ healthMonitors' = [healthMonitors EXCEPT ![c] = 0]
  /\ tasks' = [ts EXCEPT ![healthMonitors[c]].cancelled = TRUE, ![t].pc = pc]

(* stopHealthMonitor takes the monitor out and cancels it; task t of ts    *)
(* awaits its end.  Without a monitor there is nothing to await: what      *)
(* follows stopHealthMonitor is then part of the same step.                *)
StopHealthMonitor(ts, t, c, pc) ==
  LET m == healthMonitors[c]
  IN  /\ m # 0
      /\ healthMonitors' = [healthMonitors EXCEPT ![c] = 0]
      /\ tasks' = [u \in TaskIds |->
                     IF u = t THEN [ts[t] EXCEPT !.waits = m, !.pc = pc]
                     ELSE IF u = m THEN [ts[m] EXCEPT !.cancelled = TRUE]
                     ELSE ts[u]]

NoMonitor(c) == healthMonitors[c] = 0 /\ UNCHANGED healthMonitors

(* The task has handed over or dropped what it held.                       *)
Emptied(t) == [tasks EXCEPT ![t].driver = 0, ![t].tunnel = 0]

(* Tasks inside connectToSession, and all that create a driver.            *)
Connecting == {"ensure", "recover"}
Openers == Connecting \cup {"reconnect", "monitor"}

(* Mutant: the recovery does not count its attempts.                       *)
RecoveryNeverGivesUp(t, success) == tasks[t].kind = "recover" /\ success

(* connectToSession returns to ensureConnected or to the recovery.  When   *)
(* the last retry fails the recovery is over, and its error status finds   *)
(* no session to go to: connectToSession has just removed it.              *)
RecoveryIsOver(t, success) ==
  tasks[t].kind = "recover" /\ (success \/ tasks[t].retry + 1 = MaxRetries)

Returned(ts, t, success) ==
  CASE ts[t].kind = "ensure" -> [ts EXCEPT ![t].pc = "leave"]
    [] RecoveryIsOver(t, success) -> Ended(ts, t)
    [] OTHER -> [ts EXCEPT ![t].pc = "backoff", ![t].retry = @ + 1]

(* Mutant: the mark is taken back on the way out of a success only.        *)
UnmarkSuccessful(t, success) ==
  recoveringConnectionIds' =
    IF RecoveryIsOver(t, success) /\ success THEN recoveringConnectionIds \ {Conn(t)}
    ELSE recoveringConnectionIds

Unmark(t, success) ==
  recoveringConnectionIds' =
    IF RecoveryIsOver(t, success) THEN recoveringConnectionIds \ {Conn(t)}
    ELSE recoveringConnectionIds

-------------------------------------------------------------------------------
(***************************************************************************)
(* Operations start.                                                       *)
(***************************************************************************)
MonitorAtRest(t) == tasks[t].kind = "monitor" /\ tasks[t].pc \in {"sleep", "ping"}

MayStart(operation, c) ==
  \A t \in Live(c) :
    /\ operation \in Alone => tasks[t].kind = "monitor"
    /\ operation \in AtRest => MonitorAtRest(t)

CanStart(operation, c) ==
  /\ operation \in Operations
  /\ starts < MaxStarts
  /\ FreeTasks # {}
  /\ MayStart(operation, c)

Start(task) ==
  /\ starts' = starts + 1
  /\ tasks' = [tasks EXCEPT ![AnyOf(FreeTasks)] = task]

EnsureConnected(c) ==
  /\ CanStart("ensure", c)
  /\ activeSessions[c].driver = 0
  /\ Start(Task("ensure", c, "dedup"))
  /\ UNCHANGED <<tunnelVars, activeSessions, currentSessionId, healthMonitors,
                 recoveringConnectionIds, inFlight, open, deaths>>

(* The rest of disconnectSession, once the monitor is gone: the driver     *)
(* that was the session's when it began is closed, and the session goes,   *)
(* whatever it holds now.                                                  *)
CloseSession(ts, t, c) ==
  /\ Disconnect(c, ts[t].driver)
  /\ RemoveSessionEntry(c)
  /\ tasks' = [ts EXCEPT ![t].driver = 0, ![t].pc = "invalidate"]

StopThenClose(ts, t, c) ==
  \/ StopHealthMonitor(ts, t, c, "stopped") /\ UNCHANGED <<activeSessions, open>>
  \/ NoMonitor(c) /\ CloseSession(ts, t, c)

DisconnectSession(c) ==
  LET t  == AnyOf(FreeTasks)
      ts == [tasks EXCEPT ![t] = [Task("disconnect", c, "closeTunnel") EXCEPT
                                    !.driver = activeSessions[c].driver]]
  IN  /\ CanStart("disconnect", c)
      /\ HasSession(c)
      /\ starts' = starts + 1
      /\ IF c \in Tunnelled THEN tasks' = ts /\ UNCHANGED <<activeSessions, healthMonitors, open>>
         ELSE StopThenClose(ts, t, c)
      /\ UNCHANGED <<tunnelVars, currentSessionId, recoveringConnectionIds, inFlight, deaths>>

(* switchDatabase, where a switch needs a reconnect.                       *)
SwitchDatabase(c) ==
  /\ CanStart("reconnect", c)
  /\ activeSessions[c].driver # 0
  /\ Start(Task("reconnect", c, "reconnect"))
  /\ UNCHANGED <<tunnelVars, activeSessions, currentSessionId, healthMonitors,
                 recoveringConnectionIds, inFlight, open, deaths>>

(* The system wakes from sleep: sessions that look connected are checked.  *)
SystemDidWake(c) ==
  /\ CanStart("wake", c)
  /\ c \in Tunnelled
  /\ IsConnected(c)
  /\ Start(Task("recover", c, "woken"))
  /\ UNCHANGED <<tunnelVars, activeSessions, currentSessionId, healthMonitors,
                 recoveringConnectionIds, inFlight, open, deaths>>

(* A tunnel dies; its onDeath starts a task.                               *)
TunnelDies(c, n) ==
  /\ deaths < MaxDeaths
  /\ FreeTasks # {}
  /\ MayStart("death", c)
  /\ MarkDead(c, n)
  /\ deaths' = deaths + 1
  /\ tasks' = [tasks EXCEPT ![AnyOf(FreeTasks)] = Task("recover", c, "died")]
  /\ UNCHANGED <<activeSessions, currentSessionId, healthMonitors, recoveringConnectionIds,
                 inFlight, open, starts>>

-------------------------------------------------------------------------------
(***************************************************************************)
(* ensureConnected and connectToSession; createTunnel and the opening of a *)
(* driver are shared with the reconnects.                                  *)
(***************************************************************************)
(* OnceTask.execute: join the connect in flight, or be it.                 *)
Dedup(t) ==
  LET c == Conn(t)
  IN  /\ IsTask(t, {"ensure"}, "dedup")
      /\ IF c \in inFlight THEN End(t) /\ UNCHANGED inFlight
         ELSE Goto(t, "connect") /\ inFlight' = inFlight \cup {c}
      /\ UNCHANGED <<tunnelVars, activeSessions, currentSessionId, healthMonitors,
                     recoveringConnectionIds, open, starts, deaths>>

LeaveDedup(t) ==
  /\ IsTask(t, {"ensure"}, "leave")
  /\ inFlight' = inFlight \ {Conn(t)}
  /\ End(t)
  /\ UNCHANGED <<tunnelVars, activeSessions, currentSessionId, healthMonitors,
                 recoveringConnectionIds, open, starts, deaths>>

ConnectToSession(t) ==
  LET c == Conn(t)
  IN  /\ IsTask(t, {"ensure"}, "connect") \/ IsTask(t, {"recover"}, "backoff")
      /\ currentSessionId' = c
      /\ IF activeSessions[c].driver # 0
         THEN /\ tasks' = Returned(tasks, t, TRUE)
              /\ Unmark(t, TRUE)
              /\ UNCHANGED activeSessions
         ELSE /\ Goto(t, IF c \in Tunnelled THEN "openTunnel" ELSE "prepare")
              /\ activeSessions' = IF HasSession(c) THEN activeSessions
                                   ELSE [activeSessions EXCEPT ![c].status = "connecting"]
              /\ UNCHANGED recoveringConnectionIds
      /\ UNCHANGED <<tunnelVars, healthMonitors, inFlight, open, starts, deaths>>

(* createTunnel closes the tunnel of the table and connects a new one.     *)
BeginTunnel(t) ==
  /\ IsTask(t, Openers, "openTunnel")
  /\ CloseTunnel(Conn(t))
  /\ Goto(t, "tunnelling")
  /\ UNCHANGED <<activeSessions, currentSessionId, healthMonitors, recoveringConnectionIds,
                 inFlight, open, starts, deaths>>

TunnelOpens(t) ==
  LET c == Conn(t)
      n == AnyOf(FreshTunnel(c))
  IN  /\ IsTask(t, Openers, "tunnelling")
      /\ FreshTunnel(c) # {}
      /\ InstallTunnel(c, n)
      /\ tasks' = [tasks EXCEPT ![t].tunnel = n,
                                ![t].pc = IF tasks[t].kind \in Connecting THEN "prepare" ELSE "create"]
      /\ UNCHANGED <<activeSessions, currentSessionId, healthMonitors,
                     recoveringConnectionIds, inFlight, open, starts, deaths>>

(* The pre-connect script and the password prompt.                         *)
Prepared(t) ==
  /\ IsTask(t, Connecting, "prepare")
  /\ Goto(t, "create")
  /\ UNCHANGED <<tunnelVars, activeSessions, currentSessionId, healthMonitors,
                 recoveringConnectionIds, inFlight, open, starts, deaths>>

DriverCreated(t) ==
  /\ IsTask(t, Openers, "create")
  /\ FreshDriver(Conn(t)) # {}
  /\ tasks' = [tasks EXCEPT ![t].driver = AnyOf(FreshDriver(Conn(t))), ![t].pc = "opening"]
  /\ UNCHANGED <<tunnelVars, activeSessions, currentSessionId, healthMonitors,
                 recoveringConnectionIds, inFlight, open, starts, deaths>>

(* driver.connect() needs the tunnel; what follows it cannot fail.         *)
DriverOpens(t) ==
  LET c == Conn(t)
  IN  /\ IsTask(t, Openers, "opening")
      /\ c \in Tunnelled => tasks[t].tunnel \in running[c]
      /\ open' = [open EXCEPT ![c] = @ \cup {tasks[t].driver}]
      /\ Goto(t, "install")
      /\ UNCHANGED <<tunnelVars, activeSessions, currentSessionId, healthMonitors,
                     recoveringConnectionIds, inFlight, starts, deaths>>

Closer(c) == Task("closer", c, "closeTunnel")

(* connectToSession fails before driver.connect(): the session goes, and   *)
(* no session is current.  Only a failed createDriver closes the tunnel,   *)
(* in a task of its own.                                                   *)
ConnectFailsEarly(t) ==
  LET c == Conn(t)
      closes == tasks[t].pc = "create" /\ c \in Tunnelled
  IN  /\ tasks[t].kind \in Connecting
      /\ tasks[t].pc \in {"tunnelling", "prepare", "create"}
      /\ closes => FreeTasks # {}
      /\ RemoveSessionEntry(c)
      /\ currentSessionId' = NoConnection
      /\ tasks' = Spawned(Returned(Emptied(t), t, FALSE), closes, Closer(c))
      /\ Unmark(t, FALSE)
      /\ UNCHANGED <<tunnelVars, healthMonitors, inFlight, open, starts, deaths>>

(* connectToSession fails in driver.connect().                             *)
ConnectFails(t) ==
  LET c == Conn(t)
  IN  /\ IsTask(t, Connecting, "opening")
      /\ c \in Tunnelled => FreeTasks # {}
      /\ RemoveSessionEntry(c)
      /\ PickNextSession(c, activeSessions')
      /\ tasks' = Spawned(Returned(Emptied(t), t, FALSE), c \in Tunnelled, Closer(c))
      /\ Unmark(t, FALSE)
      /\ UNCHANGED <<tunnelVars, healthMonitors, inFlight, open, starts, deaths>>

(* startHealthMonitor, once the old monitor is gone.                       *)
StartMonitor(ts, t, c) ==
  LET m == AnyOf(FreeTasks)
  IN  /\ FreeTasks # {}
      /\ healthMonitors' = [healthMonitors EXCEPT ![c] = m]
      /\ tasks' = [ts EXCEPT ![m] = Task("monitor", c, "sleep"), ![t].pc = "started"]

(* The driver goes into the session, if there is one still, and a monitor  *)
(* is started: the old one is stopped first.                               *)
Connected(t) ==
  LET c == Conn(t)
  IN  /\ IsTask(t, Connecting \cup {"reconnect"}, "install")
      /\ InstallDriver(c, tasks[t].driver, tasks[t].tunnel)
      /\ \/ /\ c \in Monitored
            /\ \/ StopHealthMonitor(Emptied(t), t, c, "startMonitor")
               \/ healthMonitors[c] = 0 /\ StartMonitor(Emptied(t), t, c)
            /\ UNCHANGED recoveringConnectionIds
         \/ /\ c \notin Monitored
            /\ tasks' = IF tasks[t].kind = "reconnect" THEN Ended(tasks, t)
                        ELSE Returned(Emptied(t), t, TRUE)
            /\ Unmark(t, TRUE)
            /\ UNCHANGED healthMonitors
      /\ UNCHANGED <<tunnelVars, currentSessionId, inFlight, open, starts, deaths>>

(* Mutant: the new monitor is started before the old one has ended.        *)
OldMonitorCancelled(t) ==
  /\ IsTask(t, Connecting \cup {"reconnect"}, "startMonitor")
  /\ StartMonitor(tasks, t, Conn(t))
  /\ UNCHANGED <<tunnelVars, activeSessions, currentSessionId, recoveringConnectionIds,
                 inFlight, open, starts, deaths>>

(* Whatever monitor has been started meanwhile is overwritten.             *)
OldMonitorStopped(t) ==
  /\ IsTask(t, Connecting \cup {"reconnect"}, "startMonitor")
  /\ tasks[t].waits = 0
  /\ StartMonitor(tasks, t, Conn(t))
  /\ UNCHANGED <<tunnelVars, activeSessions, currentSessionId, recoveringConnectionIds,
                 inFlight, open, starts, deaths>>

MonitorStarted(t) ==
  /\ IsTask(t, Connecting \cup {"reconnect"}, "started")
  /\ tasks' = IF tasks[t].kind = "reconnect" THEN Ended(tasks, t) ELSE Returned(tasks, t, TRUE)
  /\ Unmark(t, TRUE)
  /\ UNCHANGED <<tunnelVars, activeSessions, currentSessionId, healthMonitors, inFlight,
                 open, starts, deaths>>

-------------------------------------------------------------------------------
(***************************************************************************)
(* disconnectSession, and the tasks that close a tunnel.                   *)
(***************************************************************************)
CloseItsTunnel(t) ==
  /\ IsTask(t, {"disconnect", "monitor", "closer"}, "closeTunnel")
  /\ CloseTunnel(Conn(t))
  /\ CASE tasks[t].kind = "disconnect" -> Goto(t, "stopMonitor")
       [] tasks[t].kind = "monitor" -> Goto(t, "failed")
       [] tasks[t].kind = "closer" -> End(t)
  /\ UNCHANGED <<activeSessions, currentSessionId, healthMonitors, recoveringConnectionIds,
                 inFlight, open, starts, deaths>>

MonitorStopped(t, kind) == IsTask(t, {kind}, "stopped") /\ tasks[t].waits = 0

StopBeforeClose(t) ==
  /\ IsTask(t, {"disconnect"}, "stopMonitor")
  /\ StopThenClose(tasks, t, Conn(t))
  /\ UNCHANGED <<tunnelVars, currentSessionId, recoveringConnectionIds, inFlight, starts, deaths>>

StoppedBeforeClose(t) ==
  /\ MonitorStopped(t, "disconnect")
  /\ CloseSession(tasks, t, Conn(t))
  /\ UNCHANGED <<tunnelVars, currentSessionId, healthMonitors, recoveringConnectionIds,
                 inFlight, starts, deaths>>

(* After the schema cache has been invalidated.                            *)
LeaveSession(t) ==
  /\ IsTask(t, {"disconnect"}, "invalidate")
  /\ PickNextSession(Conn(t), activeSessions)
  /\ End(t)
  /\ UNCHANGED <<tunnelVars, activeSessions, healthMonitors, recoveringConnectionIds,
                 inFlight, open, starts, deaths>>

-------------------------------------------------------------------------------
(***************************************************************************)
(* reconnectSession.                                                       *)
(***************************************************************************)
BeginReconnect(t) ==
  LET c == Conn(t)
  IN  /\ IsTask(t, {"reconnect"}, "reconnect")
      /\ SetStatus(c, "connecting")
      /\ IF HasSession(c) THEN Goto(t, "stopMonitor") ELSE End(t)
      /\ UNCHANGED <<tunnelVars, currentSessionId, healthMonitors, recoveringConnectionIds,
                     inFlight, open, starts, deaths>>

(* Where a tunnel or a driver is made next.                                *)
OpenNext(c) == IF c \in Tunnelled THEN "openTunnel" ELSE "create"

(* Mutant: the old driver is dropped without being closed.                 *)
LeaveOldDriverOpen(t) == Goto(t, OpenNext(Conn(t))) /\ UNCHANGED open

CloseOldDriver(t) ==
  /\ Disconnect(Conn(t), activeSessions[Conn(t)].driver)
  /\ Goto(t, OpenNext(Conn(t)))

StopBeforeReconnect(t) ==
  LET c == Conn(t)
  IN  /\ IsTask(t, {"reconnect"}, "stopMonitor")
      /\ \/ StopHealthMonitor(tasks, t, c, "stopped") /\ UNCHANGED open
         \/ NoMonitor(c) /\ CloseOldDriver(t)
      /\ UNCHANGED <<tunnelVars, activeSessions, currentSessionId, recoveringConnectionIds,
                     inFlight, starts, deaths>>

StoppedBeforeReconnect(t) ==
  /\ MonitorStopped(t, "reconnect")
  /\ CloseOldDriver(t)
  /\ UNCHANGED <<tunnelVars, activeSessions, currentSessionId, healthMonitors,
                 recoveringConnectionIds, inFlight, starts, deaths>>

(* Mutant: a failed reconnect leaves the status as it is.                  *)
ReconnectFailsQuietly(t) ==
  /\ tasks[t].kind = "reconnect"
  /\ tasks[t].pc \in {"tunnelling", "create", "opening"}
  /\ End(t)
  /\ UNCHANGED <<tunnelVars, activeSessions, currentSessionId, healthMonitors,
                 recoveringConnectionIds, inFlight, open, starts, deaths>>

(* The closed driver stays in the session, and no monitor is started.      *)
ReconnectFails(t) ==
  /\ tasks[t].kind = "reconnect"
  /\ tasks[t].pc \in {"tunnelling", "create", "opening"}
  /\ SetStatus(Conn(t), "error")
  /\ End(t)
  /\ UNCHANGED <<tunnelVars, currentSessionId, healthMonitors, recoveringConnectionIds,
                 inFlight, open, starts, deaths>>

-------------------------------------------------------------------------------
(***************************************************************************)
(* handleSSHTunnelDied, called by the tunnel manager and after a wake-up.  *)
(***************************************************************************)
(* handleTunnelDeath: the first callback to find a tunnel in the table.    *)
TunnelDeathHandled(t) ==
  LET c == Conn(t)
  IN  /\ IsTask(t, {"recover"}, "died")
      /\ IF tunnels[c] = 0 THEN End(t) /\ UNCHANGED tunnelVars
         ELSE Goto(t, "recover") /\ ForgetTunnel(c)
      /\ UNCHANGED <<activeSessions, currentSessionId, healthMonitors,
                     recoveringConnectionIds, inFlight, open, starts, deaths>>

ValidateTunnel(t) ==
  /\ IsTask(t, {"recover"}, "woken")
  /\ IF HasTunnel(Conn(t)) THEN End(t) ELSE Goto(t, "recover")
  /\ UNCHANGED <<tunnelVars, activeSessions, currentSessionId, healthMonitors,
                 recoveringConnectionIds, inFlight, open, starts, deaths>>

(* Mutant: the stale driver is forgotten and not closed.                   *)
ForgetStaleDriver(t) ==
  /\ activeSessions' = IF ~ HasSession(Conn(t)) THEN activeSessions
                       ELSE [activeSessions EXCEPT ![Conn(t)].driver = 0,
                                                   ![Conn(t)].status = "connecting"]
  /\ Goto(t, "backoff")
  /\ UNCHANGED open

(* Mutant: the stale driver is closed behind a session shown as connected. *)
CloseStaleDriver(t) ==
  /\ Disconnect(Conn(t), activeSessions[Conn(t)].driver)
  /\ activeSessions' = [activeSessions EXCEPT ![Conn(t)].driver = 0]
  /\ Goto(t, "backoff")

(* The stale driver goes, so that connectToSession makes a new one.        *)
DropStaleDriver(t) ==
  LET c == Conn(t)
  IN  /\ Disconnect(c, activeSessions[c].driver)
      /\ activeSessions' = IF ~ HasSession(c) THEN activeSessions
                           ELSE [activeSessions EXCEPT ![c].driver = 0,
                                                       ![c].status = "connecting"]
      /\ Goto(t, "backoff")

(* Mutant: a recovery that is going on does not keep another away.         *)
MayAlwaysRecover(c) == HasSession(c)

MayRecover(c) == HasSession(c) /\ c \notin recoveringConnectionIds

BeginRecovery(t) ==
  LET c == Conn(t)
  IN  /\ IsTask(t, {"recover"}, "recover")
      /\ \/ /\ ~ MayRecover(c)
            /\ End(t)
            /\ UNCHANGED <<recoveringConnectionIds, healthMonitors, activeSessions, open>>
         \/ /\ MayRecover(c)
            /\ recoveringConnectionIds' = recoveringConnectionIds \cup {c}
            /\ \/ /\ StopHealthMonitor(tasks, t, c, "stopped")
                  /\ UNCHANGED <<activeSessions, open>>
               \/ NoMonitor(c) /\ DropStaleDriver(t)
      /\ UNCHANGED <<tunnelVars, currentSessionId, inFlight, starts, deaths>>

StoppedBeforeRecovery(t) ==
  /\ MonitorStopped(t, "recover")
  /\ DropStaleDriver(t)
  /\ UNCHANGED <<tunnelVars, currentSessionId, healthMonitors, recoveringConnectionIds,
                 inFlight, starts, deaths>>

-------------------------------------------------------------------------------
(***************************************************************************)
(* ConnectionHealthMonitor: its monitoring task.  Cancelling it cuts its   *)
(* sleeps short and is looked at after them.                               *)
(***************************************************************************)
MonitorWakes(t) ==
  /\ IsTask(t, {"monitor"}, "sleep")
  /\ IF tasks[t].cancelled THEN End(t) ELSE Goto(t, "ping")
  /\ UNCHANGED <<tunnelVars, activeSessions, currentSessionId, healthMonitors,
                 recoveringConnectionIds, inFlight, open, starts, deaths>>

(* SELECT 1 works, or a query is in flight and the ping is skipped.        *)
PingAnswered(t) ==
  /\ IsTask(t, {"monitor"}, "ping")
  /\ Goto(t, "sleep")
  /\ UNCHANGED <<tunnelVars, activeSessions, currentSessionId, healthMonitors,
                 recoveringConnectionIds, inFlight, open, starts, deaths>>

(* attemptReconnect, from the ping or a reconnect that failed: wait for    *)
(* the next attempt, or fail if the monitor has been stopped.              *)
AttemptReconnect(t) ==
  /\ tasks[t].kind = "monitor"
  /\ tasks[t].pc \in {"ping", "failed"}
  /\ IF tasks[t].cancelled THEN End(t) /\ SetStatus(Conn(t), "error")
     ELSE Goto(t, "backoff") /\ SetStatus(Conn(t), "connecting")
  /\ UNCHANGED <<tunnelVars, currentSessionId, healthMonitors, recoveringConnectionIds,
                 inFlight, open, starts, deaths>>

(* The reconnect handler takes a copy of the session.                      *)
BackoffOver(t) ==
  LET c == Conn(t)
  IN  /\ IsTask(t, {"monitor"}, "backoff")
      /\ IF tasks[t].cancelled THEN End(t)
         ELSE IF HasSession(c)
         THEN tasks' = [tasks EXCEPT ![t].driver = activeSessions[c].driver, ![t].pc = "revive"]
         ELSE Goto(t, "failed")
      /\ UNCHANGED <<tunnelVars, activeSessions, currentSessionId, healthMonitors,
                     recoveringConnectionIds, inFlight, open, starts, deaths>>

(* reconnectDriver closes the driver of that copy.                         *)
ReconnectDriver(t) ==
  LET c == Conn(t)
  IN  /\ IsTask(t, {"monitor"}, "revive")
      /\ Disconnect(c, tasks[t].driver)
      /\ tasks' = [tasks EXCEPT ![t].driver = 0, ![t].pc = OpenNext(c)]
      /\ UNCHANGED <<tunnelVars, activeSessions, currentSessionId, healthMonitors,
                     recoveringConnectionIds, inFlight, starts, deaths>>

(* Only a failed driver.connect() closes the tunnel.                       *)
ReconnectDriverFails(t) ==
  /\ tasks[t].kind = "monitor"
  /\ tasks[t].pc \in {"tunnelling", "create", "opening"}
  /\ tasks' = [Emptied(t) EXCEPT
                 ![t].pc = IF tasks[t].pc = "opening" /\ Conn(t) \in Tunnelled
                           THEN "closeTunnel" ELSE "failed"]
  /\ UNCHANGED <<tunnelVars, activeSessions, currentSessionId, healthMonitors,
                 recoveringConnectionIds, inFlight, open, starts, deaths>>

(* The new driver goes into the session, if there is one still.            *)
Reconnected(t) ==
  /\ IsTask(t, {"monitor"}, "install")
  /\ InstallDriver(Conn(t), tasks[t].driver, tasks[t].tunnel)
  /\ tasks' = [Emptied(t) EXCEPT ![t].pc = "healthy"]
  /\ UNCHANGED <<tunnelVars, currentSessionId, healthMonitors, recoveringConnectionIds,
                 inFlight, open, starts, deaths>>

Healthy(t) ==
  /\ IsTask(t, {"monitor"}, "healthy")
  /\ SetStatus(Conn(t), "connected")
  /\ Goto(t, "sleep")
  /\ UNCHANGED <<tunnelVars, currentSessionId, healthMonitors, recoveringConnectionIds,
                 inFlight, open, starts, deaths>>

-------------------------------------------------------------------------------
(***************************************************************************)
(* The system.  The runtime runs every task that is not waiting, so a task *)
(* that can take a step does.                                              *)
(***************************************************************************)
Opening(t) ==
  \/ BeginTunnel(t) \/ TunnelOpens(t) \/ DriverCreated(t) \/ DriverOpens(t)
  \/ Connected(t) \/ OldMonitorStopped(t) \/ MonitorStarted(t)

Connect(t) ==
  \/ Dedup(t) \/ LeaveDedup(t) \/ ConnectToSession(t) \/ Prepared(t)
  \/ ConnectFailsEarly(t) \/ ConnectFails(t)

Close(t) ==
  \/ CloseItsTunnel(t) \/ StopBeforeClose(t) \/ StoppedBeforeClose(t) \/ LeaveSession(t)

Reconnect(t) ==
  \/ BeginReconnect(t) \/ StopBeforeReconnect(t) \/ StoppedBeforeReconnect(t) \/ ReconnectFails(t)

Recover(t) ==
  \/ TunnelDeathHandled(t) \/ ValidateTunnel(t) \/ BeginRecovery(t)
  \/ StoppedBeforeRecovery(t)

Monitor(t) ==
  \/ MonitorWakes(t) \/ PingAnswered(t) \/ AttemptReconnect(t) \/ BackoffOver(t)
  \/ ReconnectDriver(t) \/ ReconnectDriverFails(t) \/ Reconnected(t) \/ Healthy(t)

Step(t) == Opening(t) \/ Connect(t) \/ Close(t) \/ Reconnect(t) \/ Recover(t) \/ Monitor(t)

Operation(c) ==
  \/ EnsureConnected(c) \/ DisconnectSession(c) \/ SwitchDatabase(c) \/ SystemDidWake(c)
  \/ \E n \in TunnelIds : TunnelDies(c, n)

Next == (\E c \in Connections : Operation(c)) \/ (\E t \in TaskIds : Step(t))

Spec == Init /\ [][Next]_vars

FairSpec == Spec /\ \A t \in TaskIds : WF_vars(Step(t))
================================================================================
