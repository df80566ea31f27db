----------------------------- MODULE DriverProofs ------------------------------
(***************************************************************************)
(* Proofs about the drivers: who holds the open ones, and that a session   *)
(* shown as connected has one, where the operations of a connection do not *)
(* overlap.                                                                *)
(***************************************************************************)
EXTENDS MonitorProofs

-------------------------------------------------------------------------------
(***************************************************************************)
(* The tasks of a connection and its session.                              *)
(***************************************************************************)
(* A task makes a driver.                                                  *)
IsMaking(task) == task.kind \in Openers /\ task.pc \in Making

(* No operation makes a driver beside a monitor.                           *)
MonitorsAside ==
  \A m \in TaskIds : IsMonitor(tasks[m]) =>
    /\ tasks[m].conn \in Monitored
    /\ \A w \in TaskIds : tasks[w].conn = tasks[m].conn /\ IsMaking(tasks[w]) => IsMonitor(tasks[w])

(* What a task relies on, of its session and of the open drivers:          *)
(* connectToSession connects a session without a driver, a reconnect and a *)
(* monitor replace one that is closed, and none finds another monitor to   *)
(* stop when it has made it.                                               *)
SessionFits(task, session, opened) ==
  /\ task.kind \in Connecting /\ task.pc \in Making => session.status # "none" /\ session.driver = 0
  /\ task.kind = "recover" /\ task.pc = "backoff" => session.driver = 0
  /\ task.kind \in {"reconnect", "monitor"} => session.driver # 0
  /\ task.kind \in {"reconnect", "monitor"} /\ task.pc \in Making => session.driver \notin opened
  /\ task.kind = "monitor" /\ task.pc = "revive" => task.driver = session.driver
  /\ IsMaking(task) /\ task.pc = "opening" => task.driver # session.driver
  /\ task.kind \in Connecting \cup {"reconnect"} => task.pc # "startMonitor"

SessionsFit ==
  \A u \in TaskIds : SessionFits(tasks[u], activeSessions[tasks[u].conn], open[tasks[u].conn])

(* What the steps below are proved from.                                   *)
InOrder ==
  /\ Ready /\ OneRecovery
  /\ AloneAtWork /\ CalledAside /\ OneLeads /\ InstallsOne /\ Unrecovered /\ MonitorsFit
  /\ MonitorsAside /\ SessionsFit

(* A task that relies on nothing.                                          *)
Idle(task) ==
  \/ task.kind \in {"none", "closer", "disconnect"}
  \/ task.kind = "ensure" /\ task.pc \notin Making \cup {"startMonitor"}
  \/ task.kind = "recover" /\ task.pc \notin Making \cup {"startMonitor", "backoff"}

LEMMA IdleFits ==
  ASSUME NEW task, Idle(task), NEW session, NEW opened
  PROVE  SessionFits(task, session, opened)
BY DEF Idle, SessionFits, IsMaking, Openers, Connecting, Making

LEMMA StaysOutIsIdle ==
  ASSUME NEW task, StaysOut(task), ~ IsMonitor(task)
  PROVE  Idle(task)
BY DEF StaysOut, Bystander, Called, Done, IsMonitor, Idle, Making

(* A task that makes a driver is at work, unless it is a monitor.          *)
LEMMA MakingIsAtWork ==
  ASSUME NEW task, IsMaking(task), ~ IsMonitor(task)
  PROVE  AtWork(task) /\ task.kind \in Connecting \cup {"reconnect"}
BY DEF IsMaking, IsMonitor, Openers, Connecting, Making, AtWork, Exclusive, Leading, Called, Done

(* One task at most makes a driver for a connection.                       *)
LEMMA OneMakes ==
  ASSUME InOrder, NEW t \in TaskIds, NEW u \in TaskIds, tasks[u].conn = tasks[t].conn,
         IsMaking(tasks[t]), IsMaking(tasks[u])
  PROVE  t = u
<1>1. CASE IsMonitor(tasks[t]) \/ IsMonitor(tasks[u])
  BY <1>1, MonitorsAlone DEF InOrder, MonitorsAside
<1>2. CASE ~ IsMonitor(tasks[t]) /\ ~ IsMonitor(tasks[u])
  BY <1>2, MakingIsAtWork, OneAtWork DEF InOrder
<1> QED
  BY <1>1, <1>2

(* A session that has a driver is there.                                   *)
LEMMA DriverHasSession ==
  ASSUME InOrder, NEW c \in Connections, activeSessions[c].driver # 0
  PROVE  HasSession(c)
BY DEF InOrder, Ready, Before, NoSessionNoDriver

(* Whoever has stopped the monitor, or found none, has no monitor left.    *)
LEMMA StoppedHasNone ==
  ASSUME InOrder, NEW t \in TaskIds, NEW c \in Connections,
         \/ \E kind \in {"disconnect", "reconnect"} : StoppedAt(t, c, kind, "stopMonitor")
         \/ StoppedAt(t, c, "recover", "recover"),
         tasks[t].pc = "recover" => c \notin recoveringConnectionIds,
         NEW m \in TaskIds, tasks[m].conn = c
  PROVE  ~ IsMonitor(tasks[m])
<1> SUFFICES ASSUME IsMonitor(tasks[m]) PROVE FALSE
  OBVIOUS
<1>1. m # 0
  BY LimitsAssumption DEF TaskIds
<1>2. healthMonitors[c] = 0
  BY DEF StoppedAt, At, InOrder, MonitorsFit, Awaiting
<1>3. PICK w \in TaskIds : Awaiting(tasks[w]) /\ tasks[w].conn = c /\ tasks[w].waits = m
  BY <1>1, <1>2 DEF InOrder, MonitorsFit
<1>4. w # t
  BY <1>1, <1>3 DEF StoppedAt, At, Awaiting
<1>5. CASE At(t, c, {"recover"}, {"recover"})
  <2>1. StaysOut(tasks[w])
    BY <1>3, <1>4, <1>5, TakesUpAlone DEF InOrder, At
  <2> QED
    BY <1>3, <2>1 DEF StaysOut, Bystander, Called, Done, Awaiting
<1>6. CASE Exclusive(tasks[t]) /\ tasks[t].conn = c
  <2>1. AtWork(tasks[t])
    BY <1>6 DEF AtWork, Exclusive, Called, Done
  <2> QED
    BY <1>3, <1>4, <1>6, <2>1, AwaitingIsAtWork, OneAtWork DEF InOrder
<1> QED
  BY <1>5, <1>6 DEF StoppedAt, At, Exclusive, Called

(* disconnectSession begins with nothing but a monitor running.            *)
LEMMA DisconnectsAlone ==
  ASSUME OneByOne, NEW t, NEW c \in Connections, DisconnectBegins(t, c),
         NEW u \in TaskIds, tasks[u].conn = c
  PROVE  tasks[u].kind \in {"none", "monitor"}
<1>1. "disconnect" \in Alone
  BY DEF DisconnectBegins, OneByOne, Possible
<1>2. tasks[u].kind # "none" => u \in Live(c)
  BY DEF Live, Conn
<1> QED
  BY <1>1, <1>2 DEF DisconnectBegins, MayStart

(* A session is closed without a monitor, and with nothing else at work.   *)
LEMMA ClosesAlone ==
  ASSUME OneByOne, InOrder, NEW t \in TaskIds, NEW c \in Connections, ClosesSession(t, c),
         NEW u \in TaskIds \ {t}, tasks[u].conn = c
  PROVE  Idle(tasks[u])
<1>1. CASE StoppedAt(t, c, "disconnect", "stopMonitor")
  <2>1. Exclusive(tasks[t]) /\ tasks[t].conn = c /\ tasks[t].pc # "recover"
    BY <1>1 DEF StoppedAt, At, Exclusive
  <2>2. StaysOut(tasks[u])
    BY <2>1 DEF InOrder, AloneAtWork
  <2> QED
    BY <1>1, <2>1, <2>2, StoppedHasNone, StaysOutIsIdle
<1>2. CASE DisconnectBegins(t, c) /\ healthMonitors[c] = 0
  <2>1. SUFFICES ASSUME IsMonitor(tasks[u]) PROVE FALSE
    BY <1>2, DisconnectsAlone DEF IsMonitor, Idle
  <2>2. u # 0
    BY LimitsAssumption DEF TaskIds
  <2>3. PICK w \in TaskIds : Awaiting(tasks[w]) /\ tasks[w].conn = c
    BY <1>2, <2>1, <2>2 DEF InOrder, MonitorsFit
  <2> QED
    BY <1>2, <2>3, DisconnectsAlone, AwaitingIsAtWork DEF IsMonitor
<1> QED
  BY <1>1, <1>2 DEF ClosesSession

(* So is a stale driver dropped, and an old one closed.                    *)
LEMMA DropsAlone ==
  ASSUME InOrder, NEW t \in TaskIds, NEW c \in Connections, DropsStale(t, c) \/ ClosesOld(t, c),
         NEW u \in TaskIds \ {t}, tasks[u].conn = c
  PROVE  Idle(tasks[u])
<1>1. tasks[t].pc = "recover" => c \notin recoveringConnectionIds
  BY DEF DropsStale, ClosesOld, StoppedAt, At
<1>2. ~ IsMonitor(tasks[u])
  BY <1>1, StoppedHasNone DEF DropsStale, ClosesOld
<1>3. CASE At(t, c, {"recover"}, {"recover"})
  BY <1>1, <1>2, <1>3, TakesUpAlone, StaysOutIsIdle DEF InOrder, At
<1>4. CASE Exclusive(tasks[t]) /\ tasks[t].conn = c
  BY <1>2, <1>4, StaysOutIsIdle DEF InOrder, AloneAtWork
<1> QED
  BY <1>3, <1>4 DEF DropsStale, ClosesOld, StoppedAt, At, Exclusive, Called

(* The driver that has been made goes into the session.                    *)
LEMMA InstallsIntoSession ==
  ASSUME InOrder, NEW t \in TaskIds, NEW c \in Connections, Installs(t, c) \/ Revived(t, c)
  PROVE  /\ HasSession(c) /\ IsMaking(tasks[t]) /\ tasks[t].conn = c /\ tasks[t].pc = "install"
         /\ tasks[t].driver # 0
         /\ activeSessions'[c].driver = tasks[t].driver /\ activeSessions'[c].status = "connected"
<1>1. IsMaking(tasks[t]) /\ tasks[t].conn = c /\ tasks[t].pc = "install"
  BY DEF Installs, Revived, At, IsMaking, Openers, Making
<1>2. tasks[t].driver # 0
  BY <1>1 DEF InOrder, InstallsOne, HasItToInstall, IsMaking, Openers, Connecting
<1>3. HasSession(c)
  <2>1. CASE tasks[t].kind \in Connecting
    BY <1>1, <2>1 DEF InOrder, SessionsFit, SessionFits, IsMaking, HasSession
  <2>2. CASE tasks[t].kind \in {"reconnect", "monitor"}
    BY <1>1, <2>2, DriverHasSession DEF InOrder, SessionsFit, SessionFits
  <2> QED
    BY <1>1, <2>1, <2>2 DEF IsMaking, Openers
<1> DEFINE s == [status |-> "connected", driver |-> tasks[t].driver, tunnel |-> tasks[t].tunnel]
<1>4. activeSessions'[c] = s
  BY <1>3, InstallDriverDoes DEF Installs, Revived, InOrder, Ready, Before
<1>5. s.driver = tasks[t].driver /\ s.status = "connected"
  OBVIOUS
<1> HIDE DEF s
<1> QED
  BY <1>1, <1>2, <1>3, <1>4, <1>5

(* It finds no monitor to stop.                                            *)
LEMMA InstallsStopNone ==
  ASSUME InOrder, NEW t \in TaskIds, NEW c \in Connections, Installs(t, c)
  PROVE  /\ ~ \E m : StopsMonitor(t, c, m)
         /\ \/ /\ c \in Monitored
               /\ \E m : StartsMonitor(t, c, m) /\ GoesTo(t, c, "started", 0)
            \/ c \notin Monitored /\ Succeeds(t, 0) /\ UNCHANGED healthMonitors
<1>1. ASSUME NEW m, StopsMonitor(t, c, m) PROVE FALSE
  <2>1. m \in TaskIds \ {t} /\ healthMonitors[c] = m
    BY <1>1 DEF StopsMonitor
  <2>2. IsMonitor(tasks[m]) /\ tasks[m].conn = c
    BY <2>1, LimitsAssumption DEF InOrder, Ready, MonitorsLive, LiveMonitor, TaskIds
  <2>3. IsMaking(tasks[t]) /\ tasks[t].conn = c /\ ~ IsMonitor(tasks[t])
    BY DEF Installs, At, IsMaking, Openers, Making, Connecting, IsMonitor
  <2> QED
    BY <2>1, <2>2, <2>3 DEF InOrder, MonitorsAside
<1> QED
  BY <1>1 DEF Installs

(* And nobody waits for one to have ended.                                 *)
LEMMA NoneStartsAnother ==
  ASSUME InOrder, NEW t \in TaskIds, NEW c \in Connections
  PROVE  ~ StartsAnother(t, c)
BY DEF StartsAnother, At, InOrder, SessionsFit, SessionFits

-------------------------------------------------------------------------------
(***************************************************************************)
(* What a step does to the other tasks and to the open drivers.            *)
(***************************************************************************)
(* A task that runs on where it was.                                       *)
Kept(u) ==
  /\ tasks[u].kind # "none"
  /\ tasks'[u].kind = tasks[u].kind /\ tasks'[u].conn = tasks[u].conn
  /\ tasks'[u].pc = tasks[u].pc /\ tasks'[u].driver = tasks[u].driver

(* The monitor that an operation starts.                                   *)
NewMonitor(t, c, u) ==
  /\ Installs(t, c) /\ c \in Monitored
  /\ tasks[u].kind = "none" /\ IsMonitor(tasks'[u])
  /\ tasks'[u].conn = c /\ tasks'[u].pc = "sleep"

LEMMA OthersAreKept ==
  ASSUME InOrder, NEW t \in TaskIds, NEW c \in Connections, ConnectionStep(t, c) \/ MonitorStep(t, c),
         NEW u \in TaskIds \ {t}
  PROVE  \/ tasks[u].kind = "none" /\ tasks'[u].kind \in {"none", "closer"}
         \/ Kept(u)
         \/ NewMonitor(t, c, u)
<1>1. CASE Undisturbed(u)
  BY <1>1 DEF Undisturbed, Alike, Kept
<1>2. CASE Apart({t})
  BY <1>1, <1>2 DEF Apart
<1>3. CASE StopsFirst(t, c)
  <2>1. PICK m : StopsMonitor(t, c, m)
    BY <1>3 DEF StopsFirst
  <2>2. CASE u # m
    BY <1>1, <2>1, <2>2 DEF StopsMonitor, Apart
  <2>3. CASE u = m
    <3>1. IsMonitor(tasks[m])
      BY <2>1, LimitsAssumption DEF StopsMonitor, InOrder, Ready, MonitorsLive, LiveMonitor, TaskIds
    <3> QED
      BY <2>1, <2>3, <3>1 DEF StopsMonitor, IsMonitor, Kept
  <2> QED
    BY <2>2, <2>3
<1>4. CASE Installs(t, c)
  <2>1. CASE Succeeds(t, 0)
    BY <1>2, <2>1 DEF Succeeds
  <2>2. CASE c \in Monitored /\ \E m : StartsMonitor(t, c, m)
    <3>1. PICK m : StartsMonitor(t, c, m)
      BY <2>2
    <3>2. CASE u # m
      BY <1>1, <3>1, <3>2 DEF StartsMonitor, Apart
    <3>3. CASE u = m
      BY <1>4, <2>2, <3>1, <3>3 DEF StartsMonitor, NewMonitor
    <3> QED
      BY <3>2, <3>3
  <2> QED
    BY <1>4, <2>1, <2>2, InstallsStopNone
<1>5. CASE StartsAnother(t, c)
  BY <1>5, NoneStartsAnother
<1>6. CASE MonitorStep(t, c)
  BY <1>2, <1>6 DEF MonitorStep, GivesUp, Retries, Captures, Revives, CannotRevive, Revived, TurnsHealthy
<1>7. CASE OperationBegins(t, c) \/ Leads(t, c) \/ LeavesInFlight(t, c)
           \/ (\E pc \in Points : Goes(t, c, pc)) \/ MonitorHasStarted(t, c) \/ Finishes(t, c)
           \/ MakesDriver(t, c) \/ OpensDriver(t, c) \/ Enters(t, c) \/ Fails(t, c)
  BY <1>2, <1>7 DEF OperationBegins, Leads, LeavesInFlight, Goes, MonitorHasStarted, Succeeds, Finishes,
     MakesDriver, OpensDriver, Enters, Fails
<1>8. CASE ClosesSession(t, c) \/ BeginsReconnect(t, c) \/ ClosesOld(t, c) \/ CannotReconnect(t, c)
           \/ DropsStale(t, c)
  BY <1>2, <1>8 DEF ClosesSession, BeginsReconnect, ClosesOld, CannotReconnect, DropsStale
<1> QED
  BY <1>3, <1>4, <1>5, <1>6, <1>7, <1>8 DEF ConnectionStep

(* A driver is closed.                                                     *)
ClosesDriver(t, c) ==
  \/ ClosesSession(t, c) \/ ClosesOld(t, c) \/ DropsStale(t, c)
  \/ Revives(t, c)

OpenTaken(t, c) ==
  /\ \A d \in Connections \ {c} : open'[d] = open[d]
  /\ \/ open'[c] = open[c]
     \/ OpensDriver(t, c) /\ open'[c] = open[c] \cup {tasks[t].driver}
     \/ ClosesDriver(t, c) /\ open'[c] \subseteq open[c]

LEMMA DisconnectDoes ==
  ASSUME Ready, NEW c \in Connections, NEW driver, Disconnect(c, driver)
  PROVE  /\ \A d \in Connections \ {c} : open'[d] = open[d]
         /\ open'[c] = open[c] \ {driver}
BY DEF Ready, Before, TypeOK, Disconnect

LEMMA OpenedDoes ==
  ASSUME Ready, NEW t \in TaskIds, NEW c \in Connections, OpensDriver(t, c)
  PROVE  /\ \A d \in Connections \ {c} : open'[d] = open[d]
         /\ open'[c] = open[c] \cup {tasks[t].driver}
BY DEF Ready, Before, TypeOK, OpensDriver

LEMMA StepOnOpen ==
  ASSUME Ready, NEW t \in TaskIds, NEW c \in Connections, ConnectionStep(t, c) \/ MonitorStep(t, c)
  PROVE  OpenTaken(t, c)
<1>1. CASE open' = open
  BY <1>1 DEF OpenTaken
<1>2. CASE OpensDriver(t, c)
  BY <1>2, OpenedDoes DEF OpenTaken
<1>3. CASE ClosesDriver(t, c)
  <2>1. \E driver : Disconnect(c, driver)
    BY <1>3 DEF ClosesDriver, ClosesSession, ClosesOld, DropsStale, Revives
  <2> QED
    BY <1>3, <2>1, DisconnectDoes DEF OpenTaken
<1>4. CASE OperationBegins(t, c) \/ Leads(t, c) \/ LeavesInFlight(t, c)
           \/ (\E pc \in Points : Goes(t, c, pc)) \/ MonitorHasStarted(t, c) \/ Finishes(t, c)
           \/ MakesDriver(t, c) \/ Enters(t, c) \/ Fails(t, c)
  BY <1>1, <1>4 DEF OperationBegins, Leads, LeavesInFlight, Goes, MonitorHasStarted, Finishes,
     MakesDriver, Enters, Fails, SameRest
<1>5. CASE Installs(t, c) \/ StartsAnother(t, c) \/ StopsFirst(t, c) \/ BeginsReconnect(t, c)
           \/ CannotReconnect(t, c)
  BY <1>1, <1>5 DEF Installs, StartsAnother, StopsFirst, BeginsReconnect, CannotReconnect
<1>6. CASE GivesUp(t, c) \/ Retries(t, c) \/ Captures(t, c) \/ CannotRevive(t, c) \/ Revived(t, c)
           \/ TurnsHealthy(t, c)
  BY <1>1, <1>6 DEF GivesUp, Retries, Captures, CannotRevive, Revived, TurnsHealthy, SameRest
<1> QED
  BY <1>2, <1>3, <1>4, <1>5, <1>6 DEF ConnectionStep, MonitorStep, ClosesDriver

-------------------------------------------------------------------------------
(***************************************************************************)
(* Sessions go on to fit their tasks.                                      *)
(***************************************************************************)
(* A task that runs on where it was finds what it relies on.               *)
LEMMA FitsAsBefore ==
  ASSUME NEW u, NEW c, SessionFits(tasks[u], activeSessions[c], open[c]), Kept(u),
         activeSessions'[c].driver = activeSessions[c].driver,
         \/ activeSessions[c].status # "none" => activeSessions'[c].status # "none"
         \/ ~ IsMaking(tasks[u]),
         activeSessions[c].driver \in open'[c] => activeSessions[c].driver \in open[c]
  PROVE  SessionFits(tasks'[u], activeSessions'[c], open'[c])
BY DEF SessionFits, Kept, IsMaking, Openers, Connecting

(* Beside an installation nothing else relies on the driver.               *)
LEMMA BesideInstallation ==
  ASSUME InOrder, NEW t \in TaskIds, NEW c \in Connections, Installs(t, c) \/ Revived(t, c),
         NEW u \in TaskIds \ {t}, tasks[u].conn = c
  PROVE  \/ Idle(tasks[u])
         \/ tasks[u].kind = "reconnect" /\ ~ IsMaking(tasks[u]) /\ tasks[u].pc # "startMonitor"
<1>1. IsMaking(tasks[t]) /\ tasks[t].conn = c
  BY InstallsIntoSession
<1>2. ~ IsMaking(tasks[u])
  BY <1>1, OneMakes
<1>3. tasks[u].kind \in Kinds
  BY DEF InOrder, Ready, Before, TypeOK, TasksTyped, Tasks
<1>4. SessionFits(tasks[u], activeSessions[c], open[c])
  BY DEF InOrder, SessionsFit
<1>5. CASE IsMonitor(tasks[t])
  <2>1. ~ IsMonitor(tasks[u])
    BY <1>1, <1>5, MonitorsAlone DEF InOrder
  <2>2. activeSessions[c].driver # 0
    BY <1>1, <1>5 DEF InOrder, SessionsFit, SessionFits, IsMonitor
  <2> QED
    BY <1>2, <1>3, <1>4, <2>1, <2>2 DEF Idle, Kinds, IsMonitor, SessionFits, IsMaking, Openers, Connecting
<1>6. CASE ~ IsMonitor(tasks[t])
  <2>1. ~ IsMonitor(tasks[u])
    BY <1>1, <1>6 DEF InOrder, MonitorsAside
  <2>2. AtWork(tasks[t])
    BY <1>1, <1>6, MakingIsAtWork
  <2>3. ~ AtWork(tasks[u])
    BY <1>1, <2>2, OneAtWork DEF InOrder
  <2> QED
    BY <1>2, <1>3, <1>4, <2>1, <2>3 DEF Idle, Kinds, IsMonitor, SessionFits, IsMaking, Openers,
       Connecting, AtWork, Exclusive, Leading, Called, Done
<1> QED
  BY <1>5, <1>6

LEMMA OthersFit ==
  ASSUME OneByOne, InOrder, NEW t \in TaskIds, NEW c \in Connections,
         ConnectionStep(t, c) \/ MonitorStep(t, c), NEW u \in TaskIds \ {t}
  PROVE  SessionFits(tasks'[u], activeSessions'[tasks'[u].conn], open'[tasks'[u].conn])
<1>1. SessionTaken(t, c) /\ OpenTaken(t, c)
  BY StepOnSession, StepOnOpen DEF InOrder
<1>2. CASE tasks'[u].kind \in {"none", "closer"}
  BY <1>2, IdleFits DEF Idle
<1>3. CASE NewMonitor(t, c, u)
  BY <1>3, InstallsIntoSession DEF NewMonitor, IsMonitor, SessionFits, IsMaking, Connecting, Making
<1>4. CASE Kept(u)
  <2> DEFINE d == tasks[u].conn
  <2>1. /\ d \in Connections /\ tasks'[u].conn = d
        /\ SessionFits(tasks[u], activeSessions[d], open[d])
    BY <1>4 DEF Kept, InOrder, SessionsFit, Ready, Before, TasksTyped
  <2>2. CASE d # c
    BY <1>1, <1>4, <2>1, <2>2, FitsAsBefore DEF SessionTaken, OpenTaken
  <2>3. CASE d = c /\ Idle(tasks[u])
    BY <1>4, <2>3, IdleFits DEF Kept, Idle
  <2>4. ASSUME d = c
        PROVE  \/ activeSessions[c].driver \in open'[c] => activeSessions[c].driver \in open[c]
    <3>1. CASE OpensDriver(t, c) /\ open'[c] = open[c] \cup {tasks[t].driver}
      BY <3>1 DEF OpensDriver, At, InOrder, SessionsFit, SessionFits, IsMaking, Making
    <3> QED
      BY <1>1, <3>1 DEF OpenTaken
  <2>5. CASE d = c /\ (KeepsDriver(c) \/ EntersSession(t, c))
    <3>1. activeSessions[c].status # "none" => activeSessions'[c].status # "none"
      BY <2>5 DEF KeepsDriver, EntersSession, Enters, HasSession
    <3> QED
      BY <1>4, <2>1, <2>4, <2>5, <3>1, FitsAsBefore DEF KeepsDriver, EntersSession
  <2>6. CASE d = c /\ RemovesSession(t, c)
    <3>1. CASE ClosesSession(t, c)
      BY <2>3, <2>6, <3>1, ClosesAlone
    <3>2. CASE Fails(t, c)
      <4>1. IsMaking(tasks[t]) /\ tasks[t].conn = c /\ tasks[t].kind \in Connecting
        BY <3>2 DEF Fails, At, IsMaking, Openers, Making
      <4>2. ~ IsMaking(tasks[u])
        BY <2>6, <4>1, OneMakes
      <4>3. activeSessions[c].driver = 0
        BY <4>1 DEF InOrder, SessionsFit, SessionFits, IsMaking
      <4> QED
        BY <1>4, <2>1, <2>4, <2>6, <4>2, <4>3, FitsAsBefore DEF RemovesSession
    <3> QED
      BY <2>6, <3>1, <3>2 DEF RemovesSession
  <2>7. CASE d = c /\ InstallsDriver(t, c)
    <3>1. activeSessions'[c].driver # 0
      BY <2>7, InstallsIntoSession DEF InstallsDriver
    <3>2. CASE tasks[u].kind = "reconnect" /\ ~ IsMaking(tasks[u]) /\ tasks[u].pc # "startMonitor"
      BY <1>4, <2>1, <2>7, <3>1, <3>2 DEF Kept, SessionFits, IsMaking, Openers, Connecting
    <3> QED
      BY <2>3, <2>7, <3>2, BesideInstallation DEF InstallsDriver
  <2>8. CASE d = c /\ DropsDriver(t, c)
    BY <2>3, <2>8, DropsAlone DEF DropsDriver
  <2> QED
    BY <1>1, <2>2, <2>5, <2>6, <2>7, <2>8 DEF SessionTaken
<1> QED
  BY <1>2, <1>3, <1>4, OthersAreKept

LEMMA DropsStaleDoes ==
  ASSUME InOrder, NEW t \in TaskIds, NEW c \in Connections, DropsStale(t, c)
  PROVE  activeSessions'[c].driver = 0 /\ activeSessions'[c].status \in {"none", "connecting"}
<1>1. activeSessions' = IF ~ HasSession(c) THEN activeSessions
                        ELSE [activeSessions EXCEPT ![c].driver = 0, ![c].status = "connecting"]
  BY DEF DropsStale
<1>2. CASE ~ HasSession(c)
  BY <1>1, <1>2 DEF InOrder, Ready, Before, NoSessionNoDriver, HasSession
<1>3. CASE HasSession(c)
  <2>1. activeSessions \in [Connections -> Sessions]
    BY DEF InOrder, Ready, Before, TypeOK
  <2>2. activeSessions'[c] = [activeSessions[c] EXCEPT !.driver = 0, !.status = "connecting"]
    BY <1>1, <1>3, <2>1
  <2>3. activeSessions[c] \in Sessions
    BY <2>1
  <2> QED
    BY <2>2, <2>3 DEF Sessions
<1> QED
  BY <1>2, <1>3

(* The task of the step.                                                   *)
LEMMA ItselfIdle ==
  ASSUME NEW t, Idle(tasks'[t])
  PROVE  SessionFits(tasks'[t], activeSessions'[tasks'[t].conn], open'[tasks'[t].conn])
BY IdleFits

LEMMA ConnectionStepFits ==
  ASSUME OneByOne, InOrder, NEW t \in TaskIds, NEW c \in Connections, ConnectionStep(t, c)
  PROVE  SessionFits(tasks'[t], activeSessions'[tasks'[t].conn], open'[tasks'[t].conn])
<1>0. SessionFits(tasks[t], activeSessions[tasks[t].conn], open[tasks[t].conn])
  BY DEF InOrder, SessionsFit
<1>1. SessionTaken(t, c)
  BY StepOnSession DEF InOrder
<1>2. ASSUME Over(t) PROVE Idle(tasks'[t])
  BY <1>2 DEF Over, Idle
<1>3. CASE OperationBegins(t, c)
  BY <1>3, ItselfIdle DEF OperationBegins, SameRest, Idle, SessionFits, IsMaking, Making, Connecting
<1>4. CASE Leads(t, c) \/ LeavesInFlight(t, c) \/ Finishes(t, c)
  BY <1>2, <1>4, ItselfIdle DEF Leads, LeavesInFlight, Finishes, Went, At, Idle, Making
<1>5. ASSUME NEW pc \in Points, Goes(t, c, pc)
      PROVE  SessionFits(tasks'[t], activeSessions'[tasks'[t].conn], open'[tasks'[t].conn])
  <2>1. /\ tasks'[t].conn = tasks[t].conn /\ tasks'[t].kind = tasks[t].kind /\ tasks'[t].pc = pc
        /\ tasks[t].conn = c
        /\ activeSessions' = activeSessions /\ open' = open
    BY <1>5 DEF Goes, Went, SameRest, At
  <2>2. CASE /\ At(t, c, Openers, {"openTunnel", "tunnelling", "prepare"})
             /\ pc \in {"tunnelling", "prepare", "create"}
    BY <1>0, <2>1, <2>2 DEF At, SessionFits, IsMaking, Making
  <2>3. CASE \/ At(t, c, {"ensure"}, {"connect"}) /\ pc = "leave"
             \/ At(t, c, {"disconnect"}, {"closeTunnel"})
             \/ At(t, c, {"recover"}, {"died", "woken"}) /\ pc = "recover"
    BY <2>1, <2>3, ItselfIdle DEF At, Idle, Making
  <2>4. CASE At(t, c, {"monitor"}, {"sleep", "ping", "closeTunnel", "backoff"})
             /\ pc \in {"ping", "sleep", "failed"}
    BY <1>0, <2>1, <2>4 DEF At, SessionFits, IsMaking, Making, Connecting
  <2> QED
    BY <1>5, <2>2, <2>3, <2>4 DEF Goes, At
<1>6. CASE MonitorHasStarted(t, c)
  <2>1. CASE Idle(tasks'[t])
    BY <2>1, ItselfIdle
  <2> QED
    BY <1>2, <1>6, <2>1 DEF MonitorHasStarted, Succeeds, Succeeded, Went, Idle, Making
<1>7. CASE MakesDriver(t, c)
  <2>1. PICK d \in FreshDriver(c) : Went(t, "opening", d)
    BY <1>7 DEF MakesDriver
  <2>2. d # activeSessions[c].driver
    BY <2>1 DEF FreshDriver
  <2> QED
    BY <1>0, <1>7, <2>1, <2>2 DEF MakesDriver, SameRest, At, Went, SessionFits, IsMaking, Making
<1>8. CASE OpensDriver(t, c)
  <2>1. open'[c] = open[c] \cup {tasks[t].driver}
    BY <1>8, OpenedDoes DEF InOrder
  <2>2. IsMaking(tasks[t]) /\ tasks[t].conn = c /\ tasks[t].pc = "opening" /\ Went(t, "install", tasks[t].driver)
    BY <1>8 DEF OpensDriver, At, IsMaking, Making
  <2>3. activeSessions' = activeSessions
    BY <1>8 DEF OpensDriver
  <2> QED
    BY <1>0, <2>1, <2>2, <2>3 DEF Went, SessionFits, IsMaking, Making
<1>9. CASE Enters(t, c)
  <2>1. activeSessions'[c].driver = 0
    BY <1>1, <1>9 DEF SessionTaken, KeepsDriver, EntersSession, RemovesSession, InstallsDriver,
       DropsDriver, Enters, Installs, Revived, At, Connecting
  <2>2. activeSessions'[c].status # "none"
    <3>1. CASE HasSession(c)
      BY <1>9, <3>1 DEF Enters, HasSession
    <3>2. CASE ~ HasSession(c)
      <4>1. activeSessions \in [Connections -> Sessions]
        BY DEF InOrder, Ready, Before, TypeOK
      <4>2. activeSessions'[c] = [activeSessions[c] EXCEPT !.status = "connecting"]
        BY <1>9, <3>2, <4>1 DEF Enters
      <4>3. activeSessions[c] \in Sessions
        BY <4>1
      <4> QED
        BY <4>2, <4>3 DEF Sessions
    <3> QED
      BY <3>1, <3>2
  <2>3. tasks'[t].kind \in Connecting /\ tasks'[t].conn = c /\ tasks'[t].pc \in {"openTunnel", "prepare"}
    BY <1>9 DEF Enters, At, Went, Connecting
  <2> QED
    BY <2>1, <2>2, <2>3 DEF SessionFits, IsMaking, Connecting
<1>10. CASE Fails(t, c)
  <2>1. CASE Idle(tasks'[t])
    BY <2>1, ItselfIdle
  <2>2. CASE Went(t, "backoff", 0) /\ tasks[t].kind = "recover"
    <3>1. activeSessions'[c].driver = 0
      BY <1>10, RemoveSessionDoes DEF Fails, InOrder, Ready, Before
    <3>2. tasks'[t].kind = "recover" /\ tasks'[t].pc = "backoff" /\ tasks'[t].conn = c
      BY <1>10, <2>2 DEF Fails, At, Went
    <3> QED
      BY <3>1, <3>2 DEF SessionFits, IsMaking, Making
  <2> QED
    BY <1>2, <1>10, <2>1, <2>2 DEF Fails, Went, Idle, Making
<1>11. CASE Installs(t, c)
  <2>1. activeSessions'[c].driver # 0
    BY <1>11, InstallsIntoSession
  <2>2. CASE Succeeds(t, 0)
    BY <1>2, <2>2, ItselfIdle DEF Succeeds, Succeeded, Went, Idle, Making
  <2>3. CASE GoesTo(t, c, "started", 0)
    BY <1>11, <2>1, <2>3 DEF Installs, At, Connecting, GoesTo, SessionFits, IsMaking, Making
  <2> QED
    BY <1>11, <2>2, <2>3, InstallsStopNone
<1>12. CASE StopsFirst(t, c)
  <2>1. CASE Idle(tasks'[t])
    BY <2>1, ItselfIdle
  <2>2. CASE At(t, c, {"reconnect"}, {"stopMonitor"})
    <3>1. tasks'[t].kind = "reconnect" /\ tasks'[t].pc = "stopped" /\ tasks'[t].conn = c
      BY <1>12, <2>2 DEF StopsFirst, At, DisconnectBegins
    <3>2. activeSessions' = activeSessions
      BY <1>12 DEF StopsFirst
    <3> QED
      BY <1>0, <2>2, <3>1, <3>2 DEF At, SessionFits, IsMaking, Making
  <2> QED
    BY <1>12, <2>1, <2>2 DEF StopsFirst, At, Idle, Making
<1>13. CASE ClosesSession(t, c)
  BY <1>13, ItselfIdle DEF ClosesSession, Idle
<1>14. CASE BeginsReconnect(t, c)
  <2>1. activeSessions'[c].driver = activeSessions[c].driver
    <3>1. activeSessions[c] \in Sessions /\ TypeOK
      BY DEF InOrder, Ready, Before, TypeOK
    <3> QED
      BY <1>14, <3>1, SetStatusKeepsDriver DEF BeginsReconnect, KeepsDriver
  <2> QED
    BY <1>0, <1>14, <2>1 DEF BeginsReconnect, At, Went, SessionFits, IsMaking, Making
<1>15. CASE ClosesOld(t, c)
  <2>1. open'[c] = open[c] \ {activeSessions[c].driver}
    BY <1>15, DisconnectDoes DEF ClosesOld, InOrder
  <2>2. /\ tasks[t].kind = "reconnect" /\ tasks[t].conn = c /\ tasks'[t].kind = "reconnect"
        /\ tasks'[t].conn = c /\ tasks'[t].pc \in {"openTunnel", "create"}
    BY <1>15 DEF ClosesOld, StoppedAt, At, Went
  <2>3. activeSessions' = activeSessions
    BY <1>15 DEF ClosesOld
  <2> QED
    BY <1>0, <2>1, <2>2, <2>3 DEF SessionFits, IsMaking, Connecting
<1>16. CASE CannotReconnect(t, c)
  BY <1>2, <1>16, ItselfIdle DEF CannotReconnect
<1>17. CASE DropsStale(t, c)
  <2>1. activeSessions'[c].driver = 0
    BY <1>17, DropsStaleDoes
  <2>2. tasks'[t].kind = "recover" /\ tasks'[t].pc = "backoff" /\ tasks'[t].conn = c
    BY <1>17 DEF DropsStale, StoppedAt, At, Went
  <2> QED
    BY <2>1, <2>2 DEF SessionFits, IsMaking, Making
<1>18. CASE StartsAnother(t, c)
  BY <1>18, NoneStartsAnother
<1> QED
  BY <1>3, <1>4, <1>5, <1>6, <1>7, <1>8, <1>9, <1>10, <1>11, <1>12, <1>13, <1>14, <1>15, <1>16, <1>17,
     <1>18 DEF ConnectionStep

LEMMA MonitorStepFits ==
  ASSUME InOrder, NEW t \in TaskIds, NEW c \in Connections, MonitorStep(t, c)
  PROVE  SessionFits(tasks'[t], activeSessions'[tasks'[t].conn], open'[tasks'[t].conn])
<1>0. SessionFits(tasks[t], activeSessions[tasks[t].conn], open[tasks[t].conn])
  BY DEF InOrder, SessionsFit
<1>1. TypeOK
  BY DEF InOrder, Ready, Before
<1>2. CASE GivesUp(t, c)
  BY <1>2, ItselfIdle DEF GivesUp, Over, Idle
<1>3. CASE Retries(t, c) \/ TurnsHealthy(t, c)
  <2>1. activeSessions'[c].driver = activeSessions[c].driver
    BY <1>1, <1>3, SetStatusKeepsDriver DEF Retries, TurnsHealthy, KeepsDriver
  <2>2. /\ tasks[t].kind = "monitor" /\ tasks[t].conn = c
        /\ tasks'[t].kind = "monitor" /\ tasks'[t].conn = c /\ tasks'[t].pc \in {"backoff", "sleep"}
    BY <1>3 DEF Retries, TurnsHealthy, At, Went
  <2> QED
    BY <1>0, <2>1, <2>2 DEF SessionFits, IsMaking, Making, Connecting
<1>4. CASE Captures(t, c)
  BY <1>0, <1>4 DEF Captures, SameRest, At, Went, SessionFits, IsMaking, Making, Connecting
<1>5. CASE Revives(t, c)
  <2>1. open'[c] = open[c] \ {tasks[t].driver}
    BY <1>5, DisconnectDoes DEF Revives, InOrder
  <2>2. /\ tasks[t].kind = "monitor" /\ tasks[t].conn = c /\ tasks[t].pc = "revive"
        /\ tasks'[t].kind = "monitor" /\ tasks'[t].conn = c /\ tasks'[t].pc \in {"openTunnel", "create"}
        /\ activeSessions' = activeSessions
    BY <1>5 DEF Revives, At, Went
  <2> QED
    BY <1>0, <2>1, <2>2 DEF SessionFits, IsMaking, Connecting
<1>6. CASE CannotRevive(t, c)
  BY <1>0, <1>6 DEF CannotRevive, SameRest, At, Went, SessionFits, IsMaking, Making, Connecting
<1>7. CASE Revived(t, c)
  <2>1. activeSessions'[c].driver # 0
    BY <1>7, InstallsIntoSession
  <2>2. tasks'[t].kind = "monitor" /\ tasks'[t].conn = c /\ tasks'[t].pc = "healthy"
    BY <1>7 DEF Revived, At, Went
  <2> QED
    BY <2>1, <2>2 DEF SessionFits, IsMaking, Making, Connecting
<1> QED
  BY <1>2, <1>3, <1>4, <1>5, <1>6, <1>7 DEF MonitorStep

LEMMA SessionsFitKept ==
  ASSUME OneByOne, InOrder, NEW t \in TaskIds, NEW c \in Connections,
         ConnectionStep(t, c) \/ MonitorStep(t, c)
  PROVE  SessionsFit'
<1>1. ASSUME NEW u \in TaskIds
      PROVE  SessionFits(tasks'[u], activeSessions'[tasks'[u].conn], open'[tasks'[u].conn])
  BY OthersFit, ConnectionStepFits, MonitorStepFits
<1> QED
  BY <1>1 DEF SessionsFit

(* What a task that makes a driver after a step was before it.             *)
LEMMA MakesFromMaking ==
  ASSUME InOrder, NEW t \in TaskIds, NEW c \in Connections, ConnectionStep(t, c) \/ MonitorStep(t, c),
         IsMaking(tasks'[t]), ~ IsMonitor(tasks'[t])
  PROVE  /\ tasks'[t].conn = c
         /\ \/ IsMaking(tasks[t]) /\ ~ IsMonitor(tasks[t]) /\ tasks[t].conn = c
            \/ Enters(t, c) \/ ClosesOld(t, c)
<1>1. tasks'[t].kind \in Openers /\ tasks'[t].pc \in Making /\ tasks'[t].kind # "monitor"
  BY DEF IsMaking, IsMonitor
<1>2. CASE OperationBegins(t, c) \/ Leads(t, c) \/ LeavesInFlight(t, c) \/ Finishes(t, c) \/ Fails(t, c)
           \/ CannotReconnect(t, c)
  BY <1>1, <1>2 DEF OperationBegins, Leads, LeavesInFlight, Finishes, Fails, CannotReconnect, Over, Went,
     Openers, Connecting, Making
<1>3. CASE MonitorHasStarted(t, c) \/ Installs(t, c) \/ StopsFirst(t, c) \/ ClosesSession(t, c)
           \/ BeginsReconnect(t, c) \/ DropsStale(t, c) \/ StartsAnother(t, c)
  BY <1>1, <1>3 DEF MonitorHasStarted, Installs, StopsFirst, ClosesSession, BeginsReconnect, DropsStale,
     StartsAnother, Succeeds, Succeeded, GoesTo, Over, Went, Openers, Connecting, Making
<1>4. CASE \E pc \in Points : Goes(t, c, pc)
  <2>1. PICK pc \in Points : Goes(t, c, pc)
    BY <1>4
  <2>2. tasks'[t].pc = pc /\ tasks'[t].kind = tasks[t].kind /\ tasks'[t].conn = tasks[t].conn
    BY <2>1 DEF Goes, Went
  <2>3. At(t, c, Openers, {"openTunnel", "tunnelling", "prepare"})
    BY <1>1, <2>1, <2>2 DEF Goes, Making
  <2> QED
    BY <1>1, <2>2, <2>3 DEF At, IsMaking, IsMonitor, Making
<1>5. CASE MakesDriver(t, c) \/ OpensDriver(t, c)
  BY <1>1, <1>5 DEF MakesDriver, OpensDriver, At, Went, IsMaking, IsMonitor, Making
<1>6. CASE Enters(t, c) \/ ClosesOld(t, c)
  BY <1>6 DEF Enters, ClosesOld, StoppedAt, At, Went
<1>7. CASE MonitorStep(t, c)
  BY <1>1, <1>7 DEF MonitorStep, GivesUp, Retries, Captures, Revives, CannotRevive, Revived,
     TurnsHealthy, At, Went, Over, Openers, Connecting
<1> QED
  BY <1>2, <1>3, <1>4, <1>5, <1>6, <1>7 DEF ConnectionStep

(* A monitor after a step was one before it, or is new.                    *)
LEMMA MonitorBefore ==
  ASSUME InOrder, NEW t \in TaskIds, NEW c \in Connections, ConnectionStep(t, c) \/ MonitorStep(t, c),
         NEW m \in TaskIds, IsMonitor(tasks'[m])
  PROVE  \/ IsMonitor(tasks[m]) /\ tasks'[m].conn = tasks[m].conn
         \/ m # t /\ NewMonitor(t, c, m)
<1>1. CASE m # t
  BY <1>1, OthersAreKept DEF IsMonitor, Kept
<1>2. CASE m = t
  <2>1. WaitsOn(t) \/ StopsOne(t, c) \/ StartsOne(t, c)
    BY StepOnWaits
  <2> QED
    BY <1>2, <2>1, AwaitingIsAtWork DEF WaitsOn, StopsOne, StartsOne
<1> QED
  BY <1>1, <1>2

LEMMA MonitorsAsideKept ==
  ASSUME InOrder, NEW t \in TaskIds, NEW c \in Connections, ConnectionStep(t, c) \/ MonitorStep(t, c)
  PROVE  MonitorsAside'
<1> SUFFICES ASSUME NEW m \in TaskIds, IsMonitor(tasks'[m])
    PROVE  /\ tasks'[m].conn \in Monitored
           /\ \A w \in TaskIds :
                tasks'[w].conn = tasks'[m].conn /\ IsMaking(tasks'[w]) => IsMonitor(tasks'[w])
  BY DEF MonitorsAside
<1>1. tasks'[m].conn \in Monitored
  BY MonitorBefore DEF NewMonitor, InOrder, MonitorsAside
<1>2. ASSUME NEW w \in TaskIds, tasks'[w].conn = tasks'[m].conn, IsMaking(tasks'[w]),
             ~ IsMonitor(tasks'[w])
      PROVE  FALSE
  <2>1. CASE w # t
    <3>1. Kept(w)
      BY <1>2, <2>1, OthersAreKept DEF IsMaking, IsMonitor, Openers, Connecting, NewMonitor
    <3>2. IsMaking(tasks[w]) /\ ~ IsMonitor(tasks[w]) /\ tasks[w].conn = tasks'[m].conn
      BY <1>2, <3>1 DEF Kept, IsMaking, IsMonitor
    <3>3. NewMonitor(t, c, m)
      BY <3>2, MonitorBefore DEF InOrder, MonitorsAside
    <3>4. IsMaking(tasks[t]) /\ tasks[t].conn = c
      BY <3>3, InstallsIntoSession DEF NewMonitor
    <3> QED
      BY <2>1, <3>2, <3>3, <3>4, OneMakes DEF NewMonitor
  <2>2. CASE w = t
    <3>1. tasks'[m].conn = c /\ m # t
      BY <1>2, <2>2, MakesFromMaking
    <3>2. ~ Installs(t, c)
      BY <1>2, <2>2, InstallsStopNone DEF Succeeds, Succeeded, Over, Went, GoesTo, IsMaking, Openers, Connecting, Making
    <3>3. IsMonitor(tasks[m]) /\ tasks[m].conn = c
      BY <3>1, <3>2, MonitorBefore DEF NewMonitor
    <3>4. ~ (IsMaking(tasks[t]) /\ ~ IsMonitor(tasks[t]) /\ tasks[t].conn = c)
      BY <3>3 DEF InOrder, MonitorsAside
    <3>5. ~ ClosesOld(t, c)
      BY <3>1, <3>3, DropsAlone DEF IsMonitor, Idle
    <3>6. ~ Enters(t, c)
      BY <3>3 DEF Enters, InOrder, SessionsFit, SessionFits, IsMonitor
    <3> QED
      BY <1>2, <2>2, <3>4, <3>5, <3>6, MakesFromMaking
  <2> QED
    BY <2>1, <2>2
<1> QED
  BY <1>1, <1>2

-------------------------------------------------------------------------------
(***************************************************************************)
(* Calls beside others.                                                    *)
(***************************************************************************)
(* Only an installation and the end of a monitor's reconnect show a        *)
(* session as connected.                                                   *)
StatusTaken(t, c) ==
  \/ activeSessions'[c] = activeSessions[c]
  \/ activeSessions'[c].status # "connected"
  \/ Installs(t, c) \/ Revived(t, c)
  \/ TurnsHealthy(t, c) /\ activeSessions'[c].driver = activeSessions[c].driver

LEMMA OtherStatus ==
  ASSUME TypeOK, NEW c \in Connections, NEW status \in {"connecting", "error"}, SetStatus(c, status)
  PROVE  activeSessions'[c] = activeSessions[c] \/ activeSessions'[c].status # "connected"
<1>1. activeSessions[c] \in Sessions
  BY DEF TypeOK
<1>2. [activeSessions[c] EXCEPT !.status = status].status = status
  BY <1>1 DEF Sessions
<1> QED
  BY <1>2, SetStatusDoes

LEMMA StepOnStatus ==
  ASSUME InOrder, NEW t \in TaskIds, NEW c \in Connections, ConnectionStep(t, c) \/ MonitorStep(t, c)
  PROVE  StatusTaken(t, c)
<1>0. TypeOK
  BY DEF InOrder, Ready, Before
<1>1. CASE activeSessions' = activeSessions
  BY <1>1 DEF StatusTaken
<1>2. CASE OperationBegins(t, c) \/ Leads(t, c) \/ LeavesInFlight(t, c) \/ MonitorHasStarted(t, c)
           \/ Finishes(t, c) \/ MakesDriver(t, c) \/ OpensDriver(t, c)
  BY <1>1, <1>2 DEF OperationBegins, Leads, LeavesInFlight, MonitorHasStarted, Finishes,
     MakesDriver, OpensDriver, SameRest
<1>3. CASE (\E pc \in Points : Goes(t, c, pc)) \/ StartsAnother(t, c) \/ StopsFirst(t, c)
           \/ ClosesOld(t, c) \/ Captures(t, c) \/ Revives(t, c) \/ CannotRevive(t, c)
  BY <1>1, <1>3 DEF Goes, StartsAnother, StopsFirst, ClosesOld, Captures, Revives, CannotRevive, SameRest
<1>4. CASE Enters(t, c)
  <2>1. CASE HasSession(c)
    BY <1>1, <1>4, <2>1 DEF Enters
  <2>2. CASE ~ HasSession(c)
    <3>1. activeSessions \in [Connections -> Sessions]
      BY <1>0 DEF TypeOK
    <3>2. activeSessions'[c] = [activeSessions[c] EXCEPT !.status = "connecting"]
      BY <1>4, <2>2, <3>1 DEF Enters
    <3>3. activeSessions[c] \in Sessions
      BY <3>1
    <3> QED
      BY <3>2, <3>3 DEF Sessions, StatusTaken
  <2> QED
    BY <2>1, <2>2
<1>5. CASE Fails(t, c) \/ ClosesSession(t, c)
  <2>1. RemoveSessionEntry(c)
    BY <1>5 DEF Fails, ClosesSession
  <2> QED
    BY <1>0, <2>1, RemoveSessionDoes DEF StatusTaken
<1>6. CASE BeginsReconnect(t, c) \/ CannotReconnect(t, c) \/ GivesUp(t, c) \/ Retries(t, c)
  BY <1>0, <1>6, OtherStatus DEF BeginsReconnect, CannotReconnect, GivesUp, Retries, StatusTaken
<1>7. CASE DropsStale(t, c)
  BY <1>7, DropsStaleDoes DEF StatusTaken
<1>8. CASE TurnsHealthy(t, c)
  BY <1>0, <1>8, SetStatusKeepsDriver DEF TurnsHealthy, KeepsDriver, StatusTaken
<1>9. CASE Installs(t, c) \/ Revived(t, c)
  BY <1>9 DEF StatusTaken
<1> QED
  BY <1>2, <1>3, <1>4, <1>5, <1>6, <1>7, <1>8, <1>9 DEF ConnectionStep, MonitorStep

ConnectedHasDriver == \A c \in Connections : IsConnected(c) => activeSessions[c].driver # 0

LEMMA ConnectedHasDriverKept ==
  ASSUME InOrder, ConnectedHasDriver, NEW t \in TaskIds, NEW c \in Connections,
         ConnectionStep(t, c) \/ MonitorStep(t, c)
  PROVE  ConnectedHasDriver'
<1> SUFFICES ASSUME NEW e \in Connections, activeSessions'[e].status = "connected"
             PROVE  activeSessions'[e].driver # 0
  BY DEF ConnectedHasDriver, IsConnected
<1>1. SessionTaken(t, c) /\ StatusTaken(t, c)
  BY StepOnSession, StepOnStatus DEF InOrder
<1>2. CASE activeSessions'[e] = activeSessions[e]
  BY <1>2 DEF ConnectedHasDriver, IsConnected
<1>3. CASE e = c /\ (Installs(t, c) \/ Revived(t, c))
  BY <1>3, InstallsIntoSession
<1>4. CASE e = c /\ TurnsHealthy(t, c) /\ activeSessions'[c].driver = activeSessions[c].driver
  BY <1>4 DEF TurnsHealthy, At, InOrder, SessionsFit, SessionFits
<1> QED
  BY <1>1, <1>2, <1>3, <1>4 DEF SessionTaken, StatusTaken

(* What is not offered is not at work.                                     *)
OnlyOffered ==
  \A t \in TaskIds : tasks[t].kind \in {"disconnect", "reconnect"} => tasks[t].kind \in Operations

LEMMA OthersPart ==
  ASSUME NEW t, NEW c, PartsTaken(t, c)
  PROVE  OthersKeepPart(t)
BY ApartKeepsPart DEF PartsTaken, Begins, Leads, LeavesInFlight, TakesUp

LEMMA OnlyOfferedKept ==
  ASSUME OnlyOffered, NEW t \in TaskIds, NEW c \in Connections, PartsTaken(t, c)
  PROVE  OnlyOffered'
<1> SUFFICES ASSUME NEW u \in TaskIds, tasks'[u].kind \in {"disconnect", "reconnect"}
             PROVE  tasks'[u].kind \in Operations
  BY DEF OnlyOffered
<1>1. CASE SamePart(tasks[u], tasks'[u])
  BY <1>1 DEF SamePart, Bystander, OnlyOffered
<1>2. CASE u # t
  BY <1>1, <1>2, OthersPart DEF OthersKeepPart
<1>3. CASE u = t /\ \E operation \in AllOperations : Begins(t, c, operation)
  BY <1>3 DEF Begins, Possible, Called
<1>4. ~ (u = t /\ (Leads(t, c) \/ LeavesInFlight(t, c) \/ TakesUp(t, c)))
  BY DEF Leads, LeavesInFlight, TakesUp, At, Went, Over
<1> QED
  BY <1>1, <1>2, <1>3, <1>4 DEF PartsTaken

(* Where a call of ensureConnected begins with nothing else running, it    *)
(* connects with nothing else running.                                     *)
Calls(task) == task.kind = "ensure" /\ ~ Done(task)

EnsuresAlone ==
  "ensure" \in Alone =>
    \A w \in TaskIds : Calls(tasks[w]) =>
      /\ activeSessions[tasks[w].conn].driver = 0
      /\ \A u \in TaskIds \ {w} : tasks[u].conn = tasks[w].conn => tasks[u].kind \in {"none", "closer"}

(* A call that goes on.                                                    *)
LEMMA CallsBefore ==
  ASSUME NEW t \in TaskIds, NEW c \in Connections, PartsTaken(t, c),
         NEW w \in TaskIds, Calls(tasks'[w])
  PROVE  \/ Calls(tasks[w]) /\ tasks'[w].conn = tasks[w].conn
         \/ w = t /\ Begins(t, c, "ensure")
<1>1. ~ StaysOut(tasks'[w]) /\ ~ Bystander(tasks'[w])
  BY DEF Calls, StaysOut, Bystander, Called
<1>2. CASE SamePart(tasks[w], tasks'[w])
  BY <1>1, <1>2 DEF SamePart, StaysOut, Calls
<1>3. CASE w # t
  BY <1>2, <1>3, OthersPart DEF OthersKeepPart
<1>4. CASE w = t /\ Leads(t, c)
  BY <1>4 DEF Leads, At, Went, Calls, Done
<1>5. CASE w = t /\ \E operation \in AllOperations : Begins(t, c, operation)
  BY <1>5 DEF Begins, Calls, Called
<1>6. ~ (w = t /\ (LeavesInFlight(t, c) \/ TakesUp(t, c)))
  BY DEF LeavesInFlight, TakesUp, Over, Calls
<1> QED
  BY <1>2, <1>3, <1>4, <1>5, <1>6 DEF PartsTaken

(* What runs for the connection of a call that goes on.                    *)
LEMMA BesideCall ==
  ASSUME OneByOne, InOrder, ConnectedHasDriver, EnsuresAlone, "ensure" \in Alone,
         NEW t \in TaskIds, NEW c \in Connections, ConnectionStep(t, c) \/ MonitorStep(t, c),
         NEW w \in TaskIds, Calls(tasks[w]), Calls(tasks'[w]),
         NEW u \in TaskIds \ {w}, tasks'[u].conn = tasks[w].conn
  PROVE  tasks'[u].kind \in {"none", "closer"}
<1> DEFINE d == tasks[w].conn
<1>1. /\ activeSessions[d].driver = 0
      /\ \A x \in TaskIds \ {w} : tasks[x].conn = d => tasks[x].kind \in {"none", "closer"}
  BY DEF EnsuresAlone
<1>2. PartsTaken(t, c)
  BY StepOnParts DEF InOrder
<1>3. tasks[w].kind = "ensure"
  BY DEF Calls
<1>4. CASE u # t
  <2>1. ~ NewMonitor(t, c, u)
    <3>1. SUFFICES ASSUME NewMonitor(t, c, u) PROVE FALSE
      OBVIOUS
    <3>2. Installs(t, c) /\ d = c
      BY <3>1 DEF NewMonitor
    <3>3. t = w
      BY <1>1, <3>2 DEF Installs, At, Connecting
    <3> QED
      BY <1>3, <3>2, <3>3, InstallsStopNone DEF Succeeds, Succeeded, Over, Went, GoesTo, Calls, Done
  <2> QED
    BY <1>1, <1>4, <2>1, OthersAreKept DEF Kept
<1>5. CASE u = t /\ \E operation \in AllOperations : Begins(t, c, operation)
  <2>1. PICK operation \in AllOperations : Begins(t, c, operation)
    BY <1>5
  <2>2. d = c /\ tasks[w].conn = c
    BY <1>5, <2>1 DEF Begins
  <2>3. operation = "wake" /\ "wake" \notin Alone
    BY <1>3, <2>1, <2>2, OnlyMonitorsRun
  <2>4. IsConnected(c)
    BY <2>1, <2>3 DEF Begins
  <2> QED
    BY <1>1, <2>2, <2>4 DEF ConnectedHasDriver
<1>6. CASE u = t /\ (Leads(t, c) \/ TakesUp(t, c))
  BY <1>1, <1>6 DEF Leads, TakesUp, At, Went
<1>7. CASE u = t /\ LeavesInFlight(t, c)
  BY <1>7 DEF LeavesInFlight, Over
<1>8. CASE u = t /\ SamePart(tasks[t], tasks'[t])
  <2>1. CASE IsMonitor(tasks'[t])
    <3>1. IsMonitor(tasks[t]) /\ tasks'[t].conn = tasks[t].conn
      BY <2>1, MonitorBefore
    <3> QED
      BY <1>1, <1>8, <3>1 DEF IsMonitor
  <2>2. CASE ~ IsMonitor(tasks'[t])
    BY <1>1, <1>8, <2>2 DEF SamePart, Bystander, IsMonitor
  <2> QED
    BY <2>1, <2>2
<1> QED
  BY <1>2, <1>4, <1>5, <1>6, <1>7, <1>8 DEF PartsTaken

LEMMA EnsuresAloneKept ==
  ASSUME OneByOne, InOrder, ConnectedHasDriver, EnsuresAlone, NEW t \in TaskIds, NEW c \in Connections,
         ConnectionStep(t, c) \/ MonitorStep(t, c)
  PROVE  EnsuresAlone'
<1> SUFFICES ASSUME "ensure" \in Alone, NEW w \in TaskIds, Calls(tasks'[w])
             PROVE  /\ activeSessions'[tasks'[w].conn].driver = 0
                    /\ \A u \in TaskIds \ {w} :
                         tasks'[u].conn = tasks'[w].conn => tasks'[u].kind \in {"none", "closer"}
  BY DEF EnsuresAlone
<1>1. PartsTaken(t, c) /\ SessionTaken(t, c)
  BY StepOnParts, StepOnSession DEF InOrder
<1>2. CASE w = t /\ Begins(t, c, "ensure")
  <2>1. tasks[t].kind = "none" /\ tasks'[t].conn = c /\ activeSessions[c].driver = 0
    BY <1>2 DEF Begins
  <2>2. ~ InstallsDriver(t, c)
    BY <2>1 DEF InstallsDriver, Installs, Revived, At, Connecting
  <2>3. activeSessions'[c].driver = 0
    BY <1>1, <2>1, <2>2 DEF SessionTaken, KeepsDriver, EntersSession, RemovesSession, DropsDriver
  <2>4. ASSUME NEW u \in TaskIds \ {w}, tasks'[u].conn = c
        PROVE  tasks'[u].kind \in {"none", "closer"}
    <3>1. ~ NewMonitor(t, c, u)
      BY <2>1 DEF NewMonitor, Installs, At, Connecting
    <3>2. CASE Kept(u)
      <4>1. tasks[u].kind = "monitor" /\ tasks[u].conn = c
        BY <1>2, <2>4, <3>2, OnlyMonitorsRun DEF Kept
      <4> QED
        BY <2>1, <4>1 DEF InOrder, SessionsFit, SessionFits
    <3> QED
      BY <1>2, <3>1, <3>2, OthersAreKept
  <2> QED
    BY <1>2, <2>1, <2>3, <2>4
<1>3. CASE Calls(tasks[w]) /\ tasks'[w].conn = tasks[w].conn
  <2> DEFINE d == tasks[w].conn
  <2>1. /\ activeSessions[d].driver = 0 /\ d \in Connections
        /\ \A x \in TaskIds \ {w} : tasks[x].conn = d => tasks[x].kind \in {"none", "closer"}
    BY <1>3 DEF EnsuresAlone, Calls, InOrder, Ready, Before, TasksTyped
  <2>2. ~ (d = c /\ (Installs(t, c) \/ Revived(t, c)))
    <3>1. SUFFICES ASSUME d = c, Installs(t, c) \/ Revived(t, c) PROVE FALSE
      OBVIOUS
    <3>2. t = w
      BY <2>1, <3>1 DEF Installs, Revived, At, Connecting
    <3>3. Installs(t, c)
      BY <1>3, <3>1, <3>2 DEF Revived, At, Calls
    <3> QED
      BY <1>3, <3>2, <3>3, InstallsStopNone DEF Succeeds, Succeeded, Over, Went, GoesTo, Calls, Done
  <2>3. activeSessions'[d].driver = 0
    BY <1>1, <2>1, <2>2 DEF SessionTaken, KeepsDriver, EntersSession, RemovesSession, InstallsDriver,
       DropsDriver
  <2> QED
    BY <1>3, <2>3, BesideCall
<1> QED
  BY <1>1, <1>2, <1>3, CallsBefore

(* A recovery is called beside another one at most.                        *)
LEMMA CalledAsideKept ==
  ASSUME OneByOne, InOrder, ConnectedHasDriver, OnlyOffered, EnsuresAlone,
         NEW t \in TaskIds, NEW c \in Connections, PartsTaken(t, c)
  PROVE  CalledAside'
<1> SUFFICES ASSUME NEW w \in TaskIds, Called(tasks'[w]),
                    NEW u \in TaskIds \ {w}, tasks'[u].conn = tasks'[w].conn,
                    ~ StaysOut(tasks'[u]), tasks'[u].kind # "recover"
             PROVE  FALSE
  BY DEF CalledAside
<1>1. OthersKeepPart(t)
  BY OthersPart
<1>2. ~ Bystander(tasks'[w]) /\ ~ Bystander(tasks'[u]) /\ tasks'[w].kind = "recover"
  BY DEF Called, Bystander, StaysOut
<1>3. ASSUME SamePart(tasks[u], tasks'[u])
      PROVE  tasks[u].conn = tasks'[u].conn /\ tasks[u].kind = tasks'[u].kind /\ ~ StaysOut(tasks[u])
  BY <1>2, <1>3 DEF SamePart
<1>4. ASSUME SamePart(tasks[w], tasks'[w])
      PROVE  Called(tasks[w]) /\ tasks[w].conn = tasks'[w].conn
  BY <1>2, <1>4 DEF SamePart
<1>5. CASE SamePart(tasks[u], tasks'[u]) /\ SamePart(tasks[w], tasks'[w])
  BY <1>3, <1>4, <1>5 DEF InOrder, CalledAside
<1>6. CASE w = t /\ \E operation \in AllOperations : Begins(t, c, operation)
  <2>1. PICK operation \in AllOperations : Begins(t, c, operation)
    BY <1>6
  <2>2. operation \in {"wake", "death"} /\ tasks'[w].conn = c /\ Recoverable
    BY <1>2, <1>6, <2>1 DEF Begins
  <2>3. /\ SamePart(tasks[u], tasks'[u]) /\ tasks[u].conn = c /\ ~ StaysOut(tasks[u])
        /\ tasks[u].kind # "recover"
    BY <1>1, <1>3, <1>6, <2>2 DEF OthersKeepPart
  <2>4. tasks[u].kind \in {"ensure", "disconnect", "reconnect"}
    <3>1. tasks[u].kind \in Kinds
      BY DEF InOrder, Ready, Before, TypeOK, TasksTyped, Tasks
    <3> QED
      BY <2>3, <3>1 DEF Kinds, StaysOut, Bystander
  <2>5. operation = "wake" /\ "wake" \notin Alone
    BY <2>1, <2>2, <2>3, <2>4, OnlyMonitorsRun
  <2>6. tasks[u].kind = "ensure" /\ ~ Done(tasks[u]) /\ "ensure" \in Alone
    BY <2>1, <2>2, <2>3, <2>4, <2>5 DEF OneByOne, OnlyOffered, Begins, Possible, StaysOut
  <2>7. activeSessions[c].driver = 0
    BY <2>3, <2>6 DEF EnsuresAlone, Calls
  <2>8. IsConnected(c)
    BY <2>1, <2>5 DEF Begins
  <2> QED
    BY <2>7, <2>8 DEF ConnectedHasDriver
<1>7. CASE u = t /\ \E operation \in AllOperations : Begins(t, c, operation)
  <2>1. PICK operation \in AllOperations : Begins(t, c, operation)
    BY <1>7
  <2>2. Called(tasks[w]) /\ tasks[w].conn = c /\ tasks[w].kind = "recover"
    BY <1>1, <1>4, <1>7, <2>1 DEF OthersKeepPart, Begins, Called
  <2>3. Recoverable
    BY <2>2 DEF InOrder, Unrecovered
  <2>4. operation \in {"ensure", "reconnect", "disconnect"}
    BY <1>7, <2>1 DEF Begins, StaysOut
  <2> QED
    BY <2>1, <2>2, <2>3, <2>4, OnlyMonitorsRun DEF OneByOne
<1>8. CASE t \in {u, w} /\ (Leads(t, c) \/ LeavesInFlight(t, c) \/ TakesUp(t, c))
  <2>1. CASE u = t /\ Leads(t, c)
    <3>1. tasks[u].kind = "ensure" /\ tasks[u].conn = tasks'[u].conn /\ ~ StaysOut(tasks[u])
      BY <2>1 DEF Leads, At, Went, StaysOut, Bystander, Called, Done
    <3>2. Called(tasks[w]) /\ tasks[w].conn = tasks'[w].conn
      BY <1>1, <1>4, <2>1 DEF OthersKeepPart
    <3> QED
      BY <3>1, <3>2 DEF InOrder, CalledAside
  <2>2. ~ (w = t /\ Leads(t, c))
    BY <1>2 DEF Leads, At, Went
  <2>3. ~ LeavesInFlight(t, c)
    BY <1>2, <1>8 DEF LeavesInFlight, Over, Bystander
  <2>4. ~ TakesUp(t, c)
    BY <1>8 DEF TakesUp
  <2> QED
    BY <1>8, <2>1, <2>2, <2>3, <2>4
<1>9. CASE t \notin {u, w}
  BY <1>1, <1>5, <1>9 DEF OthersKeepPart
<1>10. CASE t \in {u, w} /\ SamePart(tasks[t], tasks'[t])
  BY <1>1, <1>5, <1>10 DEF OthersKeepPart
<1> QED
  BY <1>6, <1>7, <1>8, <1>9, <1>10 DEF PartsTaken

-------------------------------------------------------------------------------
(***************************************************************************)
(* The invariant of the sessions and the tasks.                            *)
(***************************************************************************)
SessionInv ==
  /\ LiveInv
  /\ AloneAtWork /\ CalledAside /\ OneLeads /\ InstallsOne /\ Unrecovered /\ MonitorsFit
  /\ MonitorsAside /\ SessionsFit
  /\ ConnectedHasDriver /\ OnlyOffered /\ EnsuresAlone

LEMMA SessionInvGives ==
  ASSUME SessionInv
  PROVE  IInv /\ InOrder
<1>1. IInv /\ MonitorsLive
  BY DEF SessionInv, LiveInv
<1>2. OneRecovery /\ Ready
  BY <1>1, InvariantGives DEF IInv, Ready
<1> QED
  BY <1>1, <1>2 DEF SessionInv, InOrder

LEMMA SessionInvHolds ==
  Init => SessionInv
<1> SUFFICES ASSUME Init PROVE SessionInv
  OBVIOUS
<1>1. LiveInv
  BY LiveInvHolds
<1>2. \A t \in TaskIds : tasks[t].kind = "none"
  BY DEF Init, NoTask, Task
<1>3. \A c \in Connections : ~ HasSession(c) /\ ~ IsConnected(c)
  BY DEF Init, NoSession, HasSession, IsConnected
<1>4. AloneAtWork /\ CalledAside /\ OneLeads /\ InstallsOne
  BY <1>2 DEF AloneAtWork, CalledAside, OneLeads, InstallsOne, Exclusive, Called, Leading, HasItToInstall
<1>5. Unrecovered
  BY <1>2, <1>3 DEF Unrecovered, Exclusive
<1>6. MonitorsFit /\ MonitorsAside
  BY <1>2 DEF MonitorsFit, MonitorsAside, IsMonitor, Awaiting
<1>7. SessionsFit
  BY <1>2, IdleFits DEF SessionsFit, Idle
<1>8. ConnectedHasDriver /\ OnlyOffered /\ EnsuresAlone
  BY <1>2, <1>3 DEF ConnectedHasDriver, OnlyOffered, EnsuresAlone, Calls
<1> QED
  BY <1>1, <1>4, <1>5, <1>6, <1>7, <1>8 DEF SessionInv

LEMMA StepInOrder ==
  ASSUME SessionInv, Next
  PROVE  \E t \in TaskIds : \E c \in Connections : ConnectionStep(t, c) \/ MonitorStep(t, c)
BY StepIsTaken DEF SessionInv, LiveInv, StepTaken

LEMMA SessionInvKept ==
  ASSUME OneByOne
  PROVE  SessionInv /\ [Next]_vars => SessionInv'
<1> SUFFICES ASSUME SessionInv, [Next]_vars PROVE SessionInv'
  OBVIOUS
<1>1. LiveInv'
  BY LiveInvKept DEF SessionInv
<1>2. CASE Next
  <2>1. PICK t \in TaskIds, c \in Connections : ConnectionStep(t, c) \/ MonitorStep(t, c)
    BY <1>2, StepInOrder
  <2>2. IInv /\ InOrder
    BY SessionInvGives
  <2>3. PartsTaken(t, c)
    BY <2>1, <2>2, StepOnParts DEF InOrder
  <2>4. AloneAtWork' /\ OneLeads' /\ CalledAside'
    BY <2>2, <2>3, AloneKept, OneLeadsKept, CalledAsideKept DEF SessionInv, InOrder
  <2>5. InstallsOne' /\ Unrecovered'
    BY <2>1, <2>2, InstallsOneKept, UnrecoveredKept DEF InOrder
  <2>6. MonitorsFit'
    BY <2>1, <2>2, StepOnWaits, WaitsOnFits, StopsOneFits, StartsOneFits DEF InOrder
  <2>7. SessionsFit' /\ MonitorsAside'
    BY <2>1, <2>2, SessionsFitKept, MonitorsAsideKept
  <2>8. ConnectedHasDriver' /\ OnlyOffered' /\ EnsuresAlone'
    BY <2>1, <2>2, <2>3, ConnectedHasDriverKept, OnlyOfferedKept, EnsuresAloneKept DEF SessionInv
  <2> QED
    BY <1>1, <2>4, <2>5, <2>6, <2>7, <2>8 DEF SessionInv
<1>3. CASE UNCHANGED vars
  <2>1. tasks' = tasks /\ activeSessions' = activeSessions /\ healthMonitors' = healthMonitors
        /\ inFlight' = inFlight /\ open' = open
    BY <1>3 DEF vars
  <2>2. /\ AloneAtWork' /\ CalledAside' /\ OneLeads' /\ InstallsOne' /\ MonitorsFit' /\ MonitorsAside'
        /\ OnlyOffered' /\ EnsuresAlone' /\ SessionsFit'
    BY <2>1 DEF SessionInv, AloneAtWork, CalledAside, OneLeads, InstallsOne, MonitorsFit, MonitorsAside,
       OnlyOffered, EnsuresAlone, SessionsFit
  <2>3. Unrecovered' /\ ConnectedHasDriver'
    BY <2>1 DEF SessionInv, Unrecovered, ConnectedHasDriver, HasSession, IsConnected
  <2> QED
    BY <1>1, <2>2, <2>3 DEF SessionInv
<1> QED
  BY <1>2, <1>3

(* A connection has one monitor at most, and only the table's runs on,     *)
(* where its operations do not overlap: a task that has cancelled one      *)
(* awaits its end, and no other starts or stops one in the meantime.       *)
THEOREM OneMonitorAtATime == ASSUME OneByOne PROVE Spec => []OneMonitor
<1>1. SessionInv => OneMonitor
  <2> SUFFICES ASSUME SessionInv, NEW c \in Connections, NEW t \in TasksOf(c, "monitor")
               PROVE  /\ TasksOf(c, "monitor") = {t}
                      /\ tasks[t].cancelled \/ healthMonitors[c] = t
    BY DEF OneMonitor
  <2>1. \A x \in TasksOf(c, "monitor") : x \in TaskIds /\ IsMonitor(tasks[x]) /\ tasks[x].conn = c
    BY DEF TasksOf, Live, Conn, IsMonitor
  <2>2. tasks[t].cancelled \/ healthMonitors[c] = t
    BY <2>1 DEF SessionInv, MonitorsFit
  <2>3. \A x \in TasksOf(c, "monitor") : x = t
    BY <2>1, MonitorsAlone DEF SessionInv
  <2> QED
    BY <2>2, <2>3
<1> QED
  BY <1>1, SessionInvHolds, SessionInvKept, PTL DEF Spec

-------------------------------------------------------------------------------
(***************************************************************************)
(* A disconnect closes the driver of its session.                          *)
(***************************************************************************)
(* disconnectSession begins only while the monitor is not reconnecting,    *)
(* and where it awaits the end of a tunnel first there is no monitor that  *)
(* could begin to reconnect meanwhile.                                     *)
DisconnectsAtRest ==
  "disconnect" \in Operations => "disconnect" \in AtRest /\ Tunnelled \cap Monitored = {}

IsClosing(task) == task.kind = "disconnect" /\ task.pc \in {"closeTunnel", "stopMonitor", "stopped"}

Resting(task) == task.pc \in {"sleep", "ping"}

(* The driver it took when it began is the session's still.                *)
ClosingFits ==
  \A w \in TaskIds : IsClosing(tasks[w]) =>
    /\ tasks[w].driver = activeSessions[tasks[w].conn].driver
    /\ tasks[w].pc # "stopped" => tasks[w].conn \notin Monitored
    /\ \A m \in TaskIds : IsMonitor(tasks[m]) /\ tasks[m].conn = tasks[w].conn => Resting(tasks[m])

(* A step is taken for the connection of its task.                         *)
LEMMA ForItsConnection ==
  ASSUME NEW t \in TaskIds, NEW c \in Connections, ConnectionStep(t, c) \/ MonitorStep(t, c),
         tasks[t].kind # "none"
  PROVE  tasks[t].conn = c
<1>1. CASE OperationBegins(t, c) \/ Leads(t, c) \/ LeavesInFlight(t, c)
           \/ (\E pc \in Points : Goes(t, c, pc)) \/ MonitorHasStarted(t, c) \/ Finishes(t, c)
           \/ MakesDriver(t, c) \/ OpensDriver(t, c) \/ Enters(t, c) \/ Fails(t, c)
  BY <1>1 DEF OperationBegins, Leads, LeavesInFlight, Goes, MonitorHasStarted, Finishes, MakesDriver,
     OpensDriver, Enters, Fails, At
<1>2. CASE Installs(t, c) \/ StartsAnother(t, c) \/ StopsFirst(t, c) \/ ClosesSession(t, c)
           \/ BeginsReconnect(t, c) \/ ClosesOld(t, c) \/ CannotReconnect(t, c) \/ DropsStale(t, c)
  BY <1>2 DEF Installs, StartsAnother, StopsFirst, ClosesSession, BeginsReconnect, ClosesOld,
     CannotReconnect, DropsStale, StoppedAt, DisconnectBegins, At
<1>3. CASE MonitorStep(t, c)
  BY <1>3 DEF MonitorStep, GivesUp, Retries, Captures, Revives, CannotRevive, Revived, TurnsHealthy, At
<1> QED
  BY <1>1, <1>2, <1>3 DEF ConnectionStep

(* A disconnect on the way after a step has just begun, or went on.        *)
BeginsToClose(t, c) ==
  /\ DisconnectBegins(t, c) /\ tasks'[t].conn = c /\ activeSessions' = activeSessions
  /\ tasks'[t].driver = activeSessions[c].driver
  /\ tasks'[t].pc # "stopped" => c \in Tunnelled

GoesOnClosing(t, c, w) ==
  /\ IsClosing(tasks[w]) /\ tasks'[w].conn = tasks[w].conn /\ tasks'[w].driver = tasks[w].driver
  /\ tasks'[w].pc # "stopped" => tasks[w].pc # "stopped"
  /\ w = t => activeSessions' = activeSessions

LEMMA ClosingBefore ==
  ASSUME InOrder, NEW t \in TaskIds, NEW c \in Connections, ConnectionStep(t, c) \/ MonitorStep(t, c),
         NEW w \in TaskIds, IsClosing(tasks'[w])
  PROVE  GoesOnClosing(t, c, w) \/ (w = t /\ BeginsToClose(t, c))
<1>1. CASE w # t
  <2>1. Kept(w)
    BY <1>1, OthersAreKept DEF IsClosing, NewMonitor, IsMonitor
  <2> QED
    BY <1>1, <2>1 DEF Kept, GoesOnClosing, IsClosing
<1>2. CASE w = t
  <2>1. tasks'[t].kind = "disconnect" /\ tasks'[t].pc \in {"closeTunnel", "stopMonitor", "stopped"}
    BY <1>2 DEF IsClosing
  <2>2. CASE OperationBegins(t, c)
    BY <1>2, <2>1, <2>2 DEF OperationBegins, SameRest, BeginsToClose
  <2>3. CASE \E pc \in Points : Goes(t, c, pc)
    BY <1>2, <2>1, <2>3 DEF Goes, Went, At, SameRest, GoesOnClosing, IsClosing, Openers, Connecting
  <2>4. CASE StopsFirst(t, c)
    BY <1>2, <2>1, <2>4 DEF StopsFirst, At, GoesOnClosing, IsClosing, BeginsToClose
  <2>5. ~ (Leads(t, c) \/ LeavesInFlight(t, c) \/ MonitorHasStarted(t, c) \/ Finishes(t, c)
           \/ MakesDriver(t, c) \/ OpensDriver(t, c) \/ Enters(t, c) \/ Fails(t, c))
    BY <2>1 DEF Leads, LeavesInFlight, MonitorHasStarted, Succeeds, Succeeded, Finishes, MakesDriver,
       OpensDriver, Enters, Fails, Over, Went, At, Openers, Connecting
  <2>6. ~ (Installs(t, c) \/ StartsAnother(t, c) \/ ClosesSession(t, c) \/ BeginsReconnect(t, c)
           \/ ClosesOld(t, c) \/ CannotReconnect(t, c) \/ DropsStale(t, c))
    BY <2>1 DEF Installs, StartsAnother, ClosesSession, BeginsReconnect, ClosesOld, CannotReconnect,
       DropsStale, StoppedAt, Succeeds, Succeeded, GoesTo, Over, Went, At, Connecting
  <2>7. ~ MonitorStep(t, c)
    BY <2>1 DEF MonitorStep, GivesUp, Retries, Captures, Revives, CannotRevive, Revived, TurnsHealthy,
       Over, Went, At
  <2> QED
    BY <2>2, <2>3, <2>4, <2>5, <2>6, <2>7 DEF ConnectionStep
<1> QED
  BY <1>1, <1>2

(* Nothing else at work touches the session meanwhile.                     *)
LEMMA ClosingKeepsDriver ==
  ASSUME OneByOne, InOrder, ClosingFits, NEW t \in TaskIds, NEW c \in Connections,
         ConnectionStep(t, c) \/ MonitorStep(t, c),
         NEW w \in TaskIds \ {t}, IsClosing(tasks[w]), tasks[w].conn = c
  PROVE  activeSessions'[c].driver = activeSessions[c].driver
<1>1. StaysOut(tasks[t]) \/ tasks[t].conn # c
  BY DEF IsClosing, Exclusive, InOrder, AloneAtWork
<1>2. SessionTaken(t, c)
  BY StepOnSession DEF InOrder
<1>3. ~ EntersSession(t, c) /\ ~ Fails(t, c) /\ ~ Installs(t, c)
  BY <1>1 DEF EntersSession, Enters, Fails, Installs, At, StaysOut, Bystander, Called, Done, Connecting
<1>4. ~ Revived(t, c)
  BY DEF Revived, At, ClosingFits, IsMonitor, Resting
<1>5. ~ ClosesSession(t, c) /\ ~ DropsStale(t, c)
  <2>1. ~ StoppedAt(t, c, "disconnect", "stopMonitor") /\ ~ DropsStale(t, c)
    <3>1. tasks[t].conn = c => StaysOut(tasks[t])
      BY <1>1
    <3>2. ~ StaysOut(tasks[w])
      BY DEF IsClosing, StaysOut, Bystander, Called, Done
    <3>3. ~ (At(t, c, {"recover"}, {"recover"}) /\ c \notin recoveringConnectionIds)
      BY <3>2, TakesUpAlone DEF InOrder
    <3> QED
      BY <3>1, <3>3 DEF StoppedAt, DropsStale, At, StaysOut, Bystander, Called, Done
  <2> QED
    BY <2>1, DisconnectsAlone DEF ClosesSession, IsClosing
<1> QED
  BY <1>2, <1>3, <1>4, <1>5 DEF SessionTaken, KeepsDriver, RemovesSession, InstallsDriver, DropsDriver

(* A monitor that rests while its session is being closed stays at rest.   *)
LEMMA ClosingKeepsRest ==
  ASSUME InOrder, ClosingFits, NEW t \in TaskIds, NEW c \in Connections,
         ConnectionStep(t, c) \/ MonitorStep(t, c),
         NEW w \in TaskIds, IsClosing(tasks[w]), tasks[w].conn = tasks[t].conn,
         IsMonitor(tasks[t]), IsMonitor(tasks'[t])
  PROVE  Resting(tasks'[t])
<1>1. Resting(tasks[t]) /\ tasks[t].conn \in Monitored
  BY DEF ClosingFits, InOrder, MonitorsAside
<1>2. healthMonitors[tasks[w].conn] = 0
  BY <1>1 DEF ClosingFits, IsClosing, InOrder, MonitorsFit, Awaiting
<1>3. tasks[t].cancelled
  <2>1. t # 0
    BY LimitsAssumption DEF TaskIds
  <2> QED
    BY <1>2, <2>1 DEF InOrder, MonitorsFit
<1>4. CASE MonitorStep(t, c)
  BY <1>1, <1>3, <1>4 DEF MonitorStep, GivesUp, Retries, Captures, Revives, CannotRevive, Revived,
     TurnsHealthy, At, Over, Resting, IsMonitor, Making
<1>5. CASE \E pc \in Points : Goes(t, c, pc)
  BY <1>1, <1>5 DEF Goes, Went, At, Resting, IsMonitor
<1>6. CASE Finishes(t, c) \/ MakesDriver(t, c) \/ OpensDriver(t, c)
  BY <1>1, <1>6 DEF Finishes, MakesDriver, OpensDriver, Over, At, Resting, IsMonitor
<1>7. ~ (OperationBegins(t, c) \/ Leads(t, c) \/ LeavesInFlight(t, c) \/ MonitorHasStarted(t, c)
         \/ Enters(t, c) \/ Fails(t, c) \/ Installs(t, c) \/ StartsAnother(t, c))
  BY DEF OperationBegins, Leads, LeavesInFlight, MonitorHasStarted, Enters, Fails, Installs,
     StartsAnother, At, IsMonitor, Connecting
<1>8. ~ (StopsFirst(t, c) \/ ClosesSession(t, c) \/ BeginsReconnect(t, c) \/ ClosesOld(t, c)
         \/ CannotReconnect(t, c) \/ DropsStale(t, c))
  BY DEF StopsFirst, ClosesSession, BeginsReconnect, ClosesOld, CannotReconnect, DropsStale, StoppedAt,
     DisconnectBegins, At, IsMonitor
<1> QED
  BY <1>4, <1>5, <1>6, <1>7, <1>8 DEF ConnectionStep

LEMMA ClosingFitsKept ==
  ASSUME OneByOne, DisconnectsAtRest, InOrder, ClosingFits, NEW t \in TaskIds, NEW c \in Connections,
         ConnectionStep(t, c) \/ MonitorStep(t, c)
  PROVE  ClosingFits'
<1> SUFFICES ASSUME NEW w \in TaskIds, IsClosing(tasks'[w])
    PROVE  /\ tasks'[w].driver = activeSessions'[tasks'[w].conn].driver
           /\ tasks'[w].pc # "stopped" => tasks'[w].conn \notin Monitored
           /\ \A m \in TaskIds :
                IsMonitor(tasks'[m]) /\ tasks'[m].conn = tasks'[w].conn => Resting(tasks'[m])
  BY DEF ClosingFits
<1>1. ASSUME NEW m \in TaskIds, IsMonitor(tasks'[m]), tasks'[m].conn = tasks'[w].conn
      PROVE  IsMonitor(tasks[m]) /\ tasks[m].conn = tasks'[w].conn
  <2>1. ~ NewMonitor(t, c, m)
    <3>1. SUFFICES ASSUME NewMonitor(t, c, m) PROVE FALSE
      OBVIOUS
    <3>2. /\ tasks'[w].conn = c /\ tasks[t].conn = c
          /\ tasks[t].kind \in Connecting \cup {"reconnect"} /\ tasks[t].pc = "install"
      BY <1>1, <3>1 DEF NewMonitor, Installs, At
    <3>3. IsClosing(tasks[w]) /\ tasks[w].conn = c
      BY <3>2, ClosingBefore DEF GoesOnClosing, BeginsToClose, DisconnectBegins, Connecting
    <3> QED
      BY <3>2, <3>3 DEF IsClosing, Exclusive, InOrder, AloneAtWork, StaysOut, Bystander, Called, Done, Connecting
  <2> QED
    BY <1>1, <2>1, MonitorBefore
<1>2. CASE GoesOnClosing(t, c, w)
  <2>1. IsClosing(tasks[w]) /\ tasks'[w].conn = tasks[w].conn /\ tasks'[w].driver = tasks[w].driver
    BY <1>2 DEF GoesOnClosing
  <2>2. tasks[w].driver = activeSessions[tasks[w].conn].driver /\ tasks[w].conn \in Connections
    BY <2>1 DEF ClosingFits, IsClosing, InOrder, Ready, Before, TasksTyped
  <2>3. activeSessions'[tasks[w].conn].driver = activeSessions[tasks[w].conn].driver
    <3>1. CASE w = t
      BY <1>2, <3>1 DEF GoesOnClosing
    <3>2. CASE w # t /\ tasks[w].conn = c
      BY <2>1, <3>2, ClosingKeepsDriver
    <3>3. CASE tasks[w].conn # c
      BY <2>2, <3>3, StepOnSession DEF SessionTaken, InOrder
    <3> QED
      BY <3>1, <3>2, <3>3
  <2>4. tasks'[w].pc # "stopped" => tasks[w].conn \notin Monitored
    BY <1>2 DEF GoesOnClosing, ClosingFits
  <2>5. ASSUME NEW m \in TaskIds, IsMonitor(tasks'[m]), tasks'[m].conn = tasks'[w].conn
        PROVE  Resting(tasks'[m])
    <3>1. IsMonitor(tasks[m]) /\ tasks[m].conn = tasks[w].conn
      BY <1>1, <2>1, <2>5
    <3>2. CASE m = t
      BY <2>1, <2>5, <3>1, <3>2, ClosingKeepsRest
    <3>3. CASE m # t
      <4>1. Kept(m)
        BY <2>5, <3>1, <3>3, OthersAreKept DEF IsMonitor, NewMonitor
      <4> QED
        BY <2>1, <3>1, <4>1 DEF Kept, ClosingFits, Resting
    <3> QED
      BY <3>2, <3>3
  <2> QED
    BY <2>1, <2>2, <2>3, <2>4, <2>5
<1>3. CASE w = t /\ BeginsToClose(t, c)
  <2>1. "disconnect" \in AtRest /\ Tunnelled \cap Monitored = {} /\ MayStart("disconnect", c)
    BY <1>3 DEF BeginsToClose, DisconnectBegins, DisconnectsAtRest
  <2>2. ASSUME NEW m \in TaskIds, IsMonitor(tasks'[m]), tasks'[m].conn = tasks'[w].conn
        PROVE  Resting(tasks'[m])
    <3>1. IsMonitor(tasks[m]) /\ tasks[m].conn = c
      BY <1>1, <1>3, <2>2 DEF BeginsToClose
    <3>2. m # t
      BY <1>3, <3>1 DEF BeginsToClose, DisconnectBegins, IsMonitor
    <3>3. Kept(m)
      BY <2>2, <3>1, <3>2, OthersAreKept DEF IsMonitor, NewMonitor
    <3>4. m \in Live(c)
      BY <3>1 DEF Live, Conn, IsMonitor
    <3> QED
      BY <2>1, <3>3, <3>4 DEF MayStart, MonitorAtRest, Kept, Resting
  <2> QED
    BY <1>3, <2>1, <2>2 DEF BeginsToClose
<1> QED
  BY <1>2, <1>3, ClosingBefore

-------------------------------------------------------------------------------
(***************************************************************************)
(* Open drivers are held.                                                  *)
(***************************************************************************)
(* Task u has opened driver n for connection c, and will install it.       *)
HasOpened(u, c, n) ==
  IsMaking(tasks[u]) /\ tasks[u].conn = c /\ tasks[u].pc = "install" /\ tasks[u].driver = n

OpenFits ==
  \A c \in Connections : \A n \in open[c] :
    n = activeSessions[c].driver \/ \E u \in TaskIds : HasOpened(u, c, n)

(* What has been opened is installed.                                      *)
LEMMA OpenedIsInstalled ==
  ASSUME NEW t \in TaskIds, NEW c \in Connections, ConnectionStep(t, c) \/ MonitorStep(t, c),
         IsMaking(tasks[t]), tasks[t].pc = "install"
  PROVE  Installs(t, c) \/ Revived(t, c)
<1>1. tasks[t].kind \in Openers /\ tasks[t].pc = "install"
  BY DEF IsMaking
<1>2. ~ (OperationBegins(t, c) \/ Leads(t, c) \/ LeavesInFlight(t, c)
         \/ (\E pc \in Points : Goes(t, c, pc)) \/ MonitorHasStarted(t, c) \/ Finishes(t, c)
         \/ MakesDriver(t, c) \/ OpensDriver(t, c) \/ Enters(t, c) \/ Fails(t, c))
  BY <1>1 DEF OperationBegins, Leads, LeavesInFlight, Goes, MonitorHasStarted, Finishes, MakesDriver,
     OpensDriver, Enters, Fails, At, Openers, Connecting
<1>3. ~ (StartsAnother(t, c) \/ StopsFirst(t, c) \/ ClosesSession(t, c)
         \/ BeginsReconnect(t, c) \/ ClosesOld(t, c) \/ CannotReconnect(t, c) \/ DropsStale(t, c))
  BY <1>1 DEF StartsAnother, StopsFirst, ClosesSession, BeginsReconnect, ClosesOld,
     CannotReconnect, DropsStale, StoppedAt, DisconnectBegins, At, Openers, Connecting
<1>4. ~ (GivesUp(t, c) \/ Retries(t, c) \/ Captures(t, c) \/ Revives(t, c) \/ CannotRevive(t, c)
         \/ TurnsHealthy(t, c))
  BY <1>1 DEF GivesUp, Retries, Captures, Revives, CannotRevive, TurnsHealthy, At
<1> QED
  BY <1>2, <1>3, <1>4 DEF ConnectionStep, MonitorStep

LEMMA OpenFitsKept ==
  ASSUME OneByOne, InOrder, ClosingFits, OpenFits, NEW t \in TaskIds, NEW c \in Connections,
         ConnectionStep(t, c) \/ MonitorStep(t, c)
  PROVE  OpenFits'
<1> SUFFICES ASSUME NEW e \in Connections, NEW n \in open'[e], n # activeSessions'[e].driver
             PROVE  \E u \in TaskIds : IsMaking(tasks'[u]) /\ tasks'[u].conn = e
                                       /\ tasks'[u].pc = "install" /\ tasks'[u].driver = n
  BY DEF OpenFits, HasOpened
<1>1. SessionTaken(t, c) /\ OpenTaken(t, c)
  BY StepOnSession, StepOnOpen DEF InOrder
<1>2. ASSUME NEW u \in TaskIds, HasOpened(u, e, n)
      PROVE  IsMaking(tasks'[u]) /\ tasks'[u].conn = e
             /\ tasks'[u].pc = "install" /\ tasks'[u].driver = n
  <2>1. CASE u = t
    <3>1. e = c
      BY <1>2, <2>1, ForItsConnection DEF HasOpened, IsMaking, Openers, Connecting
    <3>2. activeSessions'[c].driver = n
      BY <1>2, <2>1, OpenedIsInstalled, InstallsIntoSession DEF HasOpened
    <3> QED
      BY <3>1, <3>2
  <2>2. CASE u # t
    BY <1>2, <2>2, OthersAreKept DEF HasOpened, IsMaking, Openers, Connecting, NewMonitor, Kept
  <2> QED
    BY <2>1, <2>2
<1>3. CASE OpensDriver(t, c) /\ e = c /\ n = tasks[t].driver
  BY <1>3 DEF OpensDriver, At, Went, IsMaking, Making
<1>4. CASE n \in open[e]
  <2>1. SUFFICES ASSUME n = activeSessions[e].driver PROVE FALSE
    BY <1>2, <1>4 DEF OpenFits
  <2>2. n # 0
    BY <1>4 DEF InOrder, Ready, Before, TypeOK, DriverIds
  <2>3. e = c
    BY <1>1, <2>1 DEF SessionTaken
  <2>4. ~ KeepsDriver(c) /\ ~ EntersSession(t, c)
    BY <2>1, <2>2, <2>3 DEF KeepsDriver, EntersSession
  <2>5. ~ Fails(t, c)
    <3>1. Fails(t, c) => /\ tasks[t].kind \in Connecting /\ tasks[t].pc \in Making
                         /\ tasks[t].conn = c
      BY DEF Fails, At, Making
    <3> QED
      BY <2>1, <2>2, <2>3, <3>1 DEF InOrder, SessionsFit, SessionFits
  <2>6. ~ InstallsDriver(t, c)
    <3>1. SUFFICES ASSUME Installs(t, c) \/ Revived(t, c) PROVE FALSE
      BY DEF InstallsDriver
    <3>2. IsMaking(tasks[t]) /\ tasks[t].conn = c
      BY <3>1, InstallsIntoSession
    <3>3. SessionFits(tasks[t], activeSessions[c], open[c])
      BY <3>2 DEF InOrder, SessionsFit
    <3> QED
      BY <1>4, <2>1, <2>2, <2>3, <3>2, <3>3 DEF SessionFits, IsMaking, Openers
  <2>7. ~ DropsStale(t, c)
    <3>1. DropsStale(t, c) => Disconnect(c, activeSessions[c].driver)
      BY DEF DropsStale
    <3> QED
      BY <2>1, <2>3, <3>1, DisconnectDoes DEF InOrder
  <2>8. ~ ClosesSession(t, c)
    <3>1. StoppedAt(t, c, "disconnect", "stopMonitor") => tasks[t].driver = activeSessions[c].driver
      BY DEF StoppedAt, At, ClosingFits, IsClosing
    <3>2. ClosesSession(t, c) => Disconnect(c, activeSessions[c].driver)
      BY <3>1 DEF ClosesSession
    <3> QED
      BY <2>1, <2>3, <3>2, DisconnectDoes DEF InOrder
  <2> QED
    BY <1>1, <2>4, <2>5, <2>6, <2>7, <2>8 DEF SessionTaken, RemovesSession, DropsDriver
<1> QED
  BY <1>1, <1>3, <1>4 DEF OpenTaken

HeldInv == SessionInv /\ ClosingFits /\ OpenFits

LEMMA HeldInvHolds ==
  Init => HeldInv
<1> SUFFICES ASSUME Init PROVE HeldInv
  OBVIOUS
<1>1. ClosingFits
  BY DEF Init, NoTask, Task, ClosingFits, IsClosing
<1>2. OpenFits
  BY DEF Init, OpenFits
<1> QED
  BY <1>1, <1>2, SessionInvHolds DEF HeldInv

LEMMA HeldInvKept ==
  ASSUME OneByOne, DisconnectsAtRest
  PROVE  HeldInv /\ [Next]_vars => HeldInv'
<1> SUFFICES ASSUME HeldInv, [Next]_vars PROVE HeldInv'
  OBVIOUS
<1>1. SessionInv'
  BY SessionInvKept DEF HeldInv
<1>2. CASE Next
  <2>1. PICK t \in TaskIds, c \in Connections : ConnectionStep(t, c) \/ MonitorStep(t, c)
    BY <1>2, StepInOrder DEF HeldInv
  <2>2. InOrder
    BY SessionInvGives DEF HeldInv
  <2> QED
    BY <1>1, <2>1, <2>2, ClosingFitsKept, OpenFitsKept DEF HeldInv
<1>3. CASE UNCHANGED vars
  BY <1>1, <1>3 DEF vars, HeldInv, ClosingFits, OpenFits, HasOpened
<1> QED
  BY <1>2, <1>3

(* No connection to a database server is left open behind the user's back: *)
(* an open driver is the session's, or a task's that will install it, where *)
(* operations do not overlap and a disconnect finds the monitor at rest.   *)
THEOREM OpenDriversAlwaysHeld ==
  ASSUME OneByOne, DisconnectsAtRest PROVE Spec => []OpenDriversAreHeld
<1>1. HeldInv => OpenDriversAreHeld
  <2> SUFFICES ASSUME HeldInv, NEW c \in Connections, NEW n \in open[c]
               PROVE  n \in {activeSessions[c].driver} \cup {tasks[t].driver : t \in Live(c)}
    BY DEF OpenDriversAreHeld
  <2>1. CASE n = activeSessions[c].driver
    BY <2>1
  <2>2. ASSUME NEW u \in TaskIds, HasOpened(u, c, n)
        PROVE  n \in {tasks[t].driver : t \in Live(c)}
    BY <2>2 DEF HasOpened, IsMaking, Openers, Connecting, Live, Conn
  <2> QED
    BY <2>1, <2>2 DEF HeldInv, OpenFits
<1> QED
  BY <1>1, HeldInvHolds, HeldInvKept, PTL DEF Spec

(* So a disconnect closes the connection, as the manual says, where it does *)
(* not overlap another operation or a monitor's reconnect.                 *)
THEOREM DisconnectedAlwaysClosed ==
  ASSUME OneByOne, DisconnectsAtRest PROVE Spec => []DisconnectedIsClosed
<1>1. HeldInv => DisconnectedIsClosed
  <2> SUFFICES ASSUME HeldInv, NEW c \in Connections, ~ HasSession(c), Live(c) = {}, NEW n \in open[c]
               PROVE  FALSE
    BY DEF DisconnectedIsClosed
  <2>1. InOrder
    BY SessionInvGives DEF HeldInv
  <2>2. activeSessions[c].driver = 0 /\ n # 0
    BY <2>1 DEF InOrder, Ready, Before, NoSessionNoDriver, TypeOK, DriverIds
  <2>3. PICK u \in TaskIds : HasOpened(u, c, n)
    BY <2>2 DEF HeldInv, OpenFits
  <2>4. u \in Live(c)
    BY <2>3 DEF HasOpened, IsMaking, Openers, Connecting, Live, Conn
  <2> QED
    BY <2>4
<1> QED
  BY <1>1, HeldInvHolds, HeldInvKept, PTL DEF Spec

-------------------------------------------------------------------------------
(***************************************************************************)
(* A session shown as connected has an open driver.                        *)
(***************************************************************************)
(* No reconnect for a switch of the database overlaps a monitor's: the     *)
(* monitor could show the session as connected while its driver is closed. *)
ReconnectsUnmonitored == "reconnect" \in Operations => Monitored = {}

(* From a failed ping to the new driver.                                   *)
IsReviving(task) ==
  IsMonitor(task) /\ task.pc \in Making \cup {"backoff", "revive", "closeTunnel", "failed"}

(* What a task knows of the status of its session and of the open drivers. *)
StatusFits(task, session, opened) ==
  /\ IsReviving(task) => session.status # "connected"
  /\ IsMonitor(task) /\ task.pc = "healthy" => session.driver \in opened
  /\ IsMaking(task) /\ task.pc = "install" => task.driver \in opened
  /\ task.kind = "reconnect" =>
       /\ task.conn \notin Monitored
       /\ task.pc \in {"stopMonitor", "stopped"} => session.status # "connected"

ConnectedFits ==
  /\ ConnectedIsOpen
  /\ \A u \in TaskIds : StatusFits(tasks[u], activeSessions[tasks[u].conn], open[tasks[u].conn])

(* The driver of a session shown as connected is not closed.               *)
LEMMA ConnectedStaysOpen ==
  ASSUME OneByOne, InOrder, ConnectedFits, NEW t \in TaskIds, NEW c \in Connections,
         ConnectionStep(t, c) \/ MonitorStep(t, c)
  PROVE  ConnectedIsOpen'
<1> SUFFICES ASSUME NEW e \in Connections, activeSessions'[e].status = "connected"
             PROVE  activeSessions'[e].driver \in open'[e]
  BY DEF ConnectedIsOpen, IsConnected
<1>1. SessionTaken(t, c) /\ OpenTaken(t, c) /\ StatusTaken(t, c)
  BY StepOnSession, StepOnOpen, StepOnStatus DEF InOrder
<1>2. CASE e # c
  BY <1>1, <1>2 DEF SessionTaken, OpenTaken, ConnectedFits, ConnectedIsOpen, IsConnected
<1>3. CASE e = c /\ (Installs(t, c) \/ Revived(t, c))
  <2>1. /\ IsMaking(tasks[t]) /\ tasks[t].conn = c /\ tasks[t].pc = "install"
        /\ activeSessions'[c].driver = tasks[t].driver
    BY <1>3, InstallsIntoSession
  <2>2. tasks[t].driver \in open[c]
    BY <2>1 DEF ConnectedFits, StatusFits
  <2>3. open' = open
    BY <1>3 DEF Installs, Revived
  <2> QED
    BY <1>3, <2>1, <2>2, <2>3
<1>4. CASE e = c /\ TurnsHealthy(t, c) /\ activeSessions'[c].driver = activeSessions[c].driver
  <2>1. activeSessions[c].driver \in open[c]
    BY <1>4 DEF TurnsHealthy, At, ConnectedFits, StatusFits, IsMonitor
  <2> QED
    BY <1>4, <2>1 DEF TurnsHealthy
<1>5. CASE e = c /\ activeSessions'[c] = activeSessions[c]
  <2>1. activeSessions[c].driver \in open[c]
    BY <1>5 DEF ConnectedFits, ConnectedIsOpen, IsConnected
  <2>2. ~ ClosesSession(t, c)
    BY <1>5, RemoveSessionDoes DEF ClosesSession, InOrder, Ready, Before
  <2>3. ~ DropsStale(t, c)
    BY <1>5, DropsStaleDoes
  <2>4. ~ ClosesOld(t, c)
    BY <1>5 DEF ClosesOld, StoppedAt, At, ConnectedFits, StatusFits
  <2>5. ~ Revives(t, c)
    BY <1>5 DEF Revives, At, ConnectedFits, StatusFits, IsReviving, IsMonitor
  <2> QED
    BY <1>1, <1>5, <2>1, <2>2, <2>3, <2>4, <2>5 DEF OpenTaken, ClosesDriver
<1> QED
  BY <1>1, <1>2, <1>3, <1>4, <1>5 DEF StatusTaken

(* What the other tasks know stays true.                                   *)
LEMMA OthersStatusFits ==
  ASSUME OneByOne, InOrder, ConnectedFits, NEW t \in TaskIds, NEW c \in Connections,
         ConnectionStep(t, c) \/ MonitorStep(t, c), NEW u \in TaskIds \ {t}
  PROVE  StatusFits(tasks'[u], activeSessions'[tasks'[u].conn], open'[tasks'[u].conn])
<1>1. SessionTaken(t, c) /\ OpenTaken(t, c) /\ StatusTaken(t, c)
  BY StepOnSession, StepOnOpen, StepOnStatus DEF InOrder
<1>2. CASE tasks'[u].kind \in {"none", "closer"} \/ NewMonitor(t, c, u)
  BY <1>2 DEF NewMonitor, StatusFits, IsReviving, IsMonitor, IsMaking, Openers, Connecting, Making
<1>3. CASE Kept(u)
  <2> DEFINE d == tasks[u].conn
  <2>1. /\ d \in Connections /\ tasks'[u].conn = d
        /\ StatusFits(tasks[u], activeSessions[d], open[d])
        /\ SessionFits(tasks[u], activeSessions[d], open[d])
    BY <1>3 DEF Kept, InOrder, SessionsFit, Ready, Before, TasksTyped, ConnectedFits
  <2>2. CASE d # c
    BY <1>1, <1>3, <2>1, <2>2 DEF SessionTaken, OpenTaken, Kept, StatusFits, IsReviving, IsMonitor, IsMaking
  <2>3. CASE d = c
    <3>1. ASSUME ClosesSession(t, c) \/ ClosesOld(t, c) \/ DropsStale(t, c)
          PROVE  Idle(tasks[u])
      BY <2>3, <3>1, ClosesAlone, DropsAlone
    <3>2. ASSUME IsMonitor(tasks[u])
          PROVE  ~ Installs(t, c) /\ ~ Revived(t, c) /\ ~ TurnsHealthy(t, c) /\ ~ Revives(t, c)
      <4>1. ~ (IsMonitor(tasks[t]) /\ tasks[t].conn = c)
        BY <2>3, <3>2, MonitorsAlone DEF InOrder
      <4>2. ~ Installs(t, c)
        BY <2>3, <3>2, <4>1, InstallsIntoSession DEF InOrder, MonitorsAside
      <4> QED
        BY <4>1, <4>2 DEF Revived, TurnsHealthy, Revives, At, IsMonitor
    <3>3. ASSUME tasks[u].kind = "reconnect"
          PROVE  ~ Installs(t, c) /\ ~ Revived(t, c) /\ ~ TurnsHealthy(t, c)
      <4>1. c \notin Monitored
        BY <2>1, <2>3, <3>3 DEF StatusFits
      <4>2. ~ (IsMonitor(tasks[t]) /\ tasks[t].conn = c)
        BY <4>1 DEF InOrder, MonitorsAside
      <4>3. StaysOut(tasks[t]) \/ tasks[t].conn # c
        BY <2>3, <3>3 DEF Exclusive, InOrder, AloneAtWork
      <4> QED
        BY <4>2, <4>3 DEF Installs, Revived, TurnsHealthy, At, IsMonitor, StaysOut, Bystander, Called, Done, Connecting
    <3>4. IsReviving(tasks[u]) => activeSessions'[c].status # "connected"
      BY <1>1, <2>1, <2>3, <3>2 DEF StatusTaken, StatusFits, IsReviving
    <3>5. ASSUME IsMonitor(tasks[u]), tasks[u].pc = "healthy"
          PROVE  activeSessions'[c].driver \in open'[c]
      <4>1. activeSessions[c].driver \in open[c] /\ activeSessions[c].driver # 0
        BY <2>1, <2>3, <3>5 DEF StatusFits, SessionFits, IsMonitor
      <4>2. ~ ClosesDriver(t, c)
        BY <3>1, <3>2, <3>5 DEF ClosesDriver, IsMonitor, Idle
      <4>3. ~ Fails(t, c)
        <5>1. Fails(t, c) => tasks[t].kind \in Connecting /\ tasks[t].pc \in Making /\ tasks[t].conn = c
          BY DEF Fails, At, Making
        <5> QED
          BY <4>1, <5>1 DEF InOrder, SessionsFit, SessionFits
      <4>4. activeSessions'[c].driver = activeSessions[c].driver
        BY <1>1, <3>2, <3>5, <4>1, <4>2, <4>3 DEF SessionTaken, KeepsDriver, EntersSession, RemovesSession,
           InstallsDriver, DropsDriver, ClosesDriver
      <4> QED
        BY <1>1, <4>1, <4>2, <4>4 DEF OpenTaken
    <3>6. ASSUME IsMaking(tasks[u]), tasks[u].pc = "install"
          PROVE  tasks[u].driver \in open'[c]
      <4>1. tasks[u].driver \in open[c]
        BY <2>1, <2>3, <3>6 DEF StatusFits
      <4>2. ~ Revives(t, c)
        <5>1. CASE IsMonitor(tasks[u])
          BY <3>2, <5>1
        <5>2. CASE ~ IsMonitor(tasks[u])
          BY <2>3, <3>6, <5>2 DEF InOrder, MonitorsAside, Revives, At, IsMonitor
        <5> QED
          BY <5>1, <5>2
      <4>3. ~ ClosesDriver(t, c)
        BY <3>1, <3>6, <4>2 DEF ClosesDriver, IsMaking, Openers, Connecting, Idle, Making
      <4> QED
        BY <1>1, <4>1, <4>3 DEF OpenTaken
    <3>7. ASSUME tasks[u].kind = "reconnect"
          PROVE  /\ tasks[u].conn \notin Monitored
                 /\ tasks[u].pc \in {"stopMonitor", "stopped"} => activeSessions'[c].status # "connected"
      BY <1>1, <2>1, <2>3, <3>3, <3>7 DEF StatusTaken, StatusFits
    <3> QED
      BY <1>3, <2>1, <2>3, <3>4, <3>5, <3>6, <3>7 DEF Kept, StatusFits, IsReviving, IsMonitor, IsMaking
  <2> QED
    BY <2>2, <2>3
<1> QED
  BY <1>2, <1>3, OthersAreKept

(* From its failed ping on, a monitor shows its session as not connected.  *)
LEMMA ItselfReviving ==
  ASSUME InOrder, ConnectedFits, NEW t \in TaskIds, NEW c \in Connections,
         ConnectionStep(t, c) \/ MonitorStep(t, c), IsReviving(tasks'[t])
  PROVE  activeSessions'[tasks'[t].conn].status # "connected"
<1>1. IsMonitor(tasks'[t]) /\ IsMonitor(tasks[t]) /\ tasks'[t].conn = tasks[t].conn
  BY MonitorBefore DEF IsReviving
<1>2. IsReviving(tasks[t]) => activeSessions[tasks[t].conn].status # "connected"
  BY DEF ConnectedFits, StatusFits
<1>3. TypeOK
  BY DEF InOrder, Ready, Before
<1>4. CASE activeSessions' = activeSessions /\ IsReviving(tasks[t])
  BY <1>1, <1>2, <1>4
<1>5. CASE MakesDriver(t, c) \/ OpensDriver(t, c)
  <2>1. activeSessions' = activeSessions /\ IsReviving(tasks[t])
    BY <1>1, <1>5 DEF MakesDriver, OpensDriver, SameRest, At, IsReviving, Making
  <2> QED
    BY <1>4, <2>1
<1>6. CASE \E pc \in Points : Goes(t, c, pc)
  <2>1. PICK pc \in Points : Goes(t, c, pc)
    BY <1>6
  <2>2. activeSessions' = activeSessions
    BY <2>1 DEF Goes, SameRest
  <2>3. tasks'[t].pc = pc /\ tasks[t].kind = "monitor" /\ tasks[t].conn = c
    BY <1>1, <2>1 DEF Goes, Went, IsMonitor, At
  <2>4. tasks[t].pc \notin {"sleep", "ping"}
    <3>1. pc \notin {"ping", "sleep"}
      BY <2>3 DEF IsReviving, Making
    <3>2. ASSUME tasks[t].pc \in {"sleep", "ping"} PROVE pc \in {"ping", "sleep"}
      BY <2>1, <2>3, <3>2 DEF Goes, At
    <3> QED
      BY <3>1, <3>2
  <2>5. tasks[t].pc \in {"openTunnel", "tunnelling", "prepare", "closeTunnel", "backoff"}
    BY <2>1, <2>3, <2>4 DEF Goes, At
  <2> QED
    BY <1>1, <1>4, <2>2, <2>5 DEF IsReviving, Making
<1>7. CASE Captures(t, c) \/ Revives(t, c) \/ CannotRevive(t, c)
  <2>1. activeSessions' = activeSessions /\ IsReviving(tasks[t])
    BY <1>1, <1>7 DEF Captures, Revives, CannotRevive, SameRest, At, IsReviving, Making
  <2> QED
    BY <1>4, <2>1
<1>8. CASE Retries(t, c)
  <2>1. tasks[t].conn = c /\ SetStatus(c, "connecting")
    BY <1>8 DEF Retries, At
  <2>2. CASE HasSession(c)
    <3>1. activeSessions[c] \in Sessions
      BY <1>3 DEF TypeOK
    <3>2. [activeSessions[c] EXCEPT !.status = "connecting"].status = "connecting"
      BY <3>1 DEF Sessions
    <3>3. activeSessions'[c] = [activeSessions[c] EXCEPT !.status = "connecting"]
      BY <1>3, <2>1, <2>2, SetStatusDoes
    <3> QED
      BY <1>1, <2>1, <3>2, <3>3
  <2>3. CASE ~ HasSession(c)
    BY <1>1, <1>3, <2>1, <2>3, SetStatusDoes DEF HasSession
  <2> QED
    BY <2>2, <2>3
<1>9. CASE GivesUp(t, c) \/ Revived(t, c) \/ TurnsHealthy(t, c)
  BY <1>9 DEF GivesUp, Revived, TurnsHealthy, Over, Went, IsReviving, IsMonitor, Making
<1>10. CASE OperationBegins(t, c) \/ Leads(t, c) \/ LeavesInFlight(t, c) \/ Finishes(t, c)
            \/ MonitorHasStarted(t, c) \/ Enters(t, c) \/ Fails(t, c) \/ Installs(t, c)
  BY <1>1, <1>10 DEF OperationBegins, Leads, LeavesInFlight, Finishes, MonitorHasStarted, Enters, Fails,
     Installs, Over, At, IsMonitor, Connecting
<1>11. CASE StartsAnother(t, c) \/ StopsFirst(t, c) \/ ClosesSession(t, c) \/ BeginsReconnect(t, c)
            \/ ClosesOld(t, c) \/ CannotReconnect(t, c) \/ DropsStale(t, c)
  BY <1>1, <1>11 DEF StartsAnother, StopsFirst, ClosesSession, BeginsReconnect, ClosesOld, CannotReconnect,
     DropsStale, StoppedAt, DisconnectBegins, At, IsMonitor, Connecting
<1> QED
  BY <1>5, <1>6, <1>7, <1>8, <1>9, <1>10, <1>11 DEF ConnectionStep, MonitorStep

(* A monitor that has installed its driver finds it open.                  *)
LEMMA ItselfHealthy ==
  ASSUME InOrder, ConnectedFits, NEW t \in TaskIds, NEW c \in Connections,
         ConnectionStep(t, c) \/ MonitorStep(t, c), IsMonitor(tasks'[t]), tasks'[t].pc = "healthy"
  PROVE  activeSessions'[tasks'[t].conn].driver \in open'[tasks'[t].conn]
<1>1. IsMonitor(tasks[t]) /\ tasks'[t].conn = tasks[t].conn
  BY MonitorBefore
<1>2. CASE Revived(t, c)
  <2>1. /\ IsMaking(tasks[t]) /\ tasks[t].conn = c /\ tasks[t].pc = "install"
        /\ activeSessions'[c].driver = tasks[t].driver
    BY <1>2, InstallsIntoSession
  <2>2. tasks[t].driver \in open[c]
    BY <2>1 DEF ConnectedFits, StatusFits
  <2>3. open' = open
    BY <1>2 DEF Revived
  <2> QED
    BY <1>1, <2>1, <2>2, <2>3
<1>3. CASE \E pc \in Points : Goes(t, c, pc)
  BY <1>3 DEF Goes, Went
<1>4. CASE MakesDriver(t, c) \/ OpensDriver(t, c) \/ GivesUp(t, c) \/ Retries(t, c) \/ Captures(t, c)
           \/ Revives(t, c) \/ CannotRevive(t, c) \/ TurnsHealthy(t, c)
  BY <1>4 DEF MakesDriver, OpensDriver, GivesUp, Retries, Captures, Revives, CannotRevive, TurnsHealthy,
     Over, Went, IsMonitor
<1>5. CASE OperationBegins(t, c) \/ Leads(t, c) \/ LeavesInFlight(t, c) \/ Finishes(t, c)
           \/ MonitorHasStarted(t, c) \/ Enters(t, c) \/ Fails(t, c) \/ Installs(t, c)
  BY <1>1, <1>5 DEF OperationBegins, Leads, LeavesInFlight, Finishes, MonitorHasStarted, Enters, Fails,
     Installs, Over, At, IsMonitor, Connecting
<1>6. CASE StartsAnother(t, c) \/ StopsFirst(t, c) \/ ClosesSession(t, c) \/ BeginsReconnect(t, c)
           \/ ClosesOld(t, c) \/ CannotReconnect(t, c) \/ DropsStale(t, c)
  BY <1>1, <1>6 DEF StartsAnother, StopsFirst, ClosesSession, BeginsReconnect, ClosesOld, CannotReconnect,
     DropsStale, StoppedAt, DisconnectBegins, At, IsMonitor, Connecting
<1> QED
  BY <1>2, <1>3, <1>4, <1>5, <1>6 DEF ConnectionStep, MonitorStep

(* Nothing is installed before it is open.                                 *)
LEMMA ItselfInstalling ==
  ASSUME InOrder, NEW t \in TaskIds, NEW c \in Connections,
         ConnectionStep(t, c) \/ MonitorStep(t, c), IsMaking(tasks'[t]), tasks'[t].pc = "install"
  PROVE  tasks'[t].driver \in open'[tasks'[t].conn]
<1>1. CASE OpensDriver(t, c)
  <2>1. tasks'[t].driver = tasks[t].driver /\ tasks'[t].conn = c
    BY <1>1 DEF OpensDriver, Went, At
  <2> QED
    BY <1>1, <2>1, OpenedDoes DEF InOrder
<1>2. CASE \E pc \in Points : Goes(t, c, pc)
  BY <1>2 DEF Goes, Went
<1>3. CASE OperationBegins(t, c) \/ Leads(t, c) \/ LeavesInFlight(t, c) \/ Finishes(t, c)
           \/ MakesDriver(t, c) \/ Enters(t, c) \/ Fails(t, c)
           \/ BeginsReconnect(t, c) \/ ClosesOld(t, c) \/ CannotReconnect(t, c) \/ DropsStale(t, c)
  BY <1>3 DEF OperationBegins, Leads, LeavesInFlight, Finishes, MakesDriver, Enters, Fails,
     BeginsReconnect, ClosesOld, CannotReconnect, DropsStale, Over, Went, IsMaking, Openers, Connecting
<1>4. CASE MonitorHasStarted(t, c) \/ Installs(t, c) \/ StartsAnother(t, c) \/ StopsFirst(t, c)
           \/ ClosesSession(t, c)
  BY <1>4 DEF MonitorHasStarted, Installs, StartsAnother, StopsFirst, ClosesSession, Succeeds, Succeeded,
     GoesTo, Over, Went, IsMaking, Openers, Connecting
<1>5. CASE MonitorStep(t, c)
  BY <1>5 DEF MonitorStep, GivesUp, Retries, Captures, Revives, CannotRevive, Revived, TurnsHealthy,
     Over, Went, IsMaking, Openers, Connecting
<1> QED
  BY <1>1, <1>2, <1>3, <1>4, <1>5 DEF ConnectionStep

(* A reconnect runs without a monitor, and has taken the status back       *)
(* before it closes the driver.                                            *)
LEMMA ItselfReconnecting ==
  ASSUME ReconnectsUnmonitored, InOrder, ConnectedFits, NEW t \in TaskIds, NEW c \in Connections,
         ConnectionStep(t, c) \/ MonitorStep(t, c), tasks'[t].kind = "reconnect"
  PROVE  /\ tasks'[t].conn \notin Monitored
         /\ tasks'[t].pc \in {"stopMonitor", "stopped"} =>
              activeSessions'[tasks'[t].conn].status # "connected"
<1>1. CASE OperationBegins(t, c)
  BY <1>1 DEF OperationBegins, ReconnectsUnmonitored
<1>2. CASE StopsFirst(t, c)
  <2>1. /\ tasks[t].kind = "reconnect" /\ tasks[t].pc = "stopMonitor"
        /\ tasks[t].conn = c /\ tasks'[t].conn = c
    BY <1>2 DEF StopsFirst, At
  <2>2. activeSessions' = activeSessions
    BY <1>2 DEF StopsFirst
  <2> QED
    BY <2>1, <2>2 DEF ConnectedFits, StatusFits
<1>3. CASE BeginsReconnect(t, c)
  <2>1. tasks[t].kind = "reconnect" /\ tasks[t].conn = c /\ tasks'[t].conn = c
    BY <1>3 DEF BeginsReconnect, At, Went
  <2>2. activeSessions[c] \in Sessions /\ TypeOK
    BY DEF InOrder, Ready, Before, TypeOK
  <2>3. [activeSessions[c] EXCEPT !.status = "connecting"].status = "connecting"
    BY <2>2 DEF Sessions
  <2>4. activeSessions'[c].status = "connecting"
    BY <1>3, <2>2, <2>3, SetStatusDoes DEF BeginsReconnect
  <2> QED
    BY <2>1, <2>4 DEF ConnectedFits, StatusFits
<1>4. CASE /\ tasks[t].kind = "reconnect" /\ tasks'[t].conn = tasks[t].conn
           /\ tasks'[t].pc \notin {"stopMonitor", "stopped"}
  BY <1>4 DEF ConnectedFits, StatusFits
<1>5. CASE \E pc \in Points : Goes(t, c, pc)
  <2>1. PICK pc \in Points : Goes(t, c, pc)
    BY <1>5
  <2>2. tasks'[t].pc = pc /\ tasks[t].kind = "reconnect" /\ tasks'[t].conn = tasks[t].conn
    BY <2>1 DEF Goes, Went
  <2>3. pc \in {"tunnelling", "prepare", "create"}
    BY <2>1, <2>2 DEF Goes, At
  <2> QED
    BY <1>4, <2>2, <2>3
<1>6. CASE Leads(t, c) \/ LeavesInFlight(t, c) \/ Finishes(t, c) \/ Enters(t, c) \/ Fails(t, c)
           \/ CannotReconnect(t, c) \/ DropsStale(t, c) \/ ClosesSession(t, c)
  BY <1>6 DEF Leads, LeavesInFlight, Finishes, Enters, Fails, CannotReconnect, DropsStale, ClosesSession,
     StoppedAt, At, Over, Went, Connecting
<1>7. CASE MakesDriver(t, c) \/ OpensDriver(t, c) \/ ClosesOld(t, c)
  BY <1>4, <1>7 DEF MakesDriver, OpensDriver, ClosesOld, Went
<1>8. CASE Installs(t, c)
  <2>1. tasks[t].kind \in Connecting \cup {"reconnect"} /\ tasks[t].conn = c
    BY <1>8 DEF Installs, At
  <2>2. CASE GoesTo(t, c, "started", 0)
    BY <1>4, <2>1, <2>2 DEF GoesTo
  <2>3. CASE Succeeds(t, 0)
    BY <1>4, <2>3 DEF Succeeds, Succeeded, Over, Went, Connecting
  <2> QED
    BY <1>8, <2>2, <2>3, InstallsStopNone
<1>9. CASE MonitorHasStarted(t, c)
  BY <1>4, <1>9 DEF MonitorHasStarted, Succeeds, Succeeded, Over, Went
<1>10. CASE StartsAnother(t, c)
  BY <1>10, NoneStartsAnother
<1>11. CASE MonitorStep(t, c)
  BY <1>11 DEF MonitorStep, GivesUp, Retries, Captures, Revives, CannotRevive, Revived, TurnsHealthy,
     At, Over, Went
<1> QED
  BY <1>1, <1>2, <1>3, <1>5, <1>6, <1>7, <1>8, <1>9, <1>10, <1>11 DEF ConnectionStep

LEMMA ConnectedFitsKept ==
  ASSUME OneByOne, ReconnectsUnmonitored, InOrder, ConnectedFits,
         NEW t \in TaskIds, NEW c \in Connections, ConnectionStep(t, c) \/ MonitorStep(t, c)
  PROVE  ConnectedFits'
<1>1. StatusFits(tasks'[t], activeSessions'[tasks'[t].conn], open'[tasks'[t].conn])
  BY ItselfReviving, ItselfHealthy, ItselfInstalling, ItselfReconnecting DEF StatusFits
<1>2. ASSUME NEW u \in TaskIds
      PROVE  StatusFits(tasks'[u], activeSessions'[tasks'[u].conn], open'[tasks'[u].conn])
  BY <1>1, OthersStatusFits
<1> QED
  BY <1>2, ConnectedStaysOpen DEF ConnectedFits

ConnectedInv == SessionInv /\ ConnectedFits

LEMMA ConnectedInvHolds ==
  Init => ConnectedInv
<1> SUFFICES ASSUME Init PROVE ConnectedInv
  OBVIOUS
<1>1. \A t \in TaskIds : tasks[t].kind = "none"
  BY DEF Init, NoTask, Task
<1>2. ConnectedIsOpen
  BY DEF Init, NoSession, ConnectedIsOpen, IsConnected
<1>3. ConnectedFits
  BY <1>1, <1>2 DEF ConnectedFits, StatusFits, IsReviving, IsMonitor, IsMaking, Openers, Connecting
<1> QED
  BY <1>3, SessionInvHolds DEF ConnectedInv

LEMMA ConnectedInvKept ==
  ASSUME OneByOne, ReconnectsUnmonitored
  PROVE  ConnectedInv /\ [Next]_vars => ConnectedInv'
<1> SUFFICES ASSUME ConnectedInv, [Next]_vars PROVE ConnectedInv'
  OBVIOUS
<1>1. SessionInv'
  BY SessionInvKept DEF ConnectedInv
<1>2. CASE Next
  <2>1. PICK t \in TaskIds, c \in Connections : ConnectionStep(t, c) \/ MonitorStep(t, c)
    BY <1>2, StepInOrder DEF ConnectedInv
  <2>2. InOrder
    BY SessionInvGives DEF ConnectedInv
  <2> QED
    BY <1>1, <2>1, <2>2, ConnectedFitsKept DEF ConnectedInv
<1>3. CASE UNCHANGED vars
  BY <1>1, <1>3 DEF vars, ConnectedInv, ConnectedFits, ConnectedIsOpen, IsConnected
<1> QED
  BY <1>2, <1>3

(* A session is shown as connected only while its driver is open, however  *)
(* its monitor's steps fall between those of the operation that runs:      *)
(* nothing closes the driver of a session without taking its status back   *)
(* first, where no reconnect for a switch overlaps a monitor's.            *)
THEOREM ConnectedAlwaysOpen ==
  ASSUME OneByOne, ReconnectsUnmonitored PROVE Spec => []ConnectedIsOpen
<1>1. ConnectedInv => ConnectedIsOpen
  BY DEF ConnectedInv, ConnectedFits
<1> QED
  BY <1>1, ConnectedInvHolds, ConnectedInvKept, PTL DEF Spec
=============================================================================
