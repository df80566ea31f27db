--------------------------- MODULE ConnectionProofs ----------------------------
(***************************************************************************)
(* Proofs about the connections: types, one recovery per connection, and   *)
(* the current session, for any number of connections, tasks, drivers,     *)
(* tunnels and retries, and with every operation allowed at any time.      *)
(***************************************************************************)
EXTENDS ConnectionProperties, TLAPS

(* A session that is not there has no driver.                              *)
NoSessionNoDriver ==
  \A c \in Connections : ~ HasSession(c) => activeSessions[c].driver = 0

(* A task about to open a driver has one.                                  *)
HasItsDriver(task) == task.pc = "opening" => task.driver # 0

IInv ==
  /\ TypeOK
  /\ OneRecovery
  /\ CurrentIsActive
  /\ NoSessionNoDriver
  /\ \A t \in TaskIds : HasItsDriver(tasks[t])

-------------------------------------------------------------------------------
(***************************************************************************)
(* What a step does to the tasks.  The invariant tells apart the tasks     *)
(* inside a recovery and those about to leave disconnectSession.           *)
(***************************************************************************)
Recovers(task) == task.kind = "recover" /\ task.pc \notin {"died", "woken", "recover"}

Leaves(task) == task.kind = "disconnect" /\ task.pc = "invalidate"

SameRole(a, b) ==
  /\ Recovers(a) <=> Recovers(b)
  /\ Leaves(a) <=> Leaves(b)
  /\ Recovers(a) \/ Leaves(a) => a.conn = b.conn
  /\ HasItsDriver(a) => HasItsDriver(b)

(* Only the role of task t may be another in us than in ts.                *)
OthersGoOn(ts, us, t) == \A u \in TaskIds \ {t} : SameRole(ts[u], us[u])

AllGoOn(ts, us) == \A u \in TaskIds : SameRole(ts[u], us[u])

(* What is free is free.                                                   *)
LEMMA AnyOfIsIn ==
  ASSUME NEW S, S # {}
  PROVE  AnyOf(S) \in S
BY DEF AnyOf

(* A new task is well typed.                                                 *)
LEMMA TaskTyped ==
  ASSUME NEW kind \in Kinds, NEW c \in Connections \cup {NoConnection}, NEW pc \in Points
  PROVE  Task(kind, c, pc) \in Tasks
BY LimitsAssumption DEF Task, Tasks

(* Moving to another await.                                                *)
LEMMA PcSet ==
  ASSUME NEW ts, TasksTyped(ts), NEW t \in TaskIds, NEW pc \in Points
  PROVE  LET us == [ts EXCEPT ![t].pc = pc]
         IN  /\ TasksTyped(us)
             /\ OthersGoOn(ts, us, t)
             /\ us[t].kind = ts[t].kind /\ us[t].conn = ts[t].conn /\ us[t].pc = pc
BY DEF TasksTyped, Tasks, OthersGoOn, SameRole, Recovers, Leaves, HasItsDriver

(* A task that drops what it holds stays where it is.                        *)
LEMMA EmptiedIs ==
  ASSUME TasksTyped(tasks), NEW t \in TaskIds
  PROVE  /\ TasksTyped(Emptied(t))
         /\ OthersGoOn(tasks, Emptied(t), t)
         /\ \A u \in TaskIds : /\ Emptied(t)[u].kind = tasks[u].kind
                               /\ Emptied(t)[u].conn = tasks[u].conn
                               /\ Emptied(t)[u].pc = tasks[u].pc
                               /\ Emptied(t)[u].retry = tasks[u].retry
<1>1. \A u \in TaskIds \ {t} : Emptied(t)[u] = tasks[u]
  BY DEF TasksTyped, Emptied
<1>2. Emptied(t)[t] = [tasks[t] EXCEPT !.driver = 0, !.tunnel = 0]
  BY DEF TasksTyped, Tasks, Emptied
<1>3. tasks[t] \in Tasks
  BY DEF TasksTyped
<1>4. /\ Emptied(t)[t] \in Tasks
      /\ Emptied(t)[t].kind = tasks[t].kind
      /\ Emptied(t)[t].conn = tasks[t].conn
      /\ Emptied(t)[t].pc = tasks[t].pc
      /\ Emptied(t)[t].retry = tasks[t].retry
  BY <1>2, <1>3 DEF Tasks
<1>5. Emptied(t) \in [TaskIds -> Tasks]
  BY <1>1, <1>4 DEF Emptied, TasksTyped
<1> QED
  BY <1>1, <1>4, <1>5 DEF TasksTyped, OthersGoOn, SameRole

(* The end of a task.                                                      *)
LEMMA EndedIs ==
  ASSUME NEW ts, TasksTyped(ts), NEW t \in TaskIds
  PROVE  /\ TasksTyped(Ended(ts, t))
         /\ OthersGoOn(ts, Ended(ts, t), t)
         /\ Ended(ts, t)[t].kind = "none" /\ Ended(ts, t)[t].pc = "none"
         /\ \A u \in TaskIds \ {t} : Ended(ts, t)[u].kind = ts[u].kind
<1>1. NoTask \in Tasks
  BY TaskTyped DEF NoTask, Kinds, Points
<1>2. \A u \in TaskIds \ {t} :
        /\ Ended(ts, t)[u] = [ts[u] EXCEPT !.waits = IF @ = t THEN 0 ELSE @]
        /\ Ended(ts, t)[u] \in Tasks
        /\ Ended(ts, t)[u].kind = ts[u].kind
        /\ Ended(ts, t)[u].conn = ts[u].conn
        /\ Ended(ts, t)[u].pc = ts[u].pc
        /\ Ended(ts, t)[u].driver = ts[u].driver
  BY DEF Ended, TasksTyped, Tasks
<1>3. Ended(ts, t)[t] = NoTask /\ NoTask.kind = "none" /\ NoTask.pc = "none"
  BY DEF Ended, NoTask, Task
<1>4. TasksTyped(Ended(ts, t))
  BY <1>1, <1>2, <1>3 DEF TasksTyped, Ended
<1> QED
  BY <1>2, <1>3, <1>4 DEF OthersGoOn, SameRole, Recovers, Leaves, HasItsDriver

(* The start of a task in a free place.                                    *)
LEMMA TaskAdded ==
  ASSUME NEW ts, TasksTyped(ts), NEW m \in TaskIds, ts[m].kind = "none",
         NEW kind \in Kinds, NEW c \in Connections, NEW pc \in Points,
         pc # "opening",
         ~ (kind = "recover" /\ pc \notin {"died", "woken", "recover"}),
         ~ (kind = "disconnect" /\ pc = "invalidate")
  PROVE  LET us == [ts EXCEPT ![m] = Task(kind, c, pc)]
         IN  TasksTyped(us) /\ AllGoOn(ts, us)
<1>1. Task(kind, c, pc) \in Tasks
  BY TaskTyped
<1>2. Task(kind, c, pc).kind = kind /\ Task(kind, c, pc).pc = pc /\ Task(kind, c, pc).conn = c
  BY DEF Task
<1> QED
  BY <1>1, <1>2 DEF TasksTyped, AllGoOn, SameRole, Recovers, Leaves, HasItsDriver

(* So does a clean-up that may be started.                                   *)
LEMMA SpawnedIs ==
  ASSUME NEW ts, TasksTyped(ts), NEW condition \in BOOLEAN, NEW c \in Connections,
         condition => \E m \in TaskIds : ts[m].kind = "none"
  PROVE  LET us == Spawned(ts, condition, Closer(c))
         IN  TasksTyped(us) /\ AllGoOn(ts, us)
<1>1. CASE condition
  <2> DEFINE m == AnyOf({u \in TaskIds : ts[u].kind = "none"})
  <2>1. m \in TaskIds /\ ts[m].kind = "none"
    BY <1>1, AnyOfIsIn
  <2> HIDE DEF m
  <2>2. LET us == [ts EXCEPT ![m] = Task("closer", c, "closeTunnel")]
        IN  TasksTyped(us) /\ AllGoOn(ts, us)
    BY <2>1, TaskAdded DEF Kinds, Points
  <2> QED
    BY <1>1, <2>2 DEF Spawned, Closer, m
<1>2. CASE ~ condition
  BY <1>2 DEF Spawned, AllGoOn, SameRole
<1> QED
  BY <1>1, <1>2

(* stopHealthMonitor changes the pc of the task that calls it.             *)
LEMMA StopHealthMonitorIs ==
  ASSUME NEW ts, TasksTyped(ts), NEW t \in TaskIds, NEW c \in Connections, NEW pc \in Points,
         healthMonitors \in [Connections -> TaskIds \cup {0}],
         StopHealthMonitor(ts, t, c, pc)
  PROVE  /\ TasksTyped(tasks')
         /\ OthersGoOn(ts, tasks', t)
         /\ tasks'[t].kind = ts[t].kind /\ tasks'[t].conn = ts[t].conn /\ tasks'[t].pc = pc
         /\ healthMonitors' \in [Connections -> TaskIds \cup {0}]
<1> DEFINE m == healthMonitors[c]
<1>1. m \in TaskIds
  BY DEF StopHealthMonitor
<1>2. /\ tasks' = [u \in TaskIds |->
                     IF u = t THEN [ts[t] EXCEPT !.waits = m, !.pc = pc]
                     ELSE IF u = m THEN [ts[m] EXCEPT !.cancelled = TRUE]
                     ELSE ts[u]]
      /\ healthMonitors' = [healthMonitors EXCEPT ![c] = 0]
  BY DEF StopHealthMonitor
<1> HIDE DEF m
<1>3. ASSUME NEW u \in TaskIds \ {t}
      PROVE  /\ tasks'[u] \in Tasks
             /\ tasks'[u].kind = ts[u].kind
             /\ tasks'[u].conn = ts[u].conn
             /\ tasks'[u].pc = ts[u].pc
             /\ tasks'[u].driver = ts[u].driver
  <2>1. ts[u] \in Tasks
    BY DEF TasksTyped
  <2>2. tasks'[u] = [ts[u] EXCEPT !.cancelled = TRUE] \/ tasks'[u] = ts[u]
    BY <1>2
  <2> QED
    BY <2>1, <2>2 DEF Tasks
<1>4. /\ tasks'[t] \in Tasks
      /\ tasks'[t].kind = ts[t].kind
      /\ tasks'[t].conn = ts[t].conn
      /\ tasks'[t].pc = pc
  <2>1. ts[t] \in Tasks
    BY DEF TasksTyped
  <2>2. tasks'[t] = [ts[t] EXCEPT !.waits = m, !.pc = pc]
    BY <1>2
  <2> QED
    BY <1>1, <2>1, <2>2 DEF Tasks
<1> QED
  BY <1>2, <1>3, <1>4 DEF TasksTyped, OthersGoOn, SameRole, Recovers, Leaves, HasItsDriver

(* startHealthMonitor moves its caller on and starts a monitor.            *)
LEMMA StartMonitorIs ==
  ASSUME NEW ts, TasksTyped(ts), TasksTyped(tasks), NEW t \in TaskIds, NEW c \in Connections,
         healthMonitors \in [Connections -> TaskIds \cup {0}],
         \A u \in TaskIds : ts[u].kind = tasks[u].kind,
         ts[t].kind # "none",
         StartMonitor(ts, t, c)
  PROVE  /\ TasksTyped(tasks')
         /\ OthersGoOn(ts, tasks', t)
         /\ tasks'[t].kind = ts[t].kind /\ tasks'[t].conn = ts[t].conn /\ tasks'[t].pc = "started"
         /\ healthMonitors' \in [Connections -> TaskIds \cup {0}]
<1> DEFINE m == AnyOf(FreeTasks)
           us == [ts EXCEPT ![m] = Task("monitor", c, "sleep")]
<1>1. m \in TaskIds /\ ts[m].kind = "none" /\ m # t
  BY AnyOfIsIn DEF StartMonitor, FreeTasks
<1>2. tasks' = [us EXCEPT ![t].pc = "started"] /\ healthMonitors' = [healthMonitors EXCEPT ![c] = m]
  BY DEF StartMonitor
<1> HIDE DEF m
<1>3. TasksTyped(us) /\ AllGoOn(ts, us)
  BY <1>1, TaskAdded DEF Kinds, Points
<1>4. us[t] = ts[t]
  BY <1>1 DEF TasksTyped
<1> HIDE DEF us
<1>5. /\ TasksTyped(tasks')
      /\ OthersGoOn(us, tasks', t)
      /\ tasks'[t].kind = us[t].kind /\ tasks'[t].conn = us[t].conn /\ tasks'[t].pc = "started"
  <2>1. "started" \in Points
    BY DEF Points
  <2>2. LET vs == [us EXCEPT ![t].pc = "started"]
        IN  /\ TasksTyped(vs)
            /\ OthersGoOn(us, vs, t)
            /\ vs[t].kind = us[t].kind /\ vs[t].conn = us[t].conn /\ vs[t].pc = "started"
    BY <1>3, <2>1, PcSet
  <2> QED
    BY <1>2, <2>2
<1> QED
  BY <1>1, <1>2, <1>3, <1>4, <1>5 DEF OthersGoOn, AllGoOn, SameRole

-------------------------------------------------------------------------------
(***************************************************************************)
(* The recoveries and the current session, by what a step does to roles.   *)
(***************************************************************************)
(* One recovery per connection, in terms of tasks.                         *)
LEMMA RecoveryMeans ==
  ASSUME TasksTyped(tasks)
  PROVE  OneRecovery <=>
           /\ \A t, u \in TaskIds :
                Recovers(tasks[t]) /\ Recovers(tasks[u]) /\ Conn(t) = Conn(u) => t = u
           /\ \A c \in Connections :
                c \in recoveringConnectionIds <=>
                  \E t \in TaskIds : Recovers(tasks[t]) /\ Conn(t) = c
BY DEF TasksTyped, OneRecovery, Recovering, TasksOf, Live, Recovers, Conn

(* A step in which no task enters or leaves a recovery.                    *)
LEMMA RecoveriesGoOn ==
  ASSUME OneRecovery, TasksTyped(tasks), TasksTyped(tasks'), AllGoOn(tasks, tasks'),
         recoveringConnectionIds' = recoveringConnectionIds
  PROVE  OneRecovery'
<1>1. \A u \in TaskIds : /\ Recovers(tasks[u]) <=> Recovers(tasks'[u])
                         /\ Recovers(tasks[u]) => tasks'[u].conn = tasks[u].conn
  BY DEF AllGoOn, SameRole
<1> QED
  BY <1>1 DEF OneRecovery, Recovering, TasksOf, Live, Recovers, Conn

(* A recovery returns from connectToSession: it goes on or it is over.     *)
LEMMA ReturnedIs ==
  ASSUME NEW ts, TasksTyped(ts), NEW t \in TaskIds, NEW success \in BOOLEAN,
         \A u \in TaskIds : ts[u].kind = tasks[u].kind /\ ts[u].retry = tasks[u].retry,
         ts[t].kind \in Connecting,
         ts[t].kind = "recover" => Recovers(ts[t])
  PROVE  LET us == Returned(ts, t, success)
         IN  /\ TasksTyped(us)
             /\ OthersGoOn(ts, us, t)
             /\ \A u \in TaskIds \ {t} : us[u].kind = ts[u].kind
             /\ ~ Leaves(us[t])
             /\ HasItsDriver(us[t])
             /\ Recovers(us[t]) <=> Recovers(ts[t]) /\ ~ RecoveryIsOver(t, success)
             /\ Recovers(us[t]) => us[t].conn = ts[t].conn
<1> DEFINE us == Returned(ts, t, success)
<1>1. CASE ts[t].kind = "ensure"
  <2>1. us = [ts EXCEPT ![t].pc = "leave"]
    <3>1. ~ RecoveryIsOver(t, success)
      BY <1>1 DEF RecoveryIsOver
    <3> QED
      BY <1>1, <3>1 DEF Returned
  <2>2. "leave" \in Points
    BY DEF Points
  <2> HIDE DEF us
  <2>3. /\ TasksTyped(us)
        /\ OthersGoOn(ts, us, t)
        /\ us[t].kind = "ensure" /\ us[t].pc = "leave"
    BY <1>1, <2>1, <2>2, PcSet
  <2>4. \A u \in TaskIds \ {t} : us[u] = ts[u]
    BY <2>1 DEF TasksTyped
  <2> QED
    BY <1>1, <2>3, <2>4 DEF us, Recovers, Leaves, HasItsDriver
<1>2. CASE ts[t].kind = "recover" /\ RecoveryIsOver(t, success)
  <2>1. us = Ended(ts, t)
    BY <1>2 DEF Returned
  <2> QED
    BY <1>2, <2>1, EndedIs DEF Recovers, Leaves, HasItsDriver
<1>3. CASE ts[t].kind = "recover" /\ ~ RecoveryIsOver(t, success)
  <2>1. us = [ts EXCEPT ![t].pc = "backoff", ![t].retry = @ + 1]
    BY <1>3 DEF Returned
  <2>2. ts[t].retry \in 0..(MaxRetries - 1) /\ ts[t].retry + 1 # MaxRetries
    BY <1>3 DEF RecoveryIsOver, TasksTyped, Tasks
  <2>3. ts[t].retry + 1 \in 0..(MaxRetries - 1)
    BY <2>2, LimitsAssumption
  <2>4. /\ us[t] = [ts[t] EXCEPT !.pc = "backoff", !.retry = @ + 1]
        /\ us = [ts EXCEPT ![t] = us[t]]
        /\ \A u \in TaskIds \ {t} : us[u] = ts[u]
    BY <2>1 DEF TasksTyped
  <2>5. us[t] \in Tasks /\ us[t].kind = "recover" /\ us[t].pc = "backoff" /\ us[t].conn = ts[t].conn
    <3>1. ts[t] \in Tasks /\ "backoff" \in Points
      BY DEF TasksTyped, Points
    <3> QED
      BY <1>3, <2>3, <2>4, <3>1 DEF Tasks
  <2>6. TasksTyped(us)
    BY <1>3, <2>4, <2>5 DEF TasksTyped
  <2> QED
    BY <1>3, <2>4, <2>5, <2>6 DEF OthersGoOn, SameRole, Recovers, Leaves, HasItsDriver
<1> QED
  BY <1>1, <1>2, <1>3 DEF Connecting

(* A recovery has returned from connectToSession, and its mark with it.    *)
LEMMA RecoveryReturns ==
  ASSUME OneRecovery, TasksTyped(tasks), TasksTyped(tasks'), NEW t \in TaskIds,
         NEW success \in BOOLEAN,
         OthersGoOn(tasks, tasks', t),
         Recovers(tasks'[t]) <=> Recovers(tasks[t]) /\ ~ RecoveryIsOver(t, success),
         Recovers(tasks'[t]) => tasks'[t].conn = tasks[t].conn,
         tasks[t].kind = "recover" => Recovers(tasks[t]),
         Unmark(t, success)
  PROVE  OneRecovery'
<1>1. /\ \A u, v \in TaskIds :
           Recovers(tasks[u]) /\ Recovers(tasks[v]) /\ Conn(u) = Conn(v) => u = v
      /\ \A c \in Connections :
           c \in recoveringConnectionIds <=> \E u \in TaskIds : Recovers(tasks[u]) /\ Conn(u) = c
  BY RecoveryMeans
<1>2. \A u \in TaskIds \ {t} : /\ Recovers(tasks[u]) <=> Recovers(tasks'[u])
                               /\ Recovers(tasks[u]) => tasks'[u].conn = tasks[u].conn
  BY DEF OthersGoOn, SameRole
<1>3. \A u, v \in TaskIds :
        Recovers(tasks'[u]) /\ Recovers(tasks'[v]) /\ tasks'[u].conn = tasks'[v].conn => u = v
  BY <1>1, <1>2 DEF Conn
<1>4. ASSUME NEW c \in Connections
      PROVE  c \in recoveringConnectionIds' <=>
               \E u \in TaskIds : Recovers(tasks'[u]) /\ tasks'[u].conn = c
  <2>1. CASE RecoveryIsOver(t, success)
    <3>1. recoveringConnectionIds' = recoveringConnectionIds \ {Conn(t)} /\ Recovers(tasks[t])
      BY <2>1 DEF Unmark, RecoveryIsOver
    <3>2. c \in recoveringConnectionIds' <=>
            \E u \in TaskIds : Recovers(tasks[u]) /\ Conn(u) = c /\ u # t
      BY <1>1, <3>1
    <3> QED
      BY <1>2, <2>1, <3>2 DEF Conn
  <2>2. CASE ~ RecoveryIsOver(t, success)
    <3>1. recoveringConnectionIds' = recoveringConnectionIds
      BY <2>2 DEF Unmark
    <3>2. \A u \in TaskIds : /\ Recovers(tasks[u]) <=> Recovers(tasks'[u])
                             /\ Recovers(tasks[u]) => tasks'[u].conn = tasks[u].conn
      BY <1>2, <2>2
    <3> QED
      BY <1>1, <3>1, <3>2 DEF Conn
  <2> QED
    BY <2>1, <2>2
<1>5. OneRecovery' <=>
        /\ \A u, v \in TaskIds :
             Recovers(tasks'[u]) /\ Recovers(tasks'[v]) /\ tasks'[u].conn = tasks'[v].conn => u = v
        /\ \A c \in Connections :
             c \in recoveringConnectionIds' <=>
               \E u \in TaskIds : Recovers(tasks'[u]) /\ tasks'[u].conn = c
  BY DEF TasksTyped, OneRecovery, Recovering, TasksOf, Live, Recovers, Conn
<1> QED
  BY <1>3, <1>4, <1>5

(* A recovery begins where there is none.                                  *)
LEMMA RecoveryBegins ==
  ASSUME OneRecovery, TasksTyped(tasks), TasksTyped(tasks'), NEW t \in TaskIds,
         tasks[t].kind # "none",
         OthersGoOn(tasks, tasks', t),
         ~ Recovers(tasks[t]), Recovers(tasks'[t]),
         tasks'[t].conn = tasks[t].conn,
         Conn(t) \notin recoveringConnectionIds,
         recoveringConnectionIds' = recoveringConnectionIds \cup {Conn(t)}
  PROVE  OneRecovery'
<1>1. /\ \A u, v \in TaskIds :
           Recovers(tasks[u]) /\ Recovers(tasks[v]) /\ Conn(u) = Conn(v) => u = v
      /\ \A c \in Connections :
           c \in recoveringConnectionIds <=> \E u \in TaskIds : Recovers(tasks[u]) /\ Conn(u) = c
  BY RecoveryMeans
<1>2. \A u \in TaskIds \ {t} : /\ Recovers(tasks[u]) <=> Recovers(tasks'[u])
                               /\ Recovers(tasks[u]) => tasks'[u].conn = tasks[u].conn
  BY DEF OthersGoOn, SameRole
<1>3. Conn(t) \in Connections /\ tasks'[t].conn = Conn(t)
  BY DEF TasksTyped, Conn
<1>4. OneRecovery' <=>
        /\ \A u, v \in TaskIds :
             Recovers(tasks'[u]) /\ Recovers(tasks'[v]) /\ tasks'[u].conn = tasks'[v].conn => u = v
        /\ \A c \in Connections :
             c \in recoveringConnectionIds' <=>
               \E u \in TaskIds : Recovers(tasks'[u]) /\ tasks'[u].conn = c
  BY DEF TasksTyped, OneRecovery, Recovering, TasksOf, Live, Recovers, Conn
<1> QED
  BY <1>1, <1>2, <1>3, <1>4 DEF Conn

(* The sessions after a step in which none goes.                           *)
SessionsGoOn ==
  /\ activeSessions' \in [Connections -> Sessions]
  /\ \A c \in Connections : HasSession(c) => HasSession(c)'
  /\ NoSessionNoDriver'

(* updateSession with a new status keeps every session.                      *)
LEMMA SetStatusGoesOn ==
  ASSUME TypeOK, NoSessionNoDriver, NEW c \in Connections, NEW status \in Statuses,
         status # "none", SetStatus(c, status)
  PROVE  SessionsGoOn
<1>1. activeSessions' \in [Connections -> Sessions]
  BY DEF TypeOK, Sessions, SetStatus
<1>2. \A d \in Connections : HasSession(d) => HasSession(d)'
  BY DEF TypeOK, Sessions, SetStatus, HasSession
<1>3. \A d \in Connections : activeSessions'[d].driver = activeSessions[d].driver
                             /\ HasSession(d)' => HasSession(d)
  BY DEF TypeOK, Sessions, SetStatus, HasSession
<1> QED
  BY <1>1, <1>2, <1>3 DEF SessionsGoOn, NoSessionNoDriver, TypeOK, Sessions, SetStatus, HasSession

(* So does a new driver, which finds a session or goes nowhere.              *)
LEMMA InstallDriverGoesOn ==
  ASSUME TypeOK, NoSessionNoDriver, NEW c \in Connections, NEW d \in DriverIds \cup {0},
         NEW n \in TunnelIds \cup {0}, InstallDriver(c, d, n)
  PROVE  SessionsGoOn
BY DEF SessionsGoOn, NoSessionNoDriver, TypeOK, Sessions, Statuses, InstallDriver, HasSession

(* And so does a step that leaves the sessions alone.                        *)
LEMMA SameSessionsGoOn ==
  ASSUME TypeOK, NoSessionNoDriver, activeSessions' = activeSessions
  PROVE  SessionsGoOn
BY DEF SessionsGoOn, NoSessionNoDriver, TypeOK, HasSession

(* The current session, in terms of tasks.                                   *)
LEMMA CurrentMeans ==
  CurrentIsActive <=>
    \/ currentSessionId = NoConnection
    \/ HasSession(currentSessionId)
    \/ \E u \in TaskIds : Leaves(tasks[u]) /\ tasks[u].conn = currentSessionId
BY DEF CurrentIsActive, Live, Conn, IsTask, Leaves

(* A step in which no session goes and nobody leaves it.                   *)
LEMMA CurrentStays ==
  ASSUME CurrentIsActive, TypeOK, NEW t \in TaskIds, OthersGoOn(tasks, tasks', t),
         ~ Leaves(tasks[t]), SessionsGoOn, currentSessionId' = currentSessionId
  PROVE  CurrentIsActive'
<1>1. \A u \in TaskIds : Leaves(tasks[u]) => Leaves(tasks'[u]) /\ tasks'[u].conn = tasks[u].conn
  BY DEF OthersGoOn, SameRole
<1>2. \/ currentSessionId = NoConnection
      \/ currentSessionId \in Connections /\ HasSession(currentSessionId)
      \/ \E u \in TaskIds : Leaves(tasks[u]) /\ tasks[u].conn = currentSessionId
  <2>1. currentSessionId \in Connections \cup {NoConnection}
    BY DEF TypeOK
  <2> QED
    BY <2>1, CurrentMeans
<1>3. CurrentIsActive' <=>
        \/ currentSessionId' = NoConnection
        \/ HasSession(currentSessionId)'
        \/ \E u \in TaskIds : Leaves(tasks'[u]) /\ tasks'[u].conn = currentSessionId'
  BY DEF CurrentIsActive, Live, Conn, IsTask, Leaves
<1>4. currentSessionId \in Connections /\ HasSession(currentSessionId) => HasSession(currentSessionId)'
  BY DEF SessionsGoOn, HasSession
<1> QED
  BY <1>1, <1>2, <1>3, <1>4

(* A step that changes no role.                                            *)
Quiet == TasksTyped(tasks') /\ AllGoOn(tasks, tasks')

(* It keeps the invariant if no session goes either.                         *)
LEMMA QuietStep ==
  ASSUME IInv, TypeOK', Quiet, NEW t \in TaskIds, SessionsGoOn,
         recoveringConnectionIds' = recoveringConnectionIds,
         currentSessionId' = currentSessionId
  PROVE  IInv'
<1>1. TypeOK /\ TasksTyped(tasks) /\ CurrentIsActive /\ OneRecovery
  BY DEF IInv, TypeOK
<1>2. OneRecovery'
  BY <1>1, RecoveriesGoOn DEF Quiet
<1>3. \A u \in TaskIds : Leaves(tasks[u]) => Leaves(tasks'[u]) /\ tasks'[u].conn = tasks[u].conn
  BY DEF Quiet, AllGoOn, SameRole
<1>4. CurrentIsActive'
  <2>1. \/ currentSessionId = NoConnection
        \/ currentSessionId \in Connections /\ HasSession(currentSessionId)
        \/ \E u \in TaskIds : Leaves(tasks[u]) /\ tasks[u].conn = currentSessionId
    <3>1. currentSessionId \in Connections \cup {NoConnection}
      BY <1>1 DEF TypeOK
    <3> QED
      BY <1>1, <3>1, CurrentMeans
  <2>2. CurrentIsActive' <=>
          \/ currentSessionId' = NoConnection
          \/ HasSession(currentSessionId)'
          \/ \E u \in TaskIds : Leaves(tasks'[u]) /\ tasks'[u].conn = currentSessionId'
    BY DEF CurrentIsActive, Live, Conn, IsTask, Leaves
  <2>3. currentSessionId \in Connections /\ HasSession(currentSessionId) => HasSession(currentSessionId)'
    BY DEF SessionsGoOn, HasSession
  <2> QED
    BY <1>3, <2>1, <2>2, <2>3
<1>5. \A u \in TaskIds : HasItsDriver(tasks'[u])
  BY DEF IInv, Quiet, AllGoOn, SameRole
<1>6. (\A u \in TaskIds : HasItsDriver(tasks[u]))' <=> \A u \in TaskIds : HasItsDriver(tasks'[u])
  BY DEF HasItsDriver
<1> QED
  BY <1>2, <1>4, <1>5, <1>6 DEF IInv, SessionsGoOn

(* Moving to another await, as a step.                                       *)
LEMMA GotoIs ==
  ASSUME TasksTyped(tasks), NEW t \in TaskIds, NEW pc \in Points, Goto(t, pc)
  PROVE  /\ TasksTyped(tasks')
         /\ OthersGoOn(tasks, tasks', t)
         /\ tasks'[t].kind = tasks[t].kind /\ tasks'[t].conn = tasks[t].conn /\ tasks'[t].pc = pc
<1>1. LET us == [tasks EXCEPT ![t].pc = pc]
      IN  /\ TasksTyped(us)
          /\ OthersGoOn(tasks, us, t)
          /\ us[t].kind = tasks[t].kind /\ us[t].conn = tasks[t].conn /\ us[t].pc = pc
  BY PcSet
<1> QED
  BY <1>1 DEF Goto

(* It changes no role within a recovery, or outside.                         *)
LEMMA GotoQuietly ==
  ASSUME TasksTyped(tasks), NEW t \in TaskIds, NEW pc \in Points, Goto(t, pc),
         pc # "opening",
         tasks[t].kind = "recover" => (Recovers(tasks[t]) <=> pc \notin {"died", "woken", "recover"}),
         tasks[t].kind = "disconnect" => ~ Leaves(tasks[t]) /\ pc # "invalidate"
  PROVE  Quiet
<1>1. /\ TasksTyped(tasks')
      /\ OthersGoOn(tasks, tasks', t)
      /\ tasks'[t].kind = tasks[t].kind /\ tasks'[t].conn = tasks[t].conn /\ tasks'[t].pc = pc
  BY GotoIs
<1> QED
  BY <1>1 DEF Quiet, AllGoOn, OthersGoOn, SameRole, Recovers, Leaves, HasItsDriver

(* Nor does the end of a task without a role.                                *)
LEMMA EndQuietly ==
  ASSUME TasksTyped(tasks), NEW t \in TaskIds, End(t), ~ Recovers(tasks[t]), ~ Leaves(tasks[t])
  PROVE  Quiet
<1>1. /\ TasksTyped(tasks')
      /\ OthersGoOn(tasks, tasks', t)
      /\ tasks'[t].kind = "none" /\ tasks'[t].pc = "none"
  BY EndedIs DEF End
<1> QED
  BY <1>1 DEF Quiet, AllGoOn, OthersGoOn, SameRole, Recovers, Leaves, HasItsDriver

(* The assumption on a step's task and the facts its proof begins with.    *)
Before == TypeOK /\ OneRecovery /\ CurrentIsActive /\ NoSessionNoDriver /\ TasksTyped(tasks)

(* The parts of the invariant.                                               *)
LEMMA InvariantGives ==
  ASSUME IInv
  PROVE  Before /\ \A t \in TaskIds : HasItsDriver(tasks[t])
BY DEF IInv, Before, TypeOK

(* What a task holds.                                                        *)
LEMMA ConnTyped ==
  ASSUME TasksTyped(tasks), NEW t \in TaskIds, tasks[t].kind # "none"
  PROVE  /\ Conn(t) \in Connections
         /\ tasks[t].driver \in DriverIds \cup {0}
         /\ tasks[t].tunnel \in TunnelIds \cup {0}
BY DEF TasksTyped, Tasks, Conn

(* Taking a driver or a tunnel on the way to another await.                *)
LEMMA TakenQuietly ==
  ASSUME TasksTyped(tasks), NEW t \in TaskIds, NEW pc \in Points,
         NEW d \in DriverIds \cup {0}, NEW n \in TunnelIds \cup {0},
         \/ tasks' = [tasks EXCEPT ![t].driver = d, ![t].pc = pc]
         \/ tasks' = [tasks EXCEPT ![t].tunnel = n, ![t].pc = pc] /\ pc # "opening",
         pc = "opening" => d # 0,
         tasks[t].kind = "recover" => (Recovers(tasks[t]) <=> pc \notin {"died", "woken", "recover"}),
         tasks[t].kind # "disconnect"
  PROVE  Quiet
<1>1. tasks[t] \in Tasks
  BY DEF TasksTyped
<1>2. /\ tasks'[t] \in Tasks
      /\ tasks'[t].kind = tasks[t].kind
      /\ tasks'[t].conn = tasks[t].conn
      /\ tasks'[t].pc = pc
      /\ pc = "opening" => tasks'[t].driver # 0
  <2>1. CASE tasks' = [tasks EXCEPT ![t].driver = d, ![t].pc = pc]
    <3>1. tasks'[t] = [tasks[t] EXCEPT !.driver = d, !.pc = pc]
      BY <2>1 DEF TasksTyped
    <3> QED
      BY <1>1, <3>1 DEF Tasks
  <2>2. CASE tasks' = [tasks EXCEPT ![t].tunnel = n, ![t].pc = pc] /\ pc # "opening"
    <3>1. tasks'[t] = [tasks[t] EXCEPT !.tunnel = n, !.pc = pc]
      BY <2>2 DEF TasksTyped
    <3>2. pc # "opening"
      BY <2>2
    <3> QED
      BY <1>1, <3>1, <3>2 DEF Tasks
  <2> QED
    BY <2>1, <2>2
<1>3. tasks' \in [TaskIds -> Tasks] /\ \A u \in TaskIds \ {t} : tasks'[u] = tasks[u]
  BY <1>2 DEF TasksTyped
<1> QED
  BY <1>2, <1>3 DEF Quiet, TasksTyped, AllGoOn, SameRole, Recovers, Leaves, HasItsDriver

(* Dropping both on the way.                                               *)
LEMMA EmptiedQuietly ==
  ASSUME TasksTyped(tasks), NEW t \in TaskIds, NEW pc \in Points, pc # "opening",
         tasks' = [Emptied(t) EXCEPT ![t].pc = pc],
         tasks[t].kind \notin {"disconnect", "recover"}
  PROVE  Quiet
<1> DEFINE es == Emptied(t)
           us == [es EXCEPT ![t].pc = pc]
<1>1. /\ TasksTyped(es)
      /\ OthersGoOn(tasks, es, t)
      /\ es[t].kind = tasks[t].kind
  BY EmptiedIs
<1> HIDE DEF es
<1>2. /\ TasksTyped(us)
      /\ OthersGoOn(es, us, t)
      /\ us[t].kind = es[t].kind /\ us[t].pc = pc
  BY <1>1, PcSet
<1>3. tasks' = us
  BY DEF es
<1> HIDE DEF us
<1>4. \A u \in TaskIds \ {t} : SameRole(tasks[u], us[u])
  BY <1>1, <1>2 DEF OthersGoOn, SameRole
<1>5. SameRole(tasks[t], us[t])
  BY <1>1, <1>2 DEF SameRole, Recovers, Leaves, HasItsDriver
<1> QED
  BY <1>2, <1>3, <1>4, <1>5 DEF Quiet, AllGoOn

(* A new task.                                                             *)
LEMMA AddedQuietly ==
  ASSUME TasksTyped(tasks), FreeTasks # {}, NEW c \in Connections,
         NEW kind \in Kinds, NEW pc \in Points, pc # "opening",
         kind = "recover" => pc \in {"died", "woken", "recover"},
         kind # "disconnect",
         tasks' = [tasks EXCEPT ![AnyOf(FreeTasks)] = Task(kind, c, pc)]
  PROVE  Quiet
<1> DEFINE m == AnyOf(FreeTasks)
<1>1. m \in TaskIds /\ tasks[m].kind = "none"
  BY AnyOfIsIn DEF FreeTasks
<1> HIDE DEF m
<1>2. LET us == [tasks EXCEPT ![m] = Task(kind, c, pc)]
      IN  TasksTyped(us) /\ AllGoOn(tasks, us)
  BY <1>1, TaskAdded
<1> QED
  BY <1>2 DEF Quiet, m

-------------------------------------------------------------------------------
(***************************************************************************)
(* The steps that change no role.                                          *)
(***************************************************************************)
(* ensureConnected starts a task.                                            *)
LEMMA EnsureConnectedKeeps ==
  ASSUME IInv, NEW c \in Connections, EnsureConnected(c)
  PROVE  IInv'
<1>1. Before
  BY InvariantGives
<1>2. Quiet
  <2>1. "ensure" \in Kinds /\ "dedup" \in Points
    BY DEF Kinds, Points
  <2>2. FreeTasks # {} /\ tasks' = [tasks EXCEPT ![AnyOf(FreeTasks)] = Task("ensure", c, "dedup")]
    BY DEF EnsureConnected, CanStart, Start
  <2> QED
    BY <1>1, <2>1, <2>2, AddedQuietly DEF Before
<1>3. SessionsGoOn
  BY <1>1, SameSessionsGoOn DEF Before, EnsureConnected
<1>4. TypeOK'
  <2>1. starts' \in 0..MaxStarts
    BY <1>1, LimitsAssumption DEF Before, TypeOK, EnsureConnected, CanStart, Start
  <2> QED
    BY <1>1, <1>2, <1>3, <2>1 DEF Before, TypeOK, Quiet, SessionsGoOn, EnsureConnected, tunnelVars
<1>5. \E t \in TaskIds : TRUE
  BY AnyOfIsIn DEF EnsureConnected, CanStart, FreeTasks
<1> QED
  BY <1>2, <1>3, <1>4, <1>5, QuietStep DEF EnsureConnected

(* switchDatabase starts a task.                                             *)
LEMMA SwitchDatabaseKeeps ==
  ASSUME IInv, NEW c \in Connections, SwitchDatabase(c)
  PROVE  IInv'
<1>1. Before
  BY InvariantGives
<1>2. Quiet
  <2>1. "reconnect" \in Kinds /\ "reconnect" \in Points
    BY DEF Kinds, Points
  <2>2. FreeTasks # {} /\ tasks' = [tasks EXCEPT ![AnyOf(FreeTasks)] = Task("reconnect", c, "reconnect")]
    BY DEF SwitchDatabase, CanStart, Start
  <2> QED
    BY <1>1, <2>1, <2>2, AddedQuietly DEF Before
<1>3. SessionsGoOn
  BY <1>1, SameSessionsGoOn DEF Before, SwitchDatabase
<1>4. TypeOK'
  <2>1. starts' \in 0..MaxStarts
    BY <1>1, LimitsAssumption DEF Before, TypeOK, SwitchDatabase, CanStart, Start
  <2> QED
    BY <1>1, <1>2, <1>3, <2>1 DEF Before, TypeOK, Quiet, SessionsGoOn, SwitchDatabase, tunnelVars
<1>5. \E t \in TaskIds : TRUE
  BY AnyOfIsIn DEF SwitchDatabase, CanStart, FreeTasks
<1> QED
  BY <1>2, <1>3, <1>4, <1>5, QuietStep DEF SwitchDatabase

(* A wake-up starts a task.                                                  *)
LEMMA SystemDidWakeKeeps ==
  ASSUME IInv, NEW c \in Connections, SystemDidWake(c)
  PROVE  IInv'
<1>1. Before
  BY InvariantGives
<1>2. Quiet
  <2>1. "recover" \in Kinds /\ "woken" \in Points
    BY DEF Kinds, Points
  <2>2. FreeTasks # {} /\ tasks' = [tasks EXCEPT ![AnyOf(FreeTasks)] = Task("recover", c, "woken")]
    BY DEF SystemDidWake, CanStart, Start
  <2> QED
    BY <1>1, <2>1, <2>2, AddedQuietly DEF Before
<1>3. SessionsGoOn
  BY <1>1, SameSessionsGoOn DEF Before, SystemDidWake
<1>4. TypeOK'
  <2>1. starts' \in 0..MaxStarts
    BY <1>1, LimitsAssumption DEF Before, TypeOK, SystemDidWake, CanStart, Start
  <2> QED
    BY <1>1, <1>2, <1>3, <2>1 DEF Before, TypeOK, Quiet, SessionsGoOn, SystemDidWake, tunnelVars
<1>5. \E t \in TaskIds : TRUE
  BY AnyOfIsIn DEF SystemDidWake, CanStart, FreeTasks
<1> QED
  BY <1>2, <1>3, <1>4, <1>5, QuietStep DEF SystemDidWake

(* The death of a tunnel starts a task.                                      *)
LEMMA TunnelDiesKeeps ==
  ASSUME IInv, NEW c \in Connections, NEW n \in TunnelIds, TunnelDies(c, n)
  PROVE  IInv'
<1>1. Before
  BY InvariantGives
<1>2. Quiet
  <2>1. "recover" \in Kinds /\ "died" \in Points
    BY DEF Kinds, Points
  <2>2. FreeTasks # {} /\ tasks' = [tasks EXCEPT ![AnyOf(FreeTasks)] = Task("recover", c, "died")]
    BY DEF TunnelDies
  <2> QED
    BY <1>1, <2>1, <2>2, AddedQuietly DEF Before
<1>3. SessionsGoOn
  BY <1>1, SameSessionsGoOn DEF Before, TunnelDies
<1>4. TypeOK'
  <2>1. deaths' \in 0..MaxDeaths
    BY <1>1, LimitsAssumption DEF Before, TypeOK, TunnelDies
  <2> QED
    BY <1>1, <1>2, <1>3, <2>1 DEF Before, TypeOK, Quiet, SessionsGoOn, TunnelDies, MarkDead
<1>5. \E t \in TaskIds : TRUE
  BY AnyOfIsIn DEF TunnelDies, FreeTasks
<1> QED
  BY <1>2, <1>3, <1>4, <1>5, QuietStep DEF TunnelDies

(* OnceTask.execute joins or leads.                                          *)
LEMMA DedupKeeps ==
  ASSUME IInv, NEW t \in TaskIds, Dedup(t)
  PROVE  IInv'
<1>1. Before /\ tasks[t].kind # "none"
  BY InvariantGives DEF Dedup, IsTask, Openers, Connecting, MonitorStopped
<1>2. /\ Conn(t) \in Connections
      /\ tasks[t].driver \in DriverIds \cup {0}
      /\ tasks[t].tunnel \in TunnelIds \cup {0}
  BY <1>1, ConnTyped DEF Before
<1>3. Quiet
  <2>1. "connect" \in Points
    BY DEF Points
  <2> QED
    BY <1>1, <2>1, GotoQuietly, EndQuietly
       DEF Before, Dedup, IsTask, Openers, Connecting, Recovers, Leaves
<1>4. SessionsGoOn
  BY <1>1, SameSessionsGoOn DEF Before, Dedup
<1>5. TypeOK'
  BY <1>1, <1>2, <1>3, <1>4 DEF Before, TypeOK, Quiet, SessionsGoOn, Dedup, tunnelVars
<1> QED
  BY <1>3, <1>4, <1>5, QuietStep DEF Dedup

(* The leader leaves.                                                        *)
LEMMA LeaveDedupKeeps ==
  ASSUME IInv, NEW t \in TaskIds, LeaveDedup(t)
  PROVE  IInv'
<1>1. Before /\ tasks[t].kind # "none"
  BY InvariantGives DEF LeaveDedup, IsTask, Openers, Connecting, MonitorStopped
<1>2. /\ Conn(t) \in Connections
      /\ tasks[t].driver \in DriverIds \cup {0}
      /\ tasks[t].tunnel \in TunnelIds \cup {0}
  BY <1>1, ConnTyped DEF Before
<1>3. Quiet
  BY <1>1, EndQuietly
       DEF Before, LeaveDedup, IsTask, Openers, Connecting, Recovers, Leaves
<1>4. SessionsGoOn
  BY <1>1, SameSessionsGoOn DEF Before, LeaveDedup
<1>5. TypeOK'
  BY <1>1, <1>2, <1>3, <1>4 DEF Before, TypeOK, Quiet, SessionsGoOn, LeaveDedup, tunnelVars
<1> QED
  BY <1>3, <1>4, <1>5, QuietStep DEF LeaveDedup

(* createTunnel closes the old tunnel.                                       *)
LEMMA BeginTunnelKeeps ==
  ASSUME IInv, NEW t \in TaskIds, BeginTunnel(t)
  PROVE  IInv'
<1>1. Before /\ tasks[t].kind # "none"
  BY InvariantGives DEF BeginTunnel, IsTask, Openers, Connecting, MonitorStopped
<1>2. /\ Conn(t) \in Connections
      /\ tasks[t].driver \in DriverIds \cup {0}
      /\ tasks[t].tunnel \in TunnelIds \cup {0}
  BY <1>1, ConnTyped DEF Before
<1>3. Quiet
  <2>1. "tunnelling" \in Points
    BY DEF Points
  <2> QED
    BY <1>1, <2>1, GotoQuietly, EndQuietly
       DEF Before, BeginTunnel, IsTask, Openers, Connecting, Recovers, Leaves
<1>4. SessionsGoOn
  BY <1>1, SameSessionsGoOn DEF Before, BeginTunnel
<1>5. TypeOK'
  BY <1>1, <1>2, <1>3, <1>4
       DEF Before, TypeOK, Quiet, SessionsGoOn, BeginTunnel, tunnelVars, CloseTunnel
<1> QED
  BY <1>3, <1>4, <1>5, QuietStep DEF BeginTunnel

(* createTunnel has a new one.                                               *)
LEMMA TunnelOpensKeeps ==
  ASSUME IInv, NEW t \in TaskIds, TunnelOpens(t)
  PROVE  IInv'
<1>1. Before /\ tasks[t].kind # "none"
  BY InvariantGives DEF TunnelOpens, IsTask, Openers, Connecting, MonitorStopped
<1>2. /\ Conn(t) \in Connections
      /\ tasks[t].driver \in DriverIds \cup {0}
      /\ tasks[t].tunnel \in TunnelIds \cup {0}
  BY <1>1, ConnTyped DEF Before
<1>3. FreshTunnel(Conn(t)) # {} /\ AnyOf(FreshTunnel(Conn(t))) \in TunnelIds
  BY AnyOfIsIn DEF TunnelOpens, FreshTunnel
<1>4. Quiet
  <2>1. "prepare" \in Points /\ "create" \in Points
    BY DEF Points
  <2> QED
    BY <1>1, <1>3, <2>1, TakenQuietly
         DEF Before, TunnelOpens, IsTask, Openers, Connecting, Recovers
<1>5. SessionsGoOn
  BY <1>1, SameSessionsGoOn DEF Before, TunnelOpens
<1>6. TypeOK'
  BY <1>1, <1>2, <1>3, <1>4, <1>5
       DEF Before, TypeOK, Quiet, SessionsGoOn, TunnelOpens, tunnelVars, InstallTunnel
<1> QED
  BY <1>4, <1>5, <1>6, QuietStep DEF TunnelOpens

(* The script has run.                                                       *)
LEMMA PreparedKeeps ==
  ASSUME IInv, NEW t \in TaskIds, Prepared(t)
  PROVE  IInv'
<1>1. Before /\ tasks[t].kind # "none"
  BY InvariantGives DEF Prepared, IsTask, Openers, Connecting, MonitorStopped
<1>2. /\ Conn(t) \in Connections
      /\ tasks[t].driver \in DriverIds \cup {0}
      /\ tasks[t].tunnel \in TunnelIds \cup {0}
  BY <1>1, ConnTyped DEF Before
<1>3. Quiet
  <2>1. "create" \in Points
    BY DEF Points
  <2> QED
    BY <1>1, <2>1, GotoQuietly, EndQuietly
       DEF Before, Prepared, IsTask, Openers, Connecting, Recovers, Leaves
<1>4. SessionsGoOn
  BY <1>1, SameSessionsGoOn DEF Before, Prepared
<1>5. TypeOK'
  BY <1>1, <1>2, <1>3, <1>4 DEF Before, TypeOK, Quiet, SessionsGoOn, Prepared, tunnelVars
<1> QED
  BY <1>3, <1>4, <1>5, QuietStep DEF Prepared

(* The task that is to open a driver has one.                                *)
LEMMA DriverCreatedKeeps ==
  ASSUME IInv, NEW t \in TaskIds, DriverCreated(t)
  PROVE  IInv'
<1>1. Before /\ tasks[t].kind # "none"
  BY InvariantGives DEF DriverCreated, IsTask, Openers, Connecting, MonitorStopped
<1>2. /\ Conn(t) \in Connections
      /\ tasks[t].driver \in DriverIds \cup {0}
      /\ tasks[t].tunnel \in TunnelIds \cup {0}
  BY <1>1, ConnTyped DEF Before
<1>3. Quiet
  <2>1. AnyOf(FreshDriver(Conn(t))) \in DriverIds /\ 0 \notin DriverIds
    BY AnyOfIsIn DEF DriverCreated, FreshDriver, DriverIds
  <2>2. "opening" \in Points
    BY DEF Points
  <2> QED
    BY <1>1, <1>2, <2>1, <2>2, TakenQuietly
         DEF Before, DriverCreated, IsTask, Openers, Connecting, Recovers
<1>4. SessionsGoOn
  BY <1>1, SameSessionsGoOn DEF Before, DriverCreated
<1>5. TypeOK'
  BY <1>1, <1>2, <1>3, <1>4 DEF Before, TypeOK, Quiet, SessionsGoOn, DriverCreated, tunnelVars
<1> QED
  BY <1>3, <1>4, <1>5, QuietStep DEF DriverCreated

(* A driver opens, and is one of the connection's.                           *)
LEMMA DriverOpensKeeps ==
  ASSUME IInv, NEW t \in TaskIds, DriverOpens(t)
  PROVE  IInv'
<1>1. Before /\ tasks[t].kind # "none" /\ HasItsDriver(tasks[t])
  BY InvariantGives DEF DriverOpens, IsTask, Openers, Connecting, MonitorStopped
<1>2. /\ Conn(t) \in Connections
      /\ tasks[t].driver \in DriverIds \cup {0}
      /\ tasks[t].tunnel \in TunnelIds \cup {0}
  BY <1>1, ConnTyped DEF Before
<1>3. Quiet
  <2>1. "install" \in Points
    BY DEF Points
  <2> QED
    BY <1>1, <2>1, GotoQuietly, EndQuietly
       DEF Before, DriverOpens, IsTask, Openers, Connecting, Recovers, Leaves
<1>4. SessionsGoOn
  BY <1>1, SameSessionsGoOn DEF Before, DriverOpens
<1>5. TypeOK'
  BY <1>1, <1>2, <1>3, <1>4
       DEF Before, TypeOK, Quiet, SessionsGoOn, DriverOpens, tunnelVars, IsTask,
           HasItsDriver
<1> QED
  BY <1>3, <1>4, <1>5, QuietStep DEF DriverOpens

(* A monitor is started after the old one.                                   *)
LEMMA OldMonitorStoppedKeeps ==
  ASSUME IInv, NEW t \in TaskIds, OldMonitorStopped(t)
  PROVE  IInv'
<1>1. Before /\ tasks[t].kind # "none"
  BY InvariantGives DEF OldMonitorStopped, IsTask, Openers, Connecting, MonitorStopped
<1>2. /\ Conn(t) \in Connections
      /\ tasks[t].driver \in DriverIds \cup {0}
      /\ tasks[t].tunnel \in TunnelIds \cup {0}
  BY <1>1, ConnTyped DEF Before
<1>3. Quiet /\ healthMonitors' \in [Connections -> TaskIds \cup {0}]
  <2>1. /\ TasksTyped(tasks')
        /\ OthersGoOn(tasks, tasks', t)
        /\ tasks'[t].kind = tasks[t].kind /\ tasks'[t].conn = tasks[t].conn /\ tasks'[t].pc = "started"
        /\ healthMonitors' \in [Connections -> TaskIds \cup {0}]
    BY <1>1, <1>2, StartMonitorIs DEF Before, TypeOK, OldMonitorStopped
  <2> QED
    BY <2>1 DEF OldMonitorStopped, IsTask, Connecting, Quiet, OthersGoOn, AllGoOn, SameRole,
                Recovers, Leaves, HasItsDriver
<1>4. SessionsGoOn
  BY <1>1, SameSessionsGoOn DEF Before, OldMonitorStopped
<1>5. TypeOK'
  BY <1>1, <1>2, <1>3, <1>4 DEF Before, TypeOK, Quiet, SessionsGoOn, OldMonitorStopped, tunnelVars
<1> QED
  BY <1>3, <1>4, <1>5, QuietStep DEF OldMonitorStopped

(* A tunnel is closed.                                                       *)
LEMMA CloseItsTunnelKeeps ==
  ASSUME IInv, NEW t \in TaskIds, CloseItsTunnel(t)
  PROVE  IInv'
<1>1. Before /\ tasks[t].kind # "none"
  BY InvariantGives DEF CloseItsTunnel, IsTask, Openers, Connecting, MonitorStopped
<1>2. /\ Conn(t) \in Connections
      /\ tasks[t].driver \in DriverIds \cup {0}
      /\ tasks[t].tunnel \in TunnelIds \cup {0}
  BY <1>1, ConnTyped DEF Before
<1>3. Quiet
  <2>1. "stopMonitor" \in Points /\ "failed" \in Points
    BY DEF Points
  <2> QED
    BY <1>1, <2>1, GotoQuietly, EndQuietly
       DEF Before, CloseItsTunnel, IsTask, Openers, Connecting, Recovers, Leaves
<1>4. SessionsGoOn
  BY <1>1, SameSessionsGoOn DEF Before, CloseItsTunnel
<1>5. TypeOK'
  BY <1>1, <1>2, <1>3, <1>4
       DEF Before, TypeOK, Quiet, SessionsGoOn, CloseItsTunnel, tunnelVars, CloseTunnel
<1> QED
  BY <1>3, <1>4, <1>5, QuietStep DEF CloseItsTunnel

(* reconnectSession begins.                                                  *)
LEMMA BeginReconnectKeeps ==
  ASSUME IInv, NEW t \in TaskIds, BeginReconnect(t)
  PROVE  IInv'
<1>1. Before /\ tasks[t].kind # "none"
  BY InvariantGives DEF BeginReconnect, IsTask, Openers, Connecting, MonitorStopped
<1>2. /\ Conn(t) \in Connections
      /\ tasks[t].driver \in DriverIds \cup {0}
      /\ tasks[t].tunnel \in TunnelIds \cup {0}
  BY <1>1, ConnTyped DEF Before
<1>3. Quiet
  <2>1. "stopMonitor" \in Points
    BY DEF Points
  <2> QED
    BY <1>1, <2>1, GotoQuietly, EndQuietly
       DEF Before, BeginReconnect, IsTask, Openers, Connecting, Recovers, Leaves
<1>4. SessionsGoOn
  BY <1>1, <1>2, SetStatusGoesOn DEF Before, Statuses, BeginReconnect
<1>5. TypeOK'
  BY <1>1, <1>2, <1>3, <1>4 DEF Before, TypeOK, Quiet, SessionsGoOn, BeginReconnect, tunnelVars
<1> QED
  BY <1>3, <1>4, <1>5, QuietStep DEF BeginReconnect

(* reconnectSession fails.                                                   *)
LEMMA ReconnectFailsKeeps ==
  ASSUME IInv, NEW t \in TaskIds, ReconnectFails(t)
  PROVE  IInv'
<1>1. Before /\ tasks[t].kind # "none"
  BY InvariantGives DEF ReconnectFails, IsTask, Openers, Connecting, MonitorStopped
<1>2. /\ Conn(t) \in Connections
      /\ tasks[t].driver \in DriverIds \cup {0}
      /\ tasks[t].tunnel \in TunnelIds \cup {0}
  BY <1>1, ConnTyped DEF Before
<1>3. Quiet
  BY <1>1, EndQuietly
       DEF Before, ReconnectFails, IsTask, Openers, Connecting, Recovers, Leaves
<1>4. SessionsGoOn
  BY <1>1, <1>2, SetStatusGoesOn DEF Before, Statuses, ReconnectFails
<1>5. TypeOK'
  BY <1>1, <1>2, <1>3, <1>4 DEF Before, TypeOK, Quiet, SessionsGoOn, ReconnectFails, tunnelVars
<1> QED
  BY <1>3, <1>4, <1>5, QuietStep DEF ReconnectFails

(* reconnectSession goes on after its monitor.                               *)
LEMMA StoppedBeforeReconnectKeeps ==
  ASSUME IInv, NEW t \in TaskIds, StoppedBeforeReconnect(t)
  PROVE  IInv'
<1>1. Before /\ tasks[t].kind # "none"
  BY InvariantGives DEF StoppedBeforeReconnect, IsTask, Openers, Connecting, MonitorStopped
<1>2. /\ Conn(t) \in Connections
      /\ tasks[t].driver \in DriverIds \cup {0}
      /\ tasks[t].tunnel \in TunnelIds \cup {0}
  BY <1>1, ConnTyped DEF Before
<1>3. Quiet
  <2>1. "openTunnel" \in Points /\ "create" \in Points
    BY DEF Points
  <2> QED
    BY <1>1, <2>1, GotoQuietly, EndQuietly
       DEF Before, StoppedBeforeReconnect, IsTask, Openers, Connecting, Recovers, Leaves,
           MonitorStopped, CloseOldDriver, OpenNext
<1>4. SessionsGoOn
  BY <1>1, SameSessionsGoOn DEF Before, StoppedBeforeReconnect
<1>5. TypeOK'
  BY <1>1, <1>2, <1>3, <1>4
       DEF Before, TypeOK, Quiet, SessionsGoOn, StoppedBeforeReconnect, tunnelVars,
           CloseOldDriver, Disconnect
<1> QED
  BY <1>3, <1>4, <1>5, QuietStep DEF StoppedBeforeReconnect

(* reconnectSession stops the monitor.                                       *)
LEMMA StopBeforeReconnectKeeps ==
  ASSUME IInv, NEW t \in TaskIds, StopBeforeReconnect(t)
  PROVE  IInv'
<1>1. Before /\ tasks[t].kind # "none"
  BY InvariantGives DEF StopBeforeReconnect, IsTask, Openers, Connecting, MonitorStopped
<1>2. /\ Conn(t) \in Connections
      /\ tasks[t].driver \in DriverIds \cup {0}
      /\ tasks[t].tunnel \in TunnelIds \cup {0}
  BY <1>1, ConnTyped DEF Before
<1>3. Quiet /\ healthMonitors' \in [Connections -> TaskIds \cup {0}]
  <2>1. "stopped" \in Points /\ "openTunnel" \in Points /\ "create" \in Points
    BY DEF Points
  <2>2. CASE StopHealthMonitor(tasks, t, Conn(t), "stopped")
    <3>1. /\ TasksTyped(tasks')
          /\ OthersGoOn(tasks, tasks', t)
          /\ tasks'[t].kind = tasks[t].kind /\ tasks'[t].conn = tasks[t].conn /\ tasks'[t].pc = "stopped"
          /\ healthMonitors' \in [Connections -> TaskIds \cup {0}]
      BY <1>1, <1>2, <2>1, <2>2, StopHealthMonitorIs DEF Before, TypeOK
    <3> QED
      BY <3>1 DEF StopBeforeReconnect, IsTask, Quiet, OthersGoOn, AllGoOn, SameRole,
                  Recovers, Leaves, HasItsDriver
  <2>3. CASE NoMonitor(Conn(t)) /\ CloseOldDriver(t)
    BY <1>1, <2>1, <2>3, GotoQuietly
         DEF Before, TypeOK, NoMonitor, CloseOldDriver, OpenNext, StopBeforeReconnect, IsTask
  <2> QED
    BY <2>2, <2>3 DEF StopBeforeReconnect
<1>4. SessionsGoOn
  BY <1>1, SameSessionsGoOn DEF Before, StopBeforeReconnect
<1>5. TypeOK'
  BY <1>1, <1>2, <1>3, <1>4
       DEF Before, TypeOK, Quiet, SessionsGoOn, StopBeforeReconnect, tunnelVars,
           CloseOldDriver, Disconnect
<1> QED
  BY <1>3, <1>4, <1>5, QuietStep DEF StopBeforeReconnect

(* A death callback looks at the table.                                      *)
LEMMA TunnelDeathHandledKeeps ==
  ASSUME IInv, NEW t \in TaskIds, TunnelDeathHandled(t)
  PROVE  IInv'
<1>1. Before /\ tasks[t].kind # "none"
  BY InvariantGives DEF TunnelDeathHandled, IsTask, Openers, Connecting, MonitorStopped
<1>2. /\ Conn(t) \in Connections
      /\ tasks[t].driver \in DriverIds \cup {0}
      /\ tasks[t].tunnel \in TunnelIds \cup {0}
  BY <1>1, ConnTyped DEF Before
<1>3. Quiet
  <2>1. "recover" \in Points
    BY DEF Points
  <2> QED
    BY <1>1, <2>1, GotoQuietly, EndQuietly
       DEF Before, TunnelDeathHandled, IsTask, Openers, Connecting, Recovers, Leaves
<1>4. SessionsGoOn
  BY <1>1, SameSessionsGoOn DEF Before, TunnelDeathHandled
<1>5. TypeOK'
  BY <1>1, <1>2, <1>3, <1>4
       DEF Before, TypeOK, Quiet, SessionsGoOn, TunnelDeathHandled, tunnelVars,
           ForgetTunnel
<1> QED
  BY <1>3, <1>4, <1>5, QuietStep DEF TunnelDeathHandled

(* A wake-up looks at the tunnel.                                            *)
LEMMA ValidateTunnelKeeps ==
  ASSUME IInv, NEW t \in TaskIds, ValidateTunnel(t)
  PROVE  IInv'
<1>1. Before /\ tasks[t].kind # "none"
  BY InvariantGives DEF ValidateTunnel, IsTask, Openers, Connecting, MonitorStopped
<1>2. /\ Conn(t) \in Connections
      /\ tasks[t].driver \in DriverIds \cup {0}
      /\ tasks[t].tunnel \in TunnelIds \cup {0}
  BY <1>1, ConnTyped DEF Before
<1>3. Quiet
  <2>1. "recover" \in Points
    BY DEF Points
  <2> QED
    BY <1>1, <2>1, GotoQuietly, EndQuietly
       DEF Before, ValidateTunnel, IsTask, Openers, Connecting, Recovers, Leaves
<1>4. SessionsGoOn
  BY <1>1, SameSessionsGoOn DEF Before, ValidateTunnel
<1>5. TypeOK'
  BY <1>1, <1>2, <1>3, <1>4 DEF Before, TypeOK, Quiet, SessionsGoOn, ValidateTunnel, tunnelVars
<1> QED
  BY <1>3, <1>4, <1>5, QuietStep DEF ValidateTunnel

(* Dropping the stale driver keeps its session.                              *)
LEMMA DropStaleDriverGoesOn ==
  ASSUME TypeOK, NoSessionNoDriver, NEW t \in TaskIds, Conn(t) \in Connections, DropStaleDriver(t)
  PROVE  SessionsGoOn
<1> DEFINE c == Conn(t)
<1>1. activeSessions' = IF ~ HasSession(c) THEN activeSessions
                        ELSE [activeSessions EXCEPT ![c].driver = 0, ![c].status = "connecting"]
  BY DEF DropStaleDriver
<1>2. activeSessions \in [Connections -> Sessions] /\ c \in Connections
  BY DEF TypeOK
<1> HIDE DEF c
<1>3. CASE ~ HasSession(c)
  BY <1>1, <1>3, SameSessionsGoOn
<1>4. CASE HasSession(c)
  <2>1. activeSessions'[c] = [activeSessions[c] EXCEPT !.driver = 0, !.status = "connecting"]
    BY <1>1, <1>2, <1>4
  <2>2. activeSessions'[c] \in Sessions /\ activeSessions'[c].status = "connecting"
    BY <1>2, <2>1 DEF Sessions, Statuses
  <2>3. \A d \in Connections \ {c} : activeSessions'[d] = activeSessions[d]
    BY <1>1, <1>2, <1>4
  <2>4. activeSessions' \in [Connections -> Sessions]
    BY <1>1, <1>2, <1>4, <2>2, <2>3
  <2> QED
    BY <1>2, <2>2, <2>3, <2>4 DEF SessionsGoOn, NoSessionNoDriver, HasSession
<1> QED
  BY <1>3, <1>4

(* A recovery goes on after its monitor.                                     *)
LEMMA StoppedBeforeRecoveryKeeps ==
  ASSUME IInv, NEW t \in TaskIds, StoppedBeforeRecovery(t)
  PROVE  IInv'
<1>1. Before /\ tasks[t].kind # "none"
  BY InvariantGives DEF StoppedBeforeRecovery, IsTask, Openers, Connecting, MonitorStopped
<1>2. /\ Conn(t) \in Connections
      /\ tasks[t].driver \in DriverIds \cup {0}
      /\ tasks[t].tunnel \in TunnelIds \cup {0}
  BY <1>1, ConnTyped DEF Before
<1>3. Quiet
  <2>1. "backoff" \in Points
    BY DEF Points
  <2> QED
    BY <1>1, <2>1, GotoQuietly, EndQuietly
       DEF Before, StoppedBeforeRecovery, IsTask, Openers, Connecting, Recovers, Leaves,
           MonitorStopped, DropStaleDriver
<1>4. SessionsGoOn
  BY <1>1, <1>2, DropStaleDriverGoesOn DEF Before, StoppedBeforeRecovery
<1>5. TypeOK'
  BY <1>1, <1>2, <1>3, <1>4
       DEF Before, TypeOK, Quiet, SessionsGoOn, StoppedBeforeRecovery, tunnelVars,
           DropStaleDriver, Disconnect
<1> QED
  BY <1>3, <1>4, <1>5, QuietStep DEF StoppedBeforeRecovery

(* The monitor pings, or ends.                                               *)
LEMMA MonitorWakesKeeps ==
  ASSUME IInv, NEW t \in TaskIds, MonitorWakes(t)
  PROVE  IInv'
<1>1. Before /\ tasks[t].kind # "none"
  BY InvariantGives DEF MonitorWakes, IsTask, Openers, Connecting, MonitorStopped
<1>2. /\ Conn(t) \in Connections
      /\ tasks[t].driver \in DriverIds \cup {0}
      /\ tasks[t].tunnel \in TunnelIds \cup {0}
  BY <1>1, ConnTyped DEF Before
<1>3. Quiet
  <2>1. "ping" \in Points
    BY DEF Points
  <2> QED
    BY <1>1, <2>1, GotoQuietly, EndQuietly
       DEF Before, MonitorWakes, IsTask, Openers, Connecting, Recovers, Leaves
<1>4. SessionsGoOn
  BY <1>1, SameSessionsGoOn DEF Before, MonitorWakes
<1>5. TypeOK'
  BY <1>1, <1>2, <1>3, <1>4 DEF Before, TypeOK, Quiet, SessionsGoOn, MonitorWakes, tunnelVars
<1> QED
  BY <1>3, <1>4, <1>5, QuietStep DEF MonitorWakes

(* The monitor sleeps on.                                                    *)
LEMMA PingAnsweredKeeps ==
  ASSUME IInv, NEW t \in TaskIds, PingAnswered(t)
  PROVE  IInv'
<1>1. Before /\ tasks[t].kind # "none"
  BY InvariantGives DEF PingAnswered, IsTask, Openers, Connecting, MonitorStopped
<1>2. /\ Conn(t) \in Connections
      /\ tasks[t].driver \in DriverIds \cup {0}
      /\ tasks[t].tunnel \in TunnelIds \cup {0}
  BY <1>1, ConnTyped DEF Before
<1>3. Quiet
  <2>1. "sleep" \in Points
    BY DEF Points
  <2> QED
    BY <1>1, <2>1, GotoQuietly, EndQuietly
       DEF Before, PingAnswered, IsTask, Openers, Connecting, Recovers, Leaves
<1>4. SessionsGoOn
  BY <1>1, SameSessionsGoOn DEF Before, PingAnswered
<1>5. TypeOK'
  BY <1>1, <1>2, <1>3, <1>4 DEF Before, TypeOK, Quiet, SessionsGoOn, PingAnswered, tunnelVars
<1> QED
  BY <1>3, <1>4, <1>5, QuietStep DEF PingAnswered

(* The monitor reconnects, or ends.                                          *)
LEMMA AttemptReconnectKeeps ==
  ASSUME IInv, NEW t \in TaskIds, AttemptReconnect(t)
  PROVE  IInv'
<1>1. Before /\ tasks[t].kind # "none"
  BY InvariantGives DEF AttemptReconnect, IsTask, Openers, Connecting, MonitorStopped
<1>2. /\ Conn(t) \in Connections
      /\ tasks[t].driver \in DriverIds \cup {0}
      /\ tasks[t].tunnel \in TunnelIds \cup {0}
  BY <1>1, ConnTyped DEF Before
<1>3. Quiet
  <2>1. "backoff" \in Points
    BY DEF Points
  <2> QED
    BY <1>1, <2>1, GotoQuietly, EndQuietly
       DEF Before, AttemptReconnect, IsTask, Openers, Connecting, Recovers, Leaves
<1>4. SessionsGoOn
  BY <1>1, <1>2, SetStatusGoesOn DEF Before, Statuses, AttemptReconnect
<1>5. TypeOK'
  BY <1>1, <1>2, <1>3, <1>4 DEF Before, TypeOK, Quiet, SessionsGoOn, AttemptReconnect, tunnelVars
<1> QED
  BY <1>3, <1>4, <1>5, QuietStep DEF AttemptReconnect

(* The reconnect handler takes its copy of the session.                      *)
LEMMA BackoffOverKeeps ==
  ASSUME IInv, NEW t \in TaskIds, BackoffOver(t)
  PROVE  IInv'
<1>1. Before /\ tasks[t].kind # "none"
  BY InvariantGives DEF BackoffOver, IsTask, Openers, Connecting, MonitorStopped
<1>2. /\ Conn(t) \in Connections
      /\ tasks[t].driver \in DriverIds \cup {0}
      /\ tasks[t].tunnel \in TunnelIds \cup {0}
  BY <1>1, ConnTyped DEF Before
<1>3. Quiet
  <2>1. "revive" \in Points /\ "failed" \in Points
    BY DEF Points
  <2>2. activeSessions[Conn(t)].driver \in DriverIds \cup {0}
    BY <1>1, <1>2 DEF Before, TypeOK, Sessions
  <2>3. CASE End(t)
    BY <1>1, <2>3, EndQuietly DEF Before, BackoffOver, IsTask, Recovers, Leaves
  <2>4. CASE tasks' = [tasks EXCEPT ![t].driver = activeSessions[Conn(t)].driver, ![t].pc = "revive"]
    BY <1>1, <1>2, <2>1, <2>2, <2>4, TakenQuietly DEF Before, BackoffOver, IsTask
  <2>5. CASE Goto(t, "failed")
    BY <1>1, <2>1, <2>5, GotoQuietly DEF Before, BackoffOver, IsTask
  <2> QED
    BY <2>3, <2>4, <2>5 DEF BackoffOver
<1>4. SessionsGoOn
  BY <1>1, SameSessionsGoOn DEF Before, BackoffOver
<1>5. TypeOK'
  BY <1>1, <1>2, <1>3, <1>4 DEF Before, TypeOK, Quiet, SessionsGoOn, BackoffOver, tunnelVars
<1> QED
  BY <1>3, <1>4, <1>5, QuietStep DEF BackoffOver

(* reconnectDriver closes the driver of the copy.                            *)
LEMMA ReconnectDriverKeeps ==
  ASSUME IInv, NEW t \in TaskIds, ReconnectDriver(t)
  PROVE  IInv'
<1>1. Before /\ tasks[t].kind # "none"
  BY InvariantGives DEF ReconnectDriver, IsTask, Openers, Connecting, MonitorStopped
<1>2. /\ Conn(t) \in Connections
      /\ tasks[t].driver \in DriverIds \cup {0}
      /\ tasks[t].tunnel \in TunnelIds \cup {0}
  BY <1>1, ConnTyped DEF Before
<1>3. Quiet
  <2>1. "openTunnel" \in Points /\ "create" \in Points
    BY DEF Points
  <2> QED
    BY <1>1, <1>2, <2>1, TakenQuietly DEF Before, ReconnectDriver, OpenNext, IsTask
<1>4. SessionsGoOn
  BY <1>1, SameSessionsGoOn DEF Before, ReconnectDriver
<1>5. TypeOK'
  BY <1>1, <1>2, <1>3, <1>4
       DEF Before, TypeOK, Quiet, SessionsGoOn, ReconnectDriver, tunnelVars, Disconnect
<1> QED
  BY <1>3, <1>4, <1>5, QuietStep DEF ReconnectDriver

(* reconnectDriver fails.                                                    *)
LEMMA ReconnectDriverFailsKeeps ==
  ASSUME IInv, NEW t \in TaskIds, ReconnectDriverFails(t)
  PROVE  IInv'
<1>1. Before /\ tasks[t].kind # "none"
  BY InvariantGives DEF ReconnectDriverFails, IsTask, Openers, Connecting, MonitorStopped
<1>2. /\ Conn(t) \in Connections
      /\ tasks[t].driver \in DriverIds \cup {0}
      /\ tasks[t].tunnel \in TunnelIds \cup {0}
  BY <1>1, ConnTyped DEF Before
<1>3. Quiet
  <2>1. "closeTunnel" \in Points /\ "failed" \in Points
    BY DEF Points
  <2> QED
    BY <1>1, <2>1, EmptiedQuietly DEF Before, ReconnectDriverFails
<1>4. SessionsGoOn
  BY <1>1, SameSessionsGoOn DEF Before, ReconnectDriverFails
<1>5. TypeOK'
  BY <1>1, <1>2, <1>3, <1>4
       DEF Before, TypeOK, Quiet, SessionsGoOn, ReconnectDriverFails, tunnelVars
<1> QED
  BY <1>3, <1>4, <1>5, QuietStep DEF ReconnectDriverFails

(* reconnectDriver succeeds.                                                 *)
LEMMA ReconnectedKeeps ==
  ASSUME IInv, NEW t \in TaskIds, Reconnected(t)
  PROVE  IInv'
<1>1. Before /\ tasks[t].kind # "none"
  BY InvariantGives DEF Reconnected, IsTask, Openers, Connecting, MonitorStopped
<1>2. /\ Conn(t) \in Connections
      /\ tasks[t].driver \in DriverIds \cup {0}
      /\ tasks[t].tunnel \in TunnelIds \cup {0}
  BY <1>1, ConnTyped DEF Before
<1>3. Quiet
  <2>1. "healthy" \in Points
    BY DEF Points
  <2> QED
    BY <1>1, <2>1, EmptiedQuietly DEF Before, Reconnected, IsTask
<1>4. SessionsGoOn
  BY <1>1, <1>2, InstallDriverGoesOn DEF Before, Reconnected
<1>5. TypeOK'
  BY <1>1, <1>2, <1>3, <1>4 DEF Before, TypeOK, Quiet, SessionsGoOn, Reconnected, tunnelVars
<1> QED
  BY <1>3, <1>4, <1>5, QuietStep DEF Reconnected

(* The monitor reports that all is well.                                     *)
LEMMA HealthyKeeps ==
  ASSUME IInv, NEW t \in TaskIds, Healthy(t)
  PROVE  IInv'
<1>1. Before /\ tasks[t].kind # "none"
  BY InvariantGives DEF Healthy, IsTask, Openers, Connecting, MonitorStopped
<1>2. /\ Conn(t) \in Connections
      /\ tasks[t].driver \in DriverIds \cup {0}
      /\ tasks[t].tunnel \in TunnelIds \cup {0}
  BY <1>1, ConnTyped DEF Before
<1>3. Quiet
  <2>1. "sleep" \in Points
    BY DEF Points
  <2> QED
    BY <1>1, <2>1, GotoQuietly, EndQuietly
       DEF Before, Healthy, IsTask, Openers, Connecting, Recovers, Leaves
<1>4. SessionsGoOn
  BY <1>1, <1>2, SetStatusGoesOn DEF Before, Statuses, Healthy
<1>5. TypeOK'
  BY <1>1, <1>2, <1>3, <1>4 DEF Before, TypeOK, Quiet, SessionsGoOn, Healthy, tunnelVars
<1> QED
  BY <1>3, <1>4, <1>5, QuietStep DEF Healthy

-------------------------------------------------------------------------------
(***************************************************************************)
(* The steps that enter or leave a recovery, or remove a session.          *)
(***************************************************************************)
(* The invariant from its parts.                                             *)
LEMMA Together ==
  ASSUME IInv, TypeOK', OneRecovery', CurrentIsActive', NoSessionNoDriver',
         NEW t \in TaskIds, OthersGoOn(tasks, tasks', t), HasItsDriver(tasks'[t])
  PROVE  IInv'
<1>1. \A u \in TaskIds : HasItsDriver(tasks'[u])
  BY DEF IInv, OthersGoOn, SameRole
<1>2. (\A u \in TaskIds : HasItsDriver(tasks[u]))' <=> \A u \in TaskIds : HasItsDriver(tasks'[u])
  BY DEF HasItsDriver
<1> QED
  BY <1>1, <1>2 DEF IInv

(* The next session is an active one, if there is one.                     *)
LEMMA NextIsActive ==
  ASSUME Before, NEW t \in TaskIds, NEW sessions, OthersGoOn(tasks, tasks', t),
         sessions = activeSessions',
         \A d \in Connections \ {Conn(t)} : HasSession(d) => HasSession(d)',
         PickNextSession(Conn(t), sessions)
  PROVE  CurrentIsActive' /\ currentSessionId' \in Connections \cup {NoConnection}
<1> DEFINE c == Conn(t)
<1>1. /\ CurrentIsActive
      /\ currentSessionId \in Connections \cup {NoConnection}
  BY DEF Before, TypeOK
<1>2. \A u \in TaskIds \ {t} :
        Leaves(tasks[u]) => Leaves(tasks'[u]) /\ tasks'[u].conn = tasks[u].conn
  BY DEF OthersGoOn, SameRole
<1>3. CurrentIsActive' <=>
        \/ currentSessionId' = NoConnection
        \/ HasSession(currentSessionId)'
        \/ \E u \in TaskIds : Leaves(tasks'[u]) /\ tasks'[u].conn = currentSessionId'
  BY DEF CurrentIsActive, Live, Conn, IsTask, Leaves
<1>4. CASE currentSessionId # c
  <2>1. currentSessionId' = currentSessionId
    BY <1>4 DEF PickNextSession
  <2>2. HasSession(currentSessionId) /\ currentSessionId \in Connections => HasSession(currentSessionId)'
    BY <1>4, <2>1 DEF HasSession
  <2>3. \A u \in TaskIds : tasks[u].conn = currentSessionId => u # t
    BY <1>4 DEF Conn
  <2> QED
    BY <1>1, <1>2, <1>3, <2>1, <2>2, <2>3, CurrentMeans
<1>5. CASE currentSessionId = c
  <2>1. \/ currentSessionId' = NoConnection
        \/ currentSessionId' \in Connections /\ sessions[currentSessionId'].status # "none"
    BY <1>5 DEF PickNextSession
  <2> QED
    BY <2>1 DEF CurrentIsActive, HasSession
<1> QED
  BY <1>4, <1>5

(* The rest of disconnectSession removes the session and is on its way out. *)
LEMMA CloseSessionKeeps ==
  ASSUME IInv, NEW t \in TaskIds, NEW c \in Connections, NEW ts, TasksTyped(ts),
         OthersGoOn(tasks, ts, t), ~ Recovers(tasks[t]), ~ Leaves(tasks[t]),
         ts[t].kind = "disconnect", ts[t].conn = c,
         CloseSession(ts, t, c),
         healthMonitors' = healthMonitors, starts' \in 0..MaxStarts,
         UNCHANGED <<tunnelVars, currentSessionId, recoveringConnectionIds, inFlight, deaths>>
  PROVE  IInv'
<1>1. Before
  BY InvariantGives
<1>2. /\ TasksTyped(tasks')
      /\ OthersGoOn(ts, tasks', t)
      /\ tasks'[t].kind = "disconnect" /\ tasks'[t].conn = c /\ tasks'[t].pc = "invalidate"
  <2>1. ts[t] \in Tasks /\ "invalidate" \in Points
    BY DEF TasksTyped, Points
  <2>2. tasks' = [ts EXCEPT ![t].driver = 0, ![t].pc = "invalidate"]
    BY DEF CloseSession
  <2>3. tasks'[t] = [ts[t] EXCEPT !.driver = 0, !.pc = "invalidate"]
    BY <2>2 DEF TasksTyped
  <2>4. /\ tasks'[t] \in Tasks
        /\ tasks'[t].kind = "disconnect" /\ tasks'[t].conn = c /\ tasks'[t].pc = "invalidate"
    BY <2>1, <2>3 DEF Tasks
  <2>5. tasks' \in [TaskIds -> Tasks] /\ \A u \in TaskIds \ {t} : tasks'[u] = ts[u]
    BY <2>2, <2>4 DEF TasksTyped
  <2> QED
    BY <2>4, <2>5 DEF TasksTyped, OthersGoOn, SameRole
<1>3. OthersGoOn(tasks, tasks', t)
  BY <1>2 DEF OthersGoOn, SameRole
<1>4. /\ ~ Recovers(tasks'[t])
      /\ HasItsDriver(tasks'[t])
      /\ Leaves(tasks'[t])
  BY <1>2 DEF Recovers, HasItsDriver, Leaves
<1>5. activeSessions' = [activeSessions EXCEPT ![c] = NoSession]
  BY DEF CloseSession, RemoveSessionEntry
<1>6. /\ activeSessions' \in [Connections -> Sessions]
      /\ \A d \in Connections \ {c} : HasSession(d) => HasSession(d)'
      /\ NoSessionNoDriver'
  BY <1>1, <1>5 DEF Before, TypeOK, Sessions, Statuses, NoSession, NoSessionNoDriver, HasSession
<1>7. TypeOK'
  BY <1>1, <1>2, <1>6 DEF Before, TypeOK, CloseSession, Disconnect, tunnelVars
<1>8. OneRecovery'
  <2>1. \A u \in TaskIds : /\ Recovers(tasks[u]) <=> Recovers(tasks'[u])
                           /\ Recovers(tasks[u]) => tasks'[u].conn = tasks[u].conn
    BY <1>3, <1>4 DEF OthersGoOn, SameRole
  <2> QED
    BY <1>1, <2>1 DEF Before, OneRecovery, Recovering, TasksOf, Live, Recovers, Conn
<1>9. CurrentIsActive'
  <2>1. \A u \in TaskIds \ {t} :
          Leaves(tasks[u]) => Leaves(tasks'[u]) /\ tasks'[u].conn = tasks[u].conn
    BY <1>3 DEF OthersGoOn, SameRole
  <2>2. CurrentIsActive' <=>
          \/ currentSessionId' = NoConnection
          \/ HasSession(currentSessionId)'
          \/ \E u \in TaskIds : Leaves(tasks'[u]) /\ tasks'[u].conn = currentSessionId'
    BY DEF CurrentIsActive, Live, Conn, IsTask, Leaves
  <2>3. currentSessionId \in Connections \ {c} /\ HasSession(currentSessionId)
          => HasSession(currentSessionId)'
    BY <1>6 DEF HasSession
  <2>4. CurrentIsActive /\ currentSessionId \in Connections \cup {NoConnection}
    BY <1>1 DEF Before, TypeOK
  <2> QED
    BY <1>2, <1>4, <2>1, <2>2, <2>3, <2>4, CurrentMeans
<1> QED
  BY <1>3, <1>4, <1>6, <1>7, <1>8, <1>9, Together

(* disconnectSession up to that point.                                     *)
LEMMA StopThenCloseKeeps ==
  ASSUME IInv, NEW t \in TaskIds, NEW c \in Connections, NEW ts, TasksTyped(ts),
         OthersGoOn(tasks, ts, t), ~ Recovers(tasks[t]), ~ Leaves(tasks[t]),
         ts[t].kind = "disconnect", ts[t].conn = c,
         StopThenClose(ts, t, c), starts' \in 0..MaxStarts,
         UNCHANGED <<tunnelVars, currentSessionId, recoveringConnectionIds, inFlight, deaths>>
  PROVE  IInv'
<1>1. Before
  BY InvariantGives
<1>2. CASE StopHealthMonitor(ts, t, c, "stopped") /\ UNCHANGED <<activeSessions, open>>
  <2>1. "stopped" \in Points
    BY DEF Points
  <2>2. /\ TasksTyped(tasks')
        /\ OthersGoOn(ts, tasks', t)
        /\ tasks'[t].kind = "disconnect" /\ tasks'[t].pc = "stopped"
        /\ healthMonitors' \in [Connections -> TaskIds \cup {0}]
    BY <1>1, <1>2, <2>1, StopHealthMonitorIs DEF Before, TypeOK
  <2>3. \A u \in TaskIds \ {t} : SameRole(tasks[u], tasks'[u])
    BY <2>2 DEF OthersGoOn, SameRole
  <2>4. SameRole(tasks[t], tasks'[t])
    BY <2>2 DEF SameRole, Recovers, Leaves, HasItsDriver
  <2>5. Quiet
    BY <2>2, <2>3, <2>4 DEF Quiet, AllGoOn
  <2>6. SessionsGoOn
    BY <1>1, <1>2, SameSessionsGoOn DEF Before
  <2>7. TypeOK'
    BY <1>1, <1>2, <2>2, <2>6 DEF Before, TypeOK, SessionsGoOn, tunnelVars
  <2> QED
    BY <2>5, <2>6, <2>7, QuietStep
<1>3. CASE NoMonitor(c) /\ CloseSession(ts, t, c)
  BY <1>3, CloseSessionKeeps DEF NoMonitor
<1> QED
  BY <1>2, <1>3 DEF StopThenClose

(* disconnectSession starts, and closes at once where it need not wait.      *)
LEMMA DisconnectSessionKeeps ==
  ASSUME IInv, NEW c \in Connections, DisconnectSession(c)
  PROVE  IInv'
<1> DEFINE t == AnyOf(FreeTasks)
           task == [Task("disconnect", c, "closeTunnel") EXCEPT !.driver = activeSessions[c].driver]
           ts == [tasks EXCEPT ![t] = task]
<1>1. Before
  BY InvariantGives
<1>2. t \in TaskIds /\ tasks[t].kind = "none"
  BY AnyOfIsIn DEF DisconnectSession, CanStart, FreeTasks
<1>3. starts' \in 0..MaxStarts
  BY <1>1, LimitsAssumption DEF Before, TypeOK, DisconnectSession, CanStart
<1>4. \/ c \in Tunnelled /\ tasks' = ts /\ UNCHANGED <<activeSessions, healthMonitors, open>>
      \/ StopThenClose(ts, t, c)
  BY DEF DisconnectSession
<1>5. UNCHANGED <<tunnelVars, currentSessionId, recoveringConnectionIds, inFlight, deaths>>
  BY DEF DisconnectSession
<1>6. /\ task \in Tasks
      /\ task.kind = "disconnect" /\ task.conn = c /\ task.pc = "closeTunnel"
  <2>1. Task("disconnect", c, "closeTunnel") \in Tasks
    BY TaskTyped DEF Kinds, Points
  <2>2. activeSessions[c].driver \in DriverIds \cup {0}
    BY <1>1 DEF Before, TypeOK, Sessions
  <2> QED
    BY <2>1, <2>2 DEF Task, Tasks
<1> HIDE DEF t, task
<1>7. ts \in [TaskIds -> Tasks] /\ ts[t] = task /\ \A u \in TaskIds \ {t} : ts[u] = tasks[u]
  BY <1>1, <1>2, <1>6 DEF Before, TasksTyped
<1> HIDE DEF ts
<1>8. TasksTyped(ts) /\ OthersGoOn(tasks, ts, t)
  BY <1>1, <1>6, <1>7 DEF Before, TasksTyped, OthersGoOn, SameRole
<1>9. SameRole(tasks[t], ts[t]) /\ ~ Recovers(tasks[t]) /\ ~ Leaves(tasks[t])
  BY <1>2, <1>6, <1>7 DEF SameRole, Recovers, Leaves, HasItsDriver
<1>10. CASE tasks' = ts /\ UNCHANGED <<activeSessions, healthMonitors, open>>
  <2>1. Quiet
    BY <1>8, <1>9, <1>10 DEF Quiet, OthersGoOn, AllGoOn
  <2>2. SessionsGoOn
    BY <1>1, <1>10, SameSessionsGoOn DEF Before
  <2>3. TypeOK'
    BY <1>1, <1>3, <1>5, <1>10, <2>1, <2>2 DEF Before, TypeOK, Quiet, SessionsGoOn, tunnelVars
  <2> QED
    BY <1>2, <1>5, <2>1, <2>2, <2>3, QuietStep
<1>11. CASE StopThenClose(ts, t, c)
  BY <1>2, <1>3, <1>5, <1>6, <1>7, <1>8, <1>9, <1>11, StopThenCloseKeeps
<1> QED
  BY <1>4, <1>10, <1>11

(* It stops the monitor after the tunnel.                                    *)
LEMMA StopBeforeCloseKeeps ==
  ASSUME IInv, NEW t \in TaskIds, StopBeforeClose(t)
  PROVE  IInv'
<1>1. Before /\ tasks[t].kind = "disconnect" /\ tasks[t].pc = "stopMonitor"
  BY InvariantGives DEF StopBeforeClose, IsTask
<1>2. /\ Conn(t) \in Connections /\ tasks[t].conn = Conn(t)
      /\ ~ Recovers(tasks[t]) /\ ~ Leaves(tasks[t])
  BY <1>1, ConnTyped DEF Before, Recovers, Leaves, Conn
<1>3. OthersGoOn(tasks, tasks, t) /\ TasksTyped(tasks) /\ starts \in 0..MaxStarts
  BY <1>1 DEF Before, TypeOK, OthersGoOn, SameRole
<1> QED
  BY <1>1, <1>2, <1>3, StopThenCloseKeeps DEF StopBeforeClose

(* It goes on after the monitor.                                             *)
LEMMA StoppedBeforeCloseKeeps ==
  ASSUME IInv, NEW t \in TaskIds, StoppedBeforeClose(t)
  PROVE  IInv'
<1>1. Before /\ tasks[t].kind = "disconnect" /\ tasks[t].pc = "stopped"
  BY InvariantGives DEF StoppedBeforeClose, MonitorStopped, IsTask
<1>2. /\ Conn(t) \in Connections /\ tasks[t].conn = Conn(t)
      /\ ~ Recovers(tasks[t]) /\ ~ Leaves(tasks[t])
  BY <1>1, ConnTyped DEF Before, Recovers, Leaves, Conn
<1>3. OthersGoOn(tasks, tasks, t) /\ TasksTyped(tasks) /\ starts \in 0..MaxStarts
  BY <1>1 DEF Before, TypeOK, OthersGoOn, SameRole
<1> QED
  BY <1>1, <1>2, <1>3, CloseSessionKeeps DEF StoppedBeforeClose

(* It picks the next session.                                                *)
LEMMA LeaveSessionKeeps ==
  ASSUME IInv, NEW t \in TaskIds, LeaveSession(t)
  PROVE  IInv'
<1>1. Before /\ tasks[t].kind = "disconnect" /\ ~ Recovers(tasks[t])
  BY InvariantGives DEF LeaveSession, IsTask, Recovers
<1>2. /\ TasksTyped(tasks')
      /\ OthersGoOn(tasks, tasks', t)
      /\ tasks'[t].kind = "none" /\ tasks'[t].pc = "none"
  BY <1>1, EndedIs DEF Before, LeaveSession, End
<1>3. SessionsGoOn
  BY <1>1, SameSessionsGoOn DEF Before, LeaveSession
<1>4. CurrentIsActive' /\ currentSessionId' \in Connections \cup {NoConnection}
  BY <1>1, <1>2, <1>3, NextIsActive DEF LeaveSession, SessionsGoOn
<1>5. TypeOK'
  BY <1>1, <1>2, <1>3, <1>4 DEF Before, TypeOK, SessionsGoOn, LeaveSession, tunnelVars
<1>6. OneRecovery'
  <2>1. \A u \in TaskIds : /\ Recovers(tasks[u]) <=> Recovers(tasks'[u])
                           /\ Recovers(tasks[u]) => tasks'[u].conn = tasks[u].conn
    BY <1>1, <1>2 DEF OthersGoOn, SameRole, Recovers
  <2> QED
    BY <1>1, <2>1 DEF Before, LeaveSession, OneRecovery, Recovering, TasksOf, Live, Recovers, Conn
<1> QED
  BY <1>2, <1>3, <1>4, <1>5, <1>6, Together DEF SessionsGoOn, HasItsDriver

(* connectToSession finds a driver or starts to make one.                    *)
LEMMA ConnectToSessionKeeps ==
  ASSUME IInv, NEW t \in TaskIds, ConnectToSession(t)
  PROVE  IInv'
<1>1. /\ Before /\ tasks[t].kind \in Connecting
      /\ tasks[t].kind = "recover" => Recovers(tasks[t])
      /\ ~ Leaves(tasks[t])
  BY InvariantGives DEF ConnectToSession, IsTask, Connecting, Recovers, Leaves
<1>2. PICK c \in Connections : c = Conn(t)
  BY <1>1, ConnTyped DEF Before, Connecting
<1>3. currentSessionId' = c
  BY <1>2 DEF ConnectToSession
<1>4. CASE activeSessions[c].driver # 0
  <2>1. tasks' = Returned(tasks, t, TRUE) /\ Unmark(t, TRUE) /\ UNCHANGED activeSessions
    BY <1>2, <1>4 DEF ConnectToSession
  <2>2. /\ TasksTyped(tasks')
        /\ OthersGoOn(tasks, tasks', t)
        /\ HasItsDriver(tasks'[t])
        /\ Recovers(tasks'[t]) <=> Recovers(tasks[t]) /\ ~ RecoveryIsOver(t, TRUE)
        /\ Recovers(tasks'[t]) => tasks'[t].conn = tasks[t].conn
    BY <1>1, <2>1, ReturnedIs DEF Before
  <2>3. OneRecovery'
    BY <1>1, <2>1, <2>2, RecoveryReturns DEF Before
  <2>4. SessionsGoOn
    BY <1>1, <2>1, SameSessionsGoOn DEF Before
  <2>5. CurrentIsActive'
    <3>1. HasSession(c)
      BY <1>1, <1>2, <1>4 DEF Before, NoSessionNoDriver
    <3> QED
      BY <1>3, <2>1, <3>1 DEF CurrentIsActive, HasSession
  <2>6. TypeOK'
    BY <1>1, <1>3, <2>1, <2>2, <2>4
         DEF Before, TypeOK, SessionsGoOn, ConnectToSession, Unmark, tunnelVars
  <2> QED
    BY <2>2, <2>3, <2>4, <2>5, <2>6, Together DEF SessionsGoOn
<1>5. CASE activeSessions[c].driver = 0
  <2>1. /\ Goto(t, IF c \in Tunnelled THEN "openTunnel" ELSE "prepare")
        /\ activeSessions' = IF HasSession(c) THEN activeSessions
                             ELSE [activeSessions EXCEPT ![c].status = "connecting"]
        /\ UNCHANGED recoveringConnectionIds
    BY <1>2, <1>5 DEF ConnectToSession
  <2>2. Quiet
    <3>1. "openTunnel" \in Points /\ "prepare" \in Points
      BY DEF Points
    <3> QED
      BY <1>1, <2>1, <3>1, GotoQuietly DEF Before, Connecting, Recovers
  <2>3. OneRecovery'
    BY <1>1, <2>1, <2>2, RecoveriesGoOn DEF Before, Quiet
  <2>4. activeSessions' \in [Connections -> Sessions] /\ NoSessionNoDriver' /\ HasSession(c)'
    BY <1>1, <1>2, <2>1 DEF Before, TypeOK, Sessions, Statuses, NoSessionNoDriver, HasSession
  <2>5. CurrentIsActive'
    BY <1>3, <2>4 DEF CurrentIsActive, HasSession
  <2>6. TypeOK'
    BY <1>1, <1>3, <2>1, <2>2, <2>4 DEF Before, TypeOK, Quiet, ConnectToSession, tunnelVars
  <2>7. OthersGoOn(tasks, tasks', t) /\ HasItsDriver(tasks'[t])
    <3>1. HasItsDriver(tasks[t])
      BY InvariantGives
    <3> QED
      BY <2>2, <3>1 DEF Quiet, AllGoOn, OthersGoOn, SameRole
  <2> QED
    BY <2>3, <2>4, <2>5, <2>6, <2>7, Together
<1> QED
  BY <1>4, <1>5

(* What is left when connectToSession fails.                               *)
LEMMA FailureReturns ==
  ASSUME TasksTyped(tasks), NEW t \in TaskIds, NEW c \in Connections, NEW closes \in BOOLEAN,
         closes => FreeTasks # {},
         tasks[t].kind \in Connecting,
         tasks[t].kind = "recover" => Recovers(tasks[t]),
         tasks' = Spawned(Returned(Emptied(t), t, FALSE), closes, Closer(c))
  PROVE  /\ TasksTyped(tasks')
         /\ OthersGoOn(tasks, tasks', t)
         /\ HasItsDriver(tasks'[t])
         /\ ~ Leaves(tasks'[t])
         /\ Recovers(tasks'[t]) <=> Recovers(tasks[t]) /\ ~ RecoveryIsOver(t, FALSE)
         /\ Recovers(tasks'[t]) => tasks'[t].conn = tasks[t].conn
<1> DEFINE es == Emptied(t)
           rs == Returned(es, t, FALSE)
<1>1. /\ TasksTyped(es)
      /\ OthersGoOn(tasks, es, t)
      /\ \A u \in TaskIds : /\ es[u].kind = tasks[u].kind /\ es[u].conn = tasks[u].conn
                            /\ es[u].pc = tasks[u].pc /\ es[u].retry = tasks[u].retry
  BY EmptiedIs
<1> HIDE DEF es
<1>2. /\ es[t].kind \in Connecting
      /\ Recovers(es[t]) <=> Recovers(tasks[t])
      /\ es[t].kind = "recover" => Recovers(es[t])
      /\ \A u \in TaskIds : es[u].kind = tasks[u].kind /\ es[u].retry = tasks[u].retry
  BY <1>1 DEF Recovers
<1>3. /\ TasksTyped(rs)
      /\ OthersGoOn(es, rs, t)
      /\ \A u \in TaskIds \ {t} : rs[u].kind = es[u].kind
      /\ ~ Leaves(rs[t])
      /\ HasItsDriver(rs[t])
      /\ Recovers(rs[t]) <=> Recovers(es[t]) /\ ~ RecoveryIsOver(t, FALSE)
      /\ Recovers(rs[t]) => rs[t].conn = es[t].conn
  BY <1>1, <1>2, ReturnedIs
<1>4. tasks' = Spawned(rs, closes, Closer(c))
  BY DEF es
<1> HIDE DEF rs
<1>5. closes => \E m \in TaskIds : rs[m].kind = "none"
  <2>1. \A m \in FreeTasks : m \in TaskIds \ {t} /\ tasks[m].kind = "none"
    BY DEF FreeTasks, Connecting
  <2> QED
    BY <1>1, <1>3, <2>1
<1>6. TasksTyped(tasks') /\ AllGoOn(rs, tasks')
  BY <1>3, <1>4, <1>5, SpawnedIs
<1>7. ASSUME NEW u \in TaskIds \ {t}
      PROVE  SameRole(tasks[u], tasks'[u])
  <2>1. SameRole(tasks[u], es[u]) /\ SameRole(es[u], rs[u]) /\ SameRole(rs[u], tasks'[u])
    BY <1>1, <1>3, <1>6 DEF OthersGoOn, AllGoOn
  <2> QED
    BY <2>1 DEF SameRole
<1>8. /\ Recovers(tasks'[t]) <=> Recovers(rs[t])
      /\ Recovers(rs[t]) => tasks'[t].conn = rs[t].conn
      /\ ~ Leaves(tasks'[t])
      /\ HasItsDriver(tasks'[t])
  BY <1>3, <1>6 DEF AllGoOn, SameRole
<1> QED
  BY <1>1, <1>2, <1>3, <1>6, <1>7, <1>8 DEF OthersGoOn

(* The other sessions stay.                                                  *)
LEMMA RemovedSession ==
  ASSUME TypeOK, NoSessionNoDriver, NEW c \in Connections, RemoveSessionEntry(c)
  PROVE  /\ activeSessions' \in [Connections -> Sessions]
         /\ NoSessionNoDriver'
         /\ \A d \in Connections \ {c} : HasSession(d) => HasSession(d)'
BY DEF RemoveSessionEntry, TypeOK, Sessions, Statuses, NoSession, NoSessionNoDriver, HasSession

(* connectToSession fails before it connects.                                *)
LEMMA ConnectFailsEarlyKeeps ==
  ASSUME IInv, NEW t \in TaskIds, ConnectFailsEarly(t)
  PROVE  IInv'
<1> DEFINE c == Conn(t)
           closes == tasks[t].pc = "create" /\ c \in Tunnelled
<1>1. /\ Before /\ tasks[t].kind \in Connecting
      /\ tasks[t].kind = "recover" => Recovers(tasks[t])
  BY InvariantGives DEF ConnectFailsEarly, Recovers
<1>2. c \in Connections
  BY <1>1, ConnTyped DEF Before, Connecting
<1>3. /\ closes => FreeTasks # {}
      /\ tasks' = Spawned(Returned(Emptied(t), t, FALSE), closes, Closer(c))
      /\ closes \in BOOLEAN
  BY DEF ConnectFailsEarly
<1>4. /\ TasksTyped(tasks')
      /\ OthersGoOn(tasks, tasks', t)
      /\ HasItsDriver(tasks'[t])
      /\ Recovers(tasks'[t]) <=> Recovers(tasks[t]) /\ ~ RecoveryIsOver(t, FALSE)
      /\ Recovers(tasks'[t]) => tasks'[t].conn = tasks[t].conn
  <2> HIDE DEF c, closes
  <2> QED
    BY <1>1, <1>2, <1>3, FailureReturns DEF Before
<1>5. OneRecovery'
  BY <1>1, <1>4, RecoveryReturns DEF Before, ConnectFailsEarly
<1>6. activeSessions' \in [Connections -> Sessions] /\ NoSessionNoDriver'
  BY <1>1, <1>2, RemovedSession DEF Before, ConnectFailsEarly
<1>7. CurrentIsActive'
  BY DEF CurrentIsActive, ConnectFailsEarly
<1>8. TypeOK'
  BY <1>1, <1>4, <1>6 DEF Before, TypeOK, ConnectFailsEarly, Unmark, tunnelVars
<1> QED
  BY <1>4, <1>5, <1>6, <1>7, <1>8, Together

(* connectToSession fails to connect.                                        *)
LEMMA ConnectFailsKeeps ==
  ASSUME IInv, NEW t \in TaskIds, ConnectFails(t)
  PROVE  IInv'
<1> DEFINE c == Conn(t)
           closes == c \in Tunnelled
<1>1. /\ Before /\ tasks[t].kind \in Connecting
      /\ tasks[t].kind = "recover" => Recovers(tasks[t])
  BY InvariantGives DEF ConnectFails, IsTask, Recovers
<1>2. c \in Connections
  BY <1>1, ConnTyped DEF Before, Connecting
<1>3. /\ closes => FreeTasks # {}
      /\ tasks' = Spawned(Returned(Emptied(t), t, FALSE), closes, Closer(c))
      /\ closes \in BOOLEAN
  BY DEF ConnectFails
<1>4. /\ TasksTyped(tasks')
      /\ OthersGoOn(tasks, tasks', t)
      /\ HasItsDriver(tasks'[t])
      /\ Recovers(tasks'[t]) <=> Recovers(tasks[t]) /\ ~ RecoveryIsOver(t, FALSE)
      /\ Recovers(tasks'[t]) => tasks'[t].conn = tasks[t].conn
  <2> HIDE DEF c, closes
  <2> QED
    BY <1>1, <1>2, <1>3, FailureReturns DEF Before
<1>5. OneRecovery'
  BY <1>1, <1>4, RecoveryReturns DEF Before, ConnectFails
<1>6. /\ activeSessions' \in [Connections -> Sessions]
      /\ NoSessionNoDriver'
      /\ \A d \in Connections \ {c} : HasSession(d) => HasSession(d)'
  BY <1>1, <1>2, RemovedSession DEF Before, ConnectFails
<1>7. CurrentIsActive' /\ currentSessionId' \in Connections \cup {NoConnection}
  BY <1>1, <1>4, <1>6, NextIsActive DEF ConnectFails
<1>8. TypeOK'
  BY <1>1, <1>4, <1>6, <1>7 DEF Before, TypeOK, ConnectFails, Unmark, tunnelVars
<1> QED
  BY <1>4, <1>5, <1>6, <1>7, <1>8, Together

(* The end of a successful connect.                                        *)
LEMMA SuccessReturns ==
  ASSUME IInv, NEW t \in TaskIds, TasksTyped(tasks'), SessionsGoOn, TypeOK',
         tasks[t].kind \in Connecting \cup {"reconnect"},
         OthersGoOn(tasks, tasks', t),
         HasItsDriver(tasks'[t]),
         tasks[t].kind = "recover" => Recovers(tasks[t]),
         Recovers(tasks'[t]) <=> Recovers(tasks[t]) /\ ~ RecoveryIsOver(t, TRUE),
         Recovers(tasks'[t]) => tasks'[t].conn = tasks[t].conn,
         Unmark(t, TRUE), currentSessionId' = currentSessionId
  PROVE  IInv'
<1>1. Before /\ ~ Leaves(tasks[t])
  BY InvariantGives DEF Connecting, Leaves
<1>2. OneRecovery'
  BY <1>1, RecoveryReturns DEF Before
<1>3. CurrentIsActive'
  BY <1>1, CurrentStays DEF Before
<1> QED
  BY <1>2, <1>3, Together DEF SessionsGoOn

(* The driver is there: a monitor is started, or the connect is over.        *)
LEMMA ConnectedKeeps ==
  ASSUME IInv, NEW t \in TaskIds, Connected(t)
  PROVE  IInv'
<1> DEFINE c == Conn(t)
           es == Emptied(t)
<1>1. /\ Before /\ tasks[t].kind \in Connecting \cup {"reconnect"} /\ tasks[t].kind # "none"
      /\ tasks[t].pc = "install"
      /\ tasks[t].kind = "recover" => Recovers(tasks[t])
      /\ ~ Leaves(tasks[t])
  BY InvariantGives DEF Connected, IsTask, Connecting, Recovers, Leaves
<1>2. /\ c \in Connections
      /\ tasks[t].driver \in DriverIds \cup {0}
      /\ tasks[t].tunnel \in TunnelIds \cup {0}
  BY <1>1, ConnTyped DEF Before
<1>3. SessionsGoOn
  BY <1>1, <1>2, InstallDriverGoesOn DEF Before, Connected
<1>4. /\ TasksTyped(es)
      /\ OthersGoOn(tasks, es, t)
      /\ \A u \in TaskIds : /\ es[u].kind = tasks[u].kind /\ es[u].conn = tasks[u].conn
                            /\ es[u].pc = tasks[u].pc /\ es[u].retry = tasks[u].retry
  BY <1>1, EmptiedIs DEF Before
<1>5. CASE /\ StopHealthMonitor(es, t, c, "startMonitor") \/ StartMonitor(es, t, c)
           /\ UNCHANGED recoveringConnectionIds
  <2>1. \E pc \in {"startMonitor", "started"} :
          /\ TasksTyped(tasks')
          /\ OthersGoOn(es, tasks', t)
          /\ tasks'[t].kind = es[t].kind /\ tasks'[t].conn = es[t].conn /\ tasks'[t].pc = pc
          /\ healthMonitors' \in [Connections -> TaskIds \cup {0}]
    <3> HIDE DEF c, es
    <3>1. "startMonitor" \in Points
      BY DEF Points
    <3>2. healthMonitors \in [Connections -> TaskIds \cup {0}]
      BY <1>1 DEF Before, TypeOK
    <3>3. TasksTyped(tasks) /\ es[t].kind # "none"
      BY <1>1, <1>4 DEF Before
    <3>4. CASE StopHealthMonitor(es, t, c, "startMonitor")
      BY <1>2, <1>4, <3>1, <3>2, <3>4, StopHealthMonitorIs
    <3>5. CASE StartMonitor(es, t, c)
      BY <1>2, <1>4, <3>2, <3>3, <3>5, StartMonitorIs
    <3> QED
      BY <1>5, <3>4, <3>5
  <2> HIDE DEF es
  <2>2. \A u \in TaskIds \ {t} : SameRole(tasks[u], tasks'[u])
    BY <1>4, <2>1 DEF OthersGoOn, SameRole
  <2>3. SameRole(tasks[t], tasks'[t])
    BY <1>1, <1>4, <2>1 DEF SameRole, Recovers, Leaves, HasItsDriver
  <2>4. Quiet
    BY <2>1, <2>2, <2>3 DEF Quiet, AllGoOn
  <2>5. TypeOK'
    BY <1>1, <1>3, <1>5, <2>1 DEF Before, TypeOK, SessionsGoOn, Connected, tunnelVars
  <2> QED
    BY <1>3, <1>5, <2>4, <2>5, QuietStep DEF Connected
<1>6. CASE /\ tasks' = IF tasks[t].kind = "reconnect" THEN Ended(tasks, t) ELSE Returned(es, t, TRUE)
           /\ Unmark(t, TRUE)
           /\ UNCHANGED healthMonitors
  <2>1. /\ TasksTyped(tasks')
        /\ OthersGoOn(tasks, tasks', t)
        /\ HasItsDriver(tasks'[t])
        /\ Recovers(tasks'[t]) <=> Recovers(tasks[t]) /\ ~ RecoveryIsOver(t, TRUE)
        /\ Recovers(tasks'[t]) => tasks'[t].conn = tasks[t].conn
    <3>1. CASE tasks[t].kind = "reconnect"
      <4>1. /\ TasksTyped(tasks')
            /\ OthersGoOn(tasks, tasks', t)
            /\ tasks'[t].kind = "none" /\ tasks'[t].pc = "none"
        BY <1>1, <1>6, <3>1, EndedIs DEF Before
      <4> QED
        BY <3>1, <4>1 DEF Recovers, HasItsDriver
    <3>2. CASE tasks[t].kind # "reconnect"
      <4> HIDE DEF es
      <4>1. Recovers(es[t]) <=> Recovers(tasks[t])
        BY <1>4 DEF Recovers
      <4>2. es[t].kind \in Connecting /\ (es[t].kind = "recover" => Recovers(es[t]))
        BY <1>1, <1>4, <3>2, <4>1
      <4>3. /\ TasksTyped(tasks')
            /\ OthersGoOn(es, tasks', t)
            /\ HasItsDriver(tasks'[t])
            /\ Recovers(tasks'[t]) <=> Recovers(es[t]) /\ ~ RecoveryIsOver(t, TRUE)
            /\ Recovers(tasks'[t]) => tasks'[t].conn = es[t].conn
        BY <1>4, <1>6, <3>2, <4>2, ReturnedIs
      <4>4. OthersGoOn(tasks, tasks', t)
        BY <1>4, <4>3 DEF OthersGoOn, SameRole
      <4> QED
        BY <1>4, <4>1, <4>3, <4>4
    <3> QED
      BY <3>1, <3>2
  <2>2. TypeOK'
    BY <1>1, <1>3, <1>6, <2>1 DEF Before, TypeOK, SessionsGoOn, Connected, Unmark, tunnelVars
  <2> QED
    BY <1>1, <1>3, <1>6, <2>1, <2>2, SuccessReturns DEF Connected
<1> QED
  BY <1>5, <1>6 DEF Connected

(* The monitor is started and the connect is over.                           *)
LEMMA MonitorStartedKeeps ==
  ASSUME IInv, NEW t \in TaskIds, MonitorStarted(t)
  PROVE  IInv'
<1>1. /\ Before /\ tasks[t].kind \in Connecting \cup {"reconnect"}
      /\ tasks[t].kind = "recover" => Recovers(tasks[t])
  BY InvariantGives DEF MonitorStarted, IsTask, Recovers
<1>2. tasks' = IF tasks[t].kind = "reconnect" THEN Ended(tasks, t) ELSE Returned(tasks, t, TRUE)
  BY DEF MonitorStarted
<1>3. /\ TasksTyped(tasks')
      /\ OthersGoOn(tasks, tasks', t)
      /\ HasItsDriver(tasks'[t])
      /\ Recovers(tasks'[t]) <=> Recovers(tasks[t]) /\ ~ RecoveryIsOver(t, TRUE)
      /\ Recovers(tasks'[t]) => tasks'[t].conn = tasks[t].conn
  <2>1. CASE tasks[t].kind = "reconnect"
    <3>1. /\ TasksTyped(tasks')
          /\ OthersGoOn(tasks, tasks', t)
          /\ tasks'[t].kind = "none" /\ tasks'[t].pc = "none"
      BY <1>1, <1>2, <2>1, EndedIs DEF Before
    <3> QED
      BY <2>1, <3>1 DEF Recovers, HasItsDriver
  <2>2. CASE tasks[t].kind # "reconnect"
    BY <1>1, <1>2, <2>2, ReturnedIs DEF Before
  <2> QED
    BY <2>1, <2>2
<1>4. SessionsGoOn
  BY <1>1, SameSessionsGoOn DEF Before, MonitorStarted
<1>5. TypeOK'
  BY <1>1, <1>3, <1>4 DEF Before, TypeOK, SessionsGoOn, MonitorStarted, Unmark, tunnelVars
<1> QED
  BY <1>1, <1>3, <1>4, <1>5, SuccessReturns DEF MonitorStarted

(* A recovery begins if there is none.                                       *)
LEMMA BeginRecoveryKeeps ==
  ASSUME IInv, NEW t \in TaskIds, BeginRecovery(t)
  PROVE  IInv'
<1> DEFINE c == Conn(t)
<1>1. /\ Before /\ tasks[t].kind = "recover" /\ tasks[t].pc = "recover"
      /\ ~ Recovers(tasks[t]) /\ ~ Leaves(tasks[t])
  BY InvariantGives DEF BeginRecovery, IsTask, Recovers, Leaves
<1>2. c \in Connections
  BY <1>1, ConnTyped DEF Before
<1>3. CASE /\ ~ MayRecover(c) /\ End(t)
           /\ UNCHANGED <<recoveringConnectionIds, healthMonitors, activeSessions, open>>
  <2>1. Quiet
    BY <1>1, <1>3, EndQuietly DEF Before
  <2>2. SessionsGoOn
    BY <1>1, <1>3, SameSessionsGoOn DEF Before
  <2>3. TypeOK'
    BY <1>1, <1>3, <2>1, <2>2 DEF Before, TypeOK, Quiet, SessionsGoOn, BeginRecovery, tunnelVars
  <2> QED
    BY <1>3, <2>1, <2>2, <2>3, QuietStep DEF BeginRecovery
<1>4. CASE /\ MayRecover(c)
           /\ recoveringConnectionIds' = recoveringConnectionIds \cup {c}
           /\ \/ /\ StopHealthMonitor(tasks, t, c, "stopped")
                 /\ UNCHANGED <<activeSessions, open>>
              \/ NoMonitor(c) /\ DropStaleDriver(t)
  <2>1. /\ TasksTyped(tasks')
        /\ OthersGoOn(tasks, tasks', t)
        /\ tasks'[t].kind = "recover" /\ tasks'[t].conn = tasks[t].conn
        /\ tasks'[t].pc \in {"stopped", "backoff"}
        /\ healthMonitors' \in [Connections -> TaskIds \cup {0}]
        /\ SessionsGoOn
        /\ open' \in [Connections -> SUBSET DriverIds]
    <3>1. "stopped" \in Points /\ "backoff" \in Points
      BY DEF Points
    <3>2. CASE StopHealthMonitor(tasks, t, c, "stopped") /\ UNCHANGED <<activeSessions, open>>
      <4>1. SessionsGoOn
        BY <1>1, <3>2, SameSessionsGoOn DEF Before
      <4>2. open' \in [Connections -> SUBSET DriverIds]
        BY <1>1, <3>2 DEF Before, TypeOK
      <4>3. TasksTyped(tasks) /\ healthMonitors \in [Connections -> TaskIds \cup {0}]
        BY <1>1 DEF Before, TypeOK
      <4> HIDE DEF c
      <4> QED
        BY <1>1, <1>2, <3>1, <3>2, <4>1, <4>2, <4>3, StopHealthMonitorIs
    <3>3. CASE NoMonitor(c) /\ DropStaleDriver(t)
      <4>1. SessionsGoOn
        BY <1>1, <1>2, <3>3, DropStaleDriverGoesOn DEF Before
      <4>2. open' \in [Connections -> SUBSET DriverIds]
        BY <1>1, <3>3 DEF Before, TypeOK, DropStaleDriver, Disconnect
      <4>3. healthMonitors' \in [Connections -> TaskIds \cup {0}]
        BY <1>1, <3>3 DEF Before, TypeOK, NoMonitor
      <4>4. Goto(t, "backoff") /\ TasksTyped(tasks)
        BY <1>1, <3>3 DEF Before, DropStaleDriver
      <4> QED
        BY <1>1, <3>1, <4>1, <4>2, <4>3, <4>4, GotoIs
    <3> QED
      BY <1>4, <3>2, <3>3
  <2>2. Recovers(tasks'[t]) /\ HasItsDriver(tasks'[t])
    BY <2>1 DEF Recovers, HasItsDriver
  <2>3. OneRecovery'
    BY <1>1, <1>4, <2>1, <2>2, RecoveryBegins DEF Before, MayRecover
  <2>4. CurrentIsActive'
    BY <1>1, <2>1, CurrentStays DEF Before, BeginRecovery
  <2>5. TypeOK'
    BY <1>1, <1>2, <1>4, <2>1 DEF Before, TypeOK, SessionsGoOn, BeginRecovery, tunnelVars
  <2> QED
    BY <2>1, <2>2, <2>3, <2>4, <2>5, Together DEF SessionsGoOn
<1> QED
  BY <1>3, <1>4 DEF BeginRecovery

-------------------------------------------------------------------------------
(***************************************************************************)
(* The system.                                                             *)
(***************************************************************************)
(* The invariant holds at first.                                             *)
LEMMA InitHolds == Init => IInv
<1> SUFFICES ASSUME Init PROVE IInv
  OBVIOUS
<1>1. NoTask \in Tasks /\ NoTask.kind = "none" /\ NoTask.pc = "none"
  BY TaskTyped DEF NoTask, Task, Kinds, Points
<1>2. \A t \in TaskIds : tasks[t] = NoTask
  BY DEF Init
<1>3. TasksTyped(tasks)
  BY <1>1, <1>2 DEF Init, TasksTyped
<1>4. TypeOK
  BY <1>3, LimitsAssumption DEF TypeOK, Init, TunnelsInit, NoSession, Sessions, Statuses
<1>5. OneRecovery
  BY <1>1, <1>2 DEF Init, OneRecovery, Recovering, TasksOf, Live
<1>6. CurrentIsActive
  BY DEF Init, CurrentIsActive
<1>7. NoSessionNoDriver
  BY DEF Init, NoSessionNoDriver, NoSession
<1>8. \A t \in TaskIds : HasItsDriver(tasks[t])
  BY <1>1, <1>2 DEF HasItsDriver
<1> QED
  BY <1>4, <1>5, <1>6, <1>7, <1>8 DEF IInv

(* Every step of a task keeps it.                                            *)
LEMMA StepKeeps ==
  ASSUME IInv, NEW t \in TaskIds, Step(t)
  PROVE  IInv'
<1>1. CASE Opening(t)
  BY <1>1, BeginTunnelKeeps, TunnelOpensKeeps, DriverCreatedKeeps, DriverOpensKeeps,
     ConnectedKeeps, OldMonitorStoppedKeeps, MonitorStartedKeeps DEF Opening
<1>2. CASE Connect(t)
  BY <1>2, DedupKeeps, LeaveDedupKeeps, ConnectToSessionKeeps, PreparedKeeps,
     ConnectFailsEarlyKeeps, ConnectFailsKeeps DEF Connect
<1>3. CASE Close(t)
  BY <1>3, CloseItsTunnelKeeps, StopBeforeCloseKeeps, StoppedBeforeCloseKeeps,
     LeaveSessionKeeps DEF Close
<1>4. CASE Reconnect(t)
  BY <1>4, BeginReconnectKeeps, StopBeforeReconnectKeeps, StoppedBeforeReconnectKeeps,
     ReconnectFailsKeeps DEF Reconnect
<1>5. CASE Recover(t)
  BY <1>5, TunnelDeathHandledKeeps, ValidateTunnelKeeps, BeginRecoveryKeeps,
     StoppedBeforeRecoveryKeeps DEF Recover
<1>6. CASE Monitor(t)
  BY <1>6, MonitorWakesKeeps, PingAnsweredKeeps, AttemptReconnectKeeps, BackoffOverKeeps,
     ReconnectDriverKeeps, ReconnectDriverFailsKeeps, ReconnectedKeeps, HealthyKeeps DEF Monitor
<1> QED
  BY <1>1, <1>2, <1>3, <1>4, <1>5, <1>6 DEF Step

(* The start of every operation keeps it.                                    *)
LEMMA OperationKeeps ==
  ASSUME IInv, NEW c \in Connections, Operation(c)
  PROVE  IInv'
BY EnsureConnectedKeeps, DisconnectSessionKeeps, SwitchDatabaseKeeps, SystemDidWakeKeeps,
   TunnelDiesKeeps DEF Operation

(* Every step of the system keeps it.                                        *)
LEMMA NextKeeps == IInv /\ [Next]_vars => IInv'
<1> SUFFICES ASSUME IInv, [Next]_vars PROVE IInv'
  OBVIOUS
<1>1. CASE Next
  BY <1>1, OperationKeeps, StepKeeps DEF Next
<1>2. CASE UNCHANGED vars
  <2>1. TypeOK'
    BY <1>2 DEF vars, IInv, TypeOK
  <2>2. OneRecovery'
    BY <1>2 DEF vars, IInv, OneRecovery, Recovering, TasksOf, Live, Conn
  <2>3. CurrentIsActive'
    BY <1>2 DEF vars, IInv, CurrentIsActive, HasSession, Live, Conn, IsTask
  <2>4. NoSessionNoDriver' /\ (\A t \in TaskIds : HasItsDriver(tasks[t]))'
    BY <1>2 DEF vars, IInv, NoSessionNoDriver, HasSession, HasItsDriver
  <2> QED
    BY <2>1, <2>2, <2>3, <2>4 DEF IInv
<1> QED
  BY <1>1, <1>2

(* So it always holds: the theorems below are its parts.                     *)
THEOREM SpecKeepsIInv == Spec => []IInv
BY InitHolds, NextKeeps, PTL DEF Spec

(* Whatever the number of connections and tasks, every variable of the     *)
(* connection manager keeps its type, and every task has its connection.   *)
THEOREM ConnectionTypesCorrect == Spec => []TypeOK
<1>1. IInv => TypeOK
  BY DEF IInv
<1> QED
  BY <1>1, SpecKeepsIInv, PTL

(* However death callbacks, wake-ups, connects and disconnects fall, a     *)
(* connection has one recovery at most, and it is marked for exactly as    *)
(* long (DatabaseManager+SSH.swift:105-110).                               *)
THEOREM AtMostOneRecovery == Spec => []OneRecovery
<1>1. IInv => OneRecovery
  BY DEF IInv
<1> QED
  BY <1>1, SpecKeepsIInv, PTL

(* The current session is an active one, or is being left by the           *)
(* disconnect that removed it (DatabaseManager+Sessions.swift:336-350).    *)
THEOREM CurrentIsAlwaysActive == Spec => []CurrentIsActive
<1>1. IInv => CurrentIsActive
  BY DEF IInv
<1> QED
  BY <1>1, SpecKeepsIInv, PTL
=============================================================================
