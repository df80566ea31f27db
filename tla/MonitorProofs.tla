----------------------------- MODULE MonitorProofs -----------------------------
(***************************************************************************)
(* Proofs about the health monitors and the sessions that are connecting:  *)
(* What a step does to the tasks, the sessions, the drivers and the        *)
(* monitors, and what follows for whoever works on a connection.           *)
(***************************************************************************)
EXTENDS ConnectionProofs

(* The awaits in the making of a tunnel and a driver.                      *)
Making == {"openTunnel", "tunnelling", "prepare", "create", "opening", "install"}

IsMonitor(task) == task.kind = "monitor"

-------------------------------------------------------------------------------
(***************************************************************************)
(* What a step does to the tasks it is not about.                          *)
(***************************************************************************)
Alike(a, b) ==
  /\ a.kind = b.kind /\ a.conn = b.conn /\ a.pc = b.pc
  /\ a.driver = b.driver /\ a.cancelled = b.cancelled

(* A task stays as it is, but stops waiting for a task that ends; and the  *)
(* clean-up of a tunnel may start where there is none.                     *)
Undisturbed(u) ==
  \/ /\ tasks[u].kind = "none"
     /\ \/ tasks'[u].kind = "none"
        \/ tasks'[u].kind = "closer" /\ tasks'[u].pc = "closeTunnel" /\ tasks'[u].driver = 0
  \/ /\ tasks[u].kind # "none"
     /\ Alike(tasks[u], tasks'[u])
     /\ \/ tasks'[u].waits = tasks[u].waits
        \/ tasks[u].waits \in TaskIds /\ ~ IsMonitor(tasks'[tasks[u].waits])

Apart(S) == \A u \in TaskIds \ S : Undisturbed(u)

(* A task goes on to another await.                                        *)
Went(t, pc, driver) ==
  /\ tasks[t].kind # "none"
  /\ tasks'[t].kind = tasks[t].kind /\ tasks'[t].conn = tasks[t].conn
  /\ tasks'[t].cancelled = tasks[t].cancelled /\ tasks'[t].waits = tasks[t].waits
  /\ tasks'[t].pc = pc /\ tasks'[t].driver = driver

(* A task is over: it has ended, or connectToSession has returned to one   *)
(* that goes on.                                                           *)
Over(t) ==
  /\ tasks'[t].kind \in {"none", "closer"}
  /\ tasks'[t].kind = "closer" => tasks'[t].pc = "closeTunnel" /\ tasks'[t].driver = 0


(* A step that changes one task and no other.                              *)
LEMMA OnlyOne ==
  ASSUME NEW t \in TaskIds, \A u \in TaskIds \ {t} : tasks'[u] = tasks[u]
  PROVE  Apart({t})
BY DEF Apart, Undisturbed, Alike

LEMMA GotoDoes ==
  ASSUME TasksTyped(tasks), NEW t \in TaskIds, tasks[t].kind # "none", NEW pc, Goto(t, pc)
  PROVE  Went(t, pc, tasks[t].driver) /\ Apart({t})
<1>1. tasks'[t] = [tasks[t] EXCEPT !.pc = pc] /\ \A u \in TaskIds \ {t} : tasks'[u] = tasks[u]
  BY DEF TasksTyped, Goto
<1>2. tasks[t] \in Tasks
  BY DEF TasksTyped
<1>3. Went(t, pc, tasks[t].driver)
  BY <1>1, <1>2 DEF Went, Tasks
<1> QED
  BY <1>1, <1>3, OnlyOne

(* Taking a driver or a tunnel on the way.                                 *)
LEMMA TakesDriver ==
  ASSUME TasksTyped(tasks), NEW t \in TaskIds, tasks[t].kind # "none", NEW pc, NEW d,
         tasks' = [tasks EXCEPT ![t].driver = d, ![t].pc = pc]
  PROVE  Went(t, pc, d) /\ Apart({t})
<1> DEFINE r == tasks[t]
           s == tasks'[t]
<1>1. s = [r EXCEPT !.driver = d, !.pc = pc]
  BY DEF TasksTyped
<1>2. r \in Tasks
  BY DEF TasksTyped
<1>3. \A u \in TaskIds \ {t} : tasks'[u] = tasks[u]
  BY DEF TasksTyped
<1>4. /\ s.kind = r.kind /\ s.conn = r.conn /\ s.cancelled = r.cancelled /\ s.waits = r.waits
      /\ s.driver = d /\ s.pc = pc
  <2> HIDE DEF r, s
  <2> QED
    BY <1>1, <1>2 DEF Tasks
<1> QED
  BY <1>3, <1>4, OnlyOne DEF Went

LEMMA TakesTunnel ==
  ASSUME TasksTyped(tasks), NEW t \in TaskIds, tasks[t].kind # "none", NEW pc, NEW n,
         tasks' = [tasks EXCEPT ![t].tunnel = n, ![t].pc = pc]
  PROVE  Went(t, pc, tasks[t].driver) /\ Apart({t})
<1> DEFINE r == tasks[t]
           s == tasks'[t]
<1>1. s = [r EXCEPT !.tunnel = n, !.pc = pc]
  BY DEF TasksTyped
<1>2. r \in Tasks
  BY DEF TasksTyped
<1>3. \A u \in TaskIds \ {t} : tasks'[u] = tasks[u]
  BY DEF TasksTyped
<1>4. /\ s.kind = r.kind /\ s.conn = r.conn /\ s.cancelled = r.cancelled /\ s.waits = r.waits
      /\ s.driver = r.driver /\ s.pc = pc
  <2> HIDE DEF r, s
  <2> QED
    BY <1>1, <1>2 DEF Tasks
<1> QED
  BY <1>3, <1>4, OnlyOne DEF Went

LEMMA DropsBoth ==
  ASSUME TasksTyped(tasks), NEW t \in TaskIds, tasks[t].kind # "none", NEW pc,
         tasks' = [Emptied(t) EXCEPT ![t].pc = pc]
  PROVE  Went(t, pc, 0) /\ Apart({t})
<1> DEFINE r == tasks[t]
           s == tasks'[t]
<1>1. s = [r EXCEPT !.driver = 0, !.tunnel = 0, !.pc = pc]
  BY DEF TasksTyped, Emptied
<1>2. r \in Tasks
  BY DEF TasksTyped
<1>3. \A u \in TaskIds \ {t} : tasks'[u] = tasks[u]
  BY DEF TasksTyped, Emptied
<1>4. /\ s.kind = r.kind /\ s.conn = r.conn /\ s.cancelled = r.cancelled /\ s.waits = r.waits
      /\ s.driver = 0 /\ s.pc = pc
  <2> HIDE DEF r, s
  <2> QED
    BY <1>1, <1>2 DEF Tasks
<1> QED
  BY <1>3, <1>4, OnlyOne DEF Went

(* ts is what the tasks are, but for t, which may have ended.              *)
LetGo(ts, t) ==
  \A u \in TaskIds \ {t} :
    \/ ts[u] = tasks[u]
    \/ tasks[u].waits = t /\ ts[u] = [tasks[u] EXCEPT !.waits = 0]

LEMMA LetGoIsApart ==
  ASSUME TasksTyped(tasks), NEW t \in TaskIds, ~ IsMonitor(tasks'[t]), LetGo(tasks', t)
  PROVE  Apart({t})
<1> SUFFICES ASSUME NEW u \in TaskIds \ {t} PROVE Undisturbed(u)
  BY DEF Apart
<1>1. tasks[u] \in Tasks
  BY DEF TasksTyped
<1> QED
  BY <1>1 DEF LetGo, Undisturbed, Alike, Tasks

LEMMA EndedDoes ==
  ASSUME NEW ts, TasksTyped(ts), NEW t \in TaskIds, \A u \in TaskIds \ {t} : ts[u] = tasks[u]
  PROVE  Ended(ts, t)[t].kind = "none" /\ LetGo(Ended(ts, t), t)
<1>1. Ended(ts, t)[t] = NoTask /\ NoTask.kind = "none"
  BY DEF Ended, NoTask, Task
<1>2. ASSUME NEW u \in TaskIds \ {t}
      PROVE  \/ Ended(ts, t)[u] = tasks[u]
             \/ tasks[u].waits = t /\ Ended(ts, t)[u] = [tasks[u] EXCEPT !.waits = 0]
  <2>1. Ended(ts, t)[u] = [tasks[u] EXCEPT !.waits = IF @ = t THEN 0 ELSE @]
    BY DEF Ended
  <2>2. ts[u] \in Tasks /\ ts[u] = tasks[u]
    BY DEF TasksTyped
  <2>3. CASE tasks[u].waits = t
    BY <2>1, <2>3
  <2>4. CASE tasks[u].waits # t
    <3>1. [tasks[u] EXCEPT !.waits = tasks[u].waits] = tasks[u]
      BY <2>2 DEF Tasks
    <3> QED
      BY <2>1, <2>4, <3>1
  <2> QED
    BY <2>3, <2>4
<1> QED
  BY <1>1, <1>2 DEF LetGo

LEMMA EndDoes ==
  ASSUME TasksTyped(tasks), NEW t \in TaskIds, End(t)
  PROVE  Over(t) /\ tasks'[t].kind = "none" /\ Apart({t})
<1>1. tasks'[t].kind = "none" /\ LetGo(tasks', t)
  BY EndedDoes DEF End
<1> QED
  BY <1>1, LetGoIsApart DEF Over, IsMonitor

(* connectToSession has returned to task t of ts, and us are the tasks then. *)
ReturnedTo(t, ts, us, success) ==
  /\ DOMAIN us = TaskIds
  /\ LetGo(us, t)
  /\ \/ us[t].kind = "none" /\ tasks[t].kind = "recover"
     \/ /\ us[t].kind = ts[t].kind /\ us[t].conn = ts[t].conn
        /\ us[t].cancelled = ts[t].cancelled /\ us[t].waits = ts[t].waits
        /\ us[t].driver = ts[t].driver
        /\ \/ tasks[t].kind = "ensure" /\ us[t].pc = "leave"
           \/ tasks[t].kind = "recover" /\ ~ success /\ us[t].pc = "backoff"

LEMMA ReturnedDoes ==
  ASSUME NEW ts, TasksTyped(ts), NEW t \in TaskIds, \A u \in TaskIds \ {t} : ts[u] = tasks[u],
         ts[t].kind = tasks[t].kind, tasks[t].kind \in Connecting, NEW success \in BOOLEAN
  PROVE  ReturnedTo(t, ts, Returned(ts, t, success), success)
<1> DEFINE us == Returned(ts, t, success)
<1>0. ts[t] \in Tasks
  BY DEF TasksTyped
<1>1. CASE tasks[t].kind = "ensure"
  <2>1. us = [ts EXCEPT ![t].pc = "leave"]
    BY <1>1 DEF Returned, RecoveryIsOver
  <2>2. us[t] = [ts[t] EXCEPT !.pc = "leave"] /\ (\A u \in TaskIds \ {t} : us[u] = ts[u])
    BY <2>1 DEF TasksTyped
  <2>5. DOMAIN us = TaskIds
    BY <2>1 DEF TasksTyped
  <2> HIDE DEF us
  <2>3. LetGo(us, t)
    BY <2>2 DEF LetGo
  <2>4. /\ us[t].kind = ts[t].kind /\ us[t].conn = ts[t].conn
        /\ us[t].cancelled = ts[t].cancelled /\ us[t].waits = ts[t].waits
        /\ us[t].driver = ts[t].driver /\ us[t].pc = "leave"
    BY <1>0, <2>2 DEF Tasks
  <2> QED
    BY <1>1, <2>3, <2>4, <2>5 DEF us, ReturnedTo
<1>2. CASE tasks[t].kind = "recover" /\ RecoveryIsOver(t, success)
  <2>1. us = Ended(ts, t)
    BY <1>2 DEF Returned
  <2>2. DOMAIN us = TaskIds
    BY <2>1 DEF Ended
  <2> QED
    BY <1>2, <2>1, <2>2, EndedDoes DEF ReturnedTo
<1>3. CASE tasks[t].kind = "recover" /\ ~ RecoveryIsOver(t, success)
  <2>1. us = [ts EXCEPT ![t].pc = "backoff", ![t].retry = @ + 1] /\ ~ success
    BY <1>3 DEF Returned, RecoveryIsOver
  <2>2. /\ us[t] = [ts[t] EXCEPT !.pc = "backoff", !.retry = @ + 1]
        /\ \A u \in TaskIds \ {t} : us[u] = ts[u]
    BY <2>1 DEF TasksTyped
  <2>5. DOMAIN us = TaskIds
    BY <2>1 DEF TasksTyped
  <2> HIDE DEF us
  <2>3. LetGo(us, t)
    BY <2>2 DEF LetGo
  <2>4. /\ us[t].kind = ts[t].kind /\ us[t].conn = ts[t].conn
        /\ us[t].cancelled = ts[t].cancelled /\ us[t].waits = ts[t].waits
        /\ us[t].driver = ts[t].driver /\ us[t].pc = "backoff"
    BY <1>0, <2>2 DEF Tasks
  <2> QED
    BY <1>3, <2>1, <2>3, <2>4, <2>5 DEF us, ReturnedTo
<1> QED
  BY <1>1, <1>2, <1>3 DEF Connecting

(* What a task holds in another value of the tasks.                        *)
Holding(ts, t, driver) ==
  /\ TasksTyped(ts)
  /\ \A u \in TaskIds \ {t} : ts[u] = tasks[u]
  /\ ts[t].kind = tasks[t].kind /\ ts[t].conn = tasks[t].conn
  /\ ts[t].cancelled = tasks[t].cancelled /\ ts[t].waits = tasks[t].waits
  /\ ts[t].driver = driver

LEMMA EmptiedDoes ==
  ASSUME TasksTyped(tasks), NEW t \in TaskIds
  PROVE  Holding(Emptied(t), t, 0)
<1> DEFINE ts == Emptied(t)
           r  == tasks[t]
           s  == ts[t]
<1>1. TasksTyped(ts)
  BY EmptiedIs
<1>2. \A u \in TaskIds \ {t} : ts[u] = tasks[u]
  BY DEF TasksTyped, Emptied
<1>3. s = [r EXCEPT !.driver = 0, !.tunnel = 0]
  BY DEF TasksTyped, Tasks, Emptied
<1>4. r \in Tasks
  BY DEF TasksTyped
<1>5. /\ s.kind = r.kind /\ s.conn = r.conn /\ s.cancelled = r.cancelled /\ s.waits = r.waits
      /\ s.driver = 0
  <2> HIDE DEF r, s
  <2> QED
    BY <1>3, <1>4 DEF Tasks
<1> QED
  BY <1>1, <1>2, <1>5 DEF Holding

(* It has returned with success.                                           *)
Succeeded(t, driver) ==
  \/ Over(t) /\ tasks[t].kind = "recover"
  \/ Went(t, "leave", driver) /\ tasks[t].kind = "ensure"

LEMMA SuccessDoes ==
  ASSUME TasksTyped(tasks), NEW t \in TaskIds, tasks[t].kind \in Connecting,
         NEW ts, NEW driver, Holding(ts, t, driver), tasks' = Returned(ts, t, TRUE)
  PROVE  Apart({t}) /\ Succeeded(t, driver)
<1>1. ReturnedTo(t, ts, tasks', TRUE)
  BY ReturnedDoes DEF Holding
<1>2. ~ IsMonitor(tasks'[t])
  BY <1>1 DEF IsMonitor, Connecting, ReturnedTo, Holding
<1>3. Apart({t})
  BY <1>1, <1>2, LetGoIsApart DEF ReturnedTo
<1>4. tasks[t].kind # "none"
  BY DEF Connecting
<1> QED
  BY <1>1, <1>3, <1>4 DEF Succeeded, Over, Went, ReturnedTo, Holding

(* It has failed, and the clean-up of the tunnel may have been started.    *)
LEMMA FailureDoes ==
  ASSUME TasksTyped(tasks), NEW t \in TaskIds, tasks[t].kind \in Connecting,
         NEW condition \in BOOLEAN, condition => FreeTasks # {},
         tasks' = Spawned(Returned(Emptied(t), t, FALSE), condition, Closer(Conn(t)))
  PROVE  /\ Apart({t})
         /\ \/ Over(t)
            \/ Went(t, "leave", 0) /\ tasks[t].kind = "ensure"
            \/ Went(t, "backoff", 0) /\ tasks[t].kind = "recover"
<1> DEFINE ts == Emptied(t)
           us == Returned(ts, t, FALSE)
           m  == AnyOf({u \in TaskIds : us[u].kind = "none"})
<1>1. Holding(ts, t, 0)
  BY EmptiedDoes
<1> HIDE DEF ts
<1>2. ReturnedTo(t, ts, us, FALSE)
  BY <1>1, ReturnedDoes DEF Holding
<1>3. tasks' = Spawned(us, condition, Closer(Conn(t)))
  BY DEF ts
<1> HIDE DEF us
<1>4. ~ IsMonitor(us[t])
  BY <1>1, <1>2 DEF IsMonitor, Connecting, ReturnedTo, Holding
<1>5. CASE condition
  <2>1. m \in TaskIds /\ us[m].kind = "none"
    <3>1. PICK n \in FreeTasks : TRUE
      BY <1>5
    <3>2. n \in TaskIds \ {t} /\ tasks[n].kind = "none" /\ tasks[n] \in Tasks
      BY DEF FreeTasks, Connecting, TasksTyped
    <3>3. us[n].kind = "none"
      BY <1>2, <3>2 DEF ReturnedTo, LetGo, Tasks
    <3> QED
      BY <3>2, <3>3, AnyOfIsIn
  <2>2. tasks' = [us EXCEPT ![m] = Closer(Conn(t))]
    BY <1>3, <1>5 DEF Spawned
  <2> HIDE DEF m
  <2>3. /\ tasks'[m] = Closer(Conn(t))
        /\ \A u \in TaskIds \ {m} : tasks'[u] = us[u]
    BY <1>2, <2>1, <2>2 DEF ReturnedTo
  <2>4. tasks'[m].kind = "closer" /\ tasks'[m].pc = "closeTunnel" /\ tasks'[m].driver = 0
    <3> DEFINE x == tasks'[m]
    <3>1. x = Closer(Conn(t))
      BY <2>3
    <3> HIDE DEF x
    <3>2. x.kind = "closer" /\ x.pc = "closeTunnel" /\ x.driver = 0
      BY <3>1 DEF Closer, Task
    <3> QED
      BY <3>2 DEF x
  <2>5. ~ IsMonitor(tasks'[t])
    BY <1>4, <2>1, <2>3, <2>4 DEF IsMonitor
  <2>6. ASSUME NEW u \in TaskIds \ {t} PROVE Undisturbed(u)
    <3>1. tasks[u] \in Tasks
      BY DEF TasksTyped
    <3>2. us[u].kind = tasks[u].kind
      BY <1>2, <3>1 DEF ReturnedTo, LetGo, Tasks
    <3>3. CASE u = m
      BY <2>1, <2>4, <3>2, <3>3 DEF Undisturbed
    <3>4. CASE u # m
      <4>1. CASE tasks'[u] = tasks[u]
        BY <4>1 DEF Undisturbed, Alike
      <4>2. CASE tasks[u].waits = t /\ tasks'[u] = [tasks[u] EXCEPT !.waits = 0]
        <5>1. tasks[u].kind # "none" => Alike(tasks[u], tasks'[u])
          BY <3>1, <4>2 DEF Alike, Tasks
        <5>2. tasks'[u].kind = tasks[u].kind
          BY <3>1, <4>2 DEF Tasks
        <5> QED
          BY <2>5, <4>2, <5>1, <5>2 DEF Undisturbed
      <4> QED
        BY <1>2, <2>3, <3>4, <4>1, <4>2 DEF ReturnedTo, LetGo
    <3> QED
      BY <3>3, <3>4
  <2>7. \/ Over(t)
        \/ Went(t, "leave", 0) /\ tasks[t].kind = "ensure"
        \/ Went(t, "backoff", 0) /\ tasks[t].kind = "recover"
    <3>1. CASE us[t].kind = "none"
      BY <2>1, <2>3, <2>4, <3>1 DEF Over
    <3>2. CASE us[t].kind # "none"
      <4>1. tasks'[t] = us[t]
        BY <2>1, <2>3, <3>2
      <4> QED
        BY <1>1, <1>2, <3>2, <4>1 DEF Went, ReturnedTo, Holding, Connecting
    <3> QED
      BY <3>1, <3>2
  <2> QED
    BY <2>6, <2>7 DEF Apart
<1>6. CASE ~ condition
  <2>1. tasks' = us
    BY <1>3, <1>6 DEF Spawned
  <2>2. Apart({t})
    BY <1>2, <1>4, <2>1, LetGoIsApart DEF ReturnedTo
  <2> QED
    BY <1>1, <1>2, <2>1, <2>2 DEF Over, Went, ReturnedTo, Holding, Connecting
<1> QED
  BY <1>5, <1>6

-------------------------------------------------------------------------------
(***************************************************************************)
(* What a step does to the monitors.                                       *)
(***************************************************************************)
(* Task t has stopped monitor m of connection c, and awaits its end.       *)
StopsMonitor(t, c, m) ==
  /\ m \in TaskIds \ {t} /\ healthMonitors[c] = m
  /\ healthMonitors' = [healthMonitors EXCEPT ![c] = 0]
  /\ tasks'[m].kind = tasks[m].kind /\ tasks'[m].conn = tasks[m].conn
  /\ tasks'[m].pc = tasks[m].pc /\ tasks'[m].driver = tasks[m].driver
  /\ tasks'[m].waits = tasks[m].waits /\ tasks'[m].cancelled
  /\ tasks'[t].waits = m
  /\ Apart({t, m})

LEMMA StopHealthMonitorDoes ==
  ASSUME NEW ts, TasksTyped(ts), TasksTyped(tasks), NEW t \in TaskIds, NEW c \in Connections, NEW pc,
         healthMonitors \in [Connections -> TaskIds \cup {0}],
         \A u \in TaskIds \ {t} : ts[u] = tasks[u],
         healthMonitors[c] # t,
         StopHealthMonitor(ts, t, c, pc)
  PROVE  /\ \E m : StopsMonitor(t, c, m)
         /\ tasks'[t].kind = ts[t].kind /\ tasks'[t].conn = ts[t].conn
         /\ tasks'[t].cancelled = ts[t].cancelled
         /\ tasks'[t].driver = ts[t].driver /\ tasks'[t].pc = pc
<1> DEFINE m == healthMonitors[c]
<1>1. m \in TaskIds \ {t}
  BY DEF StopHealthMonitor
<1>2. /\ tasks' = [u \in TaskIds |->
                     IF u = t THEN [ts[t] EXCEPT !.waits = m, !.pc = pc]
                     ELSE IF u = m THEN [ts[m] EXCEPT !.cancelled = TRUE]
                     ELSE ts[u]]
      /\ healthMonitors' = [healthMonitors EXCEPT ![c] = 0]
  BY DEF StopHealthMonitor
<1>3. healthMonitors[c] = m
  OBVIOUS
<1> HIDE DEF m
<1>4. /\ tasks'[t].kind = ts[t].kind /\ tasks'[t].conn = ts[t].conn
      /\ tasks'[t].cancelled = ts[t].cancelled
      /\ tasks'[t].driver = ts[t].driver /\ tasks'[t].pc = pc
      /\ tasks'[t].waits = m
  <2> DEFINE r == ts[t]
             s == tasks'[t]
  <2>1. s = [r EXCEPT !.waits = m, !.pc = pc]
    BY <1>2
  <2>2. r \in Tasks
    BY DEF TasksTyped
  <2> HIDE DEF r, s
  <2>3. /\ s.kind = r.kind /\ s.conn = r.conn /\ s.cancelled = r.cancelled
        /\ s.driver = r.driver /\ s.pc = pc /\ s.waits = m
    BY <2>1, <2>2 DEF Tasks
  <2> QED
    BY <2>3 DEF r, s
<1>5. /\ tasks'[m].kind = tasks[m].kind /\ tasks'[m].conn = tasks[m].conn
      /\ tasks'[m].pc = tasks[m].pc /\ tasks'[m].driver = tasks[m].driver
      /\ tasks'[m].waits = tasks[m].waits /\ tasks'[m].cancelled
  <2> DEFINE r == tasks[m]
             s == tasks'[m]
  <2>1. s = [r EXCEPT !.cancelled = TRUE]
    BY <1>1, <1>2
  <2>2. r \in Tasks
    BY <1>1 DEF TasksTyped
  <2> HIDE DEF r, s
  <2>3. /\ s.kind = r.kind /\ s.conn = r.conn /\ s.pc = r.pc
        /\ s.driver = r.driver /\ s.waits = r.waits /\ s.cancelled
    BY <2>1, <2>2 DEF Tasks
  <2> QED
    BY <2>3 DEF r, s
<1>6. Apart({t, m})
  <2>1. \A u \in TaskIds \ {t, m} : tasks'[u] = tasks[u]
    BY <1>2
  <2> QED
    BY <2>1 DEF Apart, Undisturbed, Alike
<1>7. StopsMonitor(t, c, m)
  BY <1>1, <1>2, <1>3, <1>4, <1>5, <1>6 DEF StopsMonitor
<1> QED
  BY <1>4, <1>7

(* Task t has started monitor m of connection c.                           *)
StartsMonitor(t, c, m) ==
  /\ m \in TaskIds \ {t} /\ tasks[m].kind = "none"
  /\ healthMonitors' = [healthMonitors EXCEPT ![c] = m]
  /\ IsMonitor(tasks'[m]) /\ tasks'[m].conn = c /\ tasks'[m].pc = "sleep"
  /\ ~ tasks'[m].cancelled /\ tasks'[m].driver = 0
  /\ Apart({t, m})

LEMMA StartMonitorDoes ==
  ASSUME NEW ts, TasksTyped(ts), TasksTyped(tasks), NEW t \in TaskIds, NEW c \in Connections,
         \A u \in TaskIds \ {t} : ts[u] = tasks[u],
         tasks[t].kind # "none",
         StartMonitor(ts, t, c)
  PROVE  /\ \E m : StartsMonitor(t, c, m)
         /\ tasks'[t].kind = ts[t].kind /\ tasks'[t].conn = ts[t].conn
         /\ tasks'[t].cancelled = ts[t].cancelled /\ tasks'[t].waits = ts[t].waits
         /\ tasks'[t].driver = ts[t].driver /\ tasks'[t].pc = "started"
<1> DEFINE m == AnyOf(FreeTasks)
<1>1. m \in TaskIds \ {t} /\ tasks[m].kind = "none"
  BY AnyOfIsIn DEF StartMonitor, FreeTasks
<1>2. /\ tasks' = [ts EXCEPT ![m] = Task("monitor", c, "sleep"), ![t].pc = "started"]
      /\ healthMonitors' = [healthMonitors EXCEPT ![c] = m]
  BY DEF StartMonitor
<1> HIDE DEF m
<1>3. /\ tasks'[m] = Task("monitor", c, "sleep")
      /\ \A u \in TaskIds \ {t, m} : tasks'[u] = ts[u]
  BY <1>1, <1>2 DEF TasksTyped
<1>4. /\ tasks'[t].kind = ts[t].kind /\ tasks'[t].conn = ts[t].conn
      /\ tasks'[t].cancelled = ts[t].cancelled /\ tasks'[t].waits = ts[t].waits
      /\ tasks'[t].driver = ts[t].driver /\ tasks'[t].pc = "started"
  <2> DEFINE r == ts[t]
             s == tasks'[t]
  <2>1. s = [r EXCEPT !.pc = "started"]
    BY <1>1, <1>2 DEF TasksTyped
  <2>2. r \in Tasks
    BY DEF TasksTyped
  <2> HIDE DEF r, s
  <2>3. /\ s.kind = r.kind /\ s.conn = r.conn /\ s.cancelled = r.cancelled
        /\ s.waits = r.waits /\ s.driver = r.driver /\ s.pc = "started"
    BY <2>1, <2>2 DEF Tasks
  <2> QED
    BY <2>3 DEF r, s
<1>5. /\ IsMonitor(tasks'[m]) /\ tasks'[m].conn = c /\ tasks'[m].pc = "sleep"
      /\ ~ tasks'[m].cancelled /\ tasks'[m].driver = 0
  BY <1>3 DEF Task, IsMonitor
<1>6. Apart({t, m})
  BY <1>3 DEF Apart, Undisturbed, Alike
<1>7. StartsMonitor(t, c, m)
  BY <1>1, <1>2, <1>5, <1>6 DEF StartsMonitor
<1> QED
  BY <1>4, <1>7

(* An operation has started a task.                                        *)
LEMMA AddedDoes ==
  ASSUME TasksTyped(tasks), FreeTasks # {}, NEW task,
         tasks' = [tasks EXCEPT ![AnyOf(FreeTasks)] = task]
  PROVE  \E t \in TaskIds : tasks[t].kind = "none" /\ tasks'[t] = task /\ Apart({t})
<1> DEFINE t == AnyOf(FreeTasks)
<1>1. t \in TaskIds /\ tasks[t].kind = "none"
  BY AnyOfIsIn DEF FreeTasks
<1>2. tasks' = [tasks EXCEPT ![t] = task]
  OBVIOUS
<1> HIDE DEF t
<1>3. tasks'[t] = task /\ \A u \in TaskIds \ {t} : tasks'[u] = tasks[u]
  BY <1>1, <1>2 DEF TasksTyped
<1>4. Apart({t})
  BY <1>1, <1>3, OnlyOne
<1> QED
  BY <1>1, <1>3, <1>4

-------------------------------------------------------------------------------
(***************************************************************************)
(* What every step does, for a task t of connection c.                     *)
(***************************************************************************)
At(t, c, kinds, pcs) == tasks[t].kind \in kinds /\ tasks[t].conn = c /\ tasks[t].pc \in pcs

SameRest == UNCHANGED <<activeSessions, open, healthMonitors, inFlight>>

(* disconnectSession has been called.                                      *)
DisconnectBegins(t, c) ==
  /\ tasks[t].kind = "none"
  /\ "disconnect" \in Operations /\ MayStart("disconnect", c) /\ HasSession(c)

OperationBegins(t, c) ==
  /\ tasks[t].kind = "none" /\ tasks'[t].conn = c /\ Apart({t}) /\ SameRest
  /\ \/ /\ tasks'[t].kind = "ensure" /\ tasks'[t].pc = "dedup" /\ tasks'[t].driver = 0
        /\ "ensure" \in Operations /\ MayStart("ensure", c) /\ activeSessions[c].driver = 0
     \/ /\ tasks'[t].kind = "reconnect" /\ tasks'[t].pc = "reconnect" /\ tasks'[t].driver = 0
        /\ "reconnect" \in Operations /\ MayStart("reconnect", c) /\ activeSessions[c].driver # 0
     \/ /\ tasks'[t].kind = "recover" /\ tasks'[t].pc = "woken" /\ tasks'[t].driver = 0
        /\ "wake" \in Operations /\ MayStart("wake", c) /\ IsConnected(c)
     \/ /\ tasks'[t].kind = "recover" /\ tasks'[t].pc = "died" /\ tasks'[t].driver = 0
        /\ MaxDeaths # 0 /\ MayStart("death", c)
     \/ /\ tasks'[t].kind = "disconnect" /\ tasks'[t].pc = "closeTunnel"
        /\ tasks'[t].driver = activeSessions[c].driver
        /\ DisconnectBegins(t, c) /\ c \in Tunnelled

(* ensureConnected leads the connects of its connection.                   *)
Leads(t, c) ==
  /\ At(t, c, {"ensure"}, {"dedup"}) /\ c \notin inFlight
  /\ Went(t, "connect", tasks[t].driver) /\ Apart({t})
  /\ inFlight' = inFlight \cup {c} /\ UNCHANGED <<activeSessions, open, healthMonitors>>

LeavesInFlight(t, c) ==
  /\ At(t, c, {"ensure"}, {"leave"}) /\ Over(t) /\ Apart({t})
  /\ inFlight' = inFlight \ {c} /\ UNCHANGED <<activeSessions, open, healthMonitors>>

Goes(t, c, pc) ==
  /\ Went(t, pc, tasks[t].driver) /\ Apart({t}) /\ SameRest
  /\ \/ /\ At(t, c, Openers, {"openTunnel", "tunnelling", "prepare"})
        /\ pc \in {"tunnelling", "prepare", "create"}
     \/ At(t, c, {"ensure"}, {"connect"}) /\ pc = "leave" /\ activeSessions[c].driver # 0
     \/ At(t, c, {"disconnect"}, {"closeTunnel"}) /\ pc = "stopMonitor"
     \/ At(t, c, {"recover"}, {"died", "woken"}) /\ pc = "recover"
     \/ At(t, c, {"monitor"}, {"sleep"}) /\ pc = "ping" /\ ~ tasks[t].cancelled
     \/ At(t, c, {"monitor"}, {"ping"}) /\ pc = "sleep"
     \/ At(t, c, {"monitor"}, {"closeTunnel"}) /\ pc = "failed"
     \/ At(t, c, {"monitor"}, {"backoff"}) /\ pc = "failed" /\ ~ HasSession(c)

(* The connection is made.                                                 *)
Succeeds(t, driver) ==
  /\ Apart({t})
  /\ \/ Succeeded(t, driver)
     \/ Over(t) /\ tasks[t].kind = "reconnect"

MonitorHasStarted(t, c) ==
  /\ At(t, c, Connecting \cup {"reconnect"}, {"started"})
  /\ Succeeds(t, tasks[t].driver) /\ SameRest

Finishes(t, c) ==
  /\ Over(t) /\ Apart({t}) /\ SameRest
  /\ \/ At(t, c, {"ensure"}, {"dedup"})
     \/ At(t, c, {"recover"}, {"backoff"}) /\ activeSessions[c].driver # 0
     \/ At(t, c, {"recover"}, {"died", "woken", "recover"})
     \/ At(t, c, {"reconnect"}, {"reconnect"})
     \/ At(t, c, {"disconnect"}, {"invalidate"})
     \/ At(t, c, {"closer"}, {"closeTunnel"})
     \/ At(t, c, {"monitor"}, {"sleep", "backoff"}) /\ tasks[t].cancelled

MakesDriver(t, c) ==
  /\ At(t, c, Openers, {"create"}) /\ Apart({t}) /\ SameRest
  /\ \E d \in FreshDriver(c) : Went(t, "opening", d)

OpensDriver(t, c) ==
  /\ At(t, c, Openers, {"opening"}) /\ Apart({t})
  /\ Went(t, "install", tasks[t].driver)
  /\ open' = [open EXCEPT ![c] = @ \cup {tasks[t].driver}]
  /\ UNCHANGED <<activeSessions, healthMonitors, inFlight>>

(* connectToSession begins to connect.                                     *)
Enters(t, c) ==
  /\ At(t, c, {"ensure"}, {"connect"}) \/ At(t, c, {"recover"}, {"backoff"})
  /\ activeSessions[c].driver = 0
  /\ activeSessions' = IF HasSession(c) THEN activeSessions
                       ELSE [activeSessions EXCEPT ![c].status = "connecting"]
  /\ \E pc \in {"openTunnel", "prepare"} : Went(t, pc, tasks[t].driver)
  /\ Apart({t}) /\ UNCHANGED <<open, healthMonitors, inFlight>>

(* It fails.                                                               *)
Fails(t, c) ==
  /\ At(t, c, Connecting, {"tunnelling", "prepare", "create", "opening"})
  /\ RemoveSessionEntry(c)
  /\ \/ Over(t)
     \/ Went(t, "leave", 0) /\ tasks[t].kind = "ensure"
     \/ Went(t, "backoff", 0) /\ tasks[t].kind = "recover"
  /\ Apart({t}) /\ UNCHANGED <<open, healthMonitors, inFlight>>

(* The caller of stopHealthMonitor or startHealthMonitor goes on.          *)
GoesTo(t, c, pc, driver) ==
  /\ tasks'[t].kind = tasks[t].kind /\ tasks'[t].conn = c
  /\ tasks'[t].pc = pc /\ tasks'[t].driver = driver

Installs(t, c) ==
  /\ At(t, c, Connecting \cup {"reconnect"}, {"install"})
  /\ InstallDriver(c, tasks[t].driver, tasks[t].tunnel)
  /\ UNCHANGED <<open, inFlight>>
  /\ \/ \E m : StopsMonitor(t, c, m) /\ GoesTo(t, c, "startMonitor", 0)
     \/ /\ c \in Monitored /\ healthMonitors[c] = 0
        /\ \E m : StartsMonitor(t, c, m) /\ GoesTo(t, c, "started", 0)
     \/ c \notin Monitored /\ Succeeds(t, 0) /\ UNCHANGED healthMonitors

StartsAnother(t, c) ==
  /\ At(t, c, Connecting \cup {"reconnect"}, {"startMonitor"}) /\ tasks[t].waits = 0
  /\ \E m : StartsMonitor(t, c, m) /\ GoesTo(t, c, "started", tasks[t].driver)
  /\ UNCHANGED <<activeSessions, open, inFlight>>

StopsFirst(t, c) ==
  /\ \E m : StopsMonitor(t, c, m)
  /\ tasks'[t].conn = c /\ tasks'[t].pc = "stopped"
  /\ \/ /\ DisconnectBegins(t, c) /\ c \notin Tunnelled
        /\ tasks'[t].kind = "disconnect" /\ tasks'[t].driver = activeSessions[c].driver
     \/ /\ \/ At(t, c, {"disconnect", "reconnect"}, {"stopMonitor"})
           \/ At(t, c, {"recover"}, {"recover"}) /\ HasSession(c) /\ c \notin recoveringConnectionIds
        /\ tasks'[t].kind = tasks[t].kind /\ tasks'[t].driver = tasks[t].driver
  /\ UNCHANGED <<activeSessions, open, inFlight>>

(* Its monitor has been stopped, or there is none.                         *)
StoppedAt(t, c, kind, pc) ==
  \/ At(t, c, {kind}, {pc}) /\ healthMonitors[c] = 0
  \/ At(t, c, {kind}, {"stopped"}) /\ tasks[t].waits = 0

ClosesSession(t, c) ==
  /\ \/ DisconnectBegins(t, c) /\ healthMonitors[c] = 0 /\ Disconnect(c, activeSessions[c].driver)
     \/ StoppedAt(t, c, "disconnect", "stopMonitor") /\ Disconnect(c, tasks[t].driver)
  /\ tasks'[t].kind = "disconnect" /\ tasks'[t].conn = c
  /\ tasks'[t].pc = "invalidate" /\ tasks'[t].driver = 0
  /\ RemoveSessionEntry(c) /\ Apart({t}) /\ UNCHANGED <<healthMonitors, inFlight>>

BeginsReconnect(t, c) ==
  /\ At(t, c, {"reconnect"}, {"reconnect"}) /\ HasSession(c)
  /\ SetStatus(c, "connecting")
  /\ Went(t, "stopMonitor", tasks[t].driver)
  /\ Apart({t}) /\ UNCHANGED <<open, healthMonitors, inFlight>>

ClosesOld(t, c) ==
  /\ StoppedAt(t, c, "reconnect", "stopMonitor")
  /\ Disconnect(c, activeSessions[c].driver)
  /\ \E pc \in {"openTunnel", "create"} : Went(t, pc, tasks[t].driver)
  /\ Apart({t}) /\ UNCHANGED <<activeSessions, healthMonitors, inFlight>>

CannotReconnect(t, c) ==
  /\ At(t, c, {"reconnect"}, {"tunnelling", "create", "opening"})
  /\ SetStatus(c, "error")
  /\ Over(t) /\ Apart({t}) /\ UNCHANGED <<open, healthMonitors, inFlight>>

DropsStale(t, c) ==
  /\ StoppedAt(t, c, "recover", "recover")
  /\ tasks[t].pc = "recover" => c \notin recoveringConnectionIds
  /\ Disconnect(c, activeSessions[c].driver)
  /\ activeSessions' = IF ~ HasSession(c) THEN activeSessions
                       ELSE [activeSessions EXCEPT ![c].driver = 0, ![c].status = "connecting"]
  /\ Went(t, "backoff", tasks[t].driver)
  /\ Apart({t}) /\ UNCHANGED <<healthMonitors, inFlight>>

(* The steps of a monitor that others see.                                 *)
GivesUp(t, c) ==
  /\ At(t, c, {"monitor"}, {"ping", "failed"}) /\ tasks[t].cancelled
  /\ SetStatus(c, "error")
  /\ Over(t) /\ Apart({t}) /\ UNCHANGED <<open, healthMonitors, inFlight>>

Retries(t, c) ==
  /\ At(t, c, {"monitor"}, {"ping", "failed"}) /\ ~ tasks[t].cancelled
  /\ SetStatus(c, "connecting")
  /\ Went(t, "backoff", tasks[t].driver)
  /\ Apart({t}) /\ UNCHANGED <<open, healthMonitors, inFlight>>

Captures(t, c) ==
  /\ At(t, c, {"monitor"}, {"backoff"}) /\ ~ tasks[t].cancelled /\ HasSession(c)
  /\ Went(t, "revive", activeSessions[c].driver) /\ Apart({t}) /\ SameRest

Revives(t, c) ==
  /\ At(t, c, {"monitor"}, {"revive"})
  /\ Disconnect(c, tasks[t].driver)
  /\ \E pc \in {"openTunnel", "create"} : Went(t, pc, 0)
  /\ Apart({t}) /\ UNCHANGED <<activeSessions, healthMonitors, inFlight>>

CannotRevive(t, c) ==
  /\ At(t, c, {"monitor"}, {"tunnelling", "create", "opening"})
  /\ \E pc \in {"closeTunnel", "failed"} : Went(t, pc, 0)
  /\ Apart({t}) /\ SameRest

Revived(t, c) ==
  /\ At(t, c, {"monitor"}, {"install"})
  /\ InstallDriver(c, tasks[t].driver, tasks[t].tunnel)
  /\ Went(t, "healthy", 0)
  /\ Apart({t}) /\ UNCHANGED <<open, healthMonitors, inFlight>>

TurnsHealthy(t, c) ==
  /\ At(t, c, {"monitor"}, {"healthy"})
  /\ SetStatus(c, "connected")
  /\ Went(t, "sleep", tasks[t].driver)
  /\ Apart({t}) /\ UNCHANGED <<open, healthMonitors, inFlight>>

ConnectionStep(t, c) ==
  \/ OperationBegins(t, c) \/ Leads(t, c) \/ LeavesInFlight(t, c)
  \/ (\E pc \in Points : Goes(t, c, pc)) \/ MonitorHasStarted(t, c) \/ Finishes(t, c)
  \/ MakesDriver(t, c) \/ OpensDriver(t, c) \/ Enters(t, c) \/ Fails(t, c)
  \/ Installs(t, c) \/ StartsAnother(t, c)
  \/ StopsFirst(t, c) \/ ClosesSession(t, c)
  \/ BeginsReconnect(t, c) \/ ClosesOld(t, c) \/ CannotReconnect(t, c) \/ DropsStale(t, c)

MonitorStep(t, c) ==
  \/ GivesUp(t, c) \/ Retries(t, c) \/ Captures(t, c) \/ Revives(t, c)
  \/ CannotRevive(t, c) \/ Revived(t, c) \/ TurnsHealthy(t, c)

StepTaken ==
  \E t \in TaskIds : \E c \in Connections : ConnectionStep(t, c) \/ MonitorStep(t, c)

(* The monitor of a connection in healthMonitors runs for it.              *)
LiveMonitor(m, c) == IsMonitor(tasks[m]) /\ tasks[m].conn = c /\ ~ tasks[m].cancelled

MonitorsLive ==
  \A c \in Connections : healthMonitors[c] # 0 => LiveMonitor(healthMonitors[c], c)

(* What the steps below are proved from.                                   *)
Ready == Before /\ MonitorsLive

(* A step is one of the table.                                             *)
LEMMA Takes ==
  ASSUME NEW t \in TaskIds, NEW c \in Connections, ConnectionStep(t, c) \/ MonitorStep(t, c)
  PROVE  StepTaken
BY DEF StepTaken

(* An operation begins with a task of its own.                             *)
LEMMA BeginsTaken ==
  ASSUME Ready, NEW c \in Connections, FreeTasks # {}, NEW kind, NEW pc,
         tasks' = [tasks EXCEPT ![AnyOf(FreeTasks)] = Task(kind, c, pc)], SameRest,
         \/ /\ kind = "ensure" /\ pc = "dedup"
            /\ "ensure" \in Operations /\ MayStart("ensure", c) /\ activeSessions[c].driver = 0
         \/ /\ kind = "reconnect" /\ pc = "reconnect"
            /\ "reconnect" \in Operations /\ MayStart("reconnect", c) /\ activeSessions[c].driver # 0
         \/ /\ kind = "recover" /\ pc = "woken"
            /\ "wake" \in Operations /\ MayStart("wake", c) /\ IsConnected(c)
         \/ kind = "recover" /\ pc = "died" /\ MaxDeaths # 0 /\ MayStart("death", c)
  PROVE  StepTaken
<1>1. PICK t \in TaskIds : tasks[t].kind = "none" /\ tasks'[t] = Task(kind, c, pc) /\ Apart({t})
  BY AddedDoes DEF Ready, Before
<1>2. tasks'[t].kind = kind /\ tasks'[t].conn = c /\ tasks'[t].pc = pc /\ tasks'[t].driver = 0
  BY <1>1 DEF Task
<1>3. OperationBegins(t, c)
  BY <1>1, <1>2 DEF OperationBegins
<1> QED
  BY <1>3, Takes DEF ConnectionStep

LEMMA EnsureConnectedTaken ==
  ASSUME Ready, NEW c \in Connections, EnsureConnected(c)
  PROVE  StepTaken
BY BeginsTaken DEF EnsureConnected, CanStart, Start, SameRest

LEMMA SwitchDatabaseTaken ==
  ASSUME Ready, NEW c \in Connections, SwitchDatabase(c)
  PROVE  StepTaken
BY BeginsTaken DEF SwitchDatabase, CanStart, Start, SameRest

LEMMA SystemDidWakeTaken ==
  ASSUME Ready, NEW c \in Connections, SystemDidWake(c)
  PROVE  StepTaken
BY BeginsTaken DEF SystemDidWake, CanStart, Start, SameRest

LEMMA TunnelDiesTaken ==
  ASSUME Ready, NEW c \in Connections, NEW n \in TunnelIds, TunnelDies(c, n)
  PROVE  StepTaken
<1>1. MaxDeaths # 0
  BY LimitsAssumption DEF TunnelDies, Ready, Before, TypeOK
<1> QED
  BY <1>1, BeginsTaken DEF TunnelDies, SameRest

(* The rest of disconnectSession.                                          *)
LEMMA CloseSessionDoes ==
  ASSUME NEW ts, TasksTyped(ts), NEW t \in TaskIds, NEW c \in Connections,
         \A u \in TaskIds \ {t} : ts[u] = tasks[u], CloseSession(ts, t, c)
  PROVE  /\ tasks'[t].kind = ts[t].kind /\ tasks'[t].conn = ts[t].conn
         /\ tasks'[t].pc = "invalidate" /\ tasks'[t].driver = 0
         /\ Apart({t}) /\ Disconnect(c, ts[t].driver) /\ RemoveSessionEntry(c)
<1> DEFINE r == ts[t]
           s == tasks'[t]
<1>1. s = [r EXCEPT !.driver = 0, !.pc = "invalidate"]
  BY DEF CloseSession, TasksTyped
<1>2. r \in Tasks
  BY DEF TasksTyped
<1>3. \A u \in TaskIds \ {t} : tasks'[u] = tasks[u]
  BY DEF CloseSession, TasksTyped
<1>4. s.kind = r.kind /\ s.conn = r.conn /\ s.pc = "invalidate" /\ s.driver = 0
  <2> HIDE DEF r, s
  <2> QED
    BY <1>1, <1>2 DEF Tasks
<1> QED
  BY <1>3, <1>4, OnlyOne DEF CloseSession

(* A monitor that runs is not the task that stops it.                      *)
LEMMA NotItself ==
  ASSUME Ready, NEW c \in Connections, NEW t \in TaskIds, ~ IsMonitor(tasks[t])
  PROVE  healthMonitors[c] # t
BY LimitsAssumption DEF Ready, MonitorsLive, LiveMonitor, TaskIds

(* disconnectSession, from the call or from the tunnel's end.              *)
LEMMA StopThenCloseTaken ==
  ASSUME Ready, NEW t \in TaskIds, NEW c \in Connections, NEW ts, TasksTyped(ts),
         \A u \in TaskIds \ {t} : ts[u] = tasks[u],
         ts[t].kind = "disconnect", ts[t].conn = c,
         \/ DisconnectBegins(t, c) /\ c \notin Tunnelled /\ ts[t].driver = activeSessions[c].driver
         \/ At(t, c, {"disconnect"}, {"stopMonitor"}) /\ ts[t].driver = tasks[t].driver,
         StopThenClose(ts, t, c), inFlight' = inFlight
  PROVE  StepTaken
<1>1. TasksTyped(tasks) /\ healthMonitors \in [Connections -> TaskIds \cup {0}]
  BY DEF Ready, Before, TypeOK
<1>2. healthMonitors[c] # t
  BY NotItself DEF IsMonitor, DisconnectBegins, At
<1>3. CASE StopHealthMonitor(ts, t, c, "stopped") /\ UNCHANGED <<activeSessions, open>>
  <2>1. /\ \E m : StopsMonitor(t, c, m)
        /\ tasks'[t].kind = ts[t].kind /\ tasks'[t].conn = ts[t].conn
        /\ tasks'[t].driver = ts[t].driver /\ tasks'[t].pc = "stopped"
    BY <1>1, <1>2, <1>3, StopHealthMonitorDoes
  <2>2. StopsFirst(t, c)
    BY <1>3, <2>1 DEF StopsFirst, At
  <2> QED
    BY <2>2, Takes DEF ConnectionStep
<1>4. CASE NoMonitor(c) /\ CloseSession(ts, t, c)
  <2>1. /\ tasks'[t].kind = ts[t].kind /\ tasks'[t].conn = ts[t].conn
        /\ tasks'[t].pc = "invalidate" /\ tasks'[t].driver = 0
        /\ Apart({t}) /\ Disconnect(c, ts[t].driver) /\ RemoveSessionEntry(c)
    BY <1>4, CloseSessionDoes
  <2>2. ClosesSession(t, c)
    BY <1>4, <2>1 DEF ClosesSession, NoMonitor, StoppedAt
  <2> QED
    BY <2>2, Takes DEF ConnectionStep
<1> QED
  BY <1>3, <1>4 DEF StopThenClose

LEMMA DisconnectSessionTaken ==
  ASSUME Ready, NEW c \in Connections, DisconnectSession(c)
  PROVE  StepTaken
<1> DEFINE t == AnyOf(FreeTasks)
           task == [Task("disconnect", c, "closeTunnel") EXCEPT !.driver = activeSessions[c].driver]
           ts == [tasks EXCEPT ![t] = task]
<1>1. TasksTyped(tasks)
  BY DEF Ready, Before
<1>2. t \in TaskIds /\ tasks[t].kind = "none"
  BY AnyOfIsIn DEF DisconnectSession, CanStart, FreeTasks
<1>3. DisconnectBegins(t, c)
  BY <1>2 DEF DisconnectBegins, DisconnectSession, CanStart
<1>4. \/ c \in Tunnelled /\ tasks' = ts /\ UNCHANGED <<activeSessions, healthMonitors, open>>
      \/ c \notin Tunnelled /\ StopThenClose(ts, t, c)
  BY DEF DisconnectSession
<1>5. inFlight' = inFlight
  BY DEF DisconnectSession
<1>6. /\ task \in Tasks
      /\ task.kind = "disconnect" /\ task.conn = c /\ task.pc = "closeTunnel"
      /\ task.driver = activeSessions[c].driver
  <2>1. Task("disconnect", c, "closeTunnel") \in Tasks
    BY TaskTyped DEF Kinds, Points
  <2>2. activeSessions[c].driver \in DriverIds \cup {0}
    BY DEF Ready, Before, TypeOK, Sessions
  <2> QED
    BY <2>1, <2>2 DEF Task, Tasks
<1> HIDE DEF t, task
<1>7. ts \in [TaskIds -> Tasks] /\ ts[t] = task /\ \A u \in TaskIds \ {t} : ts[u] = tasks[u]
  BY <1>1, <1>2, <1>6 DEF TasksTyped
<1> HIDE DEF ts
<1>8. TasksTyped(ts)
  BY <1>1, <1>6, <1>7 DEF TasksTyped
<1>9. CASE c \in Tunnelled /\ tasks' = ts /\ UNCHANGED <<activeSessions, healthMonitors, open>>
  <2>1. Apart({t})
    BY <1>2, <1>7, <1>9, OnlyOne
  <2>2. OperationBegins(t, c)
    BY <1>2, <1>3, <1>5, <1>6, <1>7, <1>9, <2>1 DEF OperationBegins, SameRest
  <2> QED
    BY <1>2, <2>2, Takes DEF ConnectionStep
<1>10. CASE c \notin Tunnelled /\ StopThenClose(ts, t, c)
  BY <1>2, <1>3, <1>5, <1>6, <1>7, <1>8, <1>10, StopThenCloseTaken
<1> QED
  BY <1>4, <1>9, <1>10

LEMMA StopBeforeCloseTaken ==
  ASSUME Ready, NEW t \in TaskIds, StopBeforeClose(t)
  PROVE  StepTaken
<1>1. Conn(t) \in Connections /\ At(t, Conn(t), {"disconnect"}, {"stopMonitor"}) /\ TasksTyped(tasks)
  BY ConnTyped DEF Ready, Before, StopBeforeClose, IsTask, At, Conn
<1> QED
  BY <1>1, StopThenCloseTaken DEF StopBeforeClose, At

LEMMA StoppedBeforeCloseTaken ==
  ASSUME Ready, NEW t \in TaskIds, StoppedBeforeClose(t)
  PROVE  StepTaken
<1>1. Conn(t) \in Connections /\ TasksTyped(tasks)
  BY ConnTyped DEF Ready, Before, StoppedBeforeClose, MonitorStopped, IsTask
<1>2. At(t, Conn(t), {"disconnect"}, {"stopped"}) /\ tasks[t].waits = 0
  BY DEF StoppedBeforeClose, MonitorStopped, IsTask, At, Conn
<1>3. /\ tasks'[t].kind = tasks[t].kind /\ tasks'[t].conn = tasks[t].conn
      /\ tasks'[t].pc = "invalidate" /\ tasks'[t].driver = 0
      /\ Apart({t}) /\ Disconnect(Conn(t), tasks[t].driver) /\ RemoveSessionEntry(Conn(t))
  BY <1>1, CloseSessionDoes DEF StoppedBeforeClose
<1>4. ClosesSession(t, Conn(t))
  BY <1>2, <1>3 DEF ClosesSession, StoppedAt, At, StoppedBeforeClose
<1> QED
  BY <1>1, <1>4, Takes DEF ConnectionStep

(* A task that works for a connection, at one of its awaits.               *)
LEMMA IsAt ==
  ASSUME Ready, NEW t \in TaskIds, tasks[t].kind # "none"
  PROVE  /\ TasksTyped(tasks) /\ Conn(t) \in Connections
         /\ At(t, Conn(t), {tasks[t].kind}, {tasks[t].pc})
BY ConnTyped DEF Ready, Before, At, Conn

(* The steps in the making of a tunnel and a driver.                       *)
LEMMA OpeningTaken ==
  ASSUME Ready, NEW t \in TaskIds,
         BeginTunnel(t) \/ TunnelOpens(t) \/ DriverCreated(t) \/ DriverOpens(t) \/ Prepared(t)
  PROVE  StepTaken
<1> DEFINE c == Conn(t)
<1>1. tasks[t].kind \in Openers /\ tasks[t].kind # "none"
  BY DEF BeginTunnel, TunnelOpens, DriverCreated, DriverOpens, Prepared, IsTask, Openers, Connecting
<1>2. TasksTyped(tasks) /\ c \in Connections /\ tasks[t].conn = c
  BY <1>1, IsAt DEF At
<1>3. CASE BeginTunnel(t)
  <2>1. Went(t, "tunnelling", tasks[t].driver) /\ Apart({t})
    BY <1>1, <1>2, <1>3, GotoDoes DEF BeginTunnel
  <2>2. Goes(t, c, "tunnelling") /\ "tunnelling" \in Points
    BY <1>1, <1>2, <1>3, <2>1 DEF Goes, BeginTunnel, At, IsTask, SameRest, Points
  <2> QED
    BY <1>2, <2>2, Takes DEF ConnectionStep
<1>4. CASE TunnelOpens(t)
  <2> DEFINE n  == AnyOf(FreshTunnel(c))
             pc == IF tasks[t].kind \in Connecting THEN "prepare" ELSE "create"
  <2>1. tasks' = [tasks EXCEPT ![t].tunnel = n, ![t].pc = pc] /\ pc \in {"prepare", "create"}
    BY <1>4 DEF TunnelOpens
  <2> HIDE DEF n, pc
  <2>2. Went(t, pc, tasks[t].driver) /\ Apart({t})
    BY <1>1, <1>2, <2>1, TakesTunnel
  <2>3. Goes(t, c, pc) /\ pc \in Points
    BY <1>1, <1>2, <1>4, <2>1, <2>2 DEF Goes, TunnelOpens, At, IsTask, SameRest, Points
  <2> QED
    BY <1>2, <2>3, Takes DEF ConnectionStep
<1>5. CASE DriverCreated(t)
  <2>1. PICK d \in FreshDriver(c) : tasks' = [tasks EXCEPT ![t].driver = d, ![t].pc = "opening"]
    BY <1>5, AnyOfIsIn DEF DriverCreated
  <2>2. Went(t, "opening", d) /\ Apart({t})
    BY <1>1, <1>2, <2>1, TakesDriver
  <2>3. MakesDriver(t, c)
    BY <1>1, <1>2, <1>5, <2>2 DEF MakesDriver, DriverCreated, At, IsTask, SameRest
  <2> QED
    BY <1>2, <2>3, Takes DEF ConnectionStep
<1>6. CASE DriverOpens(t)
  <2>1. Went(t, "install", tasks[t].driver) /\ Apart({t})
    BY <1>1, <1>2, <1>6, GotoDoes DEF DriverOpens
  <2>2. OpensDriver(t, c)
    BY <1>1, <1>2, <1>6, <2>1 DEF OpensDriver, DriverOpens, At, IsTask
  <2> QED
    BY <1>2, <2>2, Takes DEF ConnectionStep
<1>7. CASE Prepared(t)
  <2>1. Went(t, "create", tasks[t].driver) /\ Apart({t})
    BY <1>1, <1>2, <1>7, GotoDoes DEF Prepared
  <2>2. Goes(t, c, "create") /\ "create" \in Points
    BY <1>1, <1>2, <1>7, <2>1 DEF Goes, Prepared, At, IsTask, SameRest, Points
  <2> QED
    BY <1>2, <2>2, Takes DEF ConnectionStep
<1> QED
  BY <1>3, <1>4, <1>5, <1>6, <1>7

(* The connection is made: a monitor is started, if there is to be one.    *)
LEMMA ConnectedTaken ==
  ASSUME Ready, NEW t \in TaskIds, Connected(t)
  PROVE  StepTaken
<1> DEFINE c  == Conn(t)
           ts == Emptied(t)
<1>1. tasks[t].kind \in Connecting \cup {"reconnect"} /\ tasks[t].kind # "none"
  BY DEF Connected, IsTask, Connecting
<1>2. TasksTyped(tasks) /\ c \in Connections /\ tasks[t].conn = c /\ ~ IsMonitor(tasks[t])
  BY <1>1, IsAt DEF At, IsMonitor, Connecting
<1>3. At(t, c, Connecting \cup {"reconnect"}, {"install"})
  BY <1>1, <1>2 DEF Connected, IsTask, At
<1>4. Holding(ts, t, 0)
  BY <1>2, EmptiedDoes
<1>5. InstallDriver(c, tasks[t].driver, tasks[t].tunnel) /\ UNCHANGED <<open, inFlight>>
  BY DEF Connected
<1>6. \/ StopHealthMonitor(ts, t, c, "startMonitor")
      \/ c \in Monitored /\ healthMonitors[c] = 0 /\ StartMonitor(ts, t, c)
      \/ /\ c \notin Monitored /\ UNCHANGED healthMonitors
         /\ tasks' = IF tasks[t].kind = "reconnect" THEN Ended(tasks, t) ELSE Returned(ts, t, TRUE)
  BY DEF Connected
<1> HIDE DEF ts
<1>7. CASE StopHealthMonitor(ts, t, c, "startMonitor")
  <2>1. healthMonitors[c] # t /\ healthMonitors \in [Connections -> TaskIds \cup {0}]
    BY <1>2, NotItself DEF Ready, Before, TypeOK
  <2>2. /\ \E m : StopsMonitor(t, c, m)
        /\ tasks'[t].kind = ts[t].kind /\ tasks'[t].conn = ts[t].conn
        /\ tasks'[t].driver = ts[t].driver /\ tasks'[t].pc = "startMonitor"
    BY <1>2, <1>4, <1>7, <2>1, StopHealthMonitorDoes DEF Holding
  <2>3. GoesTo(t, c, "startMonitor", 0)
    BY <1>2, <1>4, <2>2 DEF GoesTo, Holding
  <2>4. Installs(t, c)
    BY <1>3, <1>5, <2>2, <2>3 DEF Installs
  <2> QED
    BY <1>2, <2>4, Takes DEF ConnectionStep
<1>8. CASE c \in Monitored /\ healthMonitors[c] = 0 /\ StartMonitor(ts, t, c)
  <2>1. /\ \E m : StartsMonitor(t, c, m)
        /\ tasks'[t].kind = ts[t].kind /\ tasks'[t].conn = ts[t].conn
        /\ tasks'[t].driver = ts[t].driver /\ tasks'[t].pc = "started"
    BY <1>1, <1>2, <1>4, <1>8, StartMonitorDoes DEF Holding
  <2>2. GoesTo(t, c, "started", 0)
    BY <1>2, <1>4, <2>1 DEF GoesTo, Holding
  <2>3. Installs(t, c)
    BY <1>3, <1>5, <1>8, <2>1, <2>2 DEF Installs
  <2> QED
    BY <1>2, <2>3, Takes DEF ConnectionStep
<1>9. CASE /\ c \notin Monitored /\ UNCHANGED healthMonitors
           /\ tasks' = IF tasks[t].kind = "reconnect" THEN Ended(tasks, t) ELSE Returned(ts, t, TRUE)
  <2>1. Succeeds(t, 0)
    <3>1. CASE tasks[t].kind = "reconnect"
      BY <1>2, <1>9, <3>1, EndDoes DEF End, Succeeds
    <3>2. CASE tasks[t].kind \in Connecting
      <4>1. tasks' = Returned(ts, t, TRUE)
        BY <1>9, <3>2 DEF Connecting
      <4>2. Apart({t}) /\ Succeeded(t, 0)
        BY <1>2, <1>4, <3>2, <4>1, SuccessDoes
      <4> QED
        BY <4>2 DEF Succeeds
    <3> QED
      BY <1>1, <3>1, <3>2
  <2>2. Installs(t, c)
    BY <1>3, <1>5, <1>9, <2>1 DEF Installs
  <2> QED
    BY <1>2, <2>2, Takes DEF ConnectionStep
<1> QED
  BY <1>6, <1>7, <1>8, <1>9

LEMMA OldMonitorStoppedTaken ==
  ASSUME Ready, NEW t \in TaskIds, OldMonitorStopped(t)
  PROVE  StepTaken
<1> DEFINE c == Conn(t)
<1>1. tasks[t].kind # "none"
  BY DEF OldMonitorStopped, IsTask, Connecting
<1>2. TasksTyped(tasks) /\ c \in Connections /\ tasks[t].conn = c
  BY <1>1, IsAt DEF At
<1>3. At(t, c, Connecting \cup {"reconnect"}, {"startMonitor"}) /\ tasks[t].waits = 0
  BY <1>2 DEF OldMonitorStopped, IsTask, At
<1>4. /\ \E m : StartsMonitor(t, c, m)
      /\ tasks'[t].kind = tasks[t].kind /\ tasks'[t].conn = tasks[t].conn
      /\ tasks'[t].driver = tasks[t].driver /\ tasks'[t].pc = "started"
  BY <1>1, <1>2, StartMonitorDoes DEF OldMonitorStopped
<1>5. GoesTo(t, c, "started", tasks[t].driver)
  BY <1>2, <1>4 DEF GoesTo
<1>6. StartsAnother(t, c)
  BY <1>3, <1>4, <1>5 DEF StartsAnother, OldMonitorStopped
<1> QED
  BY <1>2, <1>6, Takes DEF ConnectionStep

LEMMA MonitorStartedTaken ==
  ASSUME Ready, NEW t \in TaskIds, MonitorStarted(t)
  PROVE  StepTaken
<1> DEFINE c == Conn(t)
<1>1. tasks[t].kind # "none" /\ tasks[t].kind \in Connecting \cup {"reconnect"}
  BY DEF MonitorStarted, IsTask, Connecting
<1>2. TasksTyped(tasks) /\ c \in Connections /\ tasks[t].conn = c
  BY <1>1, IsAt DEF At
<1>3. At(t, c, Connecting \cup {"reconnect"}, {"started"})
  BY <1>2 DEF MonitorStarted, IsTask, At
<1>4. Succeeds(t, tasks[t].driver)
  <2>1. CASE tasks[t].kind = "reconnect"
    BY <1>2, <2>1, EndDoes DEF End, Succeeds, MonitorStarted
  <2>2. CASE tasks[t].kind \in Connecting
    <3>1. tasks' = Returned(tasks, t, TRUE)
      BY <2>2 DEF Connecting, MonitorStarted
    <3>2. Holding(tasks, t, tasks[t].driver)
      BY <1>2 DEF Holding
    <3>3. Apart({t}) /\ Succeeded(t, tasks[t].driver)
      BY <1>2, <2>2, <3>1, <3>2, SuccessDoes
    <3> QED
      BY <3>3 DEF Succeeds
  <2> QED
    BY <1>1, <2>1, <2>2
<1>5. MonitorHasStarted(t, c)
  BY <1>3, <1>4 DEF MonitorHasStarted, MonitorStarted, SameRest
<1> QED
  BY <1>2, <1>5, Takes DEF ConnectionStep

(* The steps of ensureConnected and connectToSession.                      *)
LEMMA DedupTaken ==
  ASSUME Ready, NEW t \in TaskIds, Dedup(t) \/ LeaveDedup(t)
  PROVE  StepTaken
<1> DEFINE c == Conn(t)
<1>1. tasks[t].kind = "ensure" /\ tasks[t].kind # "none"
  BY DEF Dedup, LeaveDedup, IsTask
<1>2. TasksTyped(tasks) /\ c \in Connections /\ tasks[t].conn = c
  BY <1>1, IsAt DEF At
<1>3. CASE Dedup(t) /\ c \in inFlight
  <2>1. Over(t) /\ Apart({t})
    BY <1>2, <1>3, EndDoes DEF Dedup
  <2>2. Finishes(t, c)
    BY <1>1, <1>2, <1>3, <2>1 DEF Finishes, Dedup, At, IsTask, SameRest
  <2> QED
    BY <1>2, <2>2, Takes DEF ConnectionStep
<1>4. CASE Dedup(t) /\ c \notin inFlight
  <2>1. Went(t, "connect", tasks[t].driver) /\ Apart({t})
    BY <1>1, <1>2, <1>4, GotoDoes DEF Dedup
  <2>2. Leads(t, c)
    BY <1>1, <1>2, <1>4, <2>1 DEF Leads, Dedup, At, IsTask
  <2> QED
    BY <1>2, <2>2, Takes DEF ConnectionStep
<1>5. CASE LeaveDedup(t)
  <2>1. Over(t) /\ Apart({t})
    BY <1>2, <1>5, EndDoes DEF LeaveDedup
  <2>2. LeavesInFlight(t, c)
    BY <1>1, <1>2, <1>5, <2>1 DEF LeavesInFlight, LeaveDedup, At, IsTask
  <2> QED
    BY <1>2, <2>2, Takes DEF ConnectionStep
<1> QED
  BY <1>3, <1>4, <1>5

LEMMA ConnectToSessionTaken ==
  ASSUME Ready, NEW t \in TaskIds, ConnectToSession(t)
  PROVE  StepTaken
<1> DEFINE c == Conn(t)
<1>1. tasks[t].kind \in Connecting /\ tasks[t].kind # "none"
  BY DEF ConnectToSession, IsTask, Connecting
<1>2. TasksTyped(tasks) /\ c \in Connections /\ tasks[t].conn = c
  BY <1>1, IsAt DEF At
<1>3. At(t, c, {"ensure"}, {"connect"}) \/ At(t, c, {"recover"}, {"backoff"})
  BY <1>2 DEF ConnectToSession, IsTask, At
<1>4. CASE activeSessions[c].driver # 0
  <2>1. tasks' = Returned(tasks, t, TRUE) /\ Holding(tasks, t, tasks[t].driver)
    BY <1>2, <1>4 DEF ConnectToSession, Holding
  <2>2. Apart({t}) /\ Succeeded(t, tasks[t].driver)
    BY <1>1, <1>2, <2>1, SuccessDoes
  <2>3. SameRest
    BY <1>4 DEF ConnectToSession, SameRest
  <2>4. Goes(t, c, "leave") \/ Finishes(t, c)
    BY <1>3, <1>4, <2>2, <2>3 DEF Goes, Finishes, Succeeded, At
  <2>5. "leave" \in Points
    BY DEF Points
  <2> QED
    BY <1>2, <2>4, <2>5, Takes DEF ConnectionStep
<1>5. CASE activeSessions[c].driver = 0
  <2> DEFINE pc == IF c \in Tunnelled THEN "openTunnel" ELSE "prepare"
  <2>1. Goto(t, pc) /\ pc \in {"openTunnel", "prepare"}
    BY <1>5 DEF ConnectToSession
  <2> HIDE DEF pc
  <2>2. Went(t, pc, tasks[t].driver) /\ Apart({t})
    BY <1>1, <1>2, <2>1, GotoDoes
  <2>3. /\ UNCHANGED <<open, healthMonitors, inFlight>>
        /\ activeSessions' = IF HasSession(c) THEN activeSessions
                             ELSE [activeSessions EXCEPT ![c].status = "connecting"]
    BY <1>5 DEF ConnectToSession
  <2>4. Enters(t, c)
    BY <1>3, <1>5, <2>1, <2>2, <2>3 DEF Enters
  <2> QED
    BY <1>2, <2>4, Takes DEF ConnectionStep
<1> QED
  BY <1>4, <1>5

(* The connect fails, before or in driver.connect().                       *)
LEMMA ConnectFailsTaken ==
  ASSUME Ready, NEW t \in TaskIds, ConnectFailsEarly(t) \/ ConnectFails(t)
  PROVE  StepTaken
<1> DEFINE c == Conn(t)
<1>1. tasks[t].kind \in Connecting /\ tasks[t].kind # "none"
  BY DEF ConnectFailsEarly, ConnectFails, IsTask, Connecting
<1>2. TasksTyped(tasks) /\ c \in Connections /\ tasks[t].conn = c
  BY <1>1, IsAt DEF At
<1>3. At(t, c, Connecting, {"tunnelling", "prepare", "create", "opening"})
  BY <1>1, <1>2 DEF ConnectFailsEarly, ConnectFails, IsTask, At
<1>4. PICK closes \in BOOLEAN :
        /\ closes => FreeTasks # {}
        /\ tasks' = Spawned(Returned(Emptied(t), t, FALSE), closes, Closer(c))
  <2>1. CASE ConnectFailsEarly(t)
    <3> DEFINE closes == tasks[t].pc = "create" /\ c \in Tunnelled
    <3>1. /\ closes => FreeTasks # {}
          /\ tasks' = Spawned(Returned(Emptied(t), t, FALSE), closes, Closer(c))
      BY <2>1 DEF ConnectFailsEarly
    <3>2. closes \in BOOLEAN
      OBVIOUS
    <3> HIDE DEF closes
    <3> QED
      BY <3>1, <3>2, Zenon
  <2>2. CASE ConnectFails(t)
    <3> DEFINE closes == c \in Tunnelled
    <3>1. /\ closes => FreeTasks # {}
          /\ tasks' = Spawned(Returned(Emptied(t), t, FALSE), closes, Closer(c))
      BY <2>2 DEF ConnectFails
    <3>2. closes \in BOOLEAN
      OBVIOUS
    <3> HIDE DEF closes
    <3> QED
      BY <3>1, <3>2, Zenon
  <2> QED
    BY <2>1, <2>2
<1>5. /\ Apart({t})
      /\ \/ Over(t)
         \/ Went(t, "leave", 0) /\ tasks[t].kind = "ensure"
         \/ Went(t, "backoff", 0) /\ tasks[t].kind = "recover"
  BY <1>1, <1>2, <1>4, FailureDoes
<1>6. RemoveSessionEntry(c) /\ UNCHANGED <<open, healthMonitors, inFlight>>
  BY DEF ConnectFailsEarly, ConnectFails
<1>7. Fails(t, c)
  BY <1>3, <1>5, <1>6 DEF Fails
<1> QED
  BY <1>2, <1>7, Takes DEF ConnectionStep

(* The rest of disconnectSession and of the tasks that close a tunnel.     *)
LEMMA CloseItsTunnelTaken ==
  ASSUME Ready, NEW t \in TaskIds, CloseItsTunnel(t)
  PROVE  StepTaken
<1> DEFINE c == Conn(t)
<1>1. tasks[t].kind \in {"disconnect", "monitor", "closer"} /\ tasks[t].kind # "none"
  BY DEF CloseItsTunnel, IsTask
<1>2. TasksTyped(tasks) /\ c \in Connections /\ tasks[t].conn = c
  BY <1>1, IsAt DEF At
<1>3. tasks[t].pc = "closeTunnel" /\ SameRest
  BY DEF CloseItsTunnel, IsTask, SameRest
<1>4. CASE tasks[t].kind = "closer"
  <2>1. End(t)
    BY <1>4 DEF CloseItsTunnel
  <2>2. Finishes(t, c)
    BY <1>2, <1>3, <1>4, <2>1, EndDoes DEF Finishes, At
  <2> QED
    BY <1>2, <2>2, Takes DEF ConnectionStep
<1>5. CASE tasks[t].kind = "disconnect"
  <2>1. Went(t, "stopMonitor", tasks[t].driver) /\ Apart({t})
    BY <1>1, <1>2, <1>5, GotoDoes DEF CloseItsTunnel
  <2>2. Goes(t, c, "stopMonitor") /\ "stopMonitor" \in Points
    BY <1>2, <1>3, <1>5, <2>1 DEF Goes, At, Points
  <2> QED
    BY <1>2, <2>2, Takes DEF ConnectionStep
<1>6. CASE tasks[t].kind = "monitor"
  <2>1. Goto(t, "failed")
    BY <1>6 DEF CloseItsTunnel
  <2>2. Went(t, "failed", tasks[t].driver) /\ Apart({t})
    BY <1>1, <1>2, <2>1, GotoDoes
  <2>3. Goes(t, c, "failed") /\ "failed" \in Points
    BY <1>2, <1>3, <1>6, <2>2 DEF Goes, At, Points
  <2> QED
    BY <1>2, <2>3, Takes DEF ConnectionStep
<1> QED
  BY <1>1, <1>4, <1>5, <1>6

LEMMA LeaveSessionTaken ==
  ASSUME Ready, NEW t \in TaskIds, LeaveSession(t)
  PROVE  StepTaken
<1>1. tasks[t].kind = "disconnect" /\ tasks[t].kind # "none"
  BY DEF LeaveSession, IsTask
<1>2. TasksTyped(tasks) /\ Conn(t) \in Connections /\ tasks[t].conn = Conn(t)
  BY <1>1, IsAt DEF At
<1>3. Finishes(t, Conn(t))
  BY <1>1, <1>2, EndDoes DEF Finishes, LeaveSession, At, IsTask, SameRest
<1> QED
  BY <1>2, <1>3, Takes DEF ConnectionStep

(* The steps of reconnectSession.                                          *)
LEMMA BeginReconnectTaken ==
  ASSUME Ready, NEW t \in TaskIds, BeginReconnect(t)
  PROVE  StepTaken
<1> DEFINE c == Conn(t)
<1>1. tasks[t].kind = "reconnect" /\ tasks[t].kind # "none"
  BY DEF BeginReconnect, IsTask
<1>2. TasksTyped(tasks) /\ c \in Connections /\ tasks[t].conn = c
  BY <1>1, IsAt DEF At
<1>3. CASE HasSession(c)
  <2>1. Went(t, "stopMonitor", tasks[t].driver) /\ Apart({t})
    BY <1>1, <1>2, <1>3, GotoDoes DEF BeginReconnect
  <2>2. BeginsReconnect(t, c)
    BY <1>1, <1>2, <1>3, <2>1 DEF BeginsReconnect, BeginReconnect, At, IsTask
  <2> QED
    BY <1>2, <2>2, Takes DEF ConnectionStep
<1>4. CASE ~ HasSession(c)
  <2>1. Over(t) /\ Apart({t})
    BY <1>2, <1>4, EndDoes DEF BeginReconnect
  <2>2. Finishes(t, c)
    BY <1>1, <1>2, <1>4, <2>1 DEF Finishes, BeginReconnect, SetStatus, At, IsTask, SameRest
  <2> QED
    BY <1>2, <2>2, Takes DEF ConnectionStep
<1> QED
  BY <1>3, <1>4

(* Closing the old driver, once the monitor is gone.                      *)
LEMMA CloseOldDriverTaken ==
  ASSUME Ready, NEW t \in TaskIds, StoppedAt(t, Conn(t), "reconnect", "stopMonitor"),
         CloseOldDriver(t), UNCHANGED <<activeSessions, healthMonitors, inFlight>>
  PROVE  StepTaken
<1> DEFINE c  == Conn(t)
           pc == OpenNext(c)
<1>1. tasks[t].kind = "reconnect" /\ tasks[t].kind # "none"
  BY DEF StoppedAt, At
<1>2. TasksTyped(tasks) /\ c \in Connections
  BY <1>1, IsAt
<1>3. Went(t, pc, tasks[t].driver) /\ Apart({t}) /\ pc \in {"openTunnel", "create"}
  BY <1>1, <1>2, GotoDoes DEF CloseOldDriver, OpenNext
<1>4. ClosesOld(t, c)
  BY <1>3 DEF ClosesOld, CloseOldDriver
<1> QED
  BY <1>2, <1>4, Takes DEF ConnectionStep

LEMMA StopBeforeReconnectTaken ==
  ASSUME Ready, NEW t \in TaskIds, StopBeforeReconnect(t)
  PROVE  StepTaken
<1> DEFINE c == Conn(t)
<1>1. tasks[t].kind = "reconnect" /\ tasks[t].kind # "none"
  BY DEF StopBeforeReconnect, IsTask
<1>2. TasksTyped(tasks) /\ c \in Connections /\ tasks[t].conn = c
  BY <1>1, IsAt DEF At
<1>3. At(t, c, {"reconnect"}, {"stopMonitor"}) /\ UNCHANGED <<activeSessions, inFlight>>
  BY <1>1, <1>2 DEF StopBeforeReconnect, IsTask, At
<1>4. CASE StopHealthMonitor(tasks, t, c, "stopped") /\ UNCHANGED open
  <2>1. healthMonitors[c] # t /\ healthMonitors \in [Connections -> TaskIds \cup {0}]
    BY <1>1, <1>2, NotItself DEF Ready, Before, TypeOK, IsMonitor
  <2>2. /\ \E m : StopsMonitor(t, c, m)
        /\ tasks'[t].kind = tasks[t].kind /\ tasks'[t].conn = tasks[t].conn
        /\ tasks'[t].driver = tasks[t].driver /\ tasks'[t].pc = "stopped"
    BY <1>2, <1>4, <2>1, StopHealthMonitorDoes
  <2>3. StopsFirst(t, c)
    BY <1>2, <1>3, <1>4, <2>2 DEF StopsFirst, At
  <2> QED
    BY <1>2, <2>3, Takes DEF ConnectionStep
<1>5. CASE NoMonitor(c) /\ CloseOldDriver(t)
  BY <1>3, <1>5, CloseOldDriverTaken DEF StoppedAt, NoMonitor
<1> QED
  BY <1>4, <1>5 DEF StopBeforeReconnect

LEMMA StoppedBeforeReconnectTaken ==
  ASSUME Ready, NEW t \in TaskIds, StoppedBeforeReconnect(t)
  PROVE  StepTaken
<1>1. StoppedAt(t, Conn(t), "reconnect", "stopMonitor")
  BY DEF StoppedBeforeReconnect, MonitorStopped, IsTask, StoppedAt, At, Conn
<1> QED
  BY <1>1, CloseOldDriverTaken DEF StoppedBeforeReconnect

LEMMA ReconnectFailsTaken ==
  ASSUME Ready, NEW t \in TaskIds, ReconnectFails(t)
  PROVE  StepTaken
<1> DEFINE c == Conn(t)
<1>1. tasks[t].kind = "reconnect" /\ tasks[t].kind # "none"
  BY DEF ReconnectFails
<1>2. TasksTyped(tasks) /\ c \in Connections /\ tasks[t].conn = c
  BY <1>1, IsAt DEF At
<1>3. Over(t) /\ Apart({t})
  BY <1>2, EndDoes DEF ReconnectFails
<1>4. CannotReconnect(t, c)
  BY <1>1, <1>2, <1>3 DEF CannotReconnect, ReconnectFails, At
<1> QED
  BY <1>2, <1>4, Takes DEF ConnectionStep

(* The steps of handleSSHTunnelDied.                                       *)
LEMMA DeathTaken ==
  ASSUME Ready, NEW t \in TaskIds, TunnelDeathHandled(t) \/ ValidateTunnel(t)
  PROVE  StepTaken
<1> DEFINE c == Conn(t)
<1>1. tasks[t].kind = "recover" /\ tasks[t].kind # "none"
  BY DEF TunnelDeathHandled, ValidateTunnel, IsTask
<1>2. TasksTyped(tasks) /\ c \in Connections /\ tasks[t].conn = c
  BY <1>1, IsAt DEF At
<1>3. tasks[t].pc \in {"died", "woken"} /\ SameRest
  BY DEF TunnelDeathHandled, ValidateTunnel, IsTask, SameRest
<1>4. CASE End(t)
  <2>1. Finishes(t, c)
    BY <1>1, <1>2, <1>3, <1>4, EndDoes DEF Finishes, At
  <2> QED
    BY <1>2, <2>1, Takes DEF ConnectionStep
<1>5. CASE Goto(t, "recover")
  <2>1. Went(t, "recover", tasks[t].driver) /\ Apart({t})
    BY <1>1, <1>2, <1>5, GotoDoes
  <2>2. Goes(t, c, "recover") /\ "recover" \in Points
    BY <1>1, <1>2, <1>3, <2>1 DEF Goes, At, Points
  <2> QED
    BY <1>2, <2>2, Takes DEF ConnectionStep
<1> QED
  BY <1>4, <1>5 DEF TunnelDeathHandled, ValidateTunnel

LEMMA DropStaleDriverTaken ==
  ASSUME Ready, NEW t \in TaskIds, StoppedAt(t, Conn(t), "recover", "recover"),
         tasks[t].pc = "recover" => Conn(t) \notin recoveringConnectionIds, DropStaleDriver(t), UNCHANGED <<healthMonitors, inFlight>>
  PROVE  StepTaken
<1> DEFINE c == Conn(t)
<1>1. tasks[t].kind = "recover" /\ tasks[t].kind # "none"
  BY DEF StoppedAt, At
<1>2. TasksTyped(tasks) /\ c \in Connections
  BY <1>1, IsAt
<1>3. Went(t, "backoff", tasks[t].driver) /\ Apart({t})
  BY <1>1, <1>2, GotoDoes DEF DropStaleDriver
<1>4. DropsStale(t, c)
  BY <1>3 DEF DropsStale, DropStaleDriver
<1> QED
  BY <1>2, <1>4, Takes DEF ConnectionStep

LEMMA BeginRecoveryTaken ==
  ASSUME Ready, NEW t \in TaskIds, BeginRecovery(t)
  PROVE  StepTaken
<1> DEFINE c == Conn(t)
<1>1. tasks[t].kind = "recover" /\ tasks[t].kind # "none"
  BY DEF BeginRecovery, IsTask
<1>2. TasksTyped(tasks) /\ c \in Connections /\ tasks[t].conn = c
  BY <1>1, IsAt DEF At
<1>3. At(t, c, {"recover"}, {"recover"}) /\ inFlight' = inFlight
  BY <1>1, <1>2 DEF BeginRecovery, IsTask, At
<1>4. CASE End(t) /\ UNCHANGED <<recoveringConnectionIds, healthMonitors, activeSessions, open>>
  <2>1. Finishes(t, c)
    BY <1>2, <1>3, <1>4, EndDoes DEF Finishes, At, SameRest
  <2> QED
    BY <1>2, <2>1, Takes DEF ConnectionStep
<1>5. CASE MayRecover(c) /\ StopHealthMonitor(tasks, t, c, "stopped") /\ UNCHANGED <<activeSessions, open>>
  <2>1. healthMonitors[c] # t /\ healthMonitors \in [Connections -> TaskIds \cup {0}]
    BY <1>1, <1>2, NotItself DEF Ready, Before, TypeOK, IsMonitor
  <2>2. /\ \E m : StopsMonitor(t, c, m)
        /\ tasks'[t].kind = tasks[t].kind /\ tasks'[t].conn = tasks[t].conn
        /\ tasks'[t].driver = tasks[t].driver /\ tasks'[t].pc = "stopped"
    BY <1>2, <1>5, <2>1, StopHealthMonitorDoes
  <2>3. StopsFirst(t, c)
    BY <1>2, <1>3, <1>5, <2>2 DEF StopsFirst, At, MayRecover
  <2> QED
    BY <1>2, <2>3, Takes DEF ConnectionStep
<1>6. CASE MayRecover(c) /\ NoMonitor(c) /\ DropStaleDriver(t)
  BY <1>3, <1>6, DropStaleDriverTaken DEF StoppedAt, NoMonitor, MayRecover
<1> QED
  BY <1>4, <1>5, <1>6 DEF BeginRecovery

LEMMA StoppedBeforeRecoveryTaken ==
  ASSUME Ready, NEW t \in TaskIds, StoppedBeforeRecovery(t)
  PROVE  StepTaken
<1>1. StoppedAt(t, Conn(t), "recover", "recover") /\ tasks[t].pc # "recover"
  BY DEF StoppedBeforeRecovery, MonitorStopped, IsTask, StoppedAt, At, Conn
<1> QED
  BY <1>1, DropStaleDriverTaken DEF StoppedBeforeRecovery

(* The steps of a health monitor.                                          *)
LEMMA MonitorWakesTaken ==
  ASSUME Ready, NEW t \in TaskIds, MonitorWakes(t) \/ PingAnswered(t)
  PROVE  StepTaken
<1> DEFINE c == Conn(t)
<1>1. tasks[t].kind = "monitor" /\ tasks[t].kind # "none" /\ SameRest
  BY DEF MonitorWakes, PingAnswered, IsTask, SameRest
<1>2. TasksTyped(tasks) /\ c \in Connections /\ tasks[t].conn = c
  BY <1>1, IsAt DEF At
<1>3. CASE MonitorWakes(t) /\ tasks[t].cancelled
  <2>1. Over(t) /\ Apart({t})
    BY <1>2, <1>3, EndDoes DEF MonitorWakes
  <2>2. Finishes(t, c)
    BY <1>1, <1>2, <1>3, <2>1 DEF Finishes, MonitorWakes, At, IsTask
  <2> QED
    BY <1>2, <2>2, Takes DEF ConnectionStep
<1>4. CASE MonitorWakes(t) /\ ~ tasks[t].cancelled
  <2>1. Went(t, "ping", tasks[t].driver) /\ Apart({t})
    BY <1>1, <1>2, <1>4, GotoDoes DEF MonitorWakes
  <2>2. Goes(t, c, "ping") /\ "ping" \in Points
    BY <1>1, <1>2, <1>4, <2>1 DEF Goes, MonitorWakes, At, IsTask, Points
  <2> QED
    BY <1>2, <2>2, Takes DEF ConnectionStep
<1>5. CASE PingAnswered(t)
  <2>1. Went(t, "sleep", tasks[t].driver) /\ Apart({t})
    BY <1>1, <1>2, <1>5, GotoDoes DEF PingAnswered
  <2>2. Goes(t, c, "sleep") /\ "sleep" \in Points
    BY <1>1, <1>2, <1>5, <2>1 DEF Goes, PingAnswered, At, IsTask, Points
  <2> QED
    BY <1>2, <2>2, Takes DEF ConnectionStep
<1> QED
  BY <1>3, <1>4, <1>5

LEMMA AttemptReconnectTaken ==
  ASSUME Ready, NEW t \in TaskIds, AttemptReconnect(t)
  PROVE  StepTaken
<1> DEFINE c == Conn(t)
<1>1. tasks[t].kind = "monitor" /\ tasks[t].kind # "none"
  BY DEF AttemptReconnect
<1>2. TasksTyped(tasks) /\ c \in Connections /\ tasks[t].conn = c
  BY <1>1, IsAt DEF At
<1>3. At(t, c, {"monitor"}, {"ping", "failed"}) /\ UNCHANGED <<open, healthMonitors, inFlight>>
  BY <1>1, <1>2 DEF AttemptReconnect, At
<1>4. CASE tasks[t].cancelled
  <2>1. Over(t) /\ Apart({t}) /\ SetStatus(c, "error")
    BY <1>2, <1>4, EndDoes DEF AttemptReconnect
  <2>2. GivesUp(t, c)
    BY <1>3, <1>4, <2>1 DEF GivesUp
  <2> QED
    BY <1>2, <2>2, Takes DEF MonitorStep
<1>5. CASE ~ tasks[t].cancelled
  <2>1. Went(t, "backoff", tasks[t].driver) /\ Apart({t}) /\ SetStatus(c, "connecting")
    BY <1>1, <1>2, <1>5, GotoDoes DEF AttemptReconnect
  <2>2. Retries(t, c)
    BY <1>3, <1>5, <2>1 DEF Retries
  <2> QED
    BY <1>2, <2>2, Takes DEF MonitorStep
<1> QED
  BY <1>4, <1>5

LEMMA BackoffOverTaken ==
  ASSUME Ready, NEW t \in TaskIds, BackoffOver(t)
  PROVE  StepTaken
<1> DEFINE c == Conn(t)
<1>1. tasks[t].kind = "monitor" /\ tasks[t].kind # "none"
  BY DEF BackoffOver, IsTask
<1>2. TasksTyped(tasks) /\ c \in Connections /\ tasks[t].conn = c
  BY <1>1, IsAt DEF At
<1>3. At(t, c, {"monitor"}, {"backoff"}) /\ SameRest
  BY <1>1, <1>2 DEF BackoffOver, IsTask, At, SameRest
<1>4. CASE tasks[t].cancelled
  <2>1. Over(t) /\ Apart({t})
    BY <1>2, <1>4, EndDoes DEF BackoffOver
  <2>2. Finishes(t, c)
    BY <1>3, <1>4, <2>1 DEF Finishes, At
  <2> QED
    BY <1>2, <2>2, Takes DEF ConnectionStep
<1>5. CASE ~ tasks[t].cancelled /\ HasSession(c)
  <2> DEFINE d == activeSessions[c].driver
  <2>1. tasks' = [tasks EXCEPT ![t].driver = d, ![t].pc = "revive"]
    BY <1>5 DEF BackoffOver
  <2>2. Went(t, "revive", d) /\ Apart({t})
    BY <1>1, <1>2, <2>1, TakesDriver
  <2>3. Captures(t, c)
    BY <1>3, <1>5, <2>2 DEF Captures
  <2> QED
    BY <1>2, <2>3, Takes DEF MonitorStep
<1>6. CASE ~ tasks[t].cancelled /\ ~ HasSession(c)
  <2>1. Went(t, "failed", tasks[t].driver) /\ Apart({t})
    BY <1>1, <1>2, <1>6, GotoDoes DEF BackoffOver
  <2>2. Goes(t, c, "failed") /\ "failed" \in Points
    BY <1>3, <1>6, <2>1 DEF Goes, At, Points
  <2> QED
    BY <1>2, <2>2, Takes DEF ConnectionStep
<1> QED
  BY <1>4, <1>5, <1>6

LEMMA ReconnectDriverTaken ==
  ASSUME Ready, NEW t \in TaskIds, ReconnectDriver(t)
  PROVE  StepTaken
<1> DEFINE c  == Conn(t)
           pc == OpenNext(c)
<1>1. tasks[t].kind = "monitor" /\ tasks[t].kind # "none"
  BY DEF ReconnectDriver, IsTask
<1>2. TasksTyped(tasks) /\ c \in Connections /\ tasks[t].conn = c
  BY <1>1, IsAt DEF At
<1>3. tasks' = [tasks EXCEPT ![t].driver = 0, ![t].pc = pc] /\ pc \in {"openTunnel", "create"}
  BY DEF ReconnectDriver, OpenNext
<1>4. Went(t, pc, 0) /\ Apart({t})
  BY <1>1, <1>2, <1>3, TakesDriver
<1>5. Revives(t, c)
  BY <1>1, <1>2, <1>3, <1>4 DEF Revives, ReconnectDriver, IsTask, At
<1> QED
  BY <1>2, <1>5, Takes DEF MonitorStep

LEMMA ReconnectDriverFailsTaken ==
  ASSUME Ready, NEW t \in TaskIds, ReconnectDriverFails(t)
  PROVE  StepTaken
<1> DEFINE c  == Conn(t)
           pc == IF tasks[t].pc = "opening" /\ c \in Tunnelled THEN "closeTunnel" ELSE "failed"
<1>1. tasks[t].kind = "monitor" /\ tasks[t].kind # "none"
  BY DEF ReconnectDriverFails
<1>2. TasksTyped(tasks) /\ c \in Connections /\ tasks[t].conn = c
  BY <1>1, IsAt DEF At
<1>3. tasks' = [Emptied(t) EXCEPT ![t].pc = pc] /\ pc \in {"closeTunnel", "failed"}
  BY DEF ReconnectDriverFails
<1> HIDE DEF pc
<1>4. Went(t, pc, 0) /\ Apart({t})
  BY <1>1, <1>2, <1>3, DropsBoth
<1>5. CannotRevive(t, c)
  BY <1>1, <1>2, <1>3, <1>4 DEF CannotRevive, ReconnectDriverFails, At, SameRest
<1> QED
  BY <1>2, <1>5, Takes DEF MonitorStep

LEMMA RevivedTaken ==
  ASSUME Ready, NEW t \in TaskIds, Reconnected(t) \/ Healthy(t)
  PROVE  StepTaken
<1> DEFINE c == Conn(t)
<1>1. tasks[t].kind = "monitor" /\ tasks[t].kind # "none"
  BY DEF Reconnected, Healthy, IsTask
<1>2. TasksTyped(tasks) /\ c \in Connections /\ tasks[t].conn = c
  BY <1>1, IsAt DEF At
<1>3. CASE Reconnected(t)
  <2>1. Went(t, "healthy", 0) /\ Apart({t})
    BY <1>1, <1>2, <1>3, DropsBoth DEF Reconnected
  <2>2. Revived(t, c)
    BY <1>1, <1>2, <1>3, <2>1 DEF Revived, Reconnected, IsTask, At
  <2> QED
    BY <1>2, <2>2, Takes DEF MonitorStep
<1>4. CASE Healthy(t)
  <2>1. Went(t, "sleep", tasks[t].driver) /\ Apart({t})
    BY <1>1, <1>2, <1>4, GotoDoes DEF Healthy
  <2>2. TurnsHealthy(t, c)
    BY <1>1, <1>2, <1>4, <2>1 DEF TurnsHealthy, Healthy, IsTask, At
  <2> QED
    BY <1>2, <2>2, Takes DEF MonitorStep
<1> QED
  BY <1>3, <1>4

(* Every step is one of the table.                                         *)
LEMMA StepIsTaken ==
  ASSUME IInv, MonitorsLive, Next
  PROVE  StepTaken
<1>1. Ready
  BY InvariantGives DEF Ready
<1>2. ASSUME NEW c \in Connections, Operation(c) PROVE StepTaken
  BY <1>1, <1>2, EnsureConnectedTaken, DisconnectSessionTaken, SwitchDatabaseTaken,
     SystemDidWakeTaken, TunnelDiesTaken DEF Operation
<1>3. ASSUME NEW t \in TaskIds, Step(t) PROVE StepTaken
  <2>1. CASE Opening(t)
    BY <1>1, <2>1, OpeningTaken, ConnectedTaken, OldMonitorStoppedTaken, MonitorStartedTaken DEF Opening
  <2>2. CASE Connect(t)
    BY <1>1, <2>2, DedupTaken, ConnectToSessionTaken, OpeningTaken, ConnectFailsTaken DEF Connect
  <2>3. CASE Close(t)
    BY <1>1, <2>3, CloseItsTunnelTaken, StopBeforeCloseTaken, StoppedBeforeCloseTaken,
       LeaveSessionTaken DEF Close
  <2>4. CASE Reconnect(t)
    BY <1>1, <2>4, BeginReconnectTaken, StopBeforeReconnectTaken, StoppedBeforeReconnectTaken,
       ReconnectFailsTaken DEF Reconnect
  <2>5. CASE Recover(t)
    BY <1>1, <2>5, DeathTaken, BeginRecoveryTaken, StoppedBeforeRecoveryTaken DEF Recover
  <2>6. CASE Monitor(t)
    BY <1>1, <2>6, MonitorWakesTaken, AttemptReconnectTaken, BackoffOverTaken, ReconnectDriverTaken,
       ReconnectDriverFailsTaken, RevivedTaken DEF Monitor
  <2> QED
    BY <1>3, <2>1, <2>2, <2>3, <2>4, <2>5, <2>6 DEF Step
<1> QED
  BY <1>2, <1>3 DEF Next

-------------------------------------------------------------------------------
(***************************************************************************)
(* The monitors in healthMonitors run.                                     *)
(***************************************************************************)
(* They do where no step takes one of them away.                           *)
LEMMA MonitorsGoOn ==
  ASSUME Ready, NEW t \in TaskIds, Apart({t}), UNCHANGED healthMonitors,
         \/ ~ IsMonitor(tasks[t]) \/ tasks[t].cancelled
         \/ /\ tasks'[t].kind = tasks[t].kind /\ tasks'[t].conn = tasks[t].conn
            /\ tasks'[t].cancelled = tasks[t].cancelled
  PROVE  MonitorsLive'
<1> SUFFICES ASSUME NEW c \in Connections, healthMonitors[c] # 0
             PROVE  LiveMonitor(healthMonitors[c], c)'
  BY DEF MonitorsLive
<1> DEFINE m == healthMonitors[c]
<1>1. m \in TaskIds /\ LiveMonitor(m, c) /\ healthMonitors'[c] = m
  BY DEF Ready, Before, TypeOK, MonitorsLive
<1> HIDE DEF m
<1>2. IsMonitor(tasks'[m]) /\ tasks'[m].conn = c /\ ~ tasks'[m].cancelled
  <2>1. CASE m = t
    BY <1>1, <2>1 DEF LiveMonitor, IsMonitor
  <2>2. CASE m # t
    <3>1. Undisturbed(m)
      BY <1>1, <2>2 DEF Apart
    <3> QED
      BY <1>1, <3>1 DEF LiveMonitor, IsMonitor, Undisturbed, Alike
  <2> QED
    BY <2>1, <2>2
<1> QED
  BY <1>1, <1>2 DEF LiveMonitor

(* Stopping one.                                                           *)
LEMMA StopsKeepsLive ==
  ASSUME Ready, NEW t \in TaskIds, NEW c \in Connections, ~ IsMonitor(tasks[t]),
         NEW m, StopsMonitor(t, c, m)
  PROVE  MonitorsLive'
<1> SUFFICES ASSUME NEW d \in Connections, healthMonitors'[d] # 0
             PROVE  LiveMonitor(healthMonitors[d], d)'
  BY DEF MonitorsLive
<1>1. /\ healthMonitors' = [healthMonitors EXCEPT ![c] = 0] /\ healthMonitors[c] = m
      /\ m \in TaskIds
  BY DEF StopsMonitor
<1>2. healthMonitors \in [Connections -> TaskIds \cup {0}]
  BY DEF Ready, Before, TypeOK
<1>3. d # c /\ healthMonitors'[d] = healthMonitors[d]
  BY <1>1, <1>2
<1> DEFINE n == healthMonitors[d]
<1>4. n \in TaskIds /\ LiveMonitor(n, d) /\ LiveMonitor(m, c)
  BY <1>1, <1>2, <1>3, LimitsAssumption DEF Ready, MonitorsLive, TaskIds
<1>5. n \notin {t, m}
  BY <1>3, <1>4 DEF LiveMonitor
<1> HIDE DEF n
<1>6. Undisturbed(n)
  BY <1>4, <1>5 DEF StopsMonitor, Apart
<1>7. IsMonitor(tasks'[n]) /\ tasks'[n].conn = d /\ ~ tasks'[n].cancelled
  BY <1>4, <1>6 DEF LiveMonitor, IsMonitor, Undisturbed, Alike
<1> QED
  BY <1>3, <1>7 DEF LiveMonitor, n

(* Starting one.                                                           *)
LEMMA StartsKeepsLive ==
  ASSUME Ready, NEW t \in TaskIds, NEW c \in Connections, ~ IsMonitor(tasks[t]),
         NEW m, StartsMonitor(t, c, m)
  PROVE  MonitorsLive'
<1> SUFFICES ASSUME NEW d \in Connections, healthMonitors'[d] # 0
             PROVE  LiveMonitor(healthMonitors[d], d)'
  BY DEF MonitorsLive
<1>1. healthMonitors' = [healthMonitors EXCEPT ![c] = m]
  BY DEF StartsMonitor
<1>2. healthMonitors \in [Connections -> TaskIds \cup {0}]
  BY DEF Ready, Before, TypeOK
<1>3. CASE d = c
  <2>1. healthMonitors'[d] = m
    BY <1>1, <1>2, <1>3
  <2>2. IsMonitor(tasks'[m]) /\ tasks'[m].conn = c /\ ~ tasks'[m].cancelled
    BY DEF StartsMonitor
  <2> QED
    BY <1>3, <2>1, <2>2 DEF LiveMonitor
<1>4. CASE d # c
  <2> DEFINE n == healthMonitors[d]
  <2>1. healthMonitors'[d] = n
    BY <1>1, <1>2, <1>4
  <2>2. n \in TaskIds /\ LiveMonitor(n, d)
    BY <1>2, <2>1 DEF Ready, MonitorsLive
  <2> HIDE DEF n
  <2>3. n \notin {t, m}
    BY <2>2 DEF LiveMonitor, StartsMonitor, IsMonitor
  <2>4. Undisturbed(n)
    BY <2>2, <2>3 DEF StartsMonitor, Apart
  <2>5. IsMonitor(tasks'[n]) /\ tasks'[n].conn = d /\ ~ tasks'[n].cancelled
    BY <2>2, <2>4 DEF LiveMonitor, IsMonitor, Undisturbed, Alike
  <2> QED
    BY <2>1, <2>5 DEF LiveMonitor
<1> QED
  BY <1>3, <1>4

(* A step stops one, starts one, or leaves them all.                       *)
LeavesMonitors(t) ==
  /\ UNCHANGED healthMonitors /\ Apart({t})
  /\ \/ ~ IsMonitor(tasks[t]) \/ tasks[t].cancelled
     \/ /\ tasks'[t].kind = tasks[t].kind /\ tasks'[t].conn = tasks[t].conn
        /\ tasks'[t].cancelled = tasks[t].cancelled

LEMMA StepOnMonitors ==
  ASSUME NEW t \in TaskIds, NEW c \in Connections, ConnectionStep(t, c) \/ MonitorStep(t, c)
  PROVE  \/ LeavesMonitors(t)
         \/ ~ IsMonitor(tasks[t]) /\ \E m : StopsMonitor(t, c, m)
         \/ ~ IsMonitor(tasks[t]) /\ \E m : StartsMonitor(t, c, m)
<1>1. CASE OperationBegins(t, c) \/ Leads(t, c) \/ LeavesInFlight(t, c)
  BY <1>1 DEF OperationBegins, Leads, LeavesInFlight, At, IsMonitor, LeavesMonitors, SameRest
<1>2. CASE \E pc \in Points : Goes(t, c, pc)
  BY <1>2 DEF Goes, Went, LeavesMonitors, SameRest
<1>3. CASE MonitorHasStarted(t, c) \/ Finishes(t, c)
  BY <1>3 DEF MonitorHasStarted, Succeeds, Finishes, At, IsMonitor, LeavesMonitors, SameRest, Connecting
<1>4. CASE MakesDriver(t, c) \/ OpensDriver(t, c)
  BY <1>4 DEF MakesDriver, OpensDriver, Went, LeavesMonitors, SameRest
<1>5. CASE Enters(t, c) \/ Fails(t, c)
  BY <1>5 DEF Enters, Fails, At, IsMonitor, LeavesMonitors, Connecting
<1>6. CASE Installs(t, c)
  BY <1>6 DEF Installs, Succeeds, At, IsMonitor, LeavesMonitors, Connecting
<1>7. CASE StartsAnother(t, c)
  BY <1>7 DEF StartsAnother, At, IsMonitor, Connecting
<1>8. CASE StopsFirst(t, c)
  BY <1>8 DEF StopsFirst, DisconnectBegins, At, IsMonitor
<1>9. CASE ClosesSession(t, c)
  BY <1>9 DEF ClosesSession, StoppedAt, DisconnectBegins, At, IsMonitor, LeavesMonitors
<1>10. CASE BeginsReconnect(t, c) \/ ClosesOld(t, c) \/ CannotReconnect(t, c) \/ DropsStale(t, c)
  BY <1>10 DEF BeginsReconnect, ClosesOld, CannotReconnect, DropsStale, StoppedAt, At, IsMonitor, LeavesMonitors
<1>11. CASE GivesUp(t, c) \/ Retries(t, c) \/ Captures(t, c) \/ Revives(t, c)
  BY <1>11 DEF GivesUp, Retries, Captures, Revives, Went, LeavesMonitors, SameRest
<1>12. CASE CannotRevive(t, c) \/ Revived(t, c) \/ TurnsHealthy(t, c)
  BY <1>12 DEF CannotRevive, Revived, TurnsHealthy, Went, LeavesMonitors, SameRest
<1> QED
  BY <1>1, <1>2, <1>3, <1>4, <1>5, <1>6, <1>7, <1>8, <1>9, <1>10, <1>11, <1>12
  DEF ConnectionStep, MonitorStep

(* What is stopped is live, so a stopped monitor is never in the table.    *)
LEMMA MonitorsStayLive ==
  ASSUME Ready, NEW t \in TaskIds, NEW c \in Connections, ConnectionStep(t, c) \/ MonitorStep(t, c)
  PROVE  MonitorsLive'
BY StepOnMonitors, MonitorsGoOn, StopsKeepsLive, StartsKeepsLive DEF LeavesMonitors

-------------------------------------------------------------------------------
(***************************************************************************)
(* A session that is connecting is worked on.                              *)
(***************************************************************************)
(* The task makes a driver, or waits to, or decides what is to be done: a  *)
(* recovery waits to connect only while the session has no driver, and a   *)
(* monitor only as long as nobody has cancelled it.                        *)
Works(task, driver) ==
  \/ task.kind = "ensure" /\ task.pc \in Making
  \/ task.kind = "recover" /\ task.pc \in Making \cup {"stopped"}
  \/ task.kind = "recover" /\ task.pc = "backoff" /\ driver = 0
  \/ task.kind = "reconnect" /\ task.pc \in Making \cup {"stopMonitor", "stopped"}
  \/ task.kind = "disconnect" /\ task.pc = "stopped"
  \/ task.kind = "monitor" /\ task.pc \in Making \cup {"revive", "closeTunnel", "failed"}
  \/ task.kind = "monitor" /\ task.pc = "backoff" /\ ~ task.cancelled

WorksFor(u, c) == tasks[u].conn = c /\ Works(tasks[u], activeSessions[c].driver)

Worked ==
  \A c \in Connections : activeSessions[c].status = "connecting" =>
    \E u \in TaskIds : WorksFor(u, c)

(* The inductive invariant.                                                *)
LiveInv == IInv /\ MonitorsLive /\ Worked

(* The tasks a step is not about go on working.                            *)
LEMMA GoesOnWorking ==
  ASSUME NEW u \in TaskIds, Undisturbed(u), NEW driver, Works(tasks[u], driver)
  PROVE  Works(tasks'[u], driver) /\ tasks'[u].conn = tasks[u].conn
BY DEF Undisturbed, Works, Alike

(* What a step of connection c must do to leave every session worked on:   *)
(* it leaves c's session in another state, or is itself at work after it,  *)
(* or changes neither that session nor a task at work.                     *)
LEMMA WorkGoesOn ==
  ASSUME Worked, NEW S, Apart(S), NEW c \in Connections,
         \A u \in S \cap TaskIds : tasks[u].kind = "none" \/ tasks[u].conn = c,
         \A d \in Connections \ {c} : activeSessions'[d] = activeSessions[d],
         \/ activeSessions'[c].status # "connecting"
         \/ \E u \in TaskIds : WorksFor(u, c)'
         \/ /\ activeSessions'[c] = activeSessions[c]
            /\ \A u \in S \cap TaskIds : ~ Works(tasks[u], activeSessions[c].driver)
  PROVE  Worked'
<1> SUFFICES ASSUME NEW d \in Connections, activeSessions'[d].status = "connecting"
             PROVE  \E u \in TaskIds : WorksFor(u, d)'
  BY DEF Worked
<1>1. CASE d = c /\ \E u \in TaskIds : WorksFor(u, c)'
  BY <1>1
<1>2. CASE /\ activeSessions'[d] = activeSessions[d]
           /\ d = c => \A u \in S \cap TaskIds : ~ Works(tasks[u], activeSessions[c].driver)
  <2>1. PICK u \in TaskIds : tasks[u].conn = d /\ Works(tasks[u], activeSessions[d].driver)
    BY <1>2 DEF Worked, WorksFor
  <2>2. u \notin S
    BY <1>2, <2>1 DEF Works
  <2>3. Works(tasks'[u], activeSessions[d].driver) /\ tasks'[u].conn = d
    BY <2>1, <2>2, GoesOnWorking DEF Apart
  <2>4. WorksFor(u, d)'
    BY <1>2, <2>3 DEF WorksFor
  <2> QED
    BY <2>4
<1> QED
  BY <1>1, <1>2

(* For a step of one task, in the terms of the table.                      *)
LEMMA WorkerSteps ==
  ASSUME Worked, NEW t \in TaskIds, Apart({t}), NEW c \in Connections,
         tasks[t].kind = "none" \/ tasks[t].conn = c,
         \A d \in Connections \ {c} : activeSessions'[d] = activeSessions[d],
         \/ activeSessions'[c].status # "connecting"
         \/ tasks'[t].conn = c /\ Works(tasks'[t], activeSessions'[c].driver)
         \/ activeSessions'[c] = activeSessions[c] /\ ~ Works(tasks[t], activeSessions[c].driver)
  PROVE  Worked'
<1>1. tasks'[t].conn = c /\ Works(tasks'[t], activeSessions'[c].driver) => WorksFor(t, c)'
  BY DEF WorksFor
<1> QED
  BY <1>1, WorkGoesOn

(* What the assignments to a session do to it, and to the others.          *)
LEMMA SetStatusDoes ==
  ASSUME TypeOK, NEW c \in Connections, NEW status, SetStatus(c, status)
  PROVE  /\ \A d \in Connections \ {c} : activeSessions'[d] = activeSessions[d]
         /\ HasSession(c) => activeSessions'[c] = [activeSessions[c] EXCEPT !.status = status]
         /\ ~ HasSession(c) => activeSessions'[c] = activeSessions[c]
BY DEF TypeOK, SetStatus

LEMMA InstallDriverDoes ==
  ASSUME TypeOK, NEW c \in Connections, NEW driver, NEW tunnel, InstallDriver(c, driver, tunnel)
  PROVE  /\ \A d \in Connections \ {c} : activeSessions'[d] = activeSessions[d]
         /\ HasSession(c) => activeSessions'[c] =
              [status |-> "connected", driver |-> driver, tunnel |-> tunnel]
         /\ ~ HasSession(c) => activeSessions'[c] = activeSessions[c]
BY DEF TypeOK, InstallDriver

LEMMA RemoveSessionDoes ==
  ASSUME TypeOK, NEW c \in Connections, RemoveSessionEntry(c)
  PROVE  /\ \A d \in Connections \ {c} : activeSessions'[d] = activeSessions[d]
         /\ activeSessions'[c] = NoSession /\ activeSessions'[c].status = "none"
         /\ activeSessions'[c].driver = 0
BY DEF TypeOK, RemoveSessionEntry, NoSession

(* Neither leaves a session connecting that another status is written to.  *)
LEMMA NotConnecting ==
  ASSUME Ready, NEW c \in Connections,
         \/ \E status \in {"error", "connected"} : SetStatus(c, status)
         \/ \E driver, tunnel : InstallDriver(c, driver, tunnel)
  PROVE  /\ \A d \in Connections \ {c} : activeSessions'[d] = activeSessions[d]
         /\ activeSessions'[c].status # "connecting"
<1>1. activeSessions[c] \in Sessions /\ TypeOK
  BY DEF Ready, Before, TypeOK
<1>2. ~ HasSession(c) => activeSessions[c].status # "connecting"
  BY DEF HasSession
<1>3. ASSUME NEW status \in {"error", "connected"}, SetStatus(c, status)
      PROVE  /\ \A d \in Connections \ {c} : activeSessions'[d] = activeSessions[d]
             /\ activeSessions'[c].status # "connecting"
  <2>1. [activeSessions[c] EXCEPT !.status = status].status = status
    BY <1>1 DEF Sessions
  <2> QED
    BY <1>1, <1>2, <1>3, <2>1, SetStatusDoes
<1>4. ASSUME NEW driver, NEW tunnel, InstallDriver(c, driver, tunnel)
      PROVE  /\ \A d \in Connections \ {c} : activeSessions'[d] = activeSessions[d]
             /\ activeSessions'[c].status # "connecting"
  <2>1. [status |-> "connected", driver |-> driver, tunnel |-> tunnel].status # "connecting"
    OBVIOUS
  <2> QED
    BY <1>1, <1>2, <1>4, <2>1, InstallDriverDoes
<1> QED
  BY <1>3, <1>4

(* Every step leaves every connecting session worked on.                   *)
LEMMA ConnectionStepKeepsWork ==
  ASSUME Ready, Worked, NEW t \in TaskIds, NEW c \in Connections, ConnectionStep(t, c)
  PROVE  Worked'
<1>1. CASE OperationBegins(t, c)
  BY <1>1, WorkerSteps DEF OperationBegins, SameRest, Works
<1>2. CASE Leads(t, c) \/ LeavesInFlight(t, c)
  BY <1>2, WorkerSteps DEF Leads, LeavesInFlight, At, Works, Making
<1>3. CASE \E pc \in Points : Goes(t, c, pc)
  <2>1. PICK pc \in Points : Goes(t, c, pc)
    BY <1>3
  <2>2. tasks[t].conn = c /\ tasks'[t].conn = c
    BY <2>1 DEF Goes, At, Went
  <2>3. Works(tasks[t], activeSessions[c].driver) => Works(tasks'[t], activeSessions'[c].driver)
    BY <2>1 DEF Goes, At, Went, SameRest, Works, Making, Openers, Connecting
  <2> QED
    BY <2>1, <2>2, <2>3, WorkerSteps DEF Goes, SameRest
<1>4. CASE MonitorHasStarted(t, c) \/ Finishes(t, c)
  <2>1. Apart({t}) /\ SameRest /\ tasks[t].conn = c
    BY <1>4 DEF MonitorHasStarted, Finishes, Succeeds, At
  <2>2. ~ Works(tasks[t], activeSessions[c].driver)
    BY <1>4 DEF MonitorHasStarted, Finishes, At, Works, Making, Connecting
  <2> QED
    BY <2>1, <2>2, WorkerSteps DEF SameRest
<1>5. CASE MakesDriver(t, c) \/ OpensDriver(t, c)
  <2>1. Apart({t}) /\ tasks[t].conn = c /\ activeSessions' = activeSessions
    BY <1>5 DEF MakesDriver, OpensDriver, SameRest, At
  <2>2. tasks'[t].conn = c /\ Works(tasks'[t], activeSessions'[c].driver)
    BY <1>5 DEF MakesDriver, OpensDriver, At, Went, Works, Making, Openers, Connecting
  <2> QED
    BY <2>1, <2>2, WorkerSteps
<1>6. CASE Enters(t, c)
  <2>1. Apart({t}) /\ tasks[t].conn = c
    BY <1>6 DEF Enters, At
  <2>2. \A d \in Connections \ {c} : activeSessions'[d] = activeSessions[d]
    BY <1>6 DEF Enters, Ready, Before, TypeOK
  <2>3. tasks'[t].conn = c /\ Works(tasks'[t], activeSessions'[c].driver)
    BY <1>6 DEF Enters, At, Went, Works, Making
  <2> QED
    BY <2>1, <2>2, <2>3, WorkerSteps
<1>7. CASE Fails(t, c)
  BY <1>7, RemoveSessionDoes, WorkerSteps DEF Fails, At, Ready, Before
<1>8. CASE Installs(t, c)
  <2>1. /\ \A d \in Connections \ {c} : activeSessions'[d] = activeSessions[d]
        /\ activeSessions'[c].status # "connecting"
    BY <1>8, NotConnecting DEF Installs
  <2>2. tasks[t].conn = c
    BY <1>8 DEF Installs, At
  <2>3. PICK m \in TaskIds : /\ Apart({t, m})
                             /\ tasks[m].kind = "none" \/ tasks[m].conn = c
    <3>1. CASE \E m : StopsMonitor(t, c, m)
      <4>1. PICK m : StopsMonitor(t, c, m)
        BY <3>1
      <4>2. m \in TaskIds /\ LiveMonitor(m, c)
        BY <4>1, LimitsAssumption DEF StopsMonitor, Ready, MonitorsLive, TaskIds
      <4> QED
        BY <4>1, <4>2 DEF StopsMonitor, LiveMonitor
    <3>2. CASE \E m : StartsMonitor(t, c, m)
      BY <3>2 DEF StartsMonitor
    <3>3. CASE Apart({t})
      <4>1. {t} = {t, t}
        OBVIOUS
      <4> QED
        BY <2>2, <3>3, <4>1
    <3> QED
      BY <1>8, <3>1, <3>2, <3>3 DEF Installs, Succeeds
  <2> QED
    BY <2>1, <2>2, <2>3, WorkGoesOn
<1>9. CASE StartsAnother(t, c)
  <2>1. PICK m : StartsMonitor(t, c, m)
    BY <1>9 DEF StartsAnother
  <2>2. Apart({t, m}) /\ tasks[m].kind = "none" /\ tasks[t].conn = c /\ activeSessions' = activeSessions
    BY <1>9, <2>1 DEF StartsAnother, StartsMonitor, At
  <2>3. \A u \in {t, m} : ~ Works(tasks[u], activeSessions[c].driver)
    BY <1>9, <2>2 DEF StartsAnother, At, Works, Making, Connecting
  <2> QED
    BY <2>2, <2>3, WorkGoesOn
<1>10. CASE StopsFirst(t, c)
  <2>1. PICK m : StopsMonitor(t, c, m)
    BY <1>10 DEF StopsFirst
  <2>2. Apart({t, m}) /\ activeSessions' = activeSessions /\ (tasks[t].kind = "none" \/ tasks[t].conn = c)
    BY <1>10, <2>1 DEF StopsFirst, StopsMonitor, At, DisconnectBegins
  <2>3. m \in TaskIds /\ tasks[m].conn = c
    BY <2>1, LimitsAssumption DEF StopsMonitor, Ready, MonitorsLive, LiveMonitor, TaskIds
  <2>4. tasks'[t].conn = c /\ tasks'[t].pc = "stopped"
        /\ tasks'[t].kind \in {"disconnect", "reconnect", "recover"}
    BY <1>10 DEF StopsFirst, At
  <2>5. WorksFor(t, c)'
    BY <2>4 DEF WorksFor, Works
  <2> QED
    BY <2>2, <2>3, <2>5, WorkGoesOn
<1>11. CASE ClosesSession(t, c)
  BY <1>11, RemoveSessionDoes, WorkerSteps
  DEF ClosesSession, DisconnectBegins, StoppedAt, At, Ready, Before
<1>12. CASE BeginsReconnect(t, c)
  <2>1. \A d \in Connections \ {c} : activeSessions'[d] = activeSessions[d]
    BY <1>12, SetStatusDoes DEF BeginsReconnect, Ready, Before
  <2>2. tasks[t].conn = c /\ tasks'[t].conn = c /\ Works(tasks'[t], activeSessions'[c].driver)
    BY <1>12 DEF BeginsReconnect, At, Went, Works
  <2> QED
    BY <1>12, <2>1, <2>2, WorkerSteps DEF BeginsReconnect
<1>13. CASE ClosesOld(t, c)
  <2>1. tasks[t].conn = c /\ tasks'[t].conn = c /\ Works(tasks'[t], activeSessions'[c].driver)
    BY <1>13 DEF ClosesOld, StoppedAt, At, Went, Works, Making
  <2> QED
    BY <1>13, <2>1, WorkerSteps DEF ClosesOld
<1>14. CASE CannotReconnect(t, c)
  <2>1. /\ \A d \in Connections \ {c} : activeSessions'[d] = activeSessions[d]
        /\ activeSessions'[c].status # "connecting"
    BY <1>14, NotConnecting DEF CannotReconnect
  <2> QED
    BY <1>14, <2>1, WorkerSteps DEF CannotReconnect, At
<1>15. CASE DropsStale(t, c)
  <2>1. /\ \A d \in Connections \ {c} : activeSessions'[d] = activeSessions[d]
        /\ activeSessions'[c].driver = 0
    BY <1>15 DEF DropsStale, Ready, Before, TypeOK, Sessions, NoSessionNoDriver
  <2>2. tasks[t].conn = c /\ tasks'[t].conn = c /\ Works(tasks'[t], activeSessions'[c].driver)
    BY <1>15, <2>1 DEF DropsStale, StoppedAt, At, Went, Works, Making
  <2> QED
    BY <1>15, <2>1, <2>2, WorkerSteps DEF DropsStale
<1> QED
  BY <1>1, <1>2, <1>3, <1>4, <1>5, <1>6, <1>7, <1>8, <1>9, <1>10, <1>11, <1>12, <1>13, <1>14, <1>15
  DEF ConnectionStep

LEMMA MonitorStepKeepsWork ==
  ASSUME Ready, Worked, NEW t \in TaskIds, NEW c \in Connections, MonitorStep(t, c)
  PROVE  Worked'
<1>1. CASE GivesUp(t, c)
  <2>1. /\ \A d \in Connections \ {c} : activeSessions'[d] = activeSessions[d]
        /\ activeSessions'[c].status # "connecting"
    BY <1>1, NotConnecting DEF GivesUp
  <2> QED
    BY <1>1, <2>1, WorkerSteps DEF GivesUp, At
<1>2. CASE Retries(t, c)
  <2>1. \A d \in Connections \ {c} : activeSessions'[d] = activeSessions[d]
    BY <1>2, SetStatusDoes DEF Retries, Ready, Before
  <2>2. tasks[t].conn = c /\ tasks'[t].conn = c /\ Works(tasks'[t], activeSessions'[c].driver)
    BY <1>2 DEF Retries, At, Went, Works
  <2> QED
    BY <1>2, <2>1, <2>2, WorkerSteps DEF Retries
<1>3. CASE Captures(t, c) \/ Revives(t, c) \/ CannotRevive(t, c)
  <2>1. Apart({t}) /\ activeSessions' = activeSessions
    BY <1>3 DEF Captures, Revives, CannotRevive, SameRest
  <2>2. tasks[t].conn = c /\ tasks'[t].conn = c /\ Works(tasks'[t], activeSessions'[c].driver)
    BY <1>3 DEF Captures, Revives, CannotRevive, At, Went, Works, Making
  <2> QED
    BY <2>1, <2>2, WorkerSteps
<1>4. CASE Revived(t, c)
  <2>1. /\ \A d \in Connections \ {c} : activeSessions'[d] = activeSessions[d]
        /\ activeSessions'[c].status # "connecting"
    BY <1>4, NotConnecting DEF Revived
  <2> QED
    BY <1>4, <2>1, WorkerSteps DEF Revived, At
<1>5. CASE TurnsHealthy(t, c)
  <2>1. /\ \A d \in Connections \ {c} : activeSessions'[d] = activeSessions[d]
        /\ activeSessions'[c].status # "connecting"
    BY <1>5, NotConnecting DEF TurnsHealthy
  <2> QED
    BY <1>5, <2>1, WorkerSteps DEF TurnsHealthy, At
<1> QED
  BY <1>1, <1>2, <1>3, <1>4, <1>5 DEF MonitorStep

LEMMA LiveInvHolds ==
  Init => LiveInv
<1> SUFFICES ASSUME Init PROVE LiveInv
  OBVIOUS
<1>1. IInv
  BY InitHolds
<1>2. MonitorsLive /\ Worked
  BY DEF Init, NoSession, MonitorsLive, Worked
<1> QED
  BY <1>1, <1>2 DEF LiveInv

LEMMA LiveInvKept ==
  LiveInv /\ [Next]_vars => LiveInv'
<1> SUFFICES ASSUME LiveInv, [Next]_vars PROVE LiveInv'
  OBVIOUS
<1>1. IInv'
  BY NextKeeps DEF LiveInv
<1>2. CASE Next
  <2>1. Ready
    BY InvariantGives DEF Ready, LiveInv
  <2>2. PICK t \in TaskIds, c \in Connections : ConnectionStep(t, c) \/ MonitorStep(t, c)
    BY <1>2, StepIsTaken DEF LiveInv, StepTaken
  <2>3. MonitorsLive' /\ Worked'
    BY <2>1, <2>2, MonitorsStayLive, ConnectionStepKeepsWork, MonitorStepKeepsWork DEF LiveInv
  <2> QED
    BY <1>1, <2>3 DEF LiveInv
<1>3. CASE UNCHANGED vars
  <2>1. MonitorsLive' /\ Worked'
    BY <1>3 DEF vars, LiveInv, MonitorsLive, LiveMonitor, Worked, WorksFor
  <2> QED
    BY <1>1, <2>1 DEF LiveInv
<1> QED
  BY <1>2, <1>3

(* A monitor the table of monitors names is running, is the connection's,  *)
(* and has not been cancelled: stopHealthMonitor never awaits a task that  *)
(* has ended, and a new monitor never takes the number of one in use.      *)
THEOREM MonitorsAreLive == Spec => []MonitorsLive
<1>1. LiveInv => MonitorsLive
  BY DEF LiveInv
<1> QED
  BY <1>1, LiveInvHolds, LiveInvKept, PTL DEF Spec

(* A session shown as connecting is being connected, whatever operations   *)
(* overlap, tunnels die and monitors are stopped on the way.               *)
THEOREM ConnectingAlwaysWorkedOn == Spec => []ConnectingIsWorkedOn
<1>1. LiveInv => ConnectingIsWorkedOn
  <2> SUFFICES ASSUME LiveInv, NEW c \in Connections, activeSessions[c].status = "connecting"
               PROVE  \E t \in Live(c) :
                        \/ tasks[t].kind \in {"ensure", "reconnect", "recover", "disconnect"}
                        \/ tasks[t].kind = "monitor" /\ tasks[t].pc \notin {"sleep", "ping"}
    BY DEF ConnectingIsWorkedOn
  <2>1. PICK t \in TaskIds : WorksFor(t, c)
    BY DEF LiveInv, Worked
  <2>2. t \in Live(c)
    BY <2>1 DEF WorksFor, Works, Live, Conn
  <2>3. \/ tasks[t].kind \in {"ensure", "reconnect", "recover", "disconnect"}
        \/ tasks[t].kind = "monitor" /\ tasks[t].pc \notin {"sleep", "ping"}
    BY <2>1 DEF WorksFor, Works, Making
  <2> QED
    BY <2>2, <2>3
<1> QED
  BY <1>1, LiveInvHolds, LiveInvKept, PTL DEF Spec

-------------------------------------------------------------------------------
(***************************************************************************)
(* One operation at a time.                                                *)
(***************************************************************************)
Recoverable == "wake" \in Operations \/ MaxDeaths # 0

Possible(operation) ==
  operation \in Operations \/ (operation = "death" /\ MaxDeaths # 0)

(* The operations of a connection do not overlap: each begins only when    *)
(* nothing but a monitor runs for its connection.  A call of               *)
(* ensureConnected may still begin at any time where no tunnel is          *)
(* recovered, OnceTask and the session's driver keep it from the rest; and *)
(* the system may wake at any time where nothing closes a session.         *)
OneByOne ==
  /\ \A operation \in {"disconnect", "reconnect", "death"} :
       Possible(operation) => operation \in Alone
  /\ "wake" \in Operations => \/ "wake" \in Alone
                              \/ {"disconnect", "reconnect"} \cap Operations = {}
  /\ "ensure" \in Alone \/ ~ Recoverable

(* A recovery that may find that there is nothing to do, and a call of     *)
(* ensureConnected that has connected.                                     *)
Called(task) == task.kind = "recover" /\ task.pc \in {"died", "woken", "recover"}

Done(task) == task.kind = "ensure" /\ task.pc \in {"started", "leave"}

(* A task that has its connection to itself, and those that do nothing to  *)
(* its session or its monitor.                                             *)
Exclusive(task) ==
  \/ task.kind = "reconnect"
  \/ task.kind = "recover" /\ ~ Called(task)
  \/ task.kind = "disconnect" /\ task.pc # "invalidate"

Bystander(task) == task.kind \in {"none", "monitor", "closer"}

StaysOut(task) == Bystander(task) \/ Called(task) \/ Done(task)

AloneAtWork ==
  \A w \in TaskIds : Exclusive(tasks[w]) =>
    \A u \in TaskIds \ {w} : tasks[u].conn = tasks[w].conn => StaysOut(tasks[u])

(* A recovery is called beside another one at most.                        *)
CalledAside ==
  \A w \in TaskIds : Called(tasks[w]) =>
    \A u \in TaskIds \ {w} : tasks[u].conn = tasks[w].conn =>
      StaysOut(tasks[u]) \/ tasks[u].kind = "recover"

(* One call of ensureConnected connects, and the others wait for it.       *)
Leading(task) == task.kind = "ensure" /\ task.pc # "dedup"

OneLeads ==
  \A t \in TaskIds : Leading(tasks[t]) =>
    /\ tasks[t].conn \in inFlight
    /\ \A u \in TaskIds \ {t} : tasks[u].conn = tasks[t].conn => ~ Leading(tasks[u])

(* What a step does to a task it does not start.                           *)
SamePart(a, b) ==
  \/ Bystander(b)
  \/ /\ a.kind = b.kind /\ a.conn = b.conn
     /\ Exclusive(b) => Exclusive(a)
     /\ Leading(b) => Leading(a)
     /\ StaysOut(a) => StaysOut(b)
     /\ Called(b) => Called(a)

OthersKeepPart(t) == \A u \in TaskIds \ {t} : SamePart(tasks[u], tasks'[u])

(* An operation of connection c begins with task t.                        *)
Begins(t, c, operation) ==
  /\ tasks[t].kind = "none" /\ tasks'[t].conn = c
  /\ Possible(operation) /\ MayStart(operation, c)
  /\ OthersKeepPart(t) /\ inFlight' = inFlight
  /\ \/ /\ operation = "ensure" /\ tasks'[t].kind = "ensure" /\ tasks'[t].pc = "dedup"
        /\ activeSessions[c].driver = 0
     \/ /\ operation = "reconnect" /\ tasks'[t].kind = "reconnect"
        /\ activeSessions[c].driver # 0
     \/ /\ operation = "disconnect" /\ tasks'[t].kind = "disconnect" /\ HasSession(c)
     \/ /\ operation \in {"wake", "death"} /\ Called(tasks'[t]) /\ Recoverable
        /\ operation = "wake" => IsConnected(c)

(* handleSSHTunnelDied goes ahead.                                         *)
TakesUp(t, c) ==
  /\ At(t, c, {"recover"}, {"recover"}) /\ c \notin recoveringConnectionIds
  /\ tasks'[t].kind = "recover" /\ tasks'[t].conn = c /\ ~ Called(tasks'[t])
  /\ OthersKeepPart(t) /\ inFlight' = inFlight

(* What every step does to the operations.                                 *)
PartsTaken(t, c) ==
  \/ \E operation \in AllOperations : Begins(t, c, operation)
  \/ Leads(t, c)
  \/ LeavesInFlight(t, c)
  \/ TakesUp(t, c)
  \/ /\ SamePart(tasks[t], tasks'[t]) /\ OthersKeepPart(t)
     /\ inFlight' = inFlight

LEMMA UndisturbedKeepsPart ==
  ASSUME NEW u, Undisturbed(u)
  PROVE  SamePart(tasks[u], tasks'[u])
BY DEF Undisturbed, Alike, SamePart, Bystander, Exclusive, Leading, StaysOut, Called, Done

LEMMA ApartKeepsPart ==
  ASSUME NEW t, Apart({t})
  PROVE  OthersKeepPart(t)
BY UndisturbedKeepsPart DEF Apart, OthersKeepPart

LEMMA MonitorKeepsPart ==
  ASSUME Ready, NEW t, NEW c \in Connections, NEW m,
         StopsMonitor(t, c, m) \/ StartsMonitor(t, c, m)
  PROVE  OthersKeepPart(t)
<1>1. Bystander(tasks'[m])
  <2>1. CASE StopsMonitor(t, c, m)
    <3>1. IsMonitor(tasks[m])
      BY <2>1, LimitsAssumption DEF StopsMonitor, Ready, MonitorsLive, LiveMonitor, TaskIds
    <3> QED
      BY <2>1, <3>1 DEF StopsMonitor, IsMonitor, Bystander
  <2>2. CASE StartsMonitor(t, c, m)
    BY <2>2 DEF StartsMonitor, IsMonitor, Bystander
  <2> QED
    BY <2>1, <2>2
<1>2. \A u \in TaskIds \ {t, m} : SamePart(tasks[u], tasks'[u])
  BY UndisturbedKeepsPart DEF StopsMonitor, StartsMonitor, Apart
<1> QED
  BY <1>1, <1>2 DEF OthersKeepPart, SamePart

(* The table says so of every step.                                        *)
LEMMA StepOnParts ==
  ASSUME Ready, NEW t \in TaskIds, NEW c \in Connections, ConnectionStep(t, c) \/ MonitorStep(t, c)
  PROVE  PartsTaken(t, c)
<1>1. CASE OperationBegins(t, c)
  <2>1. OthersKeepPart(t) /\ inFlight' = inFlight
    BY <1>1, ApartKeepsPart DEF OperationBegins, SameRest
  <2>2. \E operation \in AllOperations : Begins(t, c, operation)
    BY <1>1, <2>1 DEF OperationBegins, DisconnectBegins, Begins, Possible, Recoverable, AllOperations, Called
  <2> QED
    BY <2>2 DEF PartsTaken
<1>2. CASE Leads(t, c) \/ LeavesInFlight(t, c)
  BY <1>2 DEF PartsTaken
<1>3. CASE \E pc \in Points : Goes(t, c, pc)
  <2>1. OthersKeepPart(t) /\ inFlight' = inFlight
    BY <1>3, ApartKeepsPart DEF Goes, SameRest
  <2>2. SamePart(tasks[t], tasks'[t])
    BY <1>3 DEF Goes, At, Went, SamePart, Exclusive, Leading, StaysOut, Called, Done, Bystander
  <2> QED
    BY <2>1, <2>2 DEF PartsTaken
<1>4. CASE MonitorHasStarted(t, c) \/ Finishes(t, c)
  <2>1. OthersKeepPart(t) /\ inFlight' = inFlight
    BY <1>4, ApartKeepsPart DEF MonitorHasStarted, Succeeds, Finishes, SameRest
  <2>2. SamePart(tasks[t], tasks'[t])
    BY <1>4 DEF MonitorHasStarted, Finishes, Succeeds, Succeeded, Over, At, Went,
       SamePart, Exclusive, Leading, StaysOut, Called, Done, Bystander
  <2> QED
    BY <2>1, <2>2 DEF PartsTaken
<1>5. CASE MakesDriver(t, c) \/ OpensDriver(t, c) \/ Enters(t, c) \/ Fails(t, c)
  <2>1. OthersKeepPart(t) /\ inFlight' = inFlight
    BY <1>5, ApartKeepsPart DEF MakesDriver, OpensDriver, Enters, Fails, SameRest
  <2>2. SamePart(tasks[t], tasks'[t])
    BY <1>5 DEF MakesDriver, OpensDriver, Enters, Fails, Over, At, Went,
       SamePart, Exclusive, Leading, StaysOut, Called, Done, Bystander, Openers, Connecting
  <2> QED
    BY <2>1, <2>2 DEF PartsTaken
<1>6. CASE Installs(t, c) \/ StartsAnother(t, c)
  <2>1. OthersKeepPart(t) /\ inFlight' = inFlight
    BY <1>6, ApartKeepsPart, MonitorKeepsPart DEF Installs, StartsAnother, Succeeds
  <2>2. SamePart(tasks[t], tasks'[t])
    BY <1>6 DEF Installs, StartsAnother, Succeeds, Succeeded, Over, At, Went, GoesTo,
       SamePart, Exclusive, Leading, StaysOut, Called, Done, Bystander, Connecting
  <2> QED
    BY <2>1, <2>2 DEF PartsTaken
<1>7. CASE StopsFirst(t, c)
  <2>1. OthersKeepPart(t) /\ inFlight' = inFlight
    BY <1>7, MonitorKeepsPart DEF StopsFirst
  <2>2. CASE DisconnectBegins(t, c) /\ tasks'[t].kind = "disconnect"
    <3>1. Begins(t, c, "disconnect")
      BY <1>7, <2>1, <2>2 DEF StopsFirst, DisconnectBegins, Begins, Possible
    <3> QED
      BY <3>1 DEF PartsTaken, AllOperations
  <2>3. CASE At(t, c, {"recover"}, {"recover"}) /\ c \notin recoveringConnectionIds
    <3>1. tasks'[t].kind = "recover" /\ tasks'[t].conn = c /\ tasks'[t].pc = "stopped"
      BY <1>7, <2>3 DEF StopsFirst, DisconnectBegins, At
    <3>2. TakesUp(t, c)
      BY <2>1, <2>3, <3>1 DEF TakesUp, Called
    <3> QED
      BY <3>2 DEF PartsTaken
  <2>4. CASE At(t, c, {"disconnect", "reconnect"}, {"stopMonitor"})
    <3>1. tasks'[t].kind = tasks[t].kind
      BY <1>7, <2>4 DEF StopsFirst, DisconnectBegins, At
    <3>2. SamePart(tasks[t], tasks'[t])
      BY <1>7, <2>4, <3>1 DEF StopsFirst, At, SamePart, Exclusive, Leading, StaysOut, Called, Done, Bystander
    <3> QED
      BY <2>1, <3>2 DEF PartsTaken
  <2> QED
    BY <1>7, <2>2, <2>3, <2>4 DEF StopsFirst
<1>8. CASE ClosesSession(t, c)
  <2>1. OthersKeepPart(t) /\ inFlight' = inFlight
    BY <1>8, ApartKeepsPart DEF ClosesSession
  <2>2. CASE DisconnectBegins(t, c)
    <3>1. Begins(t, c, "disconnect")
      BY <1>8, <2>1, <2>2 DEF ClosesSession, DisconnectBegins, Begins, Possible
    <3> QED
      BY <3>1 DEF PartsTaken, AllOperations
  <2>3. CASE StoppedAt(t, c, "disconnect", "stopMonitor")
    <3>1. SamePart(tasks[t], tasks'[t])
      BY <1>8, <2>3 DEF ClosesSession, StoppedAt, At, SamePart, Exclusive, Leading, StaysOut, Called, Done, Bystander
    <3> QED
      BY <2>1, <3>1 DEF PartsTaken
  <2> QED
    BY <1>8, <2>2, <2>3 DEF ClosesSession
<1>9. CASE BeginsReconnect(t, c) \/ ClosesOld(t, c) \/ CannotReconnect(t, c) \/ DropsStale(t, c)
  <2>1. OthersKeepPart(t) /\ inFlight' = inFlight
    BY <1>9, ApartKeepsPart DEF BeginsReconnect, ClosesOld, CannotReconnect, DropsStale
  <2>3. CASE DropsStale(t, c) /\ tasks[t].pc = "recover"
    <3>1. TakesUp(t, c)
      BY <2>1, <2>3 DEF DropsStale, StoppedAt, At, Went, TakesUp, Called
    <3> QED
      BY <3>1 DEF PartsTaken
  <2>4. CASE ~ (DropsStale(t, c) /\ tasks[t].pc = "recover")
    <3>1. SamePart(tasks[t], tasks'[t])
      BY <1>9, <2>4 DEF BeginsReconnect, ClosesOld, CannotReconnect, DropsStale, StoppedAt, Over, At, Went,
         SamePart, Exclusive, Leading, StaysOut, Called, Done, Bystander
    <3> QED
      BY <2>1, <3>1 DEF PartsTaken
  <2> QED
    BY <2>3, <2>4
<1>10. CASE MonitorStep(t, c)
  <2>1. OthersKeepPart(t) /\ inFlight' = inFlight
    BY <1>10, ApartKeepsPart DEF MonitorStep, GivesUp, Retries, Captures, Revives, CannotRevive,
       Revived, TurnsHealthy, SameRest
  <2>2. Bystander(tasks'[t])
    BY <1>10 DEF MonitorStep, GivesUp, Retries, Captures, Revives, CannotRevive,
       Revived, TurnsHealthy, Bystander, At, Went, Over
  <2> QED
    BY <2>1, <2>2 DEF PartsTaken, SamePart
<1> QED
  BY <1>1, <1>2, <1>3, <1>4, <1>5, <1>6, <1>7, <1>8, <1>9, <1>10 DEF ConnectionStep

(* Where no tunnel is recovered, an operation that has its connection to   *)
(* itself finds a driver there, and a session without one is being         *)
(* connected by ensureConnected: no call of it can begin beside the other. *)
Unrecovered ==
  ~ Recoverable =>
    /\ \A t \in TaskIds : tasks[t].kind # "recover"
    /\ \A w \in TaskIds : Exclusive(tasks[w]) => activeSessions[tasks[w].conn].driver # 0
    /\ \A c \in Connections : HasSession(c) /\ activeSessions[c].driver = 0 =>
         \E u \in TaskIds : tasks[u].kind = "ensure" /\ tasks[u].conn = c /\ tasks[u].pc \in Making

(* Nothing that runs for the connection stands in the way.                 *)
LEMMA OnlyMonitorsRun ==
  ASSUME OneByOne, NEW t, NEW c \in Connections, NEW operation, Begins(t, c, operation),
         operation \in {"ensure", "wake"} => operation \in Alone,
         NEW u \in TaskIds, tasks[u].conn = c
  PROVE  tasks[u].kind \in {"none", "monitor"}
<1>1. operation \in Alone
  BY DEF Begins, OneByOne
<1>2. tasks[u].kind # "none" => u \in Live(c)
  BY DEF Live, Conn
<1> QED
  BY <1>1, <1>2 DEF Begins, MayStart

LEMMA ExclusiveActs ==
  ASSUME NEW task, Exclusive(task)
  PROVE  ~ StaysOut(task)
BY DEF Exclusive, StaysOut, Bystander, Called, Done

(* An operation that begins finds its connection free.                     *)
LEMMA BeginsAlone ==
  ASSUME OneByOne, AloneAtWork, Unrecovered, NEW t \in TaskIds, NEW c \in Connections,
         NEW operation, Begins(t, c, operation),
         NEW w \in TaskIds, Exclusive(tasks'[w]),
         NEW u \in TaskIds \ {w}, tasks'[u].conn = tasks'[w].conn
  PROVE  StaysOut(tasks'[u])
<1>1. \A x \in TaskIds \ {t} : SamePart(tasks[x], tasks'[x])
  BY DEF Begins, OthersKeepPart
<1>2. \A x \in TaskIds : Bystander(tasks'[x]) => StaysOut(tasks'[x])
  BY DEF StaysOut
<1>3. ~ Bystander(tasks'[w])
  BY <1>2, ExclusiveActs
<1>4. SUFFICES ASSUME ~ StaysOut(tasks'[u]) PROVE FALSE
  OBVIOUS
<1>5. CASE w # t /\ u # t
  <2>1. /\ Exclusive(tasks[w]) /\ tasks[u].conn = tasks[w].conn
        /\ StaysOut(tasks[u]) => StaysOut(tasks'[u])
    BY <1>1, <1>2, <1>3, <1>4, <1>5 DEF SamePart
  <2> QED
    BY <1>4, <2>1 DEF AloneAtWork
<1>6. CASE w = t
  <2>1. operation \notin {"ensure", "wake"} /\ tasks'[w].conn = c
    BY <1>6 DEF Begins, Exclusive, Called
  <2>2. tasks[u].conn = c /\ tasks[u].kind = tasks'[u].kind
    BY <1>1, <1>2, <1>4, <1>6, <2>1 DEF SamePart
  <2>3. tasks[u].kind \in {"none", "monitor"}
    BY <2>1, <2>2, OnlyMonitorsRun
  <2> QED
    BY <1>2, <1>4, <2>2, <2>3 DEF Bystander
<1>7. CASE u = t
  <2>1. Exclusive(tasks[w]) /\ tasks[w].conn = c
    BY <1>1, <1>3, <1>7 DEF SamePart, Begins
  <2>2. operation \in {"ensure", "reconnect", "disconnect"}
    BY <1>4, <1>7 DEF Begins, StaysOut
  <2>3. operation = "ensure" /\ "ensure" \notin Alone
    BY <2>1, <2>2, OnlyMonitorsRun DEF Exclusive
  <2>4. activeSessions[c].driver = 0 /\ ~ Recoverable
    BY <2>3 DEF Begins, OneByOne
  <2> QED
    BY <2>1, <2>4 DEF Unrecovered
<1> QED
  BY <1>5, <1>6, <1>7

(* A recovery goes ahead with nothing else at work.                        *)
LEMMA TakesUpAlone ==
  ASSUME OneRecovery, CalledAside, NEW t \in TaskIds, NEW c \in Connections,
         At(t, c, {"recover"}, {"recover"}), c \notin recoveringConnectionIds,
         NEW u \in TaskIds \ {t}, tasks[u].conn = c
  PROVE  StaysOut(tasks[u])
<1>1. Called(tasks[t]) /\ tasks[t].conn = c
  BY DEF At, Called
<1>2. CASE tasks[u].kind = "recover" /\ ~ Called(tasks[u])
  <2>1. u \in Recovering(c)
    BY <1>2 DEF Recovering, TasksOf, Live, Conn, Called
  <2> QED
    BY <2>1 DEF OneRecovery
<1> QED
  BY <1>1, <1>2 DEF CalledAside, StaysOut

LEMMA AloneKept ==
  ASSUME OneByOne, OneRecovery, AloneAtWork, CalledAside, Unrecovered,
         NEW t \in TaskIds, NEW c \in Connections, PartsTaken(t, c)
  PROVE  AloneAtWork'
<1>0. \A u \in TaskIds : /\ Bystander(tasks'[u]) => StaysOut(tasks'[u])
                         /\ Exclusive(tasks'[u]) => ~ Bystander(tasks'[u])
  BY ExclusiveActs DEF StaysOut
<1>1. CASE \E operation \in AllOperations : Begins(t, c, operation)
  BY <1>1, BeginsAlone DEF AloneAtWork
<1>2. CASE \A u \in TaskIds : \/ Bystander(tasks'[u])
                              \/ /\ tasks[u].conn = tasks'[u].conn
                                 /\ Exclusive(tasks'[u]) => Exclusive(tasks[u])
                                 /\ StaysOut(tasks[u]) => StaysOut(tasks'[u])
  BY <1>0, <1>2 DEF AloneAtWork
<1>3. CASE Leads(t, c)
  <2>1. OthersKeepPart(t)
    BY <1>3, ApartKeepsPart DEF Leads
  <2>2. tasks'[t].conn = tasks[t].conn /\ ~ Exclusive(tasks'[t]) /\ ~ StaysOut(tasks[t])
    BY <1>3 DEF Leads, Went, At, Exclusive, StaysOut, Bystander, Called, Done
  <2> QED
    BY <1>2, <2>1, <2>2 DEF OthersKeepPart, SamePart
<1>4. CASE LeavesInFlight(t, c)
  <2>1. OthersKeepPart(t) /\ Bystander(tasks'[t])
    BY <1>4, ApartKeepsPart DEF LeavesInFlight, Over, Bystander
  <2> QED
    BY <1>2, <2>1 DEF OthersKeepPart, SamePart
<1>5. CASE TakesUp(t, c)
  <2> SUFFICES ASSUME NEW w \in TaskIds, Exclusive(tasks'[w]),
                      NEW u \in TaskIds \ {w}, tasks'[u].conn = tasks'[w].conn,
                      ~ StaysOut(tasks'[u])
               PROVE  FALSE
    BY DEF AloneAtWork
  <2>1. \A x \in TaskIds \ {t} : SamePart(tasks[x], tasks'[x])
    BY <1>5 DEF TakesUp, OthersKeepPart
  <2>2. ~ Bystander(tasks'[w]) /\ ~ Bystander(tasks'[u])
    BY <1>0
  <2>3. tasks'[t].conn = c /\ \A x \in TaskIds \ {t} : tasks[x].conn = c => StaysOut(tasks[x])
    BY <1>5, TakesUpAlone DEF TakesUp
  <2>4. CASE w # t /\ u # t
    BY <2>1, <2>2, <2>4 DEF SamePart, AloneAtWork
  <2>5. CASE w = t
    BY <2>1, <2>2, <2>3, <2>5 DEF SamePart
  <2>6. CASE u = t
    <3>1. Exclusive(tasks[w]) /\ tasks[w].conn = c
      BY <2>1, <2>2, <2>3, <2>6 DEF SamePart
    <3> QED
      BY <2>3, <2>6, <3>1, ExclusiveActs
  <2> QED
    BY <2>4, <2>5, <2>6
<1>6. CASE SamePart(tasks[t], tasks'[t]) /\ OthersKeepPart(t)
  BY <1>2, <1>6 DEF OthersKeepPart, SamePart
<1> QED
  BY <1>1, <1>3, <1>4, <1>5, <1>6 DEF PartsTaken

LEMMA OneLeadsKept ==
  ASSUME OneLeads, NEW t \in TaskIds, NEW c \in Connections, PartsTaken(t, c)
  PROVE  OneLeads'
<1> SUFFICES ASSUME NEW v \in TaskIds, Leading(tasks'[v])
             PROVE  /\ tasks'[v].conn \in inFlight'
                    /\ \A u \in TaskIds \ {v} :
                         tasks'[u].conn = tasks'[v].conn => ~ Leading(tasks'[u])
  BY DEF OneLeads
<1>0. \A u : Bystander(tasks'[u]) => ~ Leading(tasks'[u])
  BY DEF Leading, Bystander
<1>1. CASE /\ \A u \in TaskIds : Leading(tasks'[u]) => Leading(tasks[u]) /\ tasks'[u].conn = tasks[u].conn
           /\ inFlight' = inFlight
  BY <1>1 DEF OneLeads
<1>2. CASE \E operation \in AllOperations : Begins(t, c, operation)
  <2>1. ~ Leading(tasks'[t])
    BY <1>2 DEF Begins, Leading, Called
  <2>2. OthersKeepPart(t) /\ inFlight' = inFlight
    BY <1>2 DEF Begins
  <2> QED
    BY <1>0, <1>1, <2>1, <2>2 DEF OthersKeepPart, SamePart
<1>3. CASE Leads(t, c)
  <2>1. \A u \in TaskIds \ {t} :
          Leading(tasks'[u]) => Leading(tasks[u]) /\ tasks'[u].conn = tasks[u].conn
    BY <1>0, <1>3, ApartKeepsPart DEF Leads, OthersKeepPart, SamePart
  <2>2. tasks'[t].conn = c /\ c \notin inFlight /\ inFlight' = inFlight \cup {c}
    BY <1>3 DEF Leads, Went, At
  <2> QED
    BY <2>1, <2>2 DEF OneLeads
<1>4. CASE LeavesInFlight(t, c)
  <2>1. \A u \in TaskIds \ {t} :
          Leading(tasks'[u]) => Leading(tasks[u]) /\ tasks'[u].conn = tasks[u].conn
    BY <1>0, <1>4, ApartKeepsPart DEF LeavesInFlight, OthersKeepPart, SamePart
  <2>2. ~ Leading(tasks'[t]) /\ Leading(tasks[t]) /\ tasks[t].conn = c /\ inFlight' = inFlight \ {c}
    BY <1>4 DEF LeavesInFlight, Over, At, Leading
  <2> QED
    BY <2>1, <2>2 DEF OneLeads
<1>5. CASE TakesUp(t, c)
  <2>1. ~ Leading(tasks'[t]) /\ OthersKeepPart(t) /\ inFlight' = inFlight
    BY <1>5 DEF TakesUp, Leading
  <2> QED
    BY <1>0, <1>1, <2>1 DEF OthersKeepPart, SamePart
<1>6. CASE SamePart(tasks[t], tasks'[t]) /\ OthersKeepPart(t) /\ inFlight' = inFlight
  BY <1>0, <1>1, <1>6 DEF OthersKeepPart, SamePart
<1> QED
  BY <1>2, <1>3, <1>4, <1>5, <1>6 DEF PartsTaken

-------------------------------------------------------------------------------
(***************************************************************************)
(* What a step does to the session of its connection.                      *)
(***************************************************************************)
KeepsDriver(c) ==
  /\ activeSessions'[c].driver = activeSessions[c].driver
  /\ activeSessions'[c].status = "none" <=> activeSessions[c].status = "none"

EntersSession(t, c) ==
  /\ Enters(t, c) /\ activeSessions[c].driver = 0 /\ activeSessions'[c].driver = 0

RemovesSession(t, c) ==
  /\ Fails(t, c) \/ ClosesSession(t, c)
  /\ activeSessions'[c].driver = 0 /\ activeSessions'[c].status = "none"

InstallsDriver(t, c) ==
  /\ Installs(t, c) \/ Revived(t, c)
  /\ HasSession(c) /\ activeSessions'[c].status = "connected"
  /\ activeSessions'[c].driver = tasks[t].driver

DropsDriver(t, c) ==
  /\ DropsStale(t, c) /\ activeSessions'[c].driver = 0
  /\ activeSessions'[c].status = "none" <=> activeSessions[c].status = "none"

SessionTaken(t, c) ==
  /\ \A d \in Connections \ {c} : activeSessions'[d] = activeSessions[d]
  /\ \/ KeepsDriver(c) \/ EntersSession(t, c) \/ RemovesSession(t, c)
     \/ InstallsDriver(t, c) \/ DropsDriver(t, c)

LEMMA SetStatusKeepsDriver ==
  ASSUME TypeOK, NEW c \in Connections, NEW status \in {"connecting", "connected", "error"},
         SetStatus(c, status)
  PROVE  (\A d \in Connections \ {c} : activeSessions'[d] = activeSessions[d]) /\ KeepsDriver(c)
<1>1. activeSessions[c] \in Sessions
  BY DEF TypeOK
<1>2. /\ [activeSessions[c] EXCEPT !.status = status].status = status
      /\ [activeSessions[c] EXCEPT !.status = status].driver = activeSessions[c].driver
  BY <1>1 DEF Sessions
<1> QED
  BY <1>2, SetStatusDoes DEF KeepsDriver, HasSession

LEMMA InstallTaken ==
  ASSUME TypeOK, NEW t \in TaskIds, NEW c \in Connections, Installs(t, c) \/ Revived(t, c)
  PROVE  SessionTaken(t, c)
<1>1. InstallDriver(c, tasks[t].driver, tasks[t].tunnel)
  BY DEF Installs, Revived
<1>2. CASE HasSession(c)
  <2> DEFINE s == [status |-> "connected", driver |-> tasks[t].driver, tunnel |-> tasks[t].tunnel]
  <2>1. activeSessions'[c] = s /\ \A d \in Connections \ {c} : activeSessions'[d] = activeSessions[d]
    BY <1>1, <1>2, InstallDriverDoes
  <2>2. s.status = "connected" /\ s.driver = tasks[t].driver
    OBVIOUS
  <2> HIDE DEF s
  <2> QED
    BY <1>2, <2>1, <2>2 DEF SessionTaken, InstallsDriver
<1>3. CASE ~ HasSession(c)
  BY <1>1, <1>3, InstallDriverDoes DEF SessionTaken, KeepsDriver
<1> QED
  BY <1>2, <1>3

LEMMA StepOnSession ==
  ASSUME Ready, NEW t \in TaskIds, NEW c \in Connections, ConnectionStep(t, c) \/ MonitorStep(t, c)
  PROVE  SessionTaken(t, c)
<1>0. TypeOK /\ NoSessionNoDriver /\ activeSessions \in [Connections -> Sessions]
  BY DEF Ready, Before, TypeOK
<1>1. CASE activeSessions' = activeSessions
  BY <1>1 DEF SessionTaken, KeepsDriver
<1>2. CASE OperationBegins(t, c) \/ Leads(t, c) \/ LeavesInFlight(t, c) \/ MonitorHasStarted(t, c)
           \/ Finishes(t, c) \/ MakesDriver(t, c) \/ OpensDriver(t, c)
  BY <1>1, <1>2 DEF OperationBegins, Leads, LeavesInFlight, MonitorHasStarted, Finishes,
     MakesDriver, OpensDriver, SameRest
<1>3. CASE (\E pc \in Points : Goes(t, c, pc)) \/ StartsAnother(t, c) \/ StopsFirst(t, c)
           \/ ClosesOld(t, c) \/ Captures(t, c) \/ Revives(t, c) \/ CannotRevive(t, c)
  BY <1>1, <1>3 DEF Goes, StartsAnother, StopsFirst, ClosesOld, Captures, Revives, CannotRevive, SameRest
<1>4. CASE Enters(t, c)
  <2>1. activeSessions[c].driver = 0
    BY <1>4 DEF Enters
  <2>2. CASE HasSession(c)
    BY <1>1, <1>4, <2>2 DEF Enters
  <2>3. CASE ~ HasSession(c)
    <3>1. activeSessions' = [activeSessions EXCEPT ![c].status = "connecting"]
      BY <1>4, <2>3 DEF Enters
    <3>2. activeSessions'[c] = [activeSessions[c] EXCEPT !.status = "connecting"]
          /\ \A d \in Connections \ {c} : activeSessions'[d] = activeSessions[d]
      BY <1>0, <3>1
    <3>3. activeSessions'[c].driver = activeSessions[c].driver
      <4>1. activeSessions[c] \in Sessions
        BY <1>0
      <4> QED
        BY <3>2, <4>1 DEF Sessions
    <3> QED
      BY <1>4, <2>1, <3>2, <3>3 DEF SessionTaken, EntersSession
  <2> QED
    BY <2>2, <2>3
<1>5. CASE Fails(t, c) \/ ClosesSession(t, c)
  <2>1. RemoveSessionEntry(c)
    BY <1>5 DEF Fails, ClosesSession
  <2> QED
    BY <1>0, <1>5, <2>1, RemoveSessionDoes DEF SessionTaken, RemovesSession
<1>6. CASE Installs(t, c) \/ Revived(t, c)
  BY <1>0, <1>6, InstallTaken
<1>7. CASE BeginsReconnect(t, c) \/ CannotReconnect(t, c) \/ GivesUp(t, c) \/ Retries(t, c)
           \/ TurnsHealthy(t, c)
  <2>1. \E status \in {"connecting", "connected", "error"} : SetStatus(c, status)
    BY <1>7 DEF BeginsReconnect, CannotReconnect, GivesUp, Retries, TurnsHealthy
  <2> QED
    BY <1>0, <2>1, SetStatusKeepsDriver DEF SessionTaken
<1>8. CASE DropsStale(t, c)
  <2>1. activeSessions' = IF ~ HasSession(c) THEN activeSessions
                          ELSE [activeSessions EXCEPT ![c].driver = 0, ![c].status = "connecting"]
    BY <1>8 DEF DropsStale
  <2>2. CASE ~ HasSession(c)
    BY <1>1, <2>1, <2>2
  <2>3. CASE HasSession(c)
    <3>1. activeSessions'[c] = [activeSessions[c] EXCEPT !.driver = 0, !.status = "connecting"]
          /\ \A d \in Connections \ {c} : activeSessions'[d] = activeSessions[d]
      BY <1>0, <2>1, <2>3
    <3>2. activeSessions'[c].driver = 0 /\ activeSessions'[c].status = "connecting"
      <4>1. activeSessions[c] \in Sessions
        BY <1>0
      <4> QED
        BY <3>1, <4>1 DEF Sessions
    <3> QED
      BY <1>8, <2>3, <3>1, <3>2 DEF SessionTaken, DropsDriver, HasSession
  <2> QED
    BY <2>2, <2>3
<1> QED
  BY <1>2, <1>3, <1>4, <1>5, <1>6, <1>7, <1>8 DEF ConnectionStep, MonitorStep

(* A task about to install a driver has one.                               *)
HasItToInstall(task) == task.kind # "none" /\ task.pc = "install" => task.driver # 0

InstallsOne == \A u \in TaskIds : HasItToInstall(tasks[u])

LEMMA InstallsOneKept ==
  ASSUME IInv, Ready, InstallsOne, NEW t \in TaskIds, NEW c \in Connections,
         ConnectionStep(t, c) \/ MonitorStep(t, c)
  PROVE  InstallsOne'
<1>1. ASSUME NEW u, Undisturbed(u), HasItToInstall(tasks[u])
      PROVE  HasItToInstall(tasks'[u])
  BY <1>1 DEF Undisturbed, Alike, HasItToInstall
<1>2. ASSUME NEW S, Apart(S), \A u \in S \cap TaskIds : HasItToInstall(tasks'[u])
      PROVE  InstallsOne'
  BY <1>1, <1>2 DEF Apart, InstallsOne
<1>3. ASSUME NEW m, StopsMonitor(t, c, m) \/ StartsMonitor(t, c, m), HasItToInstall(tasks'[t])
      PROVE  InstallsOne'
  <2>1. HasItToInstall(tasks'[m]) /\ Apart({t, m})
    BY <1>3 DEF StopsMonitor, StartsMonitor, InstallsOne, HasItToInstall
  <2> QED
    BY <1>2, <1>3, <2>1
<1>4. CASE OpensDriver(t, c)
  <2>1. HasItsDriver(tasks[t])
    BY DEF IInv
  <2>2. HasItToInstall(tasks'[t])
    BY <1>4, <2>1 DEF OpensDriver, At, Went, HasItsDriver, HasItToInstall
  <2> QED
    BY <1>2, <1>4, <2>2 DEF OpensDriver
<1>5. CASE /\ Apart({t})
           /\ tasks'[t].kind # "none" => tasks'[t].pc # "install"
  BY <1>2, <1>5 DEF HasItToInstall
<1>6. CASE OperationBegins(t, c) \/ Leads(t, c) \/ LeavesInFlight(t, c) \/ MonitorHasStarted(t, c)
           \/ Finishes(t, c) \/ MakesDriver(t, c) \/ Enters(t, c) \/ Fails(t, c)
  BY <1>5, <1>6 DEF OperationBegins, Leads, LeavesInFlight, MonitorHasStarted, Succeeds, Succeeded,
     Finishes, MakesDriver, Enters, Fails, Went, Over
<1>7. CASE \E pc \in Points : Goes(t, c, pc)
  BY <1>5, <1>7 DEF Goes, Went
<1>8. CASE Installs(t, c)
  <2>1. CASE c \notin Monitored /\ Succeeds(t, 0)
    BY <1>5, <2>1 DEF Succeeds, Succeeded, Went, Over
  <2>2. CASE \E m : StopsMonitor(t, c, m) /\ GoesTo(t, c, "startMonitor", 0)
    BY <1>3, <2>2 DEF GoesTo, HasItToInstall
  <2>3. CASE \E m : StartsMonitor(t, c, m) /\ GoesTo(t, c, "started", 0)
    BY <1>3, <2>3 DEF GoesTo, HasItToInstall
  <2> QED
    BY <1>8, <2>1, <2>2, <2>3 DEF Installs
<1>9. CASE StartsAnother(t, c) \/ StopsFirst(t, c)
  BY <1>3, <1>9 DEF StartsAnother, StopsFirst, GoesTo, HasItToInstall
<1>10. CASE ClosesSession(t, c) \/ BeginsReconnect(t, c) \/ ClosesOld(t, c) \/ CannotReconnect(t, c)
            \/ DropsStale(t, c)
  BY <1>5, <1>10 DEF ClosesSession, BeginsReconnect, ClosesOld, CannotReconnect, DropsStale, Went, Over
<1>11. CASE MonitorStep(t, c)
  BY <1>5, <1>11 DEF MonitorStep, GivesUp, Retries, Captures, Revives, CannotRevive, Revived,
     TurnsHealthy, Went, Over
<1> QED
  BY <1>4, <1>6, <1>7, <1>8, <1>9, <1>10, <1>11 DEF ConnectionStep

(* No task of another part is an operation, and an exclusive one that is   *)
(* not new was one before.                                                 *)
LEMMA ExclusiveBefore ==
  ASSUME NEW t \in TaskIds, NEW c \in Connections, PartsTaken(t, c),
         NEW w \in TaskIds, Exclusive(tasks'[w])
  PROVE  \/ Exclusive(tasks[w]) /\ tasks'[w].conn = tasks[w].conn
         \/ /\ w = t
            /\ TakesUp(t, c) \/ \E operation \in {"reconnect", "disconnect"} : Begins(t, c, operation)
<1>1. ~ Bystander(tasks'[w])
  BY DEF Exclusive, Bystander
<1>2. CASE SamePart(tasks[w], tasks'[w])
  BY <1>1, <1>2 DEF SamePart
<1>3. CASE w # t
  BY <1>2, <1>3, ApartKeepsPart DEF PartsTaken, Begins, Leads, LeavesInFlight, TakesUp, OthersKeepPart
<1>4. CASE w = t /\ ~ SamePart(tasks[w], tasks'[w]) /\ ~ TakesUp(t, c)
  <2>1. ~ Leads(t, c) /\ ~ LeavesInFlight(t, c)
    BY <1>4 DEF Leads, LeavesInFlight, Went, At, Over, Exclusive
  <2>2. PICK operation \in AllOperations : Begins(t, c, operation)
    BY <1>4, <2>1 DEF PartsTaken
  <2>3. operation \in {"reconnect", "disconnect"}
    BY <1>4, <2>2 DEF Begins, Exclusive, Called
  <2> QED
    BY <1>4, <2>2, <2>3
<1> QED
  BY <1>2, <1>3, <1>4

(* What runs and is neither the step's own task nor a monitor goes on.     *)
LEMMA OthersUndisturbed ==
  ASSUME Ready, NEW t \in TaskIds, NEW c \in Connections, ConnectionStep(t, c) \/ MonitorStep(t, c),
         NEW u \in TaskIds \ {t}, tasks[u].kind # "none", ~ IsMonitor(tasks[u])
  PROVE  Undisturbed(u)
<1>1. CASE LeavesMonitors(t)
  BY <1>1 DEF LeavesMonitors, Apart
<1>2. CASE \E m : StopsMonitor(t, c, m)
  <2>1. PICK m : StopsMonitor(t, c, m)
    BY <1>2
  <2>2. IsMonitor(tasks[m])
    BY <2>1, LimitsAssumption DEF StopsMonitor, Ready, MonitorsLive, LiveMonitor, TaskIds
  <2> QED
    BY <2>1, <2>2 DEF StopsMonitor, Apart
<1>3. CASE \E m : StartsMonitor(t, c, m)
  BY <1>3 DEF StartsMonitor, Apart
<1> QED
  BY <1>1, <1>2, <1>3, StepOnMonitors

(* A call of ensureConnected that makes a driver goes on, fails, or has    *)
(* made it.                                                                *)
LEMMA MakingGoesOn ==
  ASSUME NEW t \in TaskIds, NEW c \in Connections, ConnectionStep(t, c) \/ MonitorStep(t, c),
         tasks[t].kind = "ensure", tasks[t].pc \in Making
  PROVE  \/ tasks'[t].kind = "ensure" /\ tasks'[t].conn = tasks[t].conn /\ tasks'[t].pc \in Making
         \/ Fails(t, c) \/ Installs(t, c)
<1>1. CASE \E pc \in Points : Goes(t, c, pc)
  BY <1>1 DEF Goes, At, Went, Making
<1>2. CASE MakesDriver(t, c) \/ OpensDriver(t, c)
  BY <1>2 DEF MakesDriver, OpensDriver, Went, Making
<1>3. ~ (OperationBegins(t, c) \/ Leads(t, c) \/ LeavesInFlight(t, c) \/ MonitorHasStarted(t, c)
         \/ Finishes(t, c) \/ Enters(t, c) \/ StartsAnother(t, c))
  BY DEF OperationBegins, Leads, LeavesInFlight, MonitorHasStarted, Finishes, Enters,
     StartsAnother, At, Making
<1>4. ~ (StopsFirst(t, c) \/ ClosesSession(t, c) \/ BeginsReconnect(t, c) \/ ClosesOld(t, c)
         \/ CannotReconnect(t, c) \/ DropsStale(t, c))
  BY DEF StopsFirst, ClosesSession, BeginsReconnect, ClosesOld, CannotReconnect, DropsStale,
     DisconnectBegins, StoppedAt, At
<1>5. ~ MonitorStep(t, c)
  BY DEF MonitorStep, GivesUp, Retries, Captures, Revives, CannotRevive, Revived, TurnsHealthy, At
<1> QED
  BY <1>1, <1>2, <1>3, <1>4, <1>5 DEF ConnectionStep

LEMMA UnrecoveredKept ==
  ASSUME Ready, OneByOne, OneRecovery, AloneAtWork, CalledAside, InstallsOne, Unrecovered,
         NEW t \in TaskIds, NEW c \in Connections,
         ConnectionStep(t, c) \/ MonitorStep(t, c)
  PROVE  Unrecovered'
<1> SUFFICES ASSUME ~ Recoverable
    PROVE  /\ \A u \in TaskIds : tasks'[u].kind # "recover"
           /\ \A w \in TaskIds : Exclusive(tasks'[w]) => activeSessions'[tasks'[w].conn].driver # 0
           /\ \A d \in Connections : activeSessions'[d].status # "none" /\ activeSessions'[d].driver = 0 =>
                \E u \in TaskIds : /\ tasks'[u].kind = "ensure" /\ tasks'[u].conn = d
                                   /\ tasks'[u].pc \in Making
  BY DEF Unrecovered, HasSession
<1>1. PartsTaken(t, c) /\ SessionTaken(t, c)
  BY StepOnParts, StepOnSession
<1>2. AloneAtWork'
  BY <1>1, AloneKept
<1>3. /\ \A u \in TaskIds : tasks[u].kind # "recover"
      /\ \A w \in TaskIds : Exclusive(tasks[w]) => activeSessions[tasks[w].conn].driver # 0
      /\ \A d \in Connections : HasSession(d) /\ activeSessions[d].driver = 0 =>
           \E u \in TaskIds : /\ tasks[u].kind = "ensure" /\ tasks[u].conn = d
                              /\ tasks[u].pc \in Making
  BY DEF Unrecovered
<1>4. ASSUME NEW u \in TaskIds, tasks'[u].kind = "recover" PROVE FALSE
  <2>2. ~ TakesUp(t, c)
    BY <1>3 DEF TakesUp, At
  <2>3. CASE SamePart(tasks[u], tasks'[u])
    BY <1>3, <1>4, <2>3 DEF SamePart, Bystander
  <2>4. CASE u = t /\ (Leads(t, c) \/ LeavesInFlight(t, c))
    BY <1>4, <2>4 DEF Leads, LeavesInFlight, At, Went, Over
  <2>5. CASE u # t
    BY <1>1, <2>2, <2>3, <2>5, ApartKeepsPart DEF PartsTaken, Begins, Leads, LeavesInFlight, OthersKeepPart
  <2>6. CASE u = t /\ \E operation \in AllOperations : Begins(t, c, operation)
    BY <1>4, <2>6 DEF Begins
  <2> QED
    BY <1>1, <2>2, <2>3, <2>4, <2>5, <2>6 DEF PartsTaken
<1>5. ~ DropsStale(t, c)
  BY <1>3 DEF DropsStale, StoppedAt, At
<1>7. ~ TakesUp(t, c)
  BY <1>3 DEF TakesUp, At
<1>6. ASSUME NEW w \in TaskIds, Exclusive(tasks'[w])
      PROVE  activeSessions'[tasks'[w].conn].driver # 0
  <2> DEFINE d == tasks'[w].conn
  <2>1. CASE Exclusive(tasks[w]) /\ d = tasks[w].conn
    <3>1. activeSessions[d].driver # 0
      BY <1>3, <2>1
    <3>2. CASE d # c
      <4>1. d \in Connections
        BY <2>1 DEF Ready, Before, TasksTyped, Exclusive
      <4> QED
        BY <1>1, <3>1, <3>2, <4>1 DEF SessionTaken
    <3>3. CASE d = c
      <4>1. CASE KeepsDriver(c)
        BY <3>1, <3>3, <4>1 DEF KeepsDriver
      <4>2. CASE EntersSession(t, c)
        BY <3>1, <3>3, <4>2 DEF EntersSession
      <4>3. CASE InstallsDriver(t, c)
        <5>1. HasItToInstall(tasks[t]) /\ tasks[t].kind # "none" /\ tasks[t].pc = "install"
          BY <4>3 DEF InstallsOne, InstallsDriver, Installs, Revived, At, Connecting
        <5> QED
          BY <3>3, <4>3, <5>1 DEF InstallsDriver, HasItToInstall
      <4>4. CASE Fails(t, c)
        <5>1. ~ StaysOut(tasks[t]) /\ tasks[t].conn = c /\ t # w
          BY <1>3, <2>1, <4>4 DEF Fails, At, Connecting, StaysOut, Bystander, Called, Done, Exclusive
        <5> QED
          BY <2>1, <3>3, <5>1 DEF AloneAtWork
      <4>5. CASE ClosesSession(t, c)
        <5>1. ~ StaysOut(tasks'[t]) /\ tasks'[t].conn = c /\ t # w
          BY <1>6, <4>5 DEF ClosesSession, StaysOut, Bystander, Called, Done, Exclusive
        <5> QED
          BY <1>2, <1>6, <3>3, <5>1 DEF AloneAtWork
      <4> QED
        BY <1>1, <1>5, <4>1, <4>2, <4>3, <4>4, <4>5 DEF SessionTaken, RemovesSession, DropsDriver
    <3> QED
      BY <3>2, <3>3
  <2>2. CASE w = t /\ \E operation \in {"reconnect", "disconnect"} : Begins(t, c, operation)
    <3>1. PICK operation \in {"reconnect", "disconnect"} : Begins(t, c, operation)
      BY <2>2
    <3>2. d = c /\ tasks[t].kind = "none"
      BY <2>2, <3>1 DEF Begins
    <3>3. activeSessions[c].driver # 0
      <4>1. CASE operation = "reconnect"
        BY <3>1, <4>1 DEF Begins
      <4>2. CASE operation = "disconnect"
        <5>1. HasSession(c)
          BY <3>1, <4>2 DEF Begins
        <5>2. \A u \in TaskIds : tasks[u].conn = c => tasks[u].kind # "ensure"
          BY <3>1, <4>2, OnlyMonitorsRun
        <5> QED
          BY <1>3, <5>1, <5>2
      <4> QED
        BY <4>1, <4>2
    <3>4. KeepsDriver(c)
      <4>1. ~ Installs(t, c) /\ ~ Revived(t, c) /\ ~ Enters(t, c) /\ ~ Fails(t, c)
        BY <3>2 DEF Installs, Revived, Enters, Fails, At, Connecting
      <4>2. ~ ClosesSession(t, c)
        BY <1>6, <2>2 DEF ClosesSession, Exclusive
      <4> QED
        BY <1>1, <1>5, <4>1, <4>2
        DEF SessionTaken, RemovesSession, DropsDriver, InstallsDriver, EntersSession
    <3> QED
      BY <3>2, <3>3, <3>4 DEF KeepsDriver
  <2> QED
    BY <1>1, <1>6, <1>7, <2>1, <2>2, ExclusiveBefore
<1> QED
  <2> SUFFICES ASSUME NEW d \in Connections, activeSessions'[d].status # "none", activeSessions'[d].driver = 0
               PROVE  \E u \in TaskIds : /\ tasks'[u].kind = "ensure" /\ tasks'[u].conn = d
                                         /\ tasks'[u].pc \in Making
    BY <1>4, <1>6
  <2>1. CASE d = c /\ EntersSession(t, c)
    <3>1. tasks'[t].kind = "ensure" /\ tasks'[t].conn = c /\ tasks'[t].pc \in Making
      BY <1>3, <2>1 DEF EntersSession, Enters, At, Went, Making
    <3> QED
      BY <2>1, <3>1
  <2>2. CASE HasSession(d) /\ activeSessions[d].driver = 0
    <3>1. PICK u \in TaskIds : tasks[u].kind = "ensure" /\ tasks[u].conn = d /\ tasks[u].pc \in Making
      BY <1>3, <2>2
    <3>2. CASE u # t
      <4>1. Undisturbed(u)
        BY <3>1, <3>2, OthersUndisturbed DEF IsMonitor
      <4> QED
        BY <3>1, <4>1 DEF Undisturbed, Alike
    <3>3. CASE u = t /\ (Fails(t, c) \/ Installs(t, c))
      <4>1. d = c
        BY <3>1, <3>3 DEF Fails, Installs, At
      <4>2. CASE Fails(t, c)
        BY <4>1, <4>2, RemoveSessionDoes DEF Fails, Ready, Before
      <4>3. CASE Installs(t, c)
        <5>1. activeSessions'[c] =
                [status |-> "connected", driver |-> tasks[t].driver, tunnel |-> tasks[t].tunnel]
          BY <2>2, <4>1, <4>3, InstallDriverDoes DEF Installs, Ready, Before
        <5>2. HasItToInstall(tasks[t]) /\ tasks[t].kind # "none" /\ tasks[t].pc = "install"
          BY <4>3 DEF InstallsOne, Installs, At, Connecting
        <5> QED
          BY <4>1, <5>1, <5>2 DEF HasItToInstall
      <4> QED
        BY <3>3, <4>2, <4>3
    <3>4. CASE u = t /\ ~ Fails(t, c) /\ ~ Installs(t, c)
      <4>1. tasks'[t].kind = "ensure" /\ tasks'[t].conn = d /\ tasks'[t].pc \in Making
        BY <3>1, <3>4, MakingGoesOn
      <4> QED
        BY <4>1
    <3> QED
      BY <3>2, <3>3, <3>4
  <2>3. CASE d # c
    BY <1>1, <2>2, <2>3 DEF SessionTaken, HasSession
  <2>4. CASE d = c /\ KeepsDriver(c)
    BY <2>2, <2>4 DEF KeepsDriver, HasSession
  <2>5. CASE d = c /\ InstallsDriver(t, c)
    <3>1. HasItToInstall(tasks[t]) /\ tasks[t].kind # "none" /\ tasks[t].pc = "install"
      BY <2>5 DEF InstallsOne, InstallsDriver, Installs, Revived, At, Connecting
    <3> QED
      BY <2>5, <3>1 DEF InstallsDriver, HasItToInstall
  <2> QED
    BY <1>1, <1>5, <2>1, <2>3, <2>4, <2>5 DEF SessionTaken, RemovesSession, DropsDriver

-------------------------------------------------------------------------------
(***************************************************************************)
(* One monitor at a time.                                                  *)
(***************************************************************************)
AtWork(task) == Exclusive(task) \/ (Leading(task) /\ ~ Done(task))

(* Task w awaits the end of a monitor it has stopped, or has just done so. *)
Awaiting(task) ==
  /\ task.kind \in {"ensure", "disconnect", "reconnect", "recover"}
  /\ task.pc \in {"stopped", "startMonitor"}

(* A monitor is the one of the table, or the one an operation has          *)
(* cancelled and awaits; meanwhile there is none in the table.             *)
MonitorsFit ==
  /\ \A m \in TaskIds : IsMonitor(tasks[m]) =>
       \/ healthMonitors[tasks[m].conn] = m
       \/ /\ tasks[m].cancelled
          /\ \E w \in TaskIds : /\ Awaiting(tasks[w]) /\ tasks[w].conn = tasks[m].conn
                                /\ tasks[w].waits = m
  /\ \A w \in TaskIds : Awaiting(tasks[w]) => healthMonitors[tasks[w].conn] = 0

(* No two tasks are at work for one connection.                            *)
LEMMA OneAtWork ==
  ASSUME AloneAtWork, OneLeads, NEW w \in TaskIds, NEW u \in TaskIds, tasks[u].conn = tasks[w].conn,
         AtWork(tasks[w]), AtWork(tasks[u])
  PROVE  w = u
BY ExclusiveActs DEF AloneAtWork, OneLeads, AtWork, Leading, StaysOut, Bystander, Called

LEMMA AwaitingIsAtWork ==
  ASSUME NEW task, Awaiting(task)
  PROVE  AtWork(task) /\ ~ IsMonitor(task) /\ task.kind # "none"
BY DEF Awaiting, AtWork, Exclusive, Leading, Called, Done, IsMonitor

(* What a step does to those that wait.                                    *)
WaitsOn(t) ==
  /\ LeavesMonitors(t)
  /\ ~ Awaiting(tasks'[t]) /\ (Awaiting(tasks[t]) => tasks[t].waits = 0)
  /\ IsMonitor(tasks'[t]) => /\ IsMonitor(tasks[t]) /\ tasks'[t].conn = tasks[t].conn
                            /\ tasks'[t].cancelled = tasks[t].cancelled

StopsOne(t, c) ==
  /\ \E m : StopsMonitor(t, c, m)
  /\ ~ Awaiting(tasks[t]) /\ Awaiting(tasks'[t]) /\ tasks'[t].conn = c

StartsOne(t, c) ==
  /\ \E m : StartsMonitor(t, c, m)
  /\ AtWork(tasks[t]) /\ tasks[t].conn = c
  /\ ~ IsMonitor(tasks'[t]) /\ ~ Awaiting(tasks'[t])
  /\ \/ healthMonitors[c] = 0 /\ ~ Awaiting(tasks[t])
     \/ Awaiting(tasks[t]) /\ tasks[t].waits = 0

LEMMA StepOnWaits ==
  ASSUME NEW t \in TaskIds, NEW c \in Connections, ConnectionStep(t, c) \/ MonitorStep(t, c)
  PROVE  WaitsOn(t) \/ StopsOne(t, c) \/ StartsOne(t, c)
<1>1. CASE OperationBegins(t, c) \/ Leads(t, c) \/ LeavesInFlight(t, c)
  <2>1. LeavesMonitors(t)
    BY <1>1 DEF OperationBegins, Leads, LeavesInFlight, At, IsMonitor, LeavesMonitors, SameRest
  <2> QED
    BY <1>1, <2>1 DEF OperationBegins, Leads, LeavesInFlight, At, Went, Over, WaitsOn, Awaiting, IsMonitor
<1>2. CASE \E pc \in Points : Goes(t, c, pc)
  <2>1. LeavesMonitors(t)
    BY <1>2 DEF Goes, Went, LeavesMonitors, SameRest
  <2> QED
    BY <1>2, <2>1 DEF Goes, At, Went, WaitsOn, Awaiting, IsMonitor
<1>3. CASE MonitorHasStarted(t, c) \/ Finishes(t, c)
  <2>1. LeavesMonitors(t)
    BY <1>3 DEF MonitorHasStarted, Succeeds, Finishes, At, IsMonitor, LeavesMonitors, SameRest, Connecting
  <2> QED
    BY <1>3, <2>1 DEF MonitorHasStarted, Succeeds, Succeeded, Finishes, At, Went, Over,
       WaitsOn, Awaiting, IsMonitor
<1>4. CASE MakesDriver(t, c) \/ OpensDriver(t, c)
  <2>1. LeavesMonitors(t)
    BY <1>4 DEF MakesDriver, OpensDriver, Went, LeavesMonitors, SameRest
  <2> QED
    BY <1>4, <2>1 DEF MakesDriver, OpensDriver, At, Went, WaitsOn, Awaiting, IsMonitor
<1>5. CASE Enters(t, c) \/ Fails(t, c)
  <2>1. LeavesMonitors(t)
    BY <1>5 DEF Enters, Fails, At, IsMonitor, LeavesMonitors, Connecting
  <2> QED
    BY <1>5, <2>1 DEF Enters, Fails, At, Went, Over, WaitsOn, Awaiting, IsMonitor
<1>6. CASE Installs(t, c)
  <2>1. At(t, c, Connecting \cup {"reconnect"}, {"install"})
    BY <1>6 DEF Installs
  <2>2. ~ Awaiting(tasks[t]) /\ AtWork(tasks[t]) /\ ~ IsMonitor(tasks[t])
    BY <2>1 DEF At, Connecting, Awaiting, AtWork, Exclusive, Leading, Called, Done, IsMonitor
  <2>3. CASE c \notin Monitored /\ Succeeds(t, 0) /\ UNCHANGED healthMonitors
    <3>1. LeavesMonitors(t)
      BY <2>2, <2>3 DEF Succeeds, LeavesMonitors
    <3> QED
      BY <2>2, <2>3, <3>1 DEF Succeeds, Succeeded, Went, Over, WaitsOn, Awaiting, IsMonitor
  <2>4. CASE \E m : StopsMonitor(t, c, m) /\ GoesTo(t, c, "startMonitor", 0)
    <3>1. Awaiting(tasks'[t]) /\ tasks'[t].conn = c
      BY <2>1, <2>4 DEF GoesTo, Awaiting, At, Connecting
    <3> QED
      BY <2>2, <2>4, <3>1 DEF StopsOne
  <2>5. CASE healthMonitors[c] = 0 /\ \E m : StartsMonitor(t, c, m) /\ GoesTo(t, c, "started", 0)
    BY <2>1, <2>2, <2>5 DEF GoesTo, StartsOne, IsMonitor, Awaiting, At
  <2> QED
    BY <1>6, <2>3, <2>4, <2>5 DEF Installs
<1>7. CASE StartsAnother(t, c)
  BY <1>7 DEF StartsAnother, At, Connecting, GoesTo, StartsOne, IsMonitor, Awaiting, AtWork, Exclusive,
     Leading, Called, Done
<1>8. CASE StopsFirst(t, c)
  BY <1>8 DEF StopsFirst, DisconnectBegins, At, StopsOne, Awaiting
<1>9. CASE ClosesSession(t, c)
  <2>1. LeavesMonitors(t)
    BY <1>9 DEF ClosesSession, StoppedAt, DisconnectBegins, At, IsMonitor, LeavesMonitors
  <2> QED
    BY <1>9, <2>1 DEF ClosesSession, StoppedAt, DisconnectBegins, At, WaitsOn, Awaiting, IsMonitor
<1>10. CASE BeginsReconnect(t, c) \/ ClosesOld(t, c) \/ CannotReconnect(t, c) \/ DropsStale(t, c)
  <2>1. LeavesMonitors(t)
    BY <1>10 DEF BeginsReconnect, ClosesOld, CannotReconnect, DropsStale, StoppedAt, At, IsMonitor, LeavesMonitors
  <2> QED
    BY <1>10, <2>1 DEF BeginsReconnect, ClosesOld, CannotReconnect, DropsStale, StoppedAt, At, Went, Over,
       WaitsOn, Awaiting, IsMonitor
<1>11. CASE GivesUp(t, c) \/ Retries(t, c) \/ Captures(t, c) \/ Revives(t, c)
  <2>1. LeavesMonitors(t)
    BY <1>11 DEF GivesUp, Retries, Captures, Revives, Went, LeavesMonitors, SameRest
  <2> QED
    BY <1>11, <2>1 DEF GivesUp, Retries, Captures, Revives, At, Went, Over, WaitsOn, Awaiting, IsMonitor
<1>12. CASE CannotRevive(t, c) \/ Revived(t, c) \/ TurnsHealthy(t, c)
  <2>1. LeavesMonitors(t)
    BY <1>12 DEF CannotRevive, Revived, TurnsHealthy, Went, LeavesMonitors, SameRest
  <2> QED
    BY <1>12, <2>1 DEF CannotRevive, Revived, TurnsHealthy, At, Went, WaitsOn, Awaiting, IsMonitor
<1> QED
  BY <1>1, <1>2, <1>3, <1>4, <1>5, <1>6, <1>7, <1>8, <1>9, <1>10, <1>11, <1>12
  DEF ConnectionStep, MonitorStep

(* Another task waits after a step only if it did before.                  *)
LEMMA WaitsAsBefore ==
  ASSUME NEW u, Undisturbed(u)
  PROVE  /\ Awaiting(tasks'[u]) => Awaiting(tasks[u]) /\ tasks'[u].conn = tasks[u].conn
         /\ IsMonitor(tasks'[u]) => /\ IsMonitor(tasks[u]) /\ tasks'[u].conn = tasks[u].conn
                                    /\ tasks'[u].cancelled = tasks[u].cancelled
         /\ \A m \in TaskIds : Awaiting(tasks[u]) /\ tasks[u].waits = m /\ IsMonitor(tasks'[m]) =>
              /\ Awaiting(tasks'[u]) /\ tasks'[u].conn = tasks[u].conn /\ tasks'[u].waits = m
BY DEF Undisturbed, Alike, Awaiting, IsMonitor

LEMMA WaitsOnFits ==
  ASSUME MonitorsFit, NEW t \in TaskIds, WaitsOn(t)
  PROVE  MonitorsFit'
<1>1. /\ \A u \in TaskIds \ {t} : Undisturbed(u)
      /\ healthMonitors' = healthMonitors
  BY DEF WaitsOn, LeavesMonitors, Apart
<1>2. ASSUME NEW m \in TaskIds, IsMonitor(tasks'[m])
      PROVE  \/ healthMonitors'[tasks'[m].conn] = m
             \/ /\ tasks'[m].cancelled
                /\ \E w \in TaskIds : /\ Awaiting(tasks'[w]) /\ tasks'[w].conn = tasks'[m].conn
                                      /\ tasks'[w].waits = m
  <2>1. IsMonitor(tasks[m]) /\ tasks'[m].conn = tasks[m].conn
    BY <1>1, <1>2, WaitsAsBefore DEF WaitsOn
  <2>2. CASE healthMonitors[tasks[m].conn] = m
    BY <1>1, <2>1, <2>2
  <2>3. CASE /\ tasks[m].cancelled
             /\ \E w \in TaskIds : /\ Awaiting(tasks[w]) /\ tasks[w].conn = tasks[m].conn
                                   /\ tasks[w].waits = m
    <3>1. PICK w \in TaskIds : /\ Awaiting(tasks[w]) /\ tasks[w].conn = tasks[m].conn
                               /\ tasks[w].waits = m
      BY <2>3
    <3>2. w # t
      BY <3>1, LimitsAssumption DEF WaitsOn, TaskIds
    <3>3. Awaiting(tasks'[w]) /\ tasks'[w].conn = tasks[w].conn /\ tasks'[w].waits = m
      BY <1>1, <1>2, <3>1, <3>2, WaitsAsBefore
    <3>4. tasks'[m].cancelled
      <4>1. CASE m = t
        BY <1>2, <2>3, <4>1 DEF WaitsOn
      <4>2. CASE m # t
        BY <1>1, <1>2, <2>3, <4>2, WaitsAsBefore
      <4> QED
        BY <4>1, <4>2
    <3> QED
      BY <2>1, <3>1, <3>3, <3>4
  <2> QED
    BY <2>1, <2>2, <2>3 DEF MonitorsFit
<1>3. ASSUME NEW w \in TaskIds, Awaiting(tasks'[w])
      PROVE  healthMonitors'[tasks'[w].conn] = 0
  <2>1. Awaiting(tasks[w]) /\ tasks'[w].conn = tasks[w].conn
    BY <1>1, <1>3, WaitsAsBefore DEF WaitsOn
  <2> QED
    BY <1>1, <2>1 DEF MonitorsFit
<1> QED
  BY <1>2, <1>3 DEF MonitorsFit

(* An operation stops the monitor of its connection, and awaits its end.   *)
LEMMA StopsOneFits ==
  ASSUME Ready, MonitorsFit, NEW t \in TaskIds, NEW c \in Connections, StopsOne(t, c)
  PROVE  MonitorsFit'
<1> PICK m : StopsMonitor(t, c, m)
  BY DEF StopsOne
<1>1. /\ m \in TaskIds \ {t} /\ healthMonitors[c] = m /\ Apart({t, m})
      /\ healthMonitors' = [healthMonitors EXCEPT ![c] = 0]
      /\ tasks'[m].kind = tasks[m].kind /\ tasks'[m].conn = tasks[m].conn
      /\ tasks'[m].cancelled /\ tasks'[t].waits = m
  BY DEF StopsMonitor
<1>2. healthMonitors \in [Connections -> TaskIds \cup {0}]
  BY DEF Ready, Before, TypeOK
<1>3. \A d \in Connections : healthMonitors'[d] = (IF d = c THEN 0 ELSE healthMonitors[d])
  BY <1>1, <1>2
<1>4. LiveMonitor(m, c)
  BY <1>1, LimitsAssumption DEF Ready, MonitorsLive, TaskIds
<1>5. Awaiting(tasks'[t]) /\ tasks'[t].conn = c /\ ~ Awaiting(tasks[t])
  BY DEF StopsOne
<1>6. \A u \in TaskIds : tasks[u].kind # "none" => tasks[u].conn \in Connections
  BY DEF Ready, Before, TasksTyped
<1>7. ASSUME NEW x \in TaskIds, IsMonitor(tasks'[x])
      PROVE  \/ healthMonitors'[tasks'[x].conn] = x
             \/ /\ tasks'[x].cancelled
                /\ \E w \in TaskIds : /\ Awaiting(tasks'[w]) /\ tasks'[w].conn = tasks'[x].conn
                                      /\ tasks'[w].waits = x
  <2>1. x # t
    BY <1>5, <1>7, AwaitingIsAtWork
  <2>2. CASE x = m
    BY <1>1, <1>4, <1>5, <2>2 DEF LiveMonitor
  <2>3. CASE x # m
    <3>1. Undisturbed(x)
      BY <1>1, <2>1, <2>3 DEF Apart
    <3>2. /\ IsMonitor(tasks[x]) /\ tasks'[x].conn = tasks[x].conn
          /\ tasks'[x].cancelled = tasks[x].cancelled
      BY <1>7, <3>1, WaitsAsBefore
    <3>3. tasks[x].conn \in Connections
      BY <1>6, <3>2 DEF IsMonitor
    <3>4. CASE healthMonitors[tasks[x].conn] = x
      BY <1>1, <1>3, <2>3, <3>2, <3>3, <3>4
    <3>5. CASE /\ tasks[x].cancelled
               /\ \E w \in TaskIds : /\ Awaiting(tasks[w]) /\ tasks[w].conn = tasks[x].conn
                                     /\ tasks[w].waits = x
      <4>1. PICK w \in TaskIds : /\ Awaiting(tasks[w]) /\ tasks[w].conn = tasks[x].conn
                                 /\ tasks[w].waits = x
        BY <3>5
      <4>2. w # t /\ w # m
        BY <1>4, <1>5, <4>1, AwaitingIsAtWork DEF LiveMonitor
      <4>3. Undisturbed(w)
        BY <1>1, <4>2 DEF Apart
      <4>4. Awaiting(tasks'[w]) /\ tasks'[w].conn = tasks[w].conn /\ tasks'[w].waits = x
        BY <1>7, <4>1, <4>3, WaitsAsBefore
      <4> QED
        BY <3>2, <3>5, <4>1, <4>4
    <3> QED
      BY <3>2, <3>4, <3>5 DEF MonitorsFit
  <2> QED
    BY <2>2, <2>3
<1>8. ASSUME NEW w \in TaskIds, Awaiting(tasks'[w])
      PROVE  healthMonitors'[tasks'[w].conn] = 0
  <2>1. CASE w = t
    BY <1>3, <1>5, <2>1
  <2>2. CASE w # t
    <3>1. w # m
      BY <1>1, <1>4, <1>8, AwaitingIsAtWork DEF LiveMonitor, IsMonitor
    <3>2. Awaiting(tasks[w]) /\ tasks'[w].conn = tasks[w].conn
      BY <1>1, <1>8, <2>2, <3>1, WaitsAsBefore DEF Apart
    <3>3. tasks[w].conn \in Connections
      BY <1>6, <3>2, AwaitingIsAtWork
    <3> QED
      BY <1>3, <3>2, <3>3 DEF MonitorsFit
  <2> QED
    BY <2>1, <2>2
<1> QED
  BY <1>7, <1>8 DEF MonitorsFit

(* An operation starts a monitor: none is in the table, and no other task  *)
(* awaits the end of one.                                                  *)
LEMMA StartsOneFits ==
  ASSUME Ready, AloneAtWork, OneLeads, MonitorsFit, NEW t \in TaskIds, NEW c \in Connections,
         StartsOne(t, c)
  PROVE  MonitorsFit'
<1> PICK m : StartsMonitor(t, c, m)
  BY DEF StartsOne
<1>1. /\ m \in TaskIds \ {t} /\ tasks[m].kind = "none" /\ Apart({t, m})
      /\ healthMonitors' = [healthMonitors EXCEPT ![c] = m]
      /\ IsMonitor(tasks'[m]) /\ tasks'[m].conn = c
  BY DEF StartsMonitor
<1>2. healthMonitors \in [Connections -> TaskIds \cup {0}]
  BY DEF Ready, Before, TypeOK
<1>3. \A d \in Connections : healthMonitors'[d] = (IF d = c THEN m ELSE healthMonitors[d])
  BY <1>1, <1>2
<1>4. AtWork(tasks[t]) /\ tasks[t].conn = c /\ ~ IsMonitor(tasks'[t]) /\ ~ Awaiting(tasks'[t])
  BY DEF StartsOne
<1>5. Awaiting(tasks[t]) => tasks[t].waits = 0
  BY DEF StartsOne
<1>6. healthMonitors[c] = 0
  BY <1>4 DEF StartsOne, MonitorsFit
<1>7. \A u \in TaskIds : tasks[u].kind # "none" => tasks[u].conn \in Connections
  BY DEF Ready, Before, TasksTyped
<1>8. ASSUME NEW x \in TaskIds, IsMonitor(tasks'[x])
      PROVE  \/ healthMonitors'[tasks'[x].conn] = x
             \/ /\ tasks'[x].cancelled
                /\ \E w \in TaskIds : /\ Awaiting(tasks'[w]) /\ tasks'[w].conn = tasks'[x].conn
                                      /\ tasks'[w].waits = x
  <2>1. x # t
    BY <1>4, <1>8
  <2>2. CASE x = m
    BY <1>1, <1>3, <2>2
  <2>3. CASE x # m
    <3>1. Undisturbed(x)
      BY <1>1, <2>1, <2>3 DEF Apart
    <3>2. /\ IsMonitor(tasks[x]) /\ tasks'[x].conn = tasks[x].conn
          /\ tasks'[x].cancelled = tasks[x].cancelled
      BY <1>8, <3>1, WaitsAsBefore
    <3>3. tasks[x].conn \in Connections /\ x # 0
      BY <1>7, <3>2, LimitsAssumption DEF IsMonitor, TaskIds
    <3>4. CASE healthMonitors[tasks[x].conn] = x
      BY <1>3, <1>6, <3>2, <3>3, <3>4
    <3>5. CASE /\ tasks[x].cancelled
               /\ \E w \in TaskIds : /\ Awaiting(tasks[w]) /\ tasks[w].conn = tasks[x].conn
                                     /\ tasks[w].waits = x
      <4>1. PICK w \in TaskIds : /\ Awaiting(tasks[w]) /\ tasks[w].conn = tasks[x].conn
                                 /\ tasks[w].waits = x
        BY <3>5
      <4>2. w # t /\ w # m
        BY <1>1, <1>5, <3>3, <4>1, AwaitingIsAtWork
      <4>3. Undisturbed(w)
        BY <1>1, <4>2 DEF Apart
      <4>4. Awaiting(tasks'[w]) /\ tasks'[w].conn = tasks[w].conn /\ tasks'[w].waits = x
        BY <1>8, <4>1, <4>3, WaitsAsBefore
      <4> QED
        BY <3>2, <3>5, <4>1, <4>4
    <3> QED
      BY <3>2, <3>4, <3>5 DEF MonitorsFit
  <2> QED
    BY <2>2, <2>3
<1>9. ASSUME NEW w \in TaskIds, Awaiting(tasks'[w])
      PROVE  healthMonitors'[tasks'[w].conn] = 0
  <2>1. w # t /\ w # m
    BY <1>1, <1>4, <1>9, AwaitingIsAtWork
  <2>2. Awaiting(tasks[w]) /\ tasks'[w].conn = tasks[w].conn
    BY <1>1, <1>9, <2>1, WaitsAsBefore DEF Apart
  <2>3. tasks[w].conn \in Connections
    BY <1>7, <2>2, AwaitingIsAtWork
  <2>4. tasks[w].conn # c
    BY <1>4, <2>1, <2>2, AwaitingIsAtWork, OneAtWork
  <2> QED
    BY <1>3, <2>2, <2>3, <2>4 DEF MonitorsFit
<1> QED
  BY <1>8, <1>9 DEF MonitorsFit

(* Two monitors of a connection are one.                                   *)
LEMMA MonitorsAlone ==
  ASSUME AloneAtWork, OneLeads, MonitorsFit, NEW t \in TaskIds, NEW x \in TaskIds,
         IsMonitor(tasks[t]), IsMonitor(tasks[x]), tasks[x].conn = tasks[t].conn
  PROVE  x = t
<1> DEFINE c == tasks[t].conn
<1>1. CASE healthMonitors[c] # 0
  BY <1>1 DEF MonitorsFit
<1>2. CASE healthMonitors[c] = 0
  <2>1. x # 0 /\ t # 0
    BY LimitsAssumption DEF TaskIds
  <2>2. PICK w \in TaskIds : Awaiting(tasks[w]) /\ tasks[w].conn = c /\ tasks[w].waits = t
    BY <1>2, <2>1 DEF MonitorsFit
  <2>3. PICK v \in TaskIds : Awaiting(tasks[v]) /\ tasks[v].conn = c /\ tasks[v].waits = x
    BY <1>2, <2>1 DEF MonitorsFit
  <2>4. v = w
    BY <2>2, <2>3, AwaitingIsAtWork, OneAtWork
  <2> QED
    BY <2>2, <2>3, <2>4
<1> QED
  BY <1>1, <1>2
===============================================================================
