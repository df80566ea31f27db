----------------------------- MODULE CopilotProofs -----------------------------
(***************************************************************************)
(* Proofs about the language server's transport and service, for any       *)
(* number of tasks, starts, commands and requests.                         *)
(*                                                                         *)
(* The inductive invariant has these parts: the types; TasksFit, what a    *)
(* task's place in the code says of its request and its transport;         *)
(* TimersFit, that the two timer handles name timers; ProcessesFit and     *)
(* PendingFits, that the continuations a transport holds are those of the  *)
(* callers that wait on it, one each, and that somebody will resume them;  *)
(* and StartingFits, what a start that still counts has before it.         *)
(*                                                                         *)
(* A step of the service moves one task and may cancel timers: that is     *)
(* proved of each action once (ServiceMove), and the parts about tasks and *)
(* requests follow from it.                                                *)
(***************************************************************************)
EXTENDS CopilotProperties, TLAPS

Awaits == {"initialize", "checkStatus", "shutdown", "reply"}

(* A task awaits a request exactly at the places that send one; a task     *)
(* that is none or a timer has nothing a cancellation could lose.          *)
Fits(k, r) ==
  /\ k.kind = "none" => k = NoTask
  /\ k.kind \in {"restart", "idle"} => k.pc = "sleep"
  /\ k.pc \in Awaits <=> r.state # "none"
  /\ k.pc \notin {"none", "sleep"} => k.transport \in Transports
  /\ r.state = "none" => r = NoCall
  /\ r.state # "none" => r.transport \in Transports

TasksFit == \A c \in Callers : Fits(tasks[c], call[c])

TimersFit ==
  /\ restartTask # 0 => IsTask(restartTask, "restart", "sleep")
  /\ idleStop # 0 => IsTask(idleStop, "idle", "sleep")

ProcessesFit ==
  \A t \in Transports :
    /\ t \in process => server[t] # "none"
    /\ t \in exitNotices => server[t] = "exited"

PendingFits ==
  /\ PendingIsLive
  /\ \A t \in Transports : \A e \in pendingRequests[t] :
       /\ call[e.caller] = [state |-> "waiting", transport |-> t]
       /\ e.id < nextRequestID[t]
  /\ \A t \in Transports : \A e, f \in pendingRequests[t] :
       e.id = f.id \/ e.caller = f.caller => e = f
  /\ \A c \in Callers : call[c].state = "waiting" =>
       \E e \in pendingRequests[call[c].transport] : e.caller = c

StartPcs == {"binary", "launched", "initialize", "register"}

IsStarting(c) == tasks[c].kind = "start" /\ tasks[c].pc \in StartPcs

StartingFits ==
  status = "starting" =>
    \/ serverGeneration # 0 /\ IsStarting(serverGeneration)
    \/ \E c \in Callers : tasks[c].kind = "stop"

IInv ==
  /\ TypeOK /\ TasksFit /\ TimersFit /\ ProcessesFit /\ PendingFits
  /\ StartingFits /\ ErrorIsRetried

-------------------------------------------------------------------------------
(***************************************************************************)
(* Tasks and calls.                                                        *)
(***************************************************************************)
LEMMA FreshIsFree ==
  ASSUME FreeTasks # {}
  PROVE  Fresh \in Callers /\ tasks[Fresh].kind = "none"
  BY DEF Fresh, FreeTasks

(* No task has the number that stands for none.                            *)
LEMMA ZeroIsNobody == 0 \notin Callers
  BY CallersAssumption

(* A task record has its type.                                             *)
LEMMA TaskTyped ==
  ASSUME NEW kind \in Kinds, NEW pc \in Pcs, NEW t \in Transports \cup {NoTransport}
  PROVE  Task(kind, pc, t) \in TaskRecords
  BY DEF Task, TaskRecords

LEMMA NoTaskTyped == NoTask \in TaskRecords
  BY DEF NoTask, Task, TaskRecords, Kinds, Pcs

LEMMA WithoutTyped ==
  ASSUME NEW ts \in [Callers -> TaskRecords], NEW S
  PROVE  Without(ts, S) \in [Callers -> TaskRecords]
  BY NoTaskTyped DEF Without

(* What a step of the service does to tasks and requests: c moves, to a    *)
(* place that fits; timers are cancelled; nobody else hears anything.      *)
ServiceMove(c) ==
  /\ tasks' \in [Callers -> TaskRecords]
  /\ call' \in [Callers -> CallRecords]
  /\ \A x \in Callers \ {c} :
       /\ call'[x] = call[x]
       /\ \/ tasks'[x] = tasks[x]
          \/ x \in {restartTask, idleStop} /\ tasks'[x] = NoTask
  /\ Fits(tasks'[c], call'[c])
  /\ call[c].state # "waiting" /\ call'[c].state # "waiting"

(* A step that leaves the requests alone.                                  *)
LEMMA MoveWithoutCall ==
  ASSUME TypeOK, TasksFit, UNCHANGED call, NEW c \in Callers,
         tasks[c].pc \notin Awaits,
         tasks' \in [Callers -> TaskRecords],
         \A x \in Callers \ {c} :
           \/ tasks'[x] = tasks[x]
           \/ x \in {restartTask, idleStop} /\ tasks'[x] = NoTask,
         tasks'[c].pc \notin Awaits,
         tasks'[c].kind = "none" => tasks'[c] = NoTask,
         tasks'[c].kind \in {"restart", "idle"} => tasks'[c].pc = "sleep",
         tasks'[c].pc \notin {"none", "sleep"} => tasks'[c].transport \in Transports
  PROVE  ServiceMove(c)
  BY DEF TypeOK, TasksFit, Fits, ServiceMove

(* A task at rest asks.                                                    *)
LEMMA MoveAsks ==
  ASSUME TypeOK, TasksFit, NEW c \in Callers, NEW t \in Transports,
         tasks[c].pc \notin Awaits,
         call' = Asked(call, c, t),
         tasks' \in [Callers -> TaskRecords],
         \A x \in Callers \ {c} :
           \/ tasks'[x] = tasks[x]
           \/ x \in {restartTask, idleStop} /\ tasks'[x] = NoTask,
         tasks'[c].pc \in Awaits, tasks'[c].transport \in Transports,
         tasks'[c].kind \notin {"none", "restart", "idle"}
  PROVE  ServiceMove(c)
<1>1. call[c].state = "none"
  BY DEF TasksFit, Fits
<1>2. [state |-> "asked", transport |-> t] \in CallRecords
  BY DEF CallRecords
<1>3. /\ call' \in [Callers -> CallRecords]
      /\ call'[c] = [state |-> "asked", transport |-> t]
      /\ \A x \in Callers \ {c} : call'[x] = call[x]
  BY <1>2 DEF TypeOK, Asked
<1>4. Fits(tasks'[c], call'[c])
  BY <1>3 DEF Fits, Awaits
<1> QED
  BY <1>1, <1>3, <1>4 DEF ServiceMove

(* A task that has its answer takes it.                                    *)
LEMMA MoveTakes ==
  ASSUME TypeOK, TasksFit, NEW c \in Callers, IsSettled(c),
         call' = Taken(call, c),
         tasks' \in [Callers -> TaskRecords],
         \A x \in Callers \ {c} :
           \/ tasks'[x] = tasks[x]
           \/ x \in {restartTask, idleStop} /\ tasks'[x] = NoTask,
         tasks'[c].pc \notin Awaits,
         tasks'[c].kind = "none" => tasks'[c] = NoTask,
         tasks'[c].kind \in {"restart", "idle"} => tasks'[c].pc = "sleep",
         tasks'[c].pc \notin {"none", "sleep"} => tasks'[c].transport \in Transports
  PROVE  ServiceMove(c)
<1>1. call[c].state # "waiting"
  BY DEF IsSettled, Replies, Failures
<1>2. NoCall \in CallRecords /\ NoCall.state = "none"
  BY DEF CallRecords, NoCall
<1>3. /\ call' \in [Callers -> CallRecords]
      /\ call'[c] = NoCall
      /\ \A x \in Callers \ {c} : call'[x] = call[x]
  BY <1>2 DEF TypeOK, Taken
<1>4. Fits(tasks'[c], call'[c])
  BY <1>2, <1>3 DEF Fits
<1> QED
  BY <1>1, <1>2, <1>3, <1>4 DEF ServiceMove

(* The three ways tasks change.                                            *)
LEMMA GotoMoves ==
  ASSUME TypeOK, NEW c \in Callers, NEW pc \in Pcs, Goto(c, pc)
  PROVE  /\ tasks' \in [Callers -> TaskRecords]
         /\ \A x \in Callers \ {c} : tasks'[x] = tasks[x]
         /\ tasks'[c].pc = pc
         /\ tasks'[c].kind = tasks[c].kind
         /\ tasks'[c].transport = tasks[c].transport
  BY DEF TypeOK, Goto, TaskRecords

(* Ending a task, and timers with it.                                      *)
LEMMA EndMoves ==
  ASSUME TypeOK, NEW c \in Callers, NEW S,
         S \subseteq {restartTask, idleStop}, tasks' = Without(tasks, S \cup {c})
  PROVE  /\ tasks' \in [Callers -> TaskRecords]
         /\ \A x \in Callers \ {c} :
              tasks'[x] = tasks[x] \/ (x \in {restartTask, idleStop} /\ tasks'[x] = NoTask)
         /\ tasks'[c] = NoTask
<1>1. tasks \in [Callers -> TaskRecords]
  BY DEF TypeOK
<1>2. tasks' \in [Callers -> TaskRecords]
  BY <1>1, WithoutTyped
<1> QED
  BY <1>2 DEF Without

(* A task becomes another, and the timers are cancelled.                   *)
LEMMA BecomeMoves ==
  ASSUME TypeOK, NEW c \in Callers,
         NEW k \in TaskRecords,
         tasks' = [Without(tasks, {restartTask, idleStop}) EXCEPT ![c] = k]
  PROVE  /\ tasks' \in [Callers -> TaskRecords]
         /\ \A x \in Callers \ {c} :
              tasks'[x] = tasks[x] \/ (x \in {restartTask, idleStop} /\ tasks'[x] = NoTask)
         /\ tasks'[c] = k
<1>1. Without(tasks, {restartTask, idleStop}) \in [Callers -> TaskRecords]
  BY WithoutTyped DEF TypeOK
<1>2. tasks' \in [Callers -> TaskRecords] /\ tasks'[c] = k
  BY <1>1
<1>3. \A x \in Callers \ {c} : tasks'[x] = Without(tasks, {restartTask, idleStop})[x]
  BY <1>1
<1> QED
  BY <1>2, <1>3 DEF Without

LEMMA BecomesMoves ==
  ASSUME TypeOK, NEW c \in Callers, NEW k \in TaskRecords,
         tasks' = [tasks EXCEPT ![c] = k]
  PROVE  /\ tasks' \in [Callers -> TaskRecords]
         /\ \A x \in Callers \ {c} : tasks'[x] = tasks[x]
         /\ tasks'[c] = k
  BY DEF TypeOK

(* A task that comes to rest is none or a timer.                           *)
Rests(c) ==
  \/ tasks'[c] = NoTask
  \/ tasks'[c].kind = "restart" /\ tasks'[c].pc = "sleep"
  \/ tasks'[c].kind = "idle" /\ tasks'[c].pc = "sleep"

Others(c) ==
  \A x \in Callers \ {c} :
    tasks'[x] = tasks[x] \/ (x \in {restartTask, idleStop} /\ tasks'[x] = NoTask)

(* A task at rest fits.                                                    *)
LEMMA RestsFits ==
  ASSUME NEW c \in Callers, Rests(c)
  PROVE  /\ tasks'[c].pc \notin Awaits
         /\ tasks'[c].kind = "none" => tasks'[c] = NoTask
         /\ tasks'[c].kind \in {"restart", "idle"} => tasks'[c].pc = "sleep"
         /\ tasks'[c].pc \in {"none", "sleep"}
         /\ tasks'[c].kind \in {"none", "restart", "idle"}
  BY DEF Rests, NoTask, Task, Awaits

(* Timers are where their handles say, after c has moved.                  *)
LEMMA TimersStay ==
  ASSUME TypeOK, TimersFit, NEW c \in Callers, Others(c),
         \/ restartTask' = 0
         \/ restartTask' = c /\ IsTask(c, "restart", "sleep")'
         \/ restartTask' = restartTask /\ restartTask # c /\ tasks'[restartTask] # NoTask
         \/ restartTask' = restartTask /\ restartTask # c /\ tasks'[restartTask] = tasks[restartTask],
         \/ idleStop' = 0
         \/ idleStop' = c /\ IsTask(c, "idle", "sleep")'
         \/ idleStop' = idleStop /\ idleStop # c /\ tasks'[idleStop] # NoTask
         \/ idleStop' = idleStop /\ idleStop # c /\ tasks'[idleStop] = tasks[idleStop]
  PROVE  TimersFit'
  BY DEF TypeOK, TimersFit, IsTask, Others

LEMMA EndRests ==
  ASSUME TypeOK, NEW c \in Callers, End(c)
  PROVE  /\ tasks' \in [Callers -> TaskRecords] /\ Rests(c)
         /\ tasks'[c] = NoTask
         /\ \A x \in Callers \ {c} : tasks'[x] = tasks[x]
<1>1. tasks \in [Callers -> TaskRecords]
  BY DEF TypeOK
<1>2. tasks' \in [Callers -> TaskRecords] /\ tasks'[c] = NoTask
  BY <1>1, NoTaskTyped DEF End, Without
<1>3. \A x \in Callers \ {c} : tasks'[x] = tasks[x]
  BY DEF End, Without
<1> QED
  BY <1>2, <1>3 DEF Rests

(* The handles of a task that moves without touching the timers.           *)
LEMMA TimersUntouched ==
  ASSUME TypeOK, TimersFit, NEW c \in Callers,
         \A x \in Callers \ {c} : tasks'[x] = tasks[x],
         UNCHANGED <<restartTask, idleStop>>,
         restartTask # c, idleStop # c
  PROVE  TimersFit'
  BY DEF TypeOK, TimersFit, IsTask

(* A task that is none of the timers is not cancelled with them.           *)
LEMMA NotATimer ==
  ASSUME TimersFit, NEW c \in Callers, tasks[c].kind \notin {"restart", "idle"}
  PROVE  restartTask # c /\ idleStop # c
  BY ZeroIsNobody DEF TimersFit, IsTask

LEMMA TimersDiffer ==
  ASSUME TimersFit, restartTask # 0, idleStop # 0
  PROVE  restartTask # idleStop
  BY DEF TimersFit, IsTask

(* A task ends and cancels the idle timer.                                 *)
LEMMA CancelIdleRests ==
  ASSUME TypeOK, TimersFit, NEW c \in Callers,
         tasks[c].kind \notin {"restart", "idle"},
         tasks' = Without(tasks, {c, idleStop}), idleStop' = 0, UNCHANGED restartTask
  PROVE  /\ tasks' \in [Callers -> TaskRecords] /\ Rests(c) /\ Others(c)
         /\ tasks'[c] = NoTask
         /\ TimersFit'
<1>1. tasks' \in [Callers -> TaskRecords] /\ tasks'[c] = NoTask
  BY NoTaskTyped DEF TypeOK, Without
<1>2. Others(c)
  BY DEF Others, Without
<1>3. restartTask # c /\ (restartTask # 0 => tasks'[restartTask] = tasks[restartTask])
  BY NotATimer, TimersDiffer, ZeroIsNobody DEF Without, TypeOK
<1>4. TimersFit'
  BY <1>3 DEF TypeOK, TimersFit, IsTask
<1> QED
  BY <1>1, <1>2, <1>4 DEF Rests

(* schedule() leaves the task at rest or as the new timer.                 *)
LEMMA ScheduleRests ==
  ASSUME TypeOK, TimersFit, NEW c \in Callers, NEW signedIn \in BOOLEAN,
         tasks[c].kind \notin {"restart", "idle"},
         ScheduleStop(c, signedIn), UNCHANGED restartTask
  PROVE  /\ tasks' \in [Callers -> TaskRecords] /\ Rests(c) /\ Others(c)
         /\ TimersFit'
         /\ idleStop' \in Callers \cup {0}
         /\ tasks'[c].kind # "stop"
<1>0. restartTask # c /\ idleStop # c
  BY NotATimer
<1>1. CASE signedIn
  <2>1. tasks' = Without(tasks, {c, idleStop}) /\ idleStop' = 0
    BY <1>1 DEF ScheduleStop
  <2> QED
    BY <2>1, CancelIdleRests DEF NoTask, Task
<1>2. CASE ~signedIn /\ idleStop # 0
  <2>1. End(c) /\ UNCHANGED idleStop
    BY <1>2 DEF ScheduleStop
  <2>2. /\ tasks' \in [Callers -> TaskRecords] /\ Rests(c)
        /\ \A x \in Callers \ {c} : tasks'[x] = tasks[x]
        /\ tasks'[c] = NoTask
    BY <2>1, EndRests
  <2>3. TimersFit'
    BY <1>0, <2>1, <2>2, TimersUntouched
  <2> QED
    BY <2>1, <2>2, <2>3 DEF Others, TypeOK, NoTask, Task
<1>3. CASE ~signedIn /\ idleStop = 0
  <2>1. tasks' = [tasks EXCEPT ![c] = Task("idle", "sleep", NoTransport)] /\ idleStop' = c
    BY <1>3 DEF ScheduleStop
  <2>2. Task("idle", "sleep", NoTransport) \in TaskRecords
    BY TaskTyped DEF Kinds, Pcs
  <2>3. /\ tasks' \in [Callers -> TaskRecords]
        /\ \A x \in Callers \ {c} : tasks'[x] = tasks[x]
        /\ tasks'[c].kind = "idle" /\ tasks'[c].pc = "sleep"
    BY <2>1, <2>2, BecomesMoves DEF Task
  <2>4. IsTask(c, "idle", "sleep")'
    BY <2>3 DEF IsTask
  <2>5. TimersFit'
    BY <1>0, <2>1, <2>3, <2>4 DEF TypeOK, TimersFit, IsTask
  <2> QED
    BY <2>1, <2>3, <2>5 DEF Rests, Others
<1> QED
  BY <1>1, <1>2, <1>3

(* The catch of start() leaves it at rest or as the restart timer.         *)
LEMMA FailRests ==
  ASSUME TypeOK, TimersFit, NEW c \in Callers, NEW isPermanent \in BOOLEAN,
         tasks[c].kind = "start", FailStart(c, isPermanent), UNCHANGED idleStop
  PROVE  /\ tasks' \in [Callers -> TaskRecords] /\ Rests(c)
         /\ \A x \in Callers \ {c} : tasks'[x] = tasks[x]
         /\ TimersFit'
         /\ restartTask' \in Callers \cup {0}
<1>0. restartTask # c /\ idleStop # c
  BY NotATimer
<1>1. CASE End(c) /\ UNCHANGED restartTask
  <2>1. /\ tasks' \in [Callers -> TaskRecords] /\ Rests(c)
        /\ \A x \in Callers \ {c} : tasks'[x] = tasks[x]
    BY <1>1, EndRests
  <2>2. TimersFit'
    BY <1>0, <1>1, <2>1, TimersUntouched
  <2> QED
    BY <1>1, <2>1, <2>2 DEF TypeOK
<1>2. CASE /\ tasks' = [tasks EXCEPT ![c] = Task("restart", "sleep", NoTransport)]
           /\ restartTask' = c
  <2>1. Task("restart", "sleep", NoTransport) \in TaskRecords
    BY TaskTyped DEF Kinds, Pcs
  <2>2. /\ tasks' \in [Callers -> TaskRecords]
        /\ \A x \in Callers \ {c} : tasks'[x] = tasks[x]
        /\ tasks'[c].kind = "restart" /\ tasks'[c].pc = "sleep"
    BY <1>2, <2>1, BecomesMoves DEF Task
  <2>3. IsTask(c, "restart", "sleep")'
    BY <2>2 DEF IsTask
  <2>4. TimersFit'
    BY <1>0, <1>2, <2>2, <2>3 DEF TypeOK, TimersFit, IsTask
  <2> QED
    BY <1>2, <2>2, <2>4 DEF Rests
<1> QED
  BY <1>1, <1>2 DEF FailStart

(* A start begins in a place that is free or a timer's that fires.         *)
LEMMA BeginStartMoves ==
  ASSUME TypeOK, NEW c \in Callers, BeginStart(c)
  PROVE  /\ tasks' \in [Callers -> TaskRecords]
         /\ \A x \in Callers \ {c} : tasks'[x] = tasks[x]
         /\ tasks'[c].kind = "start" /\ tasks'[c].pc = "binary"
         /\ tasks'[c].transport \in Transports
         /\ starts' \in 0..MaxStarts
<1>1. starts + 1 \in Transports /\ starts' \in 0..MaxStarts
  BY TransportsAssumption, BoundsAssumption DEF BeginStart, TypeOK
<1>2. Task("start", "binary", starts + 1) \in TaskRecords
  BY <1>1, TaskTyped DEF Kinds, Pcs
<1>3. /\ tasks' \in [Callers -> TaskRecords]
      /\ \A x \in Callers \ {c} : tasks'[x] = tasks[x]
      /\ tasks'[c] = Task("start", "binary", starts + 1)
  BY <1>2, BecomesMoves DEF BeginStart
<1> QED
  BY <1>1, <1>3 DEF Task

(* So does a stop; with no server it is over at once.                      *)
LEMMA BeginStopMoves ==
  ASSUME TypeOK, TasksFit, TimersFit, NEW c \in Callers,
         tasks[c].pc \notin Awaits, BeginStop(c), UNCHANGED transport
  PROVE  ServiceMove(c) /\ TimersFit'
<1>1. TimersFit'
  BY DEF BeginStop, TimersFit
<1>2. CASE transport # NoTransport
  <2>1. transport \in Transports
    BY <1>2 DEF TypeOK
  <2>2. Task("stop", "shutdown", transport) \in TaskRecords
    BY <2>1, TaskTyped DEF Kinds, Pcs
  <2>3. /\ tasks' \in [Callers -> TaskRecords]
        /\ \A x \in Callers \ {c} :
             tasks'[x] = tasks[x] \/ (x \in {restartTask, idleStop} /\ tasks'[x] = NoTask)
        /\ tasks'[c] = Task("stop", "shutdown", transport)
    BY <1>2, <2>2, BecomeMoves DEF BeginStop
  <2>4. tasks'[c].kind = "stop" /\ tasks'[c].pc = "shutdown" /\ tasks'[c].transport = transport
    BY <2>3 DEF Task
  <2>5. call' = Asked(call, c, transport)
    BY <1>2 DEF BeginStop
  <2>6. "shutdown" \in Awaits
    BY DEF Awaits
  <2> QED
    BY <1>1, <2>1, <2>3, <2>4, <2>5, <2>6, MoveAsks
<1>3. CASE transport = NoTransport
  <2>1. tasks' = Without(tasks, {restartTask, idleStop} \cup {c}) /\ UNCHANGED call
    BY <1>3 DEF BeginStop
  <2>2. /\ tasks' \in [Callers -> TaskRecords] /\ Others(c) /\ tasks'[c] = NoTask
    BY <2>1, EndMoves DEF Others
  <2>3. Rests(c)
    BY <2>2 DEF Rests
  <2> QED
    BY <1>1, <2>1, <2>2, <2>3, RestsFits, MoveWithoutCall DEF Others
<1> QED
  BY <1>2, <1>3

LEMMA RestWithoutCall ==
  ASSUME TypeOK, TasksFit, UNCHANGED call, NEW c \in Callers, tasks[c].pc \notin Awaits,
         tasks' \in [Callers -> TaskRecords], Others(c), Rests(c)
  PROVE  ServiceMove(c)
  BY RestsFits, MoveWithoutCall DEF Others

LEMMA RestTakes ==
  ASSUME TypeOK, TasksFit, NEW c \in Callers, IsSettled(c), call' = Taken(call, c),
         tasks' \in [Callers -> TaskRecords], Others(c), Rests(c)
  PROVE  ServiceMove(c)
  BY RestsFits, MoveTakes DEF Others

(* A start, a stop or a request goes on to its next await.                 *)
LEMMA GotoFits ==
  ASSUME TypeOK, TasksFit, TimersFit, NEW c \in Callers, NEW pc \in Pcs, Goto(c, pc),
         UNCHANGED <<restartTask, idleStop>>,
         tasks[c].kind \notin {"none", "restart", "idle"},
         tasks[c].pc \notin {"none", "sleep"}
  PROVE  /\ TimersFit'
         /\ tasks' \in [Callers -> TaskRecords] /\ Others(c)
         /\ tasks'[c].pc = pc
         /\ tasks'[c].kind \notin {"none", "restart", "idle"}
         /\ tasks'[c].transport \in Transports
         /\ tasks'[c].transport = tasks[c].transport
<1>1. /\ tasks' \in [Callers -> TaskRecords]
      /\ \A x \in Callers \ {c} : tasks'[x] = tasks[x]
      /\ tasks'[c].pc = pc
      /\ tasks'[c].kind = tasks[c].kind
      /\ tasks'[c].transport = tasks[c].transport
  BY GotoMoves
<1>2. restartTask # c /\ idleStop # c
  BY NotATimer
<1>3. TimersFit'
  BY <1>1, <1>2, TimersUntouched
<1>4. tasks[c].transport \in Transports
  BY DEF TasksFit, Fits
<1> QED
  BY <1>1, <1>3, <1>4 DEF Others

(* A task that is neither a timer nor a new one ends.                      *)
LEMMA EndFits ==
  ASSUME TypeOK, TimersFit, NEW c \in Callers, End(c),
         UNCHANGED <<restartTask, idleStop>>,
         tasks[c].kind \notin {"restart", "idle"}
  PROVE  /\ TimersFit'
         /\ tasks' \in [Callers -> TaskRecords] /\ Others(c) /\ Rests(c)
<1>1. /\ tasks' \in [Callers -> TaskRecords] /\ Rests(c)
      /\ \A x \in Callers \ {c} : tasks'[x] = tasks[x]
  BY EndRests
<1>2. restartTask # c /\ idleStop # c
  BY NotATimer
<1> QED
  BY <1>1, <1>2, TimersUntouched DEF Others

(* The steps of start().                                                   *)
LEMMA StartMoves ==
  ASSUME TypeOK, TasksFit, TimersFit, NEW c \in Callers, StartSteps(c)
  PROVE  ServiceMove(c) /\ TimersFit'
<1>1. CASE LaunchFails(c)
  <2>1. PICK isPermanent \in BOOLEAN : FailStart(c, isPermanent)
    BY <1>1 DEF LaunchFails
  <2>2. /\ tasks[c].kind = "start" /\ tasks[c].pc \notin Awaits
        /\ UNCHANGED <<call, idleStop>>
    BY <1>1 DEF LaunchFails, IsTask, Awaits, transportVars
  <2>3. /\ tasks' \in [Callers -> TaskRecords] /\ Rests(c) /\ Others(c) /\ TimersFit'
    BY <2>1, <2>2, FailRests DEF Others
  <2> QED
    BY <2>2, <2>3, RestWithoutCall
<1>2. CASE LaunchServer(c)
  <2>1. /\ tasks[c].kind = "start" /\ tasks[c].pc = "binary"
        /\ Goto(c, "launched") /\ UNCHANGED <<call, restartTask, idleStop>>
        /\ "launched" \in Pcs /\ "launched" \notin Awaits /\ "binary" \notin Awaits
    BY <1>2 DEF LaunchServer, IsTask, Pcs, Awaits
  <2> QED
    BY <2>1, GotoFits, MoveWithoutCall DEF Others
<1>3. CASE AskInitialize(c)
  <2>1. /\ tasks[c].kind = "start" /\ tasks[c].pc = "launched"
        /\ Goto(c, "initialize") /\ UNCHANGED <<restartTask, idleStop>>
        /\ call' = Asked(call, c, tasks[c].transport)
        /\ "initialize" \in Pcs /\ "initialize" \in Awaits /\ "launched" \notin Awaits
    BY <1>3 DEF AskInitialize, IsTask, Pcs, Awaits
  <2> QED
    BY <2>1, GotoFits, MoveAsks DEF Others
<1>4. CASE InitializeFails(c)
  <2>1. /\ FailStart(c, FALSE) /\ tasks[c].kind = "start" /\ IsSettled(c)
        /\ call' = Taken(call, c) /\ UNCHANGED idleStop
    BY <1>4 DEF InitializeFails, IsTask, IsSettled, Outcome, Replies
  <2>2. /\ tasks' \in [Callers -> TaskRecords] /\ Rests(c) /\ Others(c) /\ TimersFit'
    BY <2>1, FailRests DEF Others
  <2> QED
    BY <2>1, <2>2, RestTakes
<1>5. CASE Initialized(c)
  <2>1. /\ tasks[c].kind = "start" /\ tasks[c].pc = "initialize" /\ IsSettled(c)
        /\ call' = Taken(call, c) /\ UNCHANGED <<restartTask, idleStop>>
        /\ Goto(c, "register") \/ End(c)
        /\ "register" \in Pcs /\ "register" \notin Awaits
    BY <1>5 DEF Initialized, IsTask, IsSettled, Outcome, Replies, Pcs, Awaits
  <2>2. CASE Goto(c, "register")
    BY <2>1, <2>2, GotoFits, MoveTakes DEF Others
  <2>3. CASE End(c)
    BY <2>1, <2>3, EndFits, RestTakes
  <2> QED
    BY <2>1, <2>2, <2>3
<1>6. CASE Started(c)
  <2>1. /\ tasks[c].kind = "start" /\ tasks[c].pc = "register"
        /\ Goto(c, "checkStatus") /\ UNCHANGED <<restartTask, idleStop>>
        /\ call' = Asked(call, c, tasks[c].transport)
        /\ "checkStatus" \in Pcs /\ "checkStatus" \in Awaits /\ "register" \notin Awaits
    BY <1>6 DEF Started, IsTask, Pcs, Awaits
  <2> QED
    BY <2>1, GotoFits, MoveAsks DEF Others
<1>7. CASE AuthStatusChecked(c)
  <2>1. PICK signedIn \in BOOLEAN : ScheduleStop(c, signedIn)
    BY <1>7 DEF AuthStatusChecked
  <2>2. /\ tasks[c].kind = "start" /\ IsSettled(c)
        /\ call' = Taken(call, c) /\ UNCHANGED restartTask
    BY <1>7 DEF AuthStatusChecked, IsTask
  <2> QED
    BY <2>1, <2>2, ScheduleRests, RestTakes
<1> QED
  BY <1>1, <1>2, <1>3, <1>4, <1>5, <1>6, <1>7 DEF StartSteps

(* CloseTransport is the transport's step.                                 *)
LEMMA StopMoves ==
  ASSUME TypeOK, TasksFit, TimersFit, NEW c \in Callers,
         ShutdownDone(c) \/ ExitSent(c) \/ Stopped(c)
  PROVE  ServiceMove(c) /\ TimersFit'
<1>1. CASE ShutdownDone(c)
  <2>1. /\ tasks[c].kind = "stop" /\ tasks[c].pc = "shutdown" /\ IsSettled(c)
        /\ Goto(c, "exit") /\ UNCHANGED <<restartTask, idleStop>>
        /\ call' = Taken(call, c)
        /\ "exit" \in Pcs /\ "exit" \notin Awaits
    BY <1>1 DEF ShutdownDone, IsTask, Pcs, Awaits
  <2> QED
    BY <2>1, GotoFits, MoveTakes DEF Others
<1>2. CASE ExitSent(c) /\ transport # NoTransport
  <2>1. /\ tasks[c].kind = "stop" /\ tasks[c].pc = "exit" /\ "exit" \notin Awaits
        /\ tasks' = [tasks EXCEPT ![c] = Task("stop", "close", transport)]
        /\ UNCHANGED <<call, restartTask, idleStop>>
    BY <1>2 DEF ExitSent, IsTask, Awaits, transportVars
  <2>2. transport \in Transports /\ Task("stop", "close", transport) \in TaskRecords
    BY <1>2, TaskTyped DEF TypeOK, Kinds, Pcs
  <2>3. /\ tasks' \in [Callers -> TaskRecords]
        /\ \A x \in Callers \ {c} : tasks'[x] = tasks[x]
        /\ tasks'[c] = Task("stop", "close", transport)
    BY <2>1, <2>2, BecomesMoves
  <2>4. /\ tasks'[c].kind = "stop" /\ tasks'[c].pc = "close" /\ tasks'[c].transport = transport
        /\ "close" \notin Awaits
    BY <2>3 DEF Task, Awaits
  <2>5. restartTask # c /\ idleStop # c
    BY <2>1, NotATimer
  <2> QED
    BY <2>1, <2>2, <2>3, <2>4, <2>5, MoveWithoutCall, TimersUntouched
<1>3. CASE (ExitSent(c) /\ transport = NoTransport) \/ Stopped(c)
  <2>1. /\ tasks[c].kind = "stop" /\ tasks[c].pc \notin Awaits /\ End(c)
        /\ UNCHANGED <<call, restartTask, idleStop>>
    BY <1>3 DEF ExitSent, Stopped, FinishStop, IsTask, Awaits, transportVars
  <2> QED
    BY <2>1, EndFits, RestWithoutCall
<1> QED
  BY <1>1, <1>2, <1>3

(* The steps of requests.                                                  *)
LEMMA RequestMoves ==
  ASSUME TypeOK, TasksFit, TimersFit, NEW c \in Callers, RequestSteps(c)
  PROVE  ServiceMove(c) /\ TimersFit'
<1>1. CASE RequestDone(c)
  <2>1. /\ tasks[c].kind \notin {"restart", "idle"} /\ IsSettled(c) /\ End(c)
        /\ call' = Taken(call, c) /\ UNCHANGED <<restartTask, idleStop>>
    BY <1>1 DEF RequestDone
  <2> QED
    BY <2>1, EndFits, RestTakes
<1>2. CASE ConfirmDone(c)
  <2>1. /\ tasks[c].kind = "confirm" /\ tasks[c].pc = "reply" /\ IsSettled(c)
        /\ call' = Taken(call, c) /\ UNCHANGED restartTask
        /\ \/ tasks' = Without(tasks, {c, idleStop}) /\ idleStop' = 0
           \/ Goto(c, "poll") /\ UNCHANGED idleStop
           \/ End(c) /\ UNCHANGED idleStop
    BY <1>2 DEF ConfirmDone, IsTask
  <2>2. CASE tasks' = Without(tasks, {c, idleStop}) /\ idleStop' = 0
    BY <2>1, <2>2, CancelIdleRests, RestTakes
  <2>3. CASE Goto(c, "poll") /\ UNCHANGED idleStop
    <3>1. "poll" \in Pcs /\ "poll" \notin Awaits
      BY DEF Pcs, Awaits
    <3> QED
      BY <2>1, <2>3, <3>1, GotoFits, MoveTakes DEF Others
  <2>4. CASE End(c) /\ UNCHANGED idleStop
    BY <2>1, <2>4, EndFits, RestTakes
  <2> QED
    BY <2>1, <2>2, <2>3, <2>4
<1>3. CASE ConfirmAgain(c)
  <2>1. /\ tasks[c].kind = "confirm" /\ tasks[c].pc = "poll" /\ "poll" \notin Awaits
        /\ UNCHANGED <<restartTask, idleStop>>
        /\ \/ call' = Asked(call, c, tasks[c].transport) /\ Goto(c, "reply")
           \/ End(c) /\ UNCHANGED call
    BY <1>3 DEF ConfirmAgain, IsTask, Awaits
  <2>2. CASE call' = Asked(call, c, tasks[c].transport) /\ Goto(c, "reply")
    <3>1. "reply" \in Pcs /\ "reply" \in Awaits
      BY DEF Pcs, Awaits
    <3> QED
      BY <2>1, <2>2, <3>1, GotoFits, MoveAsks DEF Others
  <2>3. CASE End(c) /\ UNCHANGED call
    BY <2>1, <2>3, EndFits, RestWithoutCall
  <2> QED
    BY <2>1, <2>2, <2>3
<1>4. CASE SignedOut(c)
  <2>1. /\ tasks[c].kind = "signOut" /\ IsSettled(c) /\ ScheduleStop(c, FALSE)
        /\ call' = Taken(call, c) /\ UNCHANGED restartTask
    BY <1>4 DEF SignedOut, IsTask
  <2> QED
    BY <2>1, ScheduleRests, RestTakes
<1>5. CASE HandleStatusNotification(c)
  <2>1. /\ tasks[c].kind = "status" /\ tasks[c].pc = "queued" /\ ScheduleStop(c, FALSE)
        /\ UNCHANGED <<call, restartTask>>
    BY <1>5 DEF HandleStatusNotification, IsTask, transportVars
  <2>2. tasks[c].pc \notin Awaits
    BY <2>1 DEF Awaits
  <2> QED
    BY <2>1, <2>2, ScheduleRests, RestWithoutCall
<1> QED
  BY <1>1, <1>2, <1>3, <1>4, <1>5 DEF RequestSteps

(* The timers.                                                             *)
LEMMA TimerMoves ==
  ASSUME TypeOK, TasksFit, TimersFit, NEW c \in Callers, Timers(c)
  PROVE  ServiceMove(c) /\ TimersFit'
<1>1. CASE RestartFires(c)
  <2>1. /\ tasks[c].kind = "restart" /\ tasks[c].pc = "sleep" /\ "sleep" \notin Awaits
        /\ restartTask' = IF restartTask = c THEN 0 ELSE restartTask
        /\ UNCHANGED <<call, idleStop>>
        /\ BeginStart(c) \/ End(c)
    BY <1>1 DEF RestartFires, StartOrReturn, IsTask, Awaits, transportVars
  <2>2. idleStop # c
    BY <2>1, ZeroIsNobody DEF TimersFit, IsTask
  <2>3. CASE BeginStart(c)
    <3>1. /\ tasks' \in [Callers -> TaskRecords]
          /\ \A x \in Callers \ {c} : tasks'[x] = tasks[x]
          /\ tasks'[c].kind = "start" /\ tasks'[c].pc = "binary"
          /\ tasks'[c].transport \in Transports
          /\ "binary" \notin Awaits
      BY <2>3, BeginStartMoves DEF Awaits
    <3>2. TimersFit'
      BY <2>1, <2>2, <3>1 DEF TypeOK, TimersFit, IsTask
    <3> QED
      BY <2>1, <3>1, <3>2, MoveWithoutCall
  <2>4. CASE End(c)
    <3>1. /\ tasks' \in [Callers -> TaskRecords] /\ Rests(c)
          /\ \A x \in Callers \ {c} : tasks'[x] = tasks[x]
      BY <2>4, EndRests
    <3>2. TimersFit'
      BY <2>1, <2>2, <3>1 DEF TypeOK, TimersFit, IsTask
    <3> QED
      BY <2>1, <3>1, <3>2, RestWithoutCall DEF Others
  <2> QED
    BY <2>1, <2>3, <2>4
<1>2. CASE IdleStopFires(c)
  <2>1. /\ tasks[c].kind = "idle" /\ tasks[c].pc = "sleep" /\ "sleep" \notin Awaits
        /\ UNCHANGED transport
        /\ \/ BeginStop(c)
           \/ End(c) /\ idleStop' = 0 /\ UNCHANGED <<call, restartTask>>
    BY <1>2 DEF IdleStopFires, IsTask, Awaits
  <2>2. CASE BeginStop(c)
    BY <2>1, <2>2, BeginStopMoves
  <2>3. CASE End(c) /\ idleStop' = 0 /\ UNCHANGED <<call, restartTask>>
    <3>1. /\ tasks' \in [Callers -> TaskRecords] /\ Rests(c)
          /\ \A x \in Callers \ {c} : tasks'[x] = tasks[x]
      BY <2>3, EndRests
    <3>2. restartTask # c
      BY <2>1, ZeroIsNobody DEF TimersFit, IsTask
    <3>3. TimersFit'
      BY <2>3, <3>1, <3>2 DEF TypeOK, TimersFit, IsTask
    <3> QED
      BY <2>1, <2>3, <3>1, <3>3, RestWithoutCall DEF Others
  <2> QED
    BY <2>1, <2>2, <2>3
<1> QED
  BY <1>1, <1>2 DEF Timers

LEMMA FreshRests ==
  ASSUME TasksFit, FreeTasks # {}
  PROVE  /\ Fresh \in Callers /\ tasks[Fresh].kind = "none"
         /\ tasks[Fresh].pc \notin Awaits
  BY FreshIsFree DEF TasksFit, Fits, NoTask, Task, Awaits

(* The user's commands.                                                    *)
LEMMA UserMoves ==
  ASSUME TypeOK, TasksFit, TimersFit, UserSteps
  PROVE  Fresh \in Callers /\ tasks[Fresh].kind = "none" /\ ServiceMove(Fresh) /\ TimersFit'
<1>1. FreeTasks # {}
  BY DEF UserSteps, AddProvider, RemoveProvider, SignInStarts, SendUserRequest, Command
<1>2. /\ Fresh \in Callers /\ tasks[Fresh].kind = "none" /\ tasks[Fresh].pc \notin Awaits
  BY <1>1, FreshRests
<1>3. restartTask # Fresh /\ idleStop # Fresh
  BY <1>2, NotATimer
<1>4. CASE BeginStart(Fresh) /\ UNCHANGED <<call, restartTask, idleStop>>
  <2>1. /\ tasks' \in [Callers -> TaskRecords]
        /\ \A x \in Callers \ {Fresh} : tasks'[x] = tasks[x]
        /\ tasks'[Fresh].kind = "start" /\ tasks'[Fresh].pc = "binary"
        /\ tasks'[Fresh].transport \in Transports
        /\ "binary" \notin Awaits
    BY <1>2, <1>4, BeginStartMoves DEF Awaits
  <2>2. TimersFit'
    BY <1>2, <1>3, <1>4, <2>1, TimersUntouched
  <2> QED
    BY <1>2, <1>4, <2>1, <2>2, MoveWithoutCall
<1>5. CASE End(Fresh) /\ UNCHANGED <<call, restartTask, idleStop>>
  BY <1>2, <1>5, EndFits, RestWithoutCall
<1>6. CASE RemoveProvider
  <2>1. BeginStop(Fresh) /\ UNCHANGED transport
    BY <1>6 DEF RemoveProvider
  <2> QED
    BY <1>2, <2>1, BeginStopMoves
<1>7. ASSUME NEW kind \in Requests, SendUserRequest(kind)
      PROVE  ServiceMove(Fresh) /\ TimersFit'
  <2>1. /\ transport # NoTransport /\ call' = Asked(call, Fresh, transport)
        /\ tasks' = [tasks EXCEPT ![Fresh] = Task(kind, "reply", transport)]
        /\ UNCHANGED <<restartTask, idleStop>>
    BY <1>7 DEF SendUserRequest
  <2>2. transport \in Transports /\ Task(kind, "reply", transport) \in TaskRecords
    BY <2>1, TaskTyped, RequestsAssumption DEF TypeOK, Kinds, Pcs
  <2>3. /\ tasks' \in [Callers -> TaskRecords]
        /\ \A x \in Callers \ {Fresh} : tasks'[x] = tasks[x]
        /\ tasks'[Fresh] = Task(kind, "reply", transport)
    BY <1>2, <2>1, <2>2, BecomesMoves
  <2>4. /\ tasks'[Fresh].kind = kind /\ tasks'[Fresh].pc = "reply"
        /\ tasks'[Fresh].transport = transport
        /\ "reply" \in Awaits /\ kind \notin {"none", "restart", "idle"}
    BY <2>3, RequestsAssumption DEF Task, Awaits, AllRequests
  <2>5. TimersFit'
    BY <1>2, <1>3, <2>1, <2>3, TimersUntouched
  <2> QED
    BY <1>2, <2>1, <2>2, <2>3, <2>4, <2>5, MoveAsks
<1>8. CASE AddProvider \/ SignInStarts
  BY <1>2, <1>4, <1>5, <1>8 DEF AddProvider, SignInStarts, StartOrReturn, transportVars
<1> QED
  BY <1>2, <1>6, <1>7, <1>8 DEF UserSteps

(* The notification that asks to sign in is read.                          *)
LEMMA StatusChangesMoves ==
  ASSUME TypeOK, TasksFit, TimersFit, NEW t \in Transports, StatusChanges(t)
  PROVE  Fresh \in Callers /\ tasks[Fresh].kind = "none" /\ ServiceMove(Fresh) /\ TimersFit'
<1>1. /\ Fresh \in Callers /\ tasks[Fresh].kind = "none" /\ tasks[Fresh].pc \notin Awaits
  BY FreshRests DEF StatusChanges, Command
<1>2. /\ tasks' = [tasks EXCEPT ![Fresh] = Task("status", "queued", t)]
      /\ UNCHANGED <<call, restartTask, idleStop>>
  BY DEF StatusChanges, transportVars
<1>3. Task("status", "queued", t) \in TaskRecords
  BY TaskTyped DEF Kinds, Pcs
<1>4. /\ tasks' \in [Callers -> TaskRecords]
      /\ \A x \in Callers \ {Fresh} : tasks'[x] = tasks[x]
      /\ tasks'[Fresh] = Task("status", "queued", t)
  BY <1>1, <1>2, <1>3, BecomesMoves
<1>5. /\ tasks'[Fresh].kind = "status" /\ tasks'[Fresh].pc = "queued"
      /\ tasks'[Fresh].transport = t /\ "queued" \notin Awaits
  BY <1>4 DEF Task, Awaits
<1>6. restartTask # Fresh /\ idleStop # Fresh
  BY <1>1, NotATimer
<1>7. TimersFit'
  BY <1>1, <1>2, <1>4, <1>6, TimersUntouched
<1> QED
  BY <1>1, <1>2, <1>4, <1>5, <1>7, MoveWithoutCall

-------------------------------------------------------------------------------
(***************************************************************************)
(* Types.                                                                  *)
(***************************************************************************)
TransportTypes ==
  /\ server \in [Transports -> {"none", "running", "exited"}]
  /\ process \subseteq Transports
  /\ exitNotices \subseteq Transports
  /\ nextRequestID \in [Transports -> Nat \ {0}]
  /\ pendingRequests \in [Transports -> SUBSET [id : Nat \ {0}, caller : Callers]]
  /\ responses \in [Transports -> SUBSET (Nat \ {0})]

ServiceTypes ==
  /\ configured \in BOOLEAN
  /\ status \in {"stopped", "starting", "running", "error", "noBinary"}
  /\ transport \in Transports \cup {NoTransport}
  /\ serverGeneration \in Callers \cup {0}
  /\ restartTask \in Callers \cup {0}
  /\ idleStop \in Callers \cup {0}
  /\ authenticated \in BOOLEAN
  /\ observed \subseteq Transports
  /\ starts \in 0..MaxStarts
  /\ commands \in 0..MaxCommands

LEMMA TypesAreThese ==
  TypeOK <=> /\ TransportTypes /\ ServiceTypes
             /\ call \in [Callers -> CallRecords] /\ tasks \in [Callers -> TaskRecords]
  BY DEF TypeOK, TransportTypes, ServiceTypes

(* The actor's and the server's steps.                                     *)
TransportStep ==
  \/ \E c \in Callers : SendRequest(c) \/ RefuseRequest(c)
  \/ \E t \in Transports : HandleProcessExit(t) \/ ServerExits(t) \/ StopTransport(t)
  \/ \E t \in Transports : \E id \in responses[t] : DispatchResponse(t, id)
  \/ \E t \in Transports : \E id \in 1..(nextRequestID[t] - 1) : Respond(t, id)

(* What they do to a caller's request: it goes from asked to waiting to an *)
(* outcome, and not to another transport.                                  *)
CallMoves ==
  /\ call' \in [Callers -> CallRecords]
  /\ \A c \in Callers :
       \/ call'[c] = call[c]
       \/ /\ call[c].state \in {"asked", "waiting"}
          /\ call'[c].state # "none"
          /\ call'[c].transport = call[c].transport

LEMMA ResumedCalls ==
  ASSUME TypeOK, PendingFits, NEW t \in Transports, NEW E \in SUBSET pendingRequests[t],
         NEW outcome \in Replies \cup Failures
  PROVE  /\ Resumed(E, outcome) \in [Callers -> CallRecords]
         /\ \A c \in Callers :
              IF \E e \in E : e.caller = c
              THEN /\ call[c] = [state |-> "waiting", transport |-> t]
                   /\ Resumed(E, outcome)[c] = [state |-> outcome, transport |-> t]
              ELSE Resumed(E, outcome)[c] = call[c]
<1>1. ASSUME NEW c \in Callers, \E e \in E : e.caller = c
      PROVE  /\ call[c] = [state |-> "waiting", transport |-> t]
             /\ Resumed(E, outcome)[c] = [state |-> outcome, transport |-> t]
             /\ Resumed(E, outcome)[c] \in CallRecords
  <2>1. call[c] = [state |-> "waiting", transport |-> t]
    BY <1>1 DEF PendingFits
  <2>2. Resumed(E, outcome)[c] = [call[c] EXCEPT !.state = outcome]
    BY <1>1 DEF Resumed
  <2>3. Resumed(E, outcome)[c] = [state |-> outcome, transport |-> t]
    BY <2>1, <2>2
  <2> QED
    BY <2>1, <2>3 DEF CallRecords
<1>2. ASSUME NEW c \in Callers, ~\E e \in E : e.caller = c
      PROVE  Resumed(E, outcome)[c] = call[c] /\ Resumed(E, outcome)[c] \in CallRecords
  BY <1>2 DEF Resumed, TypeOK
<1>3. Resumed(E, outcome) = [c \in Callers |-> Resumed(E, outcome)[c]]
  BY DEF Resumed
<1>4. Resumed(E, outcome) \in [Callers -> CallRecords]
  BY <1>1, <1>2, <1>3
<1> QED
  BY <1>1, <1>2, <1>4

LEMMA ResumedMoves ==
  ASSUME TypeOK, PendingFits, NEW t \in Transports, NEW E \in SUBSET pendingRequests[t],
         NEW outcome \in Replies \cup Failures, call' = Resumed(E, outcome)
  PROVE  CallMoves
<1>1. /\ call' \in [Callers -> CallRecords]
      /\ \A c \in Callers :
           IF \E e \in E : e.caller = c
           THEN /\ call[c] = [state |-> "waiting", transport |-> t]
                /\ call'[c] = [state |-> outcome, transport |-> t]
           ELSE call'[c] = call[c]
  BY ResumedCalls
<1>2. outcome # "none"
  BY DEF Replies, Failures
<1> QED
  BY <1>1, <1>2 DEF CallMoves

(* The transport's steps keep the types.                                   *)
LEMMA TransportStepTypes ==
  ASSUME TypeOK, TasksFit, PendingFits, TransportStep
  PROVE  TransportTypes' /\ CallMoves
<1>1. ASSUME NEW c \in Callers, SendRequest(c)
      PROVE  TransportTypes' /\ CallMoves
  <2> DEFINE t == call[c].transport
             k == [id |-> nextRequestID[t], caller |-> c]
             r == [call[c] EXCEPT !.state = "waiting"]
  <2>1. t \in Transports /\ call[c].state = "asked"
    BY <1>1 DEF SendRequest, TasksFit, Fits
  <2>2. r \in CallRecords /\ r.state = "waiting" /\ r.transport = t
    BY <2>1 DEF TypeOK, CallRecords
  <2>3. k \in [id : Nat \ {0}, caller : Callers]
    BY <2>1 DEF TypeOK
  <2>4. /\ call' = [call EXCEPT ![c] = r]
        /\ nextRequestID' = [nextRequestID EXCEPT ![t] = @ + 1]
        /\ pendingRequests' = [pendingRequests EXCEPT ![t] = @ \cup {k}]
        /\ UNCHANGED <<server, process, exitNotices, responses>>
    BY <1>1 DEF SendRequest
  <2>5. CallMoves
    BY <2>1, <2>2, <2>4 DEF TypeOK, CallMoves
  <2> HIDE DEF t, k, r
  <2>6. nextRequestID' \in [Transports -> Nat \ {0}]
    BY <2>1, <2>4 DEF TypeOK
  <2>7. pendingRequests' \in [Transports -> SUBSET [id : Nat \ {0}, caller : Callers]]
    BY <2>1, <2>3, <2>4 DEF TypeOK
  <2> QED
    BY <2>4, <2>5, <2>6, <2>7 DEF TypeOK, TransportTypes
<1>2. ASSUME NEW c \in Callers, RefuseRequest(c)
      PROVE  TransportTypes' /\ CallMoves
  <2> DEFINE r == [call[c] EXCEPT !.state = "refused"]
  <2>1. r \in CallRecords /\ r.state = "refused" /\ r.transport = call[c].transport
    BY DEF TypeOK, CallRecords, Failures
  <2>2. call' = [call EXCEPT ![c] = r] /\ call[c].state = "asked"
    BY <1>2 DEF RefuseRequest
  <2>3. CallMoves
    BY <2>1, <2>2 DEF TypeOK, CallMoves
  <2> QED
    BY <1>2, <2>3 DEF RefuseRequest, TypeOK, TransportTypes
<1>3. ASSUME NEW t \in Transports, HandleProcessExit(t)
      PROVE  TransportTypes' /\ CallMoves
  <2>1. call' = Resumed(pendingRequests[t], "exited") /\ "exited" \in Replies \cup Failures
    BY <1>3 DEF HandleProcessExit, Failures
  <2>2. CallMoves
    BY <2>1, ResumedMoves
  <2> QED
    BY <1>3, <2>2 DEF HandleProcessExit, TypeOK, TransportTypes
<1>4. ASSUME NEW t \in Transports, StopTransport(t)
      PROVE  TransportTypes' /\ CallMoves
  <2>1. call' = Resumed(pendingRequests[t], "cancelled") /\ "cancelled" \in Replies \cup Failures
    BY <1>4 DEF StopTransport, Failures
  <2>2. CallMoves
    BY <2>1, ResumedMoves
  <2> QED
    BY <1>4, <2>2 DEF StopTransport, TypeOK, TransportTypes
<1>5. ASSUME NEW t \in Transports, NEW id \in responses[t], DispatchResponse(t, id)
      PROVE  TransportTypes' /\ CallMoves
  <2> DEFINE E == {e \in pendingRequests[t] : e.id = id}
  <2>1. E \in SUBSET pendingRequests[t]
    OBVIOUS
  <2>2. PICK outcome \in Replies : call' = Resumed(E, outcome)
    BY <1>5 DEF DispatchResponse
  <2>3. /\ pendingRequests' = [pendingRequests EXCEPT ![t] = @ \ E]
        /\ responses' = [responses EXCEPT ![t] = @ \ {id}]
        /\ UNCHANGED <<server, process, exitNotices, nextRequestID>>
    BY <1>5 DEF DispatchResponse
  <2> HIDE DEF E
  <2>4. CallMoves
    BY <2>1, <2>2, ResumedMoves
  <2> QED
    BY <2>3, <2>4 DEF TypeOK, TransportTypes
<1>6. ASSUME NEW t \in Transports, ServerExits(t)
      PROVE  TransportTypes' /\ CallMoves
  BY <1>6 DEF ServerExits, TypeOK, TransportTypes, CallMoves
<1>7. ASSUME NEW t \in Transports, NEW id \in 1..(nextRequestID[t] - 1), Respond(t, id)
      PROVE  TransportTypes' /\ CallMoves
  <2>1. id \in Nat \ {0}
    BY DEF TypeOK
  <2> QED
    BY <1>7, <2>1 DEF Respond, TypeOK, TransportTypes, CallMoves
<1> QED
  BY <1>1, <1>2, <1>3, <1>4, <1>5, <1>6, <1>7 DEF TransportStep

(* The places of tasks still fit their requests.                           *)
LEMMA CallMovesFit ==
  ASSUME TasksFit, CallMoves,
         \A c \in Callers : \/ tasks'[c] = tasks[c]
                            \/ /\ tasks'[c].kind = tasks[c].kind
                               /\ tasks'[c].transport = tasks[c].transport
                               /\ tasks[c].kind \notin {"none", "restart", "idle"}
                               /\ tasks[c].pc \notin Awaits \cup {"none", "sleep"}
                               /\ tasks'[c].pc \notin Awaits \cup {"none", "sleep"}
  PROVE  TasksFit'
  BY DEF TasksFit, Fits, CallMoves

-------------------------------------------------------------------------------
(***************************************************************************)
(* Processes and continuations.                                            *)
(***************************************************************************)
LEMMA ProcessesFitKept ==
  ASSUME TypeOK, ProcessesFit, TransportStep
  PROVE  ProcessesFit'
  BY DEF TypeOK, ProcessesFit, TransportStep, SendRequest, RefuseRequest, HandleProcessExit,
         ServerExits, StopTransport, DispatchResponse, Respond

(* Entries that go take their callers with them.                           *)
LEMMA ResumedPending ==
  ASSUME TypeOK, ProcessesFit, PendingFits, NEW t \in Transports, NEW E \in SUBSET pendingRequests[t],
         NEW outcome \in Replies \cup Failures,
         call' = Resumed(E, outcome),
         pendingRequests' = [pendingRequests EXCEPT ![t] = @ \ E],
         nextRequestID' = nextRequestID,
         \A u \in Transports :
           pendingRequests'[u] # {} => u \in process' /\ (server'[u] = "running" \/ u \in exitNotices')
  PROVE  PendingFits'
<1>1. /\ call' \in [Callers -> CallRecords]
      /\ \A c \in Callers :
           IF \E e \in E : e.caller = c
           THEN /\ call[c] = [state |-> "waiting", transport |-> t]
                /\ call'[c] = [state |-> outcome, transport |-> t]
           ELSE call'[c] = call[c]
  BY ResumedCalls
<1>2. outcome # "waiting"
  BY DEF Replies, Failures
<1>3. \A u \in Transports : pendingRequests'[u] = IF u = t THEN pendingRequests[t] \ E ELSE pendingRequests[u]
  BY DEF TypeOK
<1>4. \A u \in Transports : \A e \in pendingRequests[u] : e.caller \in Callers
  BY DEF TypeOK
<1>5. \A e, f \in pendingRequests[t] : e.caller = f.caller => e = f
  BY DEF PendingFits
<1> QED
  BY <1>1, <1>2, <1>3, <1>4, <1>5 DEF PendingFits, PendingIsLive

LEMMA SendRequestPending ==
  ASSUME TypeOK, TasksFit, PendingFits, NEW c \in Callers, SendRequest(c)
  PROVE  PendingFits'
<1> DEFINE t == call[c].transport
           k == [id |-> nextRequestID[t], caller |-> c]
<1>1. /\ t \in Transports /\ call[c].state = "asked" /\ IsRunning(t)
      /\ nextRequestID' = [nextRequestID EXCEPT ![t] = @ + 1]
      /\ pendingRequests' = [pendingRequests EXCEPT ![t] = @ \cup {k}]
      /\ call' = [call EXCEPT ![c].state = "waiting"]
      /\ UNCHANGED <<server, process, exitNotices, responses>>
  BY DEF SendRequest, TasksFit, Fits
<1>2. call[c] = [state |-> "asked", transport |-> t]
  BY <1>1 DEF TypeOK, CallRecords
<1>3. /\ call'[c] = [state |-> "waiting", transport |-> t]
      /\ \A x \in Callers \ {c} : call'[x] = call[x]
  BY <1>1, <1>2 DEF TypeOK
<1>4. k.id = nextRequestID[t] /\ k.caller = c
  OBVIOUS
<1>5. t \in process /\ server[t] = "running"
  BY <1>1 DEF IsRunning
<1> HIDE DEF t, k
<1>6. \A u \in Transports : \A e \in pendingRequests[u] :
        /\ e.caller \in Callers \ {c} /\ e.id \in Nat
        /\ call'[e.caller] = [state |-> "waiting", transport |-> u]
        /\ e.id < nextRequestID[u]
  <2> SUFFICES ASSUME NEW u \in Transports, NEW e \in pendingRequests[u]
               PROVE  /\ e.caller \in Callers \ {c} /\ e.id \in Nat
                      /\ call'[e.caller] = [state |-> "waiting", transport |-> u]
                      /\ e.id < nextRequestID[u]
    OBVIOUS
  <2>1. e.caller \in Callers /\ e.id \in Nat
    BY DEF TypeOK
  <2>2. /\ call[e.caller] = [state |-> "waiting", transport |-> u]
        /\ e.id < nextRequestID[u]
    BY DEF PendingFits
  <2>3. e.caller # c
    BY <1>2, <2>2
  <2> QED
    BY <1>3, <2>1, <2>2, <2>3
<1>7. \A u \in Transports :
        /\ pendingRequests'[u] = IF u = t THEN pendingRequests[t] \cup {k} ELSE pendingRequests[u]
        /\ nextRequestID'[u] = IF u = t THEN nextRequestID[t] + 1 ELSE nextRequestID[u]
        /\ nextRequestID[u] \in Nat
  BY <1>1 DEF TypeOK
<1>8. PendingIsLive'
  BY <1>1, <1>5, <1>7 DEF PendingFits, PendingIsLive
<1>9. \A u \in Transports : \A e \in pendingRequests'[u] :
        /\ call'[e.caller] = [state |-> "waiting", transport |-> u]
        /\ e.id < nextRequestID'[u]
  <2> SUFFICES ASSUME NEW u \in Transports, NEW e \in pendingRequests'[u]
               PROVE  /\ call'[e.caller] = [state |-> "waiting", transport |-> u]
                      /\ e.id < nextRequestID'[u]
    OBVIOUS
  <2>1. CASE e \in pendingRequests[u]
    <3>1. nextRequestID[u] \in Nat /\ nextRequestID'[u] \in Nat /\ nextRequestID[u] <= nextRequestID'[u]
      BY <1>7
    <3> QED
      BY <1>6, <2>1, <3>1
  <2>2. CASE e = k /\ u = t
    BY <1>3, <1>4, <1>7, <2>2
  <2> QED
    BY <1>7, <2>1, <2>2
<1>10. \A u \in Transports : \A e, f \in pendingRequests'[u] :
         e.id = f.id \/ e.caller = f.caller => e = f
  <2>1. \A e \in pendingRequests[t] : e.id < nextRequestID[t] /\ e.id \in Nat /\ e.caller # c
    BY <1>1, <1>6
  <2>2. nextRequestID[t] \in Nat
    BY <1>1, <1>7
  <2>3. \A e \in pendingRequests[t] : e.id # k.id /\ e.caller # k.caller
    BY <1>4, <2>1, <2>2
  <2> QED
    BY <1>7, <2>3 DEF PendingFits
<1>11. \A x \in Callers : call'[x].state = "waiting" =>
         \E e \in pendingRequests'[call'[x].transport] : e.caller = x
  <2>1. CASE \E e \in pendingRequests[t] : TRUE
    <3> QED
      BY <1>1, <1>3, <1>4, <1>7 DEF PendingFits, TypeOK, CallRecords
  <2>2. CASE pendingRequests[t] = {}
    BY <1>1, <1>3, <1>4, <1>7 DEF PendingFits, TypeOK, CallRecords
  <2> QED
    BY <2>1, <2>2
<1> QED
  BY <1>8, <1>9, <1>10, <1>11 DEF PendingFits

(* The transport's steps keep what is said of pending requests.            *)
LEMMA TransportStepPending ==
  ASSUME TypeOK, TasksFit, ProcessesFit, PendingFits, TransportStep
  PROVE  PendingFits'
<1>1. ASSUME NEW c \in Callers, RefuseRequest(c)
      PROVE  PendingFits'
  <2>1. /\ call[c].state = "asked"
        /\ call' = [call EXCEPT ![c].state = "refused"]
        /\ UNCHANGED <<server, process, exitNotices, nextRequestID, pendingRequests>>
    BY <1>1 DEF RefuseRequest
  <2>2. \A x \in Callers : call'[x] = call[x] \/ (call[x].state = "asked" /\ call'[x].state = "refused")
    BY <2>1 DEF TypeOK, CallRecords
  <2>3. \A t \in Transports : \A e \in pendingRequests[t] : e.caller \in Callers
    BY DEF TypeOK
  <2> QED
    BY <2>1, <2>2, <2>3 DEF PendingFits, PendingIsLive
<1>2. ASSUME NEW t \in Transports, HandleProcessExit(t)
      PROVE  PendingFits'
  <2> DEFINE E == pendingRequests[t]
  <2>1. /\ call' = Resumed(E, "exited") /\ "exited" \in Replies \cup Failures
        /\ pendingRequests' = [pendingRequests EXCEPT ![t] = @ \ E]
        /\ exitNotices' = exitNotices \ {t}
        /\ UNCHANGED <<server, process, nextRequestID>>
    BY <1>2 DEF HandleProcessExit, Failures
  <2>2. E \in SUBSET pendingRequests[t]
    OBVIOUS
  <2>3. \A u \in Transports :
          pendingRequests'[u] # {} => u \in process' /\ (server'[u] = "running" \/ u \in exitNotices')
    BY <2>1 DEF TypeOK, PendingFits, PendingIsLive
  <2> HIDE DEF E
  <2> QED
    BY <2>1, <2>2, <2>3, ResumedPending
<1>3. ASSUME NEW t \in Transports, StopTransport(t)
      PROVE  PendingFits'
  <2> DEFINE E == pendingRequests[t]
  <2>1. /\ call' = Resumed(E, "cancelled") /\ "cancelled" \in Replies \cup Failures
        /\ pendingRequests' = [pendingRequests EXCEPT ![t] = @ \ E]
        /\ process' = process \ {t}
        /\ UNCHANGED <<server, exitNotices, nextRequestID>>
    BY <1>3 DEF StopTransport, Failures
  <2>2. E \in SUBSET pendingRequests[t]
    OBVIOUS
  <2>3. \A u \in Transports :
          pendingRequests'[u] # {} => u \in process' /\ (server'[u] = "running" \/ u \in exitNotices')
    BY <2>1 DEF TypeOK, PendingFits, PendingIsLive
  <2> HIDE DEF E
  <2> QED
    BY <2>1, <2>2, <2>3, ResumedPending
<1>4. ASSUME NEW t \in Transports, NEW id \in responses[t], DispatchResponse(t, id)
      PROVE  PendingFits'
  <2> DEFINE E == {e \in pendingRequests[t] : e.id = id}
  <2>1. PICK outcome \in Replies : call' = Resumed(E, outcome)
    BY <1>4 DEF DispatchResponse
  <2>2. /\ pendingRequests' = [pendingRequests EXCEPT ![t] = @ \ E]
        /\ UNCHANGED <<server, process, exitNotices, nextRequestID>>
    BY <1>4 DEF DispatchResponse
  <2>3. E \in SUBSET pendingRequests[t] /\ outcome \in Replies \cup Failures
    OBVIOUS
  <2> HIDE DEF E
  <2>4. \A u \in Transports :
          pendingRequests'[u] # {} => u \in process' /\ (server'[u] = "running" \/ u \in exitNotices')
    BY <2>2 DEF TypeOK, PendingFits, PendingIsLive
  <2> QED
    BY <2>1, <2>2, <2>3, <2>4, ResumedPending
<1>5. ASSUME NEW t \in Transports, ServerExits(t)
      PROVE  PendingFits'
  BY <1>5 DEF ServerExits, TypeOK, PendingFits, PendingIsLive
<1>6. ASSUME NEW t \in Transports, NEW id \in 1..(nextRequestID[t] - 1), Respond(t, id)
      PROVE  PendingFits'
  BY <1>6 DEF Respond, PendingFits, PendingIsLive
<1>7. ASSUME NEW c \in Callers, SendRequest(c)
      PROVE  PendingFits'
  BY <1>7, SendRequestPending
<1> QED
  BY <1>1, <1>2, <1>3, <1>4, <1>5, <1>6, <1>7 DEF TransportStep

(* A step of the service does not touch what the transports hold, except   *)
(* that it may start a server.                                             *)
LEMMA ServiceMovePending ==
  ASSUME TypeOK, PendingFits, NEW c \in Callers, ServiceMove(c),
         pendingRequests' = pendingRequests, nextRequestID' = nextRequestID,
         exitNotices' = exitNotices,
         \/ server' = server /\ process' = process
         \/ \E t \in Transports : Launch(t)
  PROVE  PendingFits'
<1>1. \A t \in Transports : \A e \in pendingRequests[t] : e.caller \in Callers
  BY DEF TypeOK
<1>2. \A x \in Callers : call'[x] = call[x] \/ (call[x].state # "waiting" /\ call'[x].state # "waiting")
  BY DEF ServiceMove
<1>3. PendingIsLive'
  BY DEF TypeOK, PendingFits, PendingIsLive, Launch
<1> QED
  BY <1>1, <1>2, <1>3 DEF PendingFits

LEMMA LaunchProcesses ==
  ASSUME TypeOK, ProcessesFit, NEW t \in Transports, Launch(t)
  PROVE  ProcessesFit'
  BY DEF TypeOK, ProcessesFit, Launch

(* A move of the service keeps what is said of tasks, timers, processes    *)
(* and requests.                                                           *)
LEMMA ServiceMoveFits ==
  ASSUME TasksFit, TypeOK, NEW c \in Callers, ServiceMove(c), TimersFit
  PROVE  TasksFit'
<1>1. ASSUME NEW x \in Callers, x # c
      PROVE  Fits(tasks'[x], call'[x])
  <2>1. CASE tasks'[x] = tasks[x]
    BY <1>1, <2>1 DEF ServiceMove, TasksFit
  <2>2. CASE x \in {restartTask, idleStop} /\ tasks'[x] = NoTask
    <3>1. tasks[x].pc = "sleep"
      BY <2>2, ZeroIsNobody DEF TimersFit, IsTask
    <3>2. call'[x] = call[x] /\ call[x].state = "none" /\ call[x] = NoCall
      BY <1>1, <3>1 DEF ServiceMove, TasksFit, Fits, Awaits
    <3> QED
      BY <2>2, <3>2 DEF Fits, NoTask, Task, NoCall, Awaits
  <2> QED
    BY <1>1, <2>1, <2>2 DEF ServiceMove
<1> QED
  BY <1>1 DEF TasksFit, ServiceMove

-------------------------------------------------------------------------------
(***************************************************************************)
(* The status.                                                             *)
(***************************************************************************)
HasStop == \E c \in Callers : tasks[c].kind = "stop"

StatusFits == StartingFits /\ ErrorIsRetried

(* A step that leaves the status, the generation and the restart timer,    *)
(* and moves a task that none of them depends on.                          *)
LEMMA StatusStays ==
  ASSUME TypeOK, TimersFit, StatusFits, NEW c \in Callers, Others(c),
         UNCHANGED <<status, serverGeneration>>,
         status = "error" => restartTask' = restartTask /\ restartTask # c,
         idleStop # 0 => tasks[idleStop].kind = "idle",
         \/ tasks[c].kind \notin {"start", "stop"}
         \/ tasks[c].kind = "start" /\ (serverGeneration # c \/ tasks[c].pc \notin StartPcs)
         \/ tasks[c].kind = "start" /\ tasks'[c].kind = "start" /\ tasks'[c].pc \in StartPcs
         \/ tasks[c].kind = "stop" /\ tasks'[c].kind = "stop",
         status = "error" => \A x \in Callers \ {c} : x = restartTask => tasks'[x] = tasks[x]
  PROVE  StatusFits'
<1>1. ASSUME NEW x \in Callers, tasks[x].kind = "stop"
      PROVE  tasks'[x].kind = "stop"
  <2>1. x # restartTask /\ x # idleStop
    BY <1>1, ZeroIsNobody DEF TimersFit, IsTask
  <2> QED
    BY <1>1, <2>1 DEF Others
<1>2. ASSUME status = "starting"
      PROVE  \/ serverGeneration # 0 /\ IsStarting(serverGeneration)'
             \/ HasStop'
  <2>1. CASE HasStop
    BY <1>1, <2>1 DEF HasStop
  <2>2. CASE serverGeneration # 0 /\ IsStarting(serverGeneration)
    <3>1. serverGeneration \in Callers
      BY <2>2 DEF TypeOK
    <3>2. serverGeneration # restartTask /\ serverGeneration # idleStop
      BY <2>2, ZeroIsNobody DEF TimersFit, IsTask, IsStarting
    <3>3. CASE serverGeneration # c
      BY <2>2, <3>1, <3>2, <3>3 DEF Others, IsStarting
    <3>4. CASE serverGeneration = c
      BY <2>2, <3>4 DEF IsStarting
    <3> QED
      BY <3>3, <3>4
  <2> QED
    BY <1>2, <2>1, <2>2 DEF StatusFits, StartingFits, HasStop
<1>3. ASSUME status = "error"
      PROVE  \/ /\ restartTask' # 0
                /\ tasks'[restartTask'].kind = "restart" /\ tasks'[restartTask'].pc = "sleep"
             \/ HasStop'
  <2>1. CASE HasStop
    BY <1>1, <2>1 DEF HasStop
  <2>2. CASE restartTask # 0 /\ IsTask(restartTask, "restart", "sleep")
    <3>1. restartTask \in Callers \ {c} /\ restartTask' = restartTask
      BY <1>3, <2>2 DEF TypeOK
    <3>2. tasks'[restartTask] = tasks[restartTask]
      BY <1>3, <3>1
    <3> QED
      BY <2>2, <3>1, <3>2 DEF IsTask
  <2> QED
    BY <1>3, <2>1, <2>2 DEF StatusFits, ErrorIsRetried, HasStop
<1> QED
  BY <1>2, <1>3 DEF StatusFits, StartingFits, ErrorIsRetried, HasStop, IsStarting, IsTask

(* The usual case: no timer is cancelled.                                  *)
LEMMA StatusStaysWith ==
  ASSUME TypeOK, TimersFit, StatusFits, NEW c \in Callers,
         \A x \in Callers \ {c} : tasks'[x] = tasks[x],
         UNCHANGED <<status, serverGeneration, restartTask>>, restartTask # c,
         \/ tasks[c].kind \notin {"start", "stop"}
         \/ tasks[c].kind = "start" /\ (serverGeneration # c \/ tasks[c].pc \notin StartPcs)
         \/ tasks[c].kind = "start" /\ tasks'[c].kind = "start" /\ tasks'[c].pc \in StartPcs
         \/ tasks[c].kind = "stop" /\ tasks'[c].kind = "stop"
  PROVE  StatusFits'
<1>1. Others(c) /\ (idleStop # 0 => tasks[idleStop].kind = "idle")
  BY DEF Others, TimersFit, IsTask
<1> QED
  BY <1>1, StatusStays

LEMMA EndStatus ==
  ASSUME TypeOK, TimersFit, StatusFits, NEW c \in Callers, End(c),
         UNCHANGED <<status, serverGeneration, restartTask>>,
         tasks[c].kind \notin {"restart", "stop"},
         tasks[c].kind = "start" => serverGeneration # c \/ tasks[c].pc \notin StartPcs
  PROVE  StatusFits'
<1>1. \A x \in Callers \ {c} : tasks'[x] = tasks[x]
  BY EndRests
<1>2. restartTask # c
  BY ZeroIsNobody DEF TimersFit, IsTask
<1> QED
  BY <1>1, <1>2, StatusStaysWith

LEMMA GotoStatus ==
  ASSUME TypeOK, TimersFit, StatusFits, NEW c \in Callers, NEW pc \in Pcs, Goto(c, pc),
         UNCHANGED <<status, serverGeneration, restartTask>>,
         tasks[c].kind # "restart",
         tasks[c].kind = "start" => pc \in StartPcs
  PROVE  StatusFits'
<1>1. /\ \A x \in Callers \ {c} : tasks'[x] = tasks[x]
      /\ tasks'[c].pc = pc /\ tasks'[c].kind = tasks[c].kind
  BY GotoMoves
<1>2. restartTask # c
  BY ZeroIsNobody DEF TimersFit, IsTask
<1> QED
  BY <1>1, <1>2, StatusStaysWith

(* Cancelling the idle timer is nothing to the status.                     *)
LEMMA ScheduleStatus ==
  ASSUME TypeOK, TimersFit, StatusFits, NEW c \in Callers, NEW signedIn \in BOOLEAN,
         ScheduleStop(c, signedIn) \/ tasks' = Without(tasks, {c, idleStop}),
         UNCHANGED <<status, serverGeneration, restartTask>>,
         tasks[c].kind \notin {"restart", "idle", "stop"},
         tasks[c].kind = "start" => tasks[c].pc \notin StartPcs
  PROVE  StatusFits'
<1>1. /\ Others(c)
      /\ \A x \in Callers \ {c} : x # idleStop => tasks'[x] = tasks[x]
  <2>1. CASE tasks' = Without(tasks, {c, idleStop})
    BY <2>1 DEF Others, Without
  <2>2. CASE End(c)
    BY <2>2 DEF Others, End, Without
  <2>3. CASE tasks' = [tasks EXCEPT ![c] = Task("idle", "sleep", NoTransport)]
    BY <2>3 DEF Others, TypeOK
  <2> QED
    BY <2>1, <2>2, <2>3 DEF ScheduleStop
<1>2. restartTask # c /\ (restartTask # 0 => restartTask # idleStop)
  BY ZeroIsNobody DEF TimersFit, IsTask
<1>3. idleStop # 0 => tasks[idleStop].kind = "idle"
  BY DEF TimersFit, IsTask
<1>4. status = "error" => \A x \in Callers \ {c} : x = restartTask => tasks'[x] = tasks[x]
  BY <1>1, <1>2, ZeroIsNobody
<1> QED
  BY <1>1, <1>2, <1>3, <1>4, StatusStays

LEMMA BeginStartStatus ==
  ASSUME TypeOK, NEW c \in Callers, BeginStart(c)
  PROVE  StatusFits'
<1>1. status' = "starting" /\ serverGeneration' = c /\ c # 0
  BY ZeroIsNobody DEF BeginStart
<1>2. tasks'[c].kind = "start" /\ tasks'[c].pc = "binary"
  BY BeginStartMoves
<1> QED
  BY <1>1, <1>2 DEF StatusFits, StartingFits, ErrorIsRetried, IsStarting, StartPcs

LEMMA BeginStopStatus ==
  ASSUME TypeOK, NEW c \in Callers, BeginStop(c)
  PROVE  StatusFits'
<1>1. CASE transport # NoTransport
  <2>1. tasks' = [Without(tasks, {restartTask, idleStop}) EXCEPT
                    ![c] = Task("stop", "shutdown", transport)]
    BY <1>1 DEF BeginStop
  <2>2. tasks'[c].kind = "stop"
    BY <2>1 DEF Without, Task
  <2> QED
    BY <2>2 DEF StatusFits, StartingFits, ErrorIsRetried
<1>2. CASE transport = NoTransport
  BY <1>2 DEF BeginStop, StatusFits, StartingFits, ErrorIsRetried
<1> QED
  BY <1>1, <1>2

LEMMA FailStatus ==
  ASSUME TypeOK, TimersFit, StatusFits, NEW c \in Callers, NEW isPermanent \in BOOLEAN,
         tasks[c].kind = "start", FailStart(c, isPermanent), UNCHANGED serverGeneration
  PROVE  StatusFits'
<1>1. CASE serverGeneration # c
  BY <1>1, EndStatus DEF FailStart
<1>2. CASE serverGeneration = c /\ isPermanent
  BY <1>2 DEF FailStart, StatusFits, StartingFits, ErrorIsRetried
<1>3. CASE serverGeneration = c /\ ~isPermanent
  <2>1. /\ status' = "error" /\ restartTask' = c
        /\ tasks' = [tasks EXCEPT ![c] = Task("restart", "sleep", NoTransport)]
    BY <1>3 DEF FailStart
  <2>2. IsTask(c, "restart", "sleep")' /\ c # 0
    BY <2>1, ZeroIsNobody DEF IsTask, Task, TypeOK
  <2> QED
    BY <2>1, <2>2 DEF StatusFits, StartingFits, ErrorIsRetried, IsTask
<1> QED
  BY <1>1, <1>2, <1>3

(* The status through the steps of start().                                *)
LEMMA StartStatus ==
  ASSUME TypeOK, TasksFit, TimersFit, StatusFits, NEW c \in Callers, StartSteps(c)
  PROVE  StatusFits'
<1>1. CASE LaunchFails(c) \/ InitializeFails(c)
  <2>1. PICK isPermanent \in BOOLEAN : FailStart(c, isPermanent)
    BY <1>1 DEF LaunchFails, InitializeFails
  <2> QED
    BY <1>1, <2>1, FailStatus DEF LaunchFails, InitializeFails, IsTask
<1>2. CASE LaunchServer(c)
  <2>1. "launched" \in Pcs \cap StartPcs
    BY DEF Pcs, StartPcs
  <2> QED
    BY <1>2, <2>1, GotoStatus DEF LaunchServer, IsTask
<1>3. CASE AskInitialize(c)
  <2>1. "initialize" \in Pcs \cap StartPcs
    BY DEF Pcs, StartPcs
  <2> QED
    BY <1>3, <2>1, GotoStatus DEF AskInitialize, IsTask
<1>4. CASE Initialized(c)
  <2>1. "register" \in Pcs \cap StartPcs
    BY DEF Pcs, StartPcs
  <2>2. CASE Goto(c, "register")
    BY <1>4, <2>1, <2>2, GotoStatus DEF Initialized, IsTask
  <2>3. CASE serverGeneration # c /\ End(c)
    BY <1>4, <2>3, EndStatus DEF Initialized, IsTask
  <2> QED
    BY <1>4, <2>2, <2>3 DEF Initialized
<1>5. CASE Started(c)
  BY <1>5 DEF Started, StatusFits, StartingFits, ErrorIsRetried
<1>6. CASE AuthStatusChecked(c)
  <2>1. PICK signedIn \in BOOLEAN : ScheduleStop(c, signedIn)
    BY <1>6 DEF AuthStatusChecked
  <2>2. tasks[c].kind = "start" /\ tasks[c].pc \notin StartPcs
    BY <1>6 DEF AuthStatusChecked, IsTask, StartPcs
  <2>3. UNCHANGED <<status, serverGeneration, restartTask>>
    BY <1>6 DEF AuthStatusChecked
  <2> QED
    BY <2>1, <2>2, <2>3, ScheduleStatus
<1> QED
  BY <1>1, <1>2, <1>3, <1>4, <1>5, <1>6 DEF StartSteps

(* The status through the steps of stop().                                 *)
LEMMA StopStatus ==
  ASSUME TypeOK, TasksFit, TimersFit, StatusFits, NEW c \in Callers, StopSteps(c)
  PROVE  StatusFits'
<1>1. CASE ShutdownDone(c)
  <2>1. "exit" \in Pcs
    BY DEF Pcs
  <2> QED
    BY <1>1, <2>1, GotoStatus DEF ShutdownDone, IsTask
<1>2. CASE CloseTransport(c)
  <2>1. "closed" \in Pcs
    BY DEF Pcs
  <2> QED
    BY <1>2, <2>1, GotoStatus DEF CloseTransport, IsTask
<1>3. CASE ExitSent(c) /\ transport # NoTransport
  <2>1. /\ tasks[c].kind = "stop"
        /\ tasks' = [tasks EXCEPT ![c] = Task("stop", "close", transport)]
        /\ UNCHANGED <<status, serverGeneration, restartTask>>
    BY <1>3 DEF ExitSent, IsTask
  <2>2. tasks'[c].kind = "stop" /\ \A x \in Callers \ {c} : tasks'[x] = tasks[x]
    BY <2>1 DEF TypeOK, Task
  <2>3. restartTask # c
    BY <2>1, NotATimer
  <2> QED
    BY <2>1, <2>2, <2>3, StatusStaysWith
<1>4. CASE (ExitSent(c) /\ transport = NoTransport) \/ Stopped(c)
  BY <1>4 DEF ExitSent, Stopped, FinishStop, StatusFits, StartingFits, ErrorIsRetried
<1> QED
  BY <1>1, <1>2, <1>3, <1>4 DEF StopSteps

LEMMA RequestStatus ==
  ASSUME TypeOK, TasksFit, TimersFit, StatusFits, NEW c \in Callers, RequestSteps(c)
  PROVE  StatusFits'
<1>1. CASE RequestDone(c)
  BY <1>1, EndStatus DEF RequestDone
<1>2. CASE ConfirmDone(c)
  <2>1. "poll" \in Pcs
    BY DEF Pcs
  <2>2. CASE tasks' = Without(tasks, {c, idleStop})
    <3>1. tasks[c].kind = "confirm" /\ UNCHANGED <<status, serverGeneration, restartTask>>
      BY <1>2 DEF ConfirmDone, IsTask
    <3>2. FALSE \in BOOLEAN
      OBVIOUS
    <3> QED
      BY <2>2, <3>1, <3>2, ScheduleStatus
  <2>3. CASE Goto(c, "poll")
    BY <1>2, <2>1, <2>3, GotoStatus DEF ConfirmDone, IsTask
  <2>4. CASE End(c)
    BY <1>2, <2>4, EndStatus DEF ConfirmDone, IsTask
  <2> QED
    BY <1>2, <2>2, <2>3, <2>4 DEF ConfirmDone
<1>3. CASE ConfirmAgain(c)
  <2>1. "reply" \in Pcs
    BY DEF Pcs
  <2>2. CASE Goto(c, "reply")
    BY <1>3, <2>1, <2>2, GotoStatus DEF ConfirmAgain, IsTask
  <2>3. CASE End(c)
    BY <1>3, <2>3, EndStatus DEF ConfirmAgain, IsTask
  <2> QED
    BY <1>3, <2>2, <2>3 DEF ConfirmAgain
<1>4. CASE SignedOut(c)
  BY <1>4, ScheduleStatus DEF SignedOut, IsTask
<1>5. CASE HandleStatusNotification(c)
  BY <1>5, ScheduleStatus DEF HandleStatusNotification, IsTask
<1> QED
  BY <1>1, <1>2, <1>3, <1>4, <1>5 DEF RequestSteps

LEMMA TimerStatus ==
  ASSUME TypeOK, TasksFit, TimersFit, StatusFits, NEW c \in Callers, Timers(c)
  PROVE  StatusFits'
<1>1. CASE RestartFires(c) /\ BeginStart(c)
  BY <1>1, BeginStartStatus
<1>2. CASE RestartFires(c) /\ ~MayStart /\ End(c) /\ UNCHANGED <<serverGeneration, status>>
  <2>1. tasks[c].kind = "restart" /\ status # "error"
    BY <1>2 DEF RestartFires, IsTask, MayStart
  <2>2. Others(c)
    BY <1>2, EndRests DEF Others
  <2>3. idleStop # 0 => tasks[idleStop].kind = "idle"
    BY DEF TimersFit, IsTask
  <2> QED
    BY <1>2, <2>1, <2>2, <2>3, StatusStays
<1>3. CASE IdleStopFires(c) /\ BeginStop(c)
  BY <1>3, BeginStopStatus
<1>4. CASE IdleStopFires(c) /\ End(c) /\ UNCHANGED <<call, status, serverGeneration, restartTask>>
  BY <1>4, EndStatus DEF IdleStopFires, IsTask
<1> QED
  BY <1>1, <1>2, <1>3, <1>4 DEF Timers, RestartFires, StartOrReturn, IdleStopFires

LEMMA UserStatus ==
  ASSUME TypeOK, TasksFit, TimersFit, StatusFits, UserSteps
  PROVE  StatusFits'
<1>1. FreeTasks # {}
  BY DEF UserSteps, AddProvider, RemoveProvider, SignInStarts, SendUserRequest, Command
<1>2. Fresh \in Callers /\ tasks[Fresh].kind = "none"
  BY <1>1, FreshIsFree
<1>3. CASE RemoveProvider
  BY <1>2, <1>3, BeginStopStatus DEF RemoveProvider
<1>4. CASE BeginStart(Fresh)
  BY <1>2, <1>4, BeginStartStatus
<1>5. CASE AddProvider /\ End(Fresh) /\ UNCHANGED <<serverGeneration, status>>
  BY <1>2, <1>5, EndStatus DEF AddProvider
<1>6. ASSUME NEW kind \in Requests, SendUserRequest(kind)
      PROVE  StatusFits'
  <2>1. /\ \A x \in Callers \ {Fresh} : tasks'[x] = tasks[x]
        /\ UNCHANGED <<status, serverGeneration, restartTask>>
    BY <1>6 DEF SendUserRequest, TypeOK
  <2>2. restartTask # Fresh
    BY <1>2, NotATimer
  <2> QED
    BY <1>2, <2>1, <2>2, StatusStaysWith
<1> QED
  BY <1>3, <1>4, <1>5, <1>6 DEF UserSteps, AddProvider, SignInStarts, StartOrReturn

LEMMA StatusChangesStatus ==
  ASSUME TypeOK, TasksFit, TimersFit, StatusFits, NEW t \in Transports, StatusChanges(t)
  PROVE  StatusFits'
<1>1. Fresh \in Callers /\ tasks[Fresh].kind = "none"
  BY FreshIsFree DEF StatusChanges, Command
<1>2. /\ \A x \in Callers \ {Fresh} : tasks'[x] = tasks[x]
      /\ UNCHANGED <<status, serverGeneration, restartTask>>
  BY DEF StatusChanges, TypeOK
<1>3. restartTask # Fresh
  BY <1>1, NotATimer
<1> QED
  BY <1>1, <1>2, <1>3, StatusStaysWith

-------------------------------------------------------------------------------
(***************************************************************************)
(* The invariant.                                                          *)
(***************************************************************************)
LEMMA BeginStopTypes ==
  ASSUME NEW c \in Callers, BeginStop(c), status \in {"stopped", "starting", "running", "error", "noBinary"}
  PROVE  /\ status' \in {"stopped", "starting", "running", "error", "noBinary"}
         /\ serverGeneration' \in Callers \cup {0}
         /\ restartTask' \in Callers \cup {0}
         /\ idleStop' \in Callers \cup {0}
  BY DEF BeginStop

LEMMA StartTypes ==
  ASSUME TypeOK, TasksFit, TimersFit, NEW c \in Callers, StartSteps(c)
  PROVE  ServiceTypes'
<1>1. CASE LaunchFails(c) \/ InitializeFails(c)
  <2>1. PICK isPermanent \in BOOLEAN : FailStart(c, isPermanent)
    BY <1>1 DEF LaunchFails, InitializeFails
  <2>2. restartTask' \in Callers \cup {0} /\ status' \in {status, "error", "noBinary"}
    BY <2>1 DEF FailStart, TypeOK
  <2> QED
    BY <1>1, <2>2 DEF LaunchFails, InitializeFails, TypeOK, ServiceTypes
<1>2. CASE LaunchServer(c)
  BY <1>2 DEF LaunchServer, TypeOK, ServiceTypes
<1>3. CASE AskInitialize(c)
  BY <1>3 DEF AskInitialize, TypeOK, ServiceTypes
<1>4. CASE Initialized(c)
  BY <1>4 DEF Initialized, TypeOK, ServiceTypes
<1>5. CASE Started(c)
  <2>1. tasks[c].pc \notin {"none", "sleep"}
    BY <1>5 DEF Started, IsTask
  <2>2. tasks[c].transport \in Transports
    BY <2>1 DEF TasksFit, Fits
  <2> QED
    BY <1>5, <2>2 DEF Started, TypeOK, ServiceTypes
<1>6. CASE AuthStatusChecked(c)
  <2>1. PICK signedIn \in BOOLEAN : authenticated' = signedIn /\ ScheduleStop(c, signedIn)
    BY <1>6 DEF AuthStatusChecked
  <2>2. idleStop' \in Callers \cup {0}
    BY <2>1 DEF ScheduleStop, TypeOK
  <2> QED
    BY <1>6, <2>1, <2>2 DEF AuthStatusChecked, TypeOK, ServiceTypes
<1> QED
  BY <1>1, <1>2, <1>3, <1>4, <1>5, <1>6 DEF StartSteps

LEMMA StopTypes ==
  ASSUME TypeOK, NEW c \in Callers, StopSteps(c)
  PROVE  ServiceTypes'
  BY DEF StopSteps, ShutdownDone, ExitSent, CloseTransport, Stopped, FinishStop, TypeOK, ServiceTypes

LEMMA RequestTypes ==
  ASSUME TypeOK, NEW c \in Callers, RequestSteps(c)
  PROVE  ServiceTypes'
<1>1. CASE RequestDone(c)
  BY <1>1 DEF RequestDone, TypeOK, ServiceTypes
<1>2. CASE ConfirmDone(c)
  BY <1>2 DEF ConfirmDone, TypeOK, ServiceTypes
<1>3. CASE ConfirmAgain(c)
  BY <1>3 DEF ConfirmAgain, TypeOK, ServiceTypes
<1>4. CASE SignedOut(c)
  BY <1>4 DEF SignedOut, ScheduleStop, TypeOK, ServiceTypes
<1>5. CASE HandleStatusNotification(c)
  BY <1>5 DEF HandleStatusNotification, ScheduleStop, TypeOK, ServiceTypes
<1> QED
  BY <1>1, <1>2, <1>3, <1>4, <1>5 DEF RequestSteps

LEMMA TimerTypes ==
  ASSUME TypeOK, NEW c \in Callers, Timers(c)
  PROVE  ServiceTypes'
<1>1. CASE RestartFires(c) /\ BeginStart(c)
  <2>1. starts' \in 0..MaxStarts
    BY <1>1, BeginStartMoves
  <2> QED
    BY <1>1, <2>1 DEF RestartFires, BeginStart, TypeOK, ServiceTypes
<1>2. CASE RestartFires(c) /\ UNCHANGED <<starts, serverGeneration, status>>
  BY <1>2 DEF RestartFires, TypeOK, ServiceTypes
<1>3. CASE IdleStopFires(c) /\ BeginStop(c)
  <2>1. status \in {"stopped", "starting", "running", "error", "noBinary"}
    BY DEF TypeOK
  <2> QED
    BY <1>3, <2>1, BeginStopTypes DEF IdleStopFires, TypeOK, ServiceTypes
<1>4. CASE IdleStopFires(c) /\ idleStop' = 0 /\ UNCHANGED <<call, status, serverGeneration, restartTask>>
  BY <1>4 DEF IdleStopFires, TypeOK, ServiceTypes
<1> QED
  BY <1>1, <1>2, <1>3, <1>4 DEF Timers, RestartFires, StartOrReturn, IdleStopFires

LEMMA UserTypes ==
  ASSUME TypeOK, UserSteps
  PROVE  ServiceTypes'
<1>1. Fresh \in Callers
  BY FreshIsFree DEF UserSteps, AddProvider, RemoveProvider, SignInStarts, SendUserRequest, Command
<1>2. commands' \in 0..MaxCommands
  BY BoundsAssumption
     DEF UserSteps, AddProvider, RemoveProvider, SignInStarts, SendUserRequest, Command, TypeOK
<1>3. CASE (AddProvider \/ SignInStarts) /\ BeginStart(Fresh)
  <2>1. starts' \in 0..MaxStarts
    BY <1>1, <1>3, BeginStartMoves
  <2> QED
    BY <1>1, <1>2, <1>3, <2>1 DEF AddProvider, SignInStarts, BeginStart, TypeOK, ServiceTypes
<1>4. CASE AddProvider /\ UNCHANGED <<starts, serverGeneration, status>>
  BY <1>2, <1>4 DEF AddProvider, TypeOK, ServiceTypes
<1>5. CASE RemoveProvider
  <2>1. status \in {"stopped", "starting", "running", "error", "noBinary"}
    BY DEF TypeOK
  <2> QED
    BY <1>1, <1>2, <1>5, <2>1, BeginStopTypes DEF RemoveProvider, TypeOK, ServiceTypes
<1>6. CASE \E kind \in Requests : SendUserRequest(kind)
  BY <1>2, <1>6 DEF SendUserRequest, TypeOK, ServiceTypes
<1> QED
  BY <1>3, <1>4, <1>5, <1>6 DEF UserSteps, AddProvider, SignInStarts, StartOrReturn

LEMMA StatusChangesTypes ==
  ASSUME TypeOK, NEW t \in Transports, StatusChanges(t)
  PROVE  ServiceTypes'
  BY BoundsAssumption DEF StatusChanges, Command, TypeOK, ServiceTypes

(* The transports and their processes under a step of the service that     *)
(* leaves them alone, or starts one.                                       *)
LEMMA ServiceTransport ==
  ASSUME TypeOK, ProcessesFit, PendingFits, NEW c \in Callers, ServiceMove(c),
         \/ UNCHANGED <<server, process, exitNotices, nextRequestID, pendingRequests, responses>>
         \/ \E t \in Transports : Launch(t)
  PROVE  TransportTypes' /\ ProcessesFit' /\ PendingFits'
<1>1. CASE UNCHANGED <<server, process, exitNotices, nextRequestID, pendingRequests, responses>>
  <2>1. TransportTypes' /\ ProcessesFit'
    BY <1>1 DEF TypeOK, TransportTypes, ProcessesFit
  <2>2. PendingFits'
    BY <1>1, ServiceMovePending
  <2> QED
    BY <2>1, <2>2
<1>2. ASSUME NEW t \in Transports, Launch(t)
      PROVE  TransportTypes' /\ ProcessesFit' /\ PendingFits'
  <2>1. TransportTypes'
    BY <1>2 DEF Launch, TypeOK, TransportTypes
  <2>2. ProcessesFit'
    BY <1>2, LaunchProcesses
  <2>3. /\ pendingRequests' = pendingRequests /\ nextRequestID' = nextRequestID
        /\ exitNotices' = exitNotices
    BY <1>2 DEF Launch
  <2>4. PendingFits'
    BY <1>2, <2>3, ServiceMovePending
  <2> QED
    BY <2>1, <2>2, <2>4
<1> QED
  BY <1>1, <1>2

LEMMA IInvIs == IInv <=> TypeOK /\ TasksFit /\ TimersFit /\ ProcessesFit /\ PendingFits /\ StatusFits
  BY DEF IInv, StatusFits

(* A step of the service, put together.                                    *)
LEMMA ServiceKeeps ==
  ASSUME IInv, NEW c \in Callers, ServiceMove(c), TimersFit', StatusFits', ServiceTypes',
         \/ UNCHANGED <<server, process, exitNotices, nextRequestID, pendingRequests, responses>>
         \/ \E t \in Transports : Launch(t)
  PROVE  IInv'
<1>1. TypeOK /\ TasksFit /\ TimersFit /\ ProcessesFit /\ PendingFits
  BY DEF IInv
<1>2. TransportTypes' /\ ProcessesFit' /\ PendingFits'
  BY <1>1, ServiceTransport
<1>3. TasksFit'
  BY <1>1, ServiceMoveFits
<1>4. TypeOK'
  BY <1>2 DEF ServiceMove, TypeOK, TransportTypes, ServiceTypes
<1> QED
  BY <1>2, <1>3, <1>4 DEF IInv, StatusFits

(* A step of a transport or a server keeps the invariant.                  *)
LEMMA TransportKeeps ==
  ASSUME IInv, TransportStep, UNCHANGED serviceVars
  PROVE  IInv'
<1>1. TypeOK /\ TasksFit /\ TimersFit /\ ProcessesFit /\ PendingFits /\ StatusFits
  BY DEF IInv, StatusFits
<1>2. TransportTypes' /\ CallMoves
  BY <1>1, TransportStepTypes
<1>3. TasksFit'
  <2>1. tasks' = tasks
    BY DEF serviceVars
  <2> QED
    BY <1>1, <1>2, <2>1, CallMovesFit
<1>4. ProcessesFit' /\ PendingFits'
  BY <1>1, ProcessesFitKept, TransportStepPending
<1>5. TypeOK'
  <2>1. call' \in [Callers -> CallRecords]
    BY <1>2 DEF CallMoves
  <2> QED
    BY <1>1, <1>2, <2>1 DEF TypeOK, TransportTypes, serviceVars
<1>6. TimersFit' /\ StatusFits'
  BY <1>1 DEF serviceVars, TimersFit, StatusFits, StartingFits, IsStarting, ErrorIsRetried, IsTask
<1> QED
  BY <1>3, <1>4, <1>5, <1>6, IInvIs DEF IInv, StatusFits

(* stop() closes a transport: the one step that is of both.                *)
LEMMA CloseKeeps ==
  ASSUME IInv, NEW c \in Callers, CloseTransport(c)
  PROVE  IInv'
<1>1. TypeOK /\ TasksFit /\ TimersFit /\ ProcessesFit /\ PendingFits /\ StatusFits
  BY DEF IInv, StatusFits
<1>2. /\ tasks[c].kind = "stop" /\ tasks[c].pc = "close"
      /\ StopTransport(tasks[c].transport) /\ Goto(c, "closed")
      /\ UNCHANGED <<restartTask, idleStop>>
      /\ "closed" \in Pcs
  BY DEF CloseTransport, IsTask, Pcs
<1>3. tasks[c].transport \in Transports
  BY <1>1, <1>2 DEF TasksFit, Fits
<1>4. TransportStep
  BY <1>2, <1>3 DEF TransportStep
<1>5. /\ tasks' \in [Callers -> TaskRecords]
      /\ \A x \in Callers \ {c} : tasks'[x] = tasks[x]
      /\ tasks'[c].pc = "closed" /\ tasks'[c].kind = tasks[c].kind
      /\ tasks'[c].transport = tasks[c].transport
  BY <1>1, <1>2, GotoMoves
<1>6. TransportTypes' /\ CallMoves /\ ProcessesFit' /\ PendingFits'
  BY <1>1, <1>4, TransportStepTypes, ProcessesFitKept, TransportStepPending
<1>7. TasksFit'
  <2>1. "close" \notin Awaits \cup {"none", "sleep"} /\ "closed" \notin Awaits \cup {"none", "sleep"}
    BY DEF Awaits
  <2>2. \A x \in Callers : \/ tasks'[x] = tasks[x]
                           \/ /\ tasks'[x].kind = tasks[x].kind
                              /\ tasks'[x].transport = tasks[x].transport
                              /\ tasks[x].kind \notin {"none", "restart", "idle"}
                              /\ tasks[x].pc \notin Awaits \cup {"none", "sleep"}
                              /\ tasks'[x].pc \notin Awaits \cup {"none", "sleep"}
    BY <1>2, <1>5, <2>1
  <2> QED
    BY <1>1, <1>6, <2>2, CallMovesFit
<1>8. restartTask # c /\ idleStop # c
  BY <1>1, <1>2, NotATimer
<1>9. TimersFit'
  BY <1>1, <1>2, <1>5, <1>8, TimersUntouched
<1>10. StatusFits' /\ ServiceTypes'
  BY <1>1, StopStatus, StopTypes DEF StopSteps
<1>11. TypeOK'
  <2>1. call' \in [Callers -> CallRecords]
    BY <1>6 DEF CallMoves
  <2> QED
    BY <1>5, <1>6, <1>10, <2>1 DEF TypeOK, TransportTypes, ServiceTypes
<1> QED
  BY <1>6, <1>7, <1>9, <1>10, <1>11 DEF IInv, StatusFits

(* The invariant holds at first.                                           *)
LEMMA InitKeeps == Init => IInv
<1> SUFFICES ASSUME Init PROVE IInv
  OBVIOUS
<1>1. NoTask \in TaskRecords /\ NoCall \in CallRecords /\ NoCall.state = "none"
  BY NoTaskTyped DEF NoCall, CallRecords
<1>2. TypeOK
  <2>1. TransportTypes
    BY DEF Init, TransportInit, TransportTypes
  <2>2. ServiceTypes
    <3>1. 0 \in 0..MaxStarts /\ 0 \in 0..MaxCommands
      BY BoundsAssumption
    <3> QED
      BY <3>1, Zenon DEF Init, ServiceTypes
  <2>3. call \in [Callers -> CallRecords] /\ tasks \in [Callers -> TaskRecords]
    BY <1>1 DEF Init, TransportInit
  <2> QED
    BY <2>1, <2>2, <2>3, TypesAreThese
<1>3. TasksFit
  BY <1>1 DEF Init, TransportInit, TasksFit, Fits, Awaits, NoTask, Task
<1>4. TimersFit /\ ProcessesFit /\ PendingFits
  BY <1>1 DEF Init, TransportInit, TimersFit, ProcessesFit, PendingFits, PendingIsLive
<1>5. StatusFits
  BY DEF Init, StatusFits, StartingFits, ErrorIsRetried
<1> QED
  BY <1>2, <1>3, <1>4, <1>5 DEF IInv, StatusFits

(* The variables of the transports that the service's steps leave alone,   *)
(* one of them starting a server.                                          *)
LEMMA ServiceLeaves ==
  ASSUME TasksFit, NEW c \in Callers,
         \/ StartSteps(c) \/ RequestSteps(c) \/ Timers(c)
         \/ ShutdownDone(c) \/ ExitSent(c) \/ Stopped(c)
  PROVE  \/ UNCHANGED <<server, process, exitNotices, nextRequestID, pendingRequests, responses>>
         \/ \E t \in Transports : Launch(t)
<1>1. CASE LaunchServer(c)
  <2>1. tasks[c].transport \in Transports
    BY <1>1 DEF LaunchServer, IsTask, TasksFit, Fits
  <2> QED
    BY <1>1, <2>1 DEF LaunchServer
<1>2. CASE StartSteps(c) /\ ~LaunchServer(c)
  BY <1>2 DEF StartSteps, LaunchFails, AskInitialize, InitializeFails, Initialized, Started,
              AuthStatusChecked, transportVars
<1>3. CASE RequestSteps(c)
  BY <1>3 DEF RequestSteps, RequestDone, ConfirmDone, ConfirmAgain, SignedOut,
              HandleStatusNotification, transportVars
<1>4. CASE Timers(c)
  BY <1>4 DEF Timers, RestartFires, IdleStopFires, transportVars
<1>5. CASE ShutdownDone(c) \/ ExitSent(c) \/ Stopped(c)
  BY <1>5 DEF ShutdownDone, ExitSent, Stopped, transportVars
<1> QED
  BY <1>1, <1>2, <1>3, <1>4, <1>5

(* A step is the transport's, a task's, the user's or a notification's.    *)
LEMMA NextIsOneOf ==
  ASSUME Next
  PROVE  \/ TransportStep /\ UNCHANGED serviceVars
         \/ \E c \in Callers : \/ StartSteps(c) \/ RequestSteps(c) \/ Timers(c)
                               \/ ShutdownDone(c) \/ ExitSent(c) \/ Stopped(c)
         \/ \E c \in Callers : CloseTransport(c)
         \/ UserSteps
         \/ \E t \in Transports : StatusChanges(t)
<1>1. CASE TransportSteps
  BY <1>1 DEF TransportSteps, TransportStep
<1>2. CASE ServerSteps
  BY <1>2 DEF ServerSteps, TransportStep
<1> QED
  BY <1>1, <1>2 DEF Next, StopSteps

(* Every step keeps it.                                                    *)
LEMMA NextKeeps == IInv /\ [Next]_vars => IInv'
<1> SUFFICES ASSUME IInv, [Next]_vars PROVE IInv'
  OBVIOUS
<1>1. TypeOK /\ TasksFit /\ TimersFit /\ ProcessesFit /\ PendingFits /\ StatusFits
  BY DEF IInv, StatusFits
<1>2. CASE UNCHANGED vars
  BY <1>2 DEF vars, transportVars, serviceVars, IInv, TypeOK, TasksFit, TimersFit, ProcessesFit,
              PendingFits, PendingIsLive, StartingFits, IsStarting, ErrorIsRetried, IsTask
<1>3. CASE TransportStep /\ UNCHANGED serviceVars
  BY <1>3, TransportKeeps
<1>4. ASSUME NEW c \in Callers,
             \/ StartSteps(c) \/ RequestSteps(c) \/ Timers(c)
             \/ ShutdownDone(c) \/ ExitSent(c) \/ Stopped(c)
      PROVE  IInv'
  <2>1. ServiceMove(c) /\ TimersFit'
    BY <1>1, <1>4, StartMoves, RequestMoves, TimerMoves, StopMoves
  <2>2. StatusFits'
    BY <1>1, <1>4, StartStatus, RequestStatus, TimerStatus, StopStatus DEF StopSteps
  <2>3. ServiceTypes'
    BY <1>1, <1>4, StartTypes, RequestTypes, TimerTypes, StopTypes DEF StopSteps
  <2> QED
    BY <1>1, <1>4, <2>1, <2>2, <2>3, ServiceLeaves, ServiceKeeps
<1>5. ASSUME NEW c \in Callers, CloseTransport(c)
      PROVE  IInv'
  BY <1>5, CloseKeeps
<1>6. CASE UserSteps
  <2>1. Fresh \in Callers /\ ServiceMove(Fresh) /\ TimersFit'
    BY <1>1, <1>6, UserMoves
  <2>2. StatusFits' /\ ServiceTypes'
    BY <1>1, <1>6, UserStatus, UserTypes
  <2>3. UNCHANGED <<server, process, exitNotices, nextRequestID, pendingRequests, responses>>
    BY <1>6 DEF UserSteps, AddProvider, RemoveProvider, SignInStarts, SendUserRequest, transportVars
  <2> QED
    BY <2>1, <2>2, <2>3, ServiceKeeps
<1>7. ASSUME NEW t \in Transports, StatusChanges(t)
      PROVE  IInv'
  <2>1. Fresh \in Callers /\ ServiceMove(Fresh) /\ TimersFit'
    BY <1>1, <1>7, StatusChangesMoves
  <2>2. StatusFits' /\ ServiceTypes'
    BY <1>1, <1>7, StatusChangesStatus, StatusChangesTypes
  <2>3. UNCHANGED <<server, process, exitNotices, nextRequestID, pendingRequests, responses>>
    BY <1>7 DEF StatusChanges, transportVars
  <2> QED
    BY <2>1, <2>2, <2>3, ServiceKeeps
<1> QED
  BY <1>2, <1>3, <1>4, <1>5, <1>6, <1>7, NextIsOneOf

(* Whatever the user, the timers and the servers do, the parts above hold  *)
(* together: the invariant from which the other theorems follow.           *)
THEOREM Invariance == Spec => []IInv
<1> QED
  BY InitKeeps, NextKeeps, PTL DEF Spec, AppSpec

-------------------------------------------------------------------------------
(* Every variable keeps its type, however many tasks and starts there are. *)
THEOREM TypeCorrect == Spec => []TypeOK
<1>1. IInv => TypeOK
  BY DEF IInv
<1> QED
  BY <1>1, Invariance, PTL

(* No request is left pending on a transport that nobody will resume:      *)
(* stop(), dispatchMessage and handleProcessExit leave none behind.        *)
THEOREM PendingAlwaysLive == Spec => []PendingIsLive
<1>1. IInv => PendingIsLive
  BY DEF IInv, PendingFits
<1> QED
  BY <1>1, Invariance, PTL

(* While the service says it is starting, a start that still counts is at  *)
(* work, or a stop is about to say otherwise.                              *)
THEOREM StartingAlwaysWorkedOn == Spec => []StartingIsWorkedOn
<1>1. IInv => StartingIsWorkedOn
  BY DEF IInv, StartingFits, IsStarting, StartingIsWorkedOn
<1> QED
  BY <1>1, Invariance, PTL

(* A failed start that may go better next time has its restart scheduled:  *)
(* the handle the service keeps is that of a timer that sleeps.            *)
THEOREM ErrorAlwaysRetried == Spec => []ErrorIsRetried
<1>1. IInv => ErrorIsRetried
  BY DEF IInv
<1> QED
  BY <1>1, Invariance, PTL

-------------------------------------------------------------------------------
(***************************************************************************)
(* The refinement of RequestOutcomes.                                      *)
(***************************************************************************)
AbsCall == [c \in Callers |-> [state |-> CallState(c), line |-> call[c].transport]]
AbsLine == [t \in Transports |-> LineState(t)]

LEMMA CallStates ==
  ASSUME NEW c \in Callers
  PROVE  /\ call[c].state \in {"none", "asked", "waiting"} => CallState(c) = call[c].state
         /\ call[c].state \in Replies => CallState(c) = "replied"
         /\ call[c].state \in Failures => CallState(c) = "failed"
         /\ CallState(c) = "waiting" => call[c].state = "waiting"
  BY DEF CallState, Replies, Failures

LEMMA CallStatesNext ==
  ASSUME NEW c \in Callers
  PROVE  /\ call'[c].state \in {"none", "asked", "waiting"} => CallState(c)' = call'[c].state
         /\ call'[c].state \in Replies => CallState(c)' = "replied"
         /\ call'[c].state \in Failures => CallState(c)' = "failed"
  BY DEF CallState, Replies, Failures

LEMMA AbsCallUpdate ==
  ASSUME NEW c \in Callers, NEW s, NEW t,
         \A x \in Callers \ {c} : call'[x] = call[x],
         CallState(c)' = s, call'[c].transport = t
  PROVE  AbsCall' = [AbsCall EXCEPT ![c] = [state |-> s, line |-> t]]
<1>1. \A x \in Callers \ {c} : CallState(x)' = CallState(x)
  BY DEF CallState
<1> QED
  BY <1>1 DEF AbsCall

LEMMA AbsCallSame ==
  ASSUME \A x \in Callers : call'[x] = call[x]
  PROVE  AbsCall' = AbsCall
  BY DEF AbsCall, CallState

LEMMA AbsLineUpdate ==
  ASSUME NEW t \in Transports, NEW s,
         \A u \in Transports \ {t} : LineState(u)' = LineState(u), LineState(t)' = s
  PROVE  AbsLine' = [AbsLine EXCEPT ![t] = s]
  BY DEF AbsLine

LEMMA AbsLineSame ==
  ASSUME \A u \in Transports : LineState(u)' = LineState(u)
  PROVE  AbsLine' = AbsLine
  BY DEF AbsLine

(* What the steps of the service do to a request.                          *)
ServiceCall(c) ==
  \/ UNCHANGED call
  \/ \E t \in Transports : call' = Asked(call, c, t) /\ call[c].state = "none"
  \/ IsSettled(c) /\ call' = Taken(call, c)

LEMMA AtRest ==
  ASSUME TasksFit, NEW c \in Callers, tasks[c].pc \notin Awaits
  PROVE  call[c].state = "none"
  BY DEF TasksFit, Fits

LEMMA BeginStopCall ==
  ASSUME TypeOK, TasksFit, NEW c \in Callers, BeginStop(c), tasks[c].pc \notin Awaits
  PROVE  ServiceCall(c)
<1>1. CASE transport = NoTransport
  BY <1>1 DEF BeginStop, ServiceCall
<1>2. CASE transport # NoTransport
  <2>1. transport \in Transports /\ call' = Asked(call, c, transport)
    BY <1>2 DEF BeginStop, TypeOK
  <2> QED
    BY <2>1, AtRest DEF ServiceCall
<1> QED
  BY <1>1, <1>2

(* What the service's steps do to its calls.                               *)
LEMMA ServiceCalls ==
  ASSUME TypeOK, TasksFit, NEW c \in Callers,
         \/ StartSteps(c) \/ RequestSteps(c) \/ Timers(c)
         \/ ShutdownDone(c) \/ ExitSent(c) \/ Stopped(c)
  PROVE  ServiceCall(c)
<1>1. CASE AskInitialize(c) \/ Started(c) \/ (ConfirmAgain(c) /\ ~UNCHANGED call)
  <2>1. tasks[c].pc \in {"launched", "register", "poll"}
    BY <1>1 DEF AskInitialize, Started, ConfirmAgain, IsTask
  <2>2. tasks[c].pc \notin Awaits \cup {"none", "sleep"}
    BY <2>1 DEF Awaits
  <2>3. tasks[c].transport \in Transports /\ call[c].state = "none"
    BY <2>2, AtRest DEF TasksFit, Fits
  <2>4. call' = Asked(call, c, tasks[c].transport)
    BY <1>1 DEF AskInitialize, Started, ConfirmAgain
  <2> QED
    BY <2>3, <2>4 DEF ServiceCall
<1>2. CASE StartSteps(c) /\ ~AskInitialize(c) /\ ~Started(c)
  BY <1>2 DEF StartSteps, LaunchFails, LaunchServer, InitializeFails, Initialized, AuthStatusChecked,
              transportVars, ServiceCall, IsSettled, Outcome, Replies, Failures
<1>3. CASE RequestSteps(c) /\ ~ConfirmAgain(c)
  BY <1>3 DEF RequestSteps, RequestDone, ConfirmDone, SignedOut, HandleStatusNotification,
              transportVars, ServiceCall
<1>4. CASE ConfirmAgain(c) /\ UNCHANGED call
  BY <1>4 DEF ServiceCall
<1>5. CASE RestartFires(c)
  BY <1>5 DEF RestartFires, transportVars, ServiceCall
<1>6. CASE IdleStopFires(c)
  <2>1. tasks[c].pc \notin Awaits
    BY <1>6 DEF IdleStopFires, IsTask, Awaits
  <2> QED
    BY <1>6, <2>1, BeginStopCall DEF IdleStopFires, ServiceCall
<1>7. CASE ShutdownDone(c) \/ ExitSent(c) \/ Stopped(c)
  BY <1>7 DEF ShutdownDone, ExitSent, Stopped, transportVars, ServiceCall
<1> QED
  BY <1>1, <1>2, <1>3, <1>4, <1>5, <1>6, <1>7 DEF RequestSteps, Timers

LEMMA UserCalls ==
  ASSUME TypeOK, TasksFit, UserSteps
  PROVE  Fresh \in Callers /\ ServiceCall(Fresh)
<1>1. Fresh \in Callers /\ tasks[Fresh].kind = "none" /\ tasks[Fresh].pc \notin Awaits
  BY FreshRests DEF UserSteps, AddProvider, RemoveProvider, SignInStarts, SendUserRequest, Command
<1>2. CASE AddProvider \/ SignInStarts
  BY <1>1, <1>2 DEF AddProvider, SignInStarts, transportVars, ServiceCall
<1>3. CASE RemoveProvider
  BY <1>1, <1>3, BeginStopCall DEF RemoveProvider
<1>4. CASE \E kind \in Requests : SendUserRequest(kind)
  <2>1. transport \in Transports /\ call' = Asked(call, Fresh, transport)
    BY <1>4 DEF SendUserRequest, TypeOK
  <2> QED
    BY <1>1, <2>1, AtRest DEF ServiceCall
<1> QED
  BY <1>1, <1>2, <1>3, <1>4 DEF UserSteps

(* Such a step asks, takes, opens a line or is nothing to the outcomes.    *)
LEMMA ServiceCallRefines ==
  ASSUME TypeOK, ProcessesFit, NEW c \in Callers, ServiceCall(c),
         \/ UNCHANGED <<server, process, exitNotices>>
         \/ UNCHANGED call /\ \E t \in Transports : Launch(t)
  PROVE  [Outcomes!Next]_(Outcomes!vars)
<1>1. CASE UNCHANGED <<server, process, exitNotices>>
  <2>1. AbsLine' = AbsLine
    BY <1>1, AbsLineSame DEF LineState
  <2>2. CASE UNCHANGED call
    <3>1. AbsCall' = AbsCall
      BY <2>2, AbsCallSame
    <3> QED
      BY <2>1, <3>1 DEF Outcomes!vars, AbsCall, AbsLine
  <2>3. ASSUME NEW t \in Transports, call' = Asked(call, c, t), call[c].state = "none"
        PROVE  Outcomes!Ask(c, t)
    <3>1. /\ call'[c] = [state |-> "asked", transport |-> t]
          /\ \A x \in Callers \ {c} : call'[x] = call[x]
      BY <2>3 DEF Asked, TypeOK
    <3>2. CallState(c) = "none" /\ CallState(c)' = "asked"
      BY <2>3, <3>1, CallStates, CallStatesNext
    <3>3. AbsCall' = [AbsCall EXCEPT ![c] = [state |-> "asked", line |-> t]]
      BY <3>1, <3>2, AbsCallUpdate
    <3>4. AbsCall[c].state = "none"
      BY <3>2 DEF AbsCall
    <3> QED
      BY <2>1, <3>3, <3>4 DEF Outcomes!Ask, AbsCall, AbsLine
  <2>4. CASE IsSettled(c) /\ call' = Taken(call, c)
    <3>1. /\ call'[c] = NoCall
          /\ \A x \in Callers \ {c} : call'[x] = call[x]
      BY <2>4 DEF Taken, TypeOK
    <3>2. CallState(c) \in {"replied", "failed"} /\ CallState(c)' = "none"
      BY <2>4, <3>1, CallStates, CallStatesNext DEF IsSettled, NoCall
    <3>3. AbsCall' = [AbsCall EXCEPT ![c] = [state |-> "none", line |-> NoTransport]]
      BY <3>1, <3>2, AbsCallUpdate DEF NoCall
    <3>4. AbsCall[c].state \in {"replied", "failed"}
      BY <3>2 DEF AbsCall
    <3>5. Outcomes!Take(c)
      BY <2>1, <3>3, <3>4 DEF Outcomes!Take, Outcomes!NoCall, AbsCall, AbsLine
    <3> QED
      BY <3>5 DEF Outcomes!Next
  <2> QED
    BY <2>2, <2>3, <2>4 DEF ServiceCall, Outcomes!Next
<1>2. ASSUME UNCHANGED call, NEW t \in Transports, Launch(t)
      PROVE  Outcomes!Open(t)
  <2>1. AbsCall' = AbsCall
    BY <1>2, AbsCallSame
  <2>2. LineState(t) = "fresh"
    BY <1>2 DEF Launch, LineState
  <2>3. LineState(t)' = "open" /\ \A u \in Transports \ {t} : LineState(u)' = LineState(u)
    BY <1>2 DEF Launch, LineState, TypeOK
  <2>4. AbsLine' = [AbsLine EXCEPT ![t] = "open"]
    BY <2>3, AbsLineUpdate
  <2>5. AbsLine[t] = "fresh"
    BY <2>2 DEF AbsLine
  <2> QED
    BY <2>1, <2>4, <2>5 DEF Outcomes!Open, AbsCall, AbsLine
<1> QED
  BY <1>1, <1>2 DEF Outcomes!Next

(* What closes a line settles all that wait on it; a line that is not open *)
(* has nobody waiting.                                                     *)
LEMMA CloseRefines ==
  ASSUME TypeOK, ProcessesFit, PendingFits, NEW t \in Transports, NEW outcome \in Failures,
         call' = Resumed(pendingRequests[t], outcome),
         \A u \in Transports \ {t} : LineState(u)' = LineState(u),
         LineState(t)' = IF LineState(t) = "open" THEN "closed" ELSE LineState(t)
  PROVE  Outcomes!Close(t) \/ UNCHANGED <<AbsCall, AbsLine>>
<1> DEFINE E == pendingRequests[t]
<1>1. /\ E \in SUBSET pendingRequests[t] /\ outcome \in Replies \cup Failures
      /\ call' = Resumed(E, outcome)
  OBVIOUS
<1> HIDE DEF E
<1>2. \A c \in Callers : IF \E e \in E : e.caller = c
                         THEN /\ call[c] = [state |-> "waiting", transport |-> t]
                              /\ call'[c] = [state |-> outcome, transport |-> t]
                         ELSE call'[c] = call[c]
  BY <1>1, ResumedCalls
<1>3. CASE LineState(t) = "open"
  <2>1. AbsLine[t] = "open" /\ AbsLine' = [AbsLine EXCEPT ![t] = "closed"]
    BY <1>3, AbsLineUpdate DEF AbsLine
  <2>2. ASSUME NEW c \in Callers
        PROVE  AbsCall'[c] = IF AbsCall[c].line = t /\ AbsCall[c].state = "waiting"
                             THEN [AbsCall[c] EXCEPT !.state = "failed"]
                             ELSE AbsCall[c]
    <3>1. CASE \E e \in E : e.caller = c
      <4>1. /\ call[c] = [state |-> "waiting", transport |-> t]
            /\ call'[c] = [state |-> outcome, transport |-> t]
        BY <1>2, <3>1
      <4>2. CallState(c) = "waiting" /\ CallState(c)' = "failed"
        BY <4>1, CallStates, CallStatesNext
      <4> QED
        BY <4>1, <4>2 DEF AbsCall
    <3>2. CASE ~ \E e \in E : e.caller = c
      <4>1. call'[c] = call[c]
        BY <1>2, <3>2
      <4>2. ~ (call[c].transport = t /\ call[c].state = "waiting")
        BY <3>2 DEF E, PendingFits
      <4>3. ~ (AbsCall[c].line = t /\ AbsCall[c].state = "waiting")
        BY <4>2, CallStates DEF AbsCall
      <4> QED
        BY <4>1, <4>3 DEF AbsCall, CallState
    <3> QED
      BY <3>1, <3>2
  <2>3. AbsCall' = [c \in Callers |-> IF AbsCall[c].line = t /\ AbsCall[c].state = "waiting"
                                      THEN [AbsCall[c] EXCEPT !.state = "failed"]
                                      ELSE AbsCall[c]]
    BY <2>2 DEF AbsCall
  <2> QED
    BY <2>1, <2>3 DEF Outcomes!Close, AbsCall, AbsLine
<1>4. CASE LineState(t) # "open"
  <2>1. E = {}
    BY <1>4 DEF E, PendingFits, PendingIsLive, ProcessesFit, LineState
  <2>2. \A c \in Callers : call'[c] = call[c]
    BY <1>2, <2>1
  <2>3. AbsCall' = AbsCall /\ AbsLine' = AbsLine
    BY <1>4, <2>2, AbsCallSame, AbsLineSame
  <2> QED
    BY <2>3
<1> QED
  BY <1>3, <1>4

LEMMA StopTransportRefines ==
  ASSUME TypeOK, ProcessesFit, PendingFits, NEW t \in Transports, StopTransport(t)
  PROVE  Outcomes!Close(t) \/ UNCHANGED <<AbsCall, AbsLine>>
<1>1. \A u \in Transports \ {t} : LineState(u)' = LineState(u)
  BY DEF StopTransport, LineState, TypeOK
<1>2. LineState(t)' = IF LineState(t) = "open" THEN "closed" ELSE LineState(t)
  BY DEF StopTransport, LineState, ProcessesFit
<1>3. "cancelled" \in Failures /\ call' = Resumed(pendingRequests[t], "cancelled")
  BY DEF StopTransport, Failures
<1> QED
  BY <1>1, <1>2, <1>3, CloseRefines

LEMMA ProcessExitRefines ==
  ASSUME TypeOK, ProcessesFit, PendingFits, NEW t \in Transports, HandleProcessExit(t)
  PROVE  Outcomes!Close(t) \/ UNCHANGED <<AbsCall, AbsLine>>
<1>1. \A u \in Transports \ {t} : LineState(u)' = LineState(u)
  BY DEF HandleProcessExit, LineState, TypeOK
<1>2. LineState(t)' = IF LineState(t) = "open" THEN "closed" ELSE LineState(t)
  BY DEF HandleProcessExit, LineState, ProcessesFit
<1>3. "exited" \in Failures /\ call' = Resumed(pendingRequests[t], "exited")
  BY DEF HandleProcessExit, Failures
<1> QED
  BY <1>1, <1>2, <1>3, CloseRefines

LEMMA SendRequestRefines ==
  ASSUME TypeOK, TasksFit, NEW c \in Callers, SendRequest(c)
  PROVE  Outcomes!Accept(c)
<1> DEFINE t == call[c].transport
<1>1. call[c].state = "asked" /\ t \in Transports /\ LineState(t) = "open"
  BY DEF SendRequest, TasksFit, Fits, IsRunning, LineState
<1>2. AbsLine' = AbsLine
  BY AbsLineSame DEF SendRequest, LineState
<1>3. /\ call'[c].state = "waiting" /\ call'[c].transport = t
      /\ \A x \in Callers \ {c} : call'[x] = call[x]
  BY DEF SendRequest, TypeOK, CallRecords
<1>4. CallState(c) = "asked" /\ CallState(c)' = "waiting"
  BY <1>1, <1>3, CallStates, CallStatesNext
<1>5. AbsCall' = [AbsCall EXCEPT ![c] = [state |-> "waiting", line |-> t]]
  BY <1>3, <1>4, AbsCallUpdate
<1>6. AbsCall[c] = [state |-> "asked", line |-> t] /\ AbsLine[t] = "open"
  BY <1>1, <1>4 DEF AbsCall, AbsLine
<1>7. AbsCall' = [AbsCall EXCEPT ![c].state = "waiting"]
  BY <1>5, <1>6 DEF AbsCall
<1> QED
  BY <1>2, <1>6, <1>7 DEF Outcomes!Accept, AbsCall, AbsLine

LEMMA RefuseRequestRefines ==
  ASSUME TypeOK, NEW c \in Callers, RefuseRequest(c)
  PROVE  Outcomes!Refuse(c)
<1> DEFINE t == call[c].transport
<1>1. AbsLine' = AbsLine
  BY AbsLineSame DEF RefuseRequest, LineState
<1>2. /\ call[c].state = "asked" /\ call'[c].state = "refused" /\ call'[c].transport = t
      /\ \A x \in Callers \ {c} : call'[x] = call[x]
  BY DEF RefuseRequest, TypeOK, CallRecords
<1>3. CallState(c) = "asked" /\ CallState(c)' = "failed"
  BY <1>2, CallStates, CallStatesNext DEF Failures
<1>4. AbsCall' = [AbsCall EXCEPT ![c] = [state |-> "failed", line |-> t]]
  BY <1>2, <1>3, AbsCallUpdate
<1>5. AbsCall[c] = [state |-> "asked", line |-> t]
  BY <1>3 DEF AbsCall
<1>6. AbsCall' = [AbsCall EXCEPT ![c].state = "failed"]
  BY <1>4, <1>5 DEF AbsCall
<1> QED
  BY <1>1, <1>5, <1>6 DEF Outcomes!Refuse, AbsCall, AbsLine

(* A response is its caller's reply, or nobody's.                          *)
LEMMA DispatchRefines ==
  ASSUME TypeOK, ProcessesFit, PendingFits, NEW t \in Transports, NEW id, DispatchResponse(t, id)
  PROVE  (\E c \in Callers : Outcomes!Reply(c)) \/ UNCHANGED <<AbsCall, AbsLine>>
<1> DEFINE E == {e \in pendingRequests[t] : e.id = id}
<1>1. E \in SUBSET pendingRequests[t]
  OBVIOUS
<1>2. PICK outcome \in Replies : call' = Resumed(E, outcome)
  BY DEF DispatchResponse
<1>3. \A c \in Callers : IF \E e \in E : e.caller = c
                         THEN /\ call[c] = [state |-> "waiting", transport |-> t]
                              /\ call'[c] = [state |-> outcome, transport |-> t]
                         ELSE call'[c] = call[c]
  <2>1. outcome \in Replies \cup Failures /\ call' = Resumed(E, outcome)
    BY <1>2
  <2> HIDE DEF E
  <2> QED
    BY <1>1, <2>1, ResumedCalls
<1>4. AbsLine' = AbsLine
  BY AbsLineSame DEF DispatchResponse, LineState
<1>5. CASE E = {}
  <2>1. \A c \in Callers : call'[c] = call[c]
    BY <1>3, <1>5
  <2> QED
    BY <1>4, <2>1, AbsCallSame
<1>6. ASSUME NEW e \in E
      PROVE  \E c \in Callers : Outcomes!Reply(c)
  <2> DEFINE c == e.caller
  <2>1. c \in Callers /\ pendingRequests[t] # {}
    BY DEF TypeOK
  <2>2. /\ call[c] = [state |-> "waiting", transport |-> t]
        /\ call'[c] = [state |-> outcome, transport |-> t]
    BY <1>3, <2>1
  <2>3. \A f \in E : f = e
    BY DEF PendingFits
  <2>4. \A x \in Callers \ {c} : call'[x] = call[x]
    BY <1>3, <2>3
  <2>5. CallState(c) = "waiting" /\ CallState(c)' = "replied"
    BY <1>2, <2>1, <2>2, CallStates, CallStatesNext
  <2>6. AbsCall' = [AbsCall EXCEPT ![c] = [state |-> "replied", line |-> t]]
    BY <2>1, <2>2, <2>4, <2>5, AbsCallUpdate
  <2>7. LineState(t) = "open"
    BY <2>1 DEF PendingFits, PendingIsLive, ProcessesFit, LineState
  <2>8. AbsCall[c] = [state |-> "waiting", line |-> t] /\ AbsLine[t] = "open"
    BY <2>1, <2>2, <2>5, <2>7 DEF AbsCall, AbsLine
  <2>9. AbsCall' = [AbsCall EXCEPT ![c].state = "replied"]
    BY <2>1, <2>6, <2>8 DEF AbsCall
  <2>10. Outcomes!Reply(c)
    BY <1>4, <2>8, <2>9 DEF Outcomes!Reply, AbsCall, AbsLine
  <2> QED
    BY <2>1, <2>10
<1> QED
  BY <1>5, <1>6

(* Every step of a transport or a server is one of RequestOutcomes.        *)
LEMMA TransportRefines ==
  ASSUME TypeOK, TasksFit, ProcessesFit, PendingFits, TransportStep
  PROVE  [Outcomes!Next]_(Outcomes!vars)
<1>1. UNCHANGED <<AbsCall, AbsLine>> => UNCHANGED Outcomes!vars
  BY DEF Outcomes!vars, AbsCall, AbsLine
<1>2. CASE \E c \in Callers : SendRequest(c) \/ RefuseRequest(c)
  BY <1>2, SendRequestRefines, RefuseRequestRefines DEF Outcomes!Next
<1>3. CASE \E t \in Transports : HandleProcessExit(t) \/ StopTransport(t)
  <2>1. PICK t \in Transports : HandleProcessExit(t) \/ StopTransport(t)
    BY <1>3
  <2>2. Outcomes!Close(t) \/ UNCHANGED <<AbsCall, AbsLine>>
    BY <2>1, ProcessExitRefines, StopTransportRefines
  <2> QED
    BY <1>1, <2>2 DEF Outcomes!Next
<1>4. ASSUME NEW t \in Transports, ServerExits(t)
      PROVE  UNCHANGED <<AbsCall, AbsLine>>
  <2>1. \A u \in Transports : LineState(u)' = LineState(u)
    BY <1>4 DEF ServerExits, LineState, TypeOK
  <2> QED
    BY <1>4, <2>1, AbsCallSame, AbsLineSame DEF ServerExits
<1>5. ASSUME NEW t \in Transports, NEW id, DispatchResponse(t, id)
      PROVE  [Outcomes!Next]_(Outcomes!vars)
  BY <1>1, <1>5, DispatchRefines DEF Outcomes!Next
<1>6. ASSUME NEW t \in Transports, NEW id, Respond(t, id)
      PROVE  UNCHANGED <<AbsCall, AbsLine>>
  <2>1. \A u \in Transports : LineState(u)' = LineState(u)
    BY <1>6 DEF Respond, LineState
  <2> QED
    BY <1>6, <2>1, AbsCallSame, AbsLineSame DEF Respond
<1> QED
  BY <1>1, <1>2, <1>3, <1>4, <1>5, <1>6 DEF TransportStep

(* Every step is one of RequestOutcomes or none.                           *)
LEMMA StepRefines == IInv /\ [Next]_vars => [Outcomes!Next]_(Outcomes!vars)
<1> SUFFICES ASSUME IInv, [Next]_vars PROVE [Outcomes!Next]_(Outcomes!vars)
  OBVIOUS
<1>1. TypeOK /\ TasksFit /\ TimersFit /\ ProcessesFit /\ PendingFits /\ StatusFits
  BY DEF IInv, StatusFits
<1>2. CASE UNCHANGED vars
  <2>1. AbsCall' = AbsCall /\ AbsLine' = AbsLine
    BY <1>2, AbsCallSame, AbsLineSame DEF vars, transportVars, LineState
  <2> QED
    BY <2>1 DEF Outcomes!vars, AbsCall, AbsLine
<1>3. CASE TransportStep
  BY <1>1, <1>3, TransportRefines
<1>4. ASSUME NEW c \in Callers,
             \/ StartSteps(c) \/ RequestSteps(c) \/ Timers(c)
             \/ ShutdownDone(c) \/ ExitSent(c) \/ Stopped(c)
      PROVE  [Outcomes!Next]_(Outcomes!vars)
  <2>1. ServiceCall(c)
    BY <1>1, <1>4, ServiceCalls
  <2>2. \/ UNCHANGED <<server, process, exitNotices>>
        \/ UNCHANGED call /\ \E t \in Transports : Launch(t)
    <3>1. CASE LaunchServer(c)
      <4>1. tasks[c].transport \in Transports
        BY <1>1, <3>1 DEF LaunchServer, IsTask, TasksFit, Fits
      <4> QED
        BY <3>1, <4>1 DEF LaunchServer
    <3>2. CASE ~LaunchServer(c)
      BY <1>4, <3>2 DEF StartSteps, LaunchFails, AskInitialize, InitializeFails, Initialized,
           Started, AuthStatusChecked, RequestSteps, RequestDone, ConfirmDone, ConfirmAgain,
           SignedOut, HandleStatusNotification, Timers, RestartFires, IdleStopFires, ShutdownDone, ExitSent, Stopped,
           transportVars
    <3> QED
      BY <3>1, <3>2
  <2> QED
    BY <1>1, <2>1, <2>2, ServiceCallRefines
<1>5. ASSUME NEW c \in Callers, CloseTransport(c)
      PROVE  [Outcomes!Next]_(Outcomes!vars)
  <2>1. tasks[c].transport \in Transports
    BY <1>1, <1>5 DEF CloseTransport, IsTask, TasksFit, Fits
  <2>2. TransportStep
    BY <1>5, <2>1 DEF CloseTransport, TransportStep
  <2> QED
    BY <1>1, <2>2, TransportRefines
<1>6. CASE UserSteps
  <2>1. Fresh \in Callers /\ ServiceCall(Fresh)
    BY <1>1, <1>6, UserCalls
  <2>2. UNCHANGED <<server, process, exitNotices>>
    BY <1>6 DEF UserSteps, AddProvider, RemoveProvider, SignInStarts, SendUserRequest, transportVars
  <2> QED
    BY <1>1, <2>1, <2>2, ServiceCallRefines
<1>7. ASSUME NEW t \in Transports, StatusChanges(t)
      PROVE  [Outcomes!Next]_(Outcomes!vars)
  <2>1. Fresh \in Callers
    BY <1>7, FreshIsFree DEF StatusChanges, Command
  <2>2. ServiceCall(Fresh) /\ UNCHANGED <<server, process, exitNotices>>
    BY <1>7 DEF StatusChanges, transportVars, ServiceCall
  <2> QED
    BY <1>1, <2>1, <2>2, ServiceCallRefines
<1> QED
  BY <1>2, <1>3, <1>4, <1>5, <1>6, <1>7, NextIsOneOf

(* The service implements RequestOutcomes: each request gets one outcome,  *)
(* from the server it was sent to while its line was open or from what     *)
(* closed that line.                                                       *)
THEOREM RefinesOutcomes == Spec => OneOutcomePerRequest
<1>1. Init => Outcomes!Init
  <2> SUFFICES ASSUME Init PROVE Outcomes!Init
    OBVIOUS
  <2>1. AbsLine = [t \in Transports |-> "fresh"]
    BY DEF Init, TransportInit, AbsLine, LineState
  <2>2. \A c \in Callers : call[c].state = "none" /\ call[c].transport = NoTransport
    BY DEF Init, TransportInit, NoCall
  <2>3. AbsCall = [c \in Callers |-> [state |-> "none", line |-> NoTransport]]
    BY <2>2, CallStates DEF AbsCall
  <2> QED
    BY <2>1, <2>3 DEF Outcomes!Init, Outcomes!NoCall, AbsCall, AbsLine
<1> QED
  BY <1>1, StepRefines, Invariance, PTL DEF Spec, AppSpec, OneOutcomePerRequest, Outcomes!Safety
================================================================================
