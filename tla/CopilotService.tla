---------------------------- MODULE CopilotService -----------------------------
(***************************************************************************)
(* CopilotService and CopilotIdleStopController: the language server is    *)
(* started when a Copilot provider is added, stopped when it is removed,   *)
(* restarted after a failed start and stopped when nobody signs in.        *)
(*                                                                         *)
(* Everything here runs on the main actor and every await lets other tasks *)
(* run, so a task is a record whose pc names the await it is at, as in     *)
(* ConnectionSessions.  A timer is a task that sleeps; cancelling one that *)
(* sleeps ends it.                                                         *)
(***************************************************************************)
EXTENDS LSPTransport

CONSTANTS
  MaxStarts,     \* bound on the starts of the server; each has a transport of its own
  MaxCommands,   \* bound on what the user does and what servers notify of
  MaxRequests,   \* bound on the requests a sign-in that polls sends to one transport
  Requests,      \* the kinds of request this instance exercises
  Notifying      \* transports whose server may send a notification that asks to sign in

AllRequests == {"complete", "signIn", "confirm", "signOut"}

ASSUME BoundsAssumption == MaxStarts \in Nat /\ MaxCommands \in Nat /\ MaxRequests \in Nat
ASSUME TransportsAssumption == Transports = 1..MaxStarts /\ NoTransport = 0
ASSUME CallersAssumption == Callers \subseteq Nat \ {0}
ASSUME RequestsAssumption == Requests \subseteq AllRequests
ASSUME NotifyingAssumption == Notifying \subseteq Transports

VARIABLES
  configured,        \* the settings hold a Copilot provider
  status,            \* of the service; noBinary is .error with a CopilotError
  transport,         \* the service's, and its lspClient's; 0 for nil
  serverGeneration,  \* the start that took the latest generation, 0 when a stop did
  restartTask,       \* the timer of the latest restart, 0 for none
  idleStop,          \* the timer of unauthenticatedStop, 0 for none
  authenticated,     \* authState is .signedIn
  observed,          \* transports with a handler for didChangeStatus
  tasks,             \* task -> what it does
  starts, commands   \* how many there were

serviceVars == <<configured, status, transport, serverGeneration, restartTask, idleStop,
                 authenticated, observed, tasks, starts, commands>>
vars == <<transportVars, serviceVars>>

Task(kind, pc, t) == [kind |-> kind, pc |-> pc, transport |-> t]

NoTask == Task("none", "none", NoTransport)

Init ==
  /\ TransportInit
  /\ configured = FALSE
  /\ status = "stopped"
  /\ transport = NoTransport
  /\ serverGeneration = 0
  /\ restartTask = 0
  /\ idleStop = 0
  /\ authenticated = FALSE
  /\ observed = {}
  /\ tasks = [c \in Callers |-> NoTask]
  /\ starts = 0
  /\ commands = 0

-------------------------------------------------------------------------------
(***************************************************************************)
(* Tasks and timers.                                                       *)
(***************************************************************************)
IsTask(c, kind, pc) == tasks[c].kind = kind /\ tasks[c].pc = pc

FreeTasks == {c \in Callers : tasks[c].kind = "none"}

(* Which free place a new task gets makes no difference.                   *)
Fresh == CHOOSE c \in FreeTasks : TRUE

(* What the task settles to, of what it asked.                             *)
Outcome(c) == call[c].state

Goto(c, pc) == tasks' = [tasks EXCEPT ![c].pc = pc]

(* ts without the tasks of S: those that end and the timers cancelled.     *)
Without(ts, S) == [c \in Callers |-> IF c \in S THEN NoTask ELSE ts[c]]

End(c) == tasks' = Without(tasks, {c})

(* schedule(), called by task c as it ends: the timer before is cancelled, *)
(* and a new one started unless the user is signed in.  Only one remains.  *)
ScheduleStop(c, signedIn) ==
  CASE signedIn -> tasks' = Without(tasks, {c, idleStop}) /\ idleStop' = 0
    [] ~signedIn /\ idleStop # 0 -> End(c) /\ UNCHANGED idleStop
    [] OTHER -> /\ tasks' = [tasks EXCEPT ![c] = Task("idle", "sleep", NoTransport)]
                /\ idleStop' = c

-------------------------------------------------------------------------------
(***************************************************************************)
(* start().                                                                *)
(***************************************************************************)
(* The guard of start().                                                   *)
MayStart == status \notin {"starting", "running"}

(* Up to the await of ensureBinary.                                        *)
BeginStart(c) ==
  /\ starts < MaxStarts
  /\ starts' = starts + 1
  /\ serverGeneration' = c
  /\ status' = "starting"
  /\ tasks' = [tasks EXCEPT ![c] = Task("start", "binary", starts + 1)]

StartOrReturn(c) ==
  \/ MayStart /\ BeginStart(c)
  \/ ~MayStart /\ End(c) /\ UNCHANGED <<starts, serverGeneration, status>>

(* Mutant: the error is shown and nothing is scheduled.                    *)
FailWithoutRestart(c, isPermanent) ==
  IF serverGeneration = c
  THEN /\ status' = IF isPermanent THEN "noBinary" ELSE "error"
       /\ End(c)
       /\ UNCHANGED restartTask
  ELSE End(c) /\ UNCHANGED <<status, restartTask>>

(* The catch of start().  The restart timer takes the task's place; the    *)
(* handle of an earlier one is overwritten, not cancelled.                 *)
FailStart(c, isPermanent) ==
  CASE serverGeneration # c -> End(c) /\ UNCHANGED <<status, restartTask>>
    [] serverGeneration = c /\ isPermanent ->
         status' = "noBinary" /\ End(c) /\ UNCHANGED restartTask
    [] OTHER -> /\ status' = "error"
                /\ tasks' = [tasks EXCEPT ![c] = Task("restart", "sleep", NoTransport)]
                /\ restartTask' = c

(* ensureBinary throws a CopilotError; or the download fails, or run().    *)
LaunchFails(c) ==
  /\ IsTask(c, "start", "binary")
  /\ \E isPermanent \in BOOLEAN : FailStart(c, isPermanent)
  /\ UNCHANGED <<transportVars, configured, transport, serverGeneration, idleStop,
                 authenticated, observed, starts, commands>>

LaunchServer(c) ==
  /\ IsTask(c, "start", "binary")
  /\ Launch(tasks[c].transport)
  /\ Goto(c, "launched")
  /\ UNCHANGED <<call, configured, status, transport, serverGeneration, restartTask, idleStop,
                 authenticated, observed, starts, commands>>

AskInitialize(c) ==
  /\ IsTask(c, "start", "launched")
  /\ call' = Asked(call, c, tasks[c].transport)
  /\ Goto(c, "initialize")
  /\ UNCHANGED <<server, process, exitNotices, nextRequestID, pendingRequests, responses,
                 configured, status, transport, serverGeneration, restartTask, idleStop,
                 authenticated, observed, starts, commands>>

(* The server stays as it is when initialize fails: nobody stops it.       *)
InitializeFails(c) ==
  /\ IsTask(c, "start", "initialize")
  /\ Outcome(c) \in Failures \cup {"error"}
  /\ call' = Taken(call, c)
  /\ FailStart(c, FALSE)
  /\ UNCHANGED <<server, process, exitNotices, nextRequestID, pendingRequests, responses,
                 configured, transport, serverGeneration, idleStop, authenticated, observed,
                 starts, commands>>

(* Initialized; the guard on the generation, then the handler is           *)
(* registered, which is one more await.                                    *)
Initialized(c) ==
  /\ IsTask(c, "start", "initialize")
  /\ Outcome(c) = "answered"
  /\ call' = Taken(call, c)
  /\ \/ serverGeneration = c /\ Goto(c, "register")
     \/ serverGeneration # c /\ End(c)
  /\ UNCHANGED <<server, process, exitNotices, nextRequestID, pendingRequests, responses,
                 configured, status, transport, serverGeneration, restartTask, idleStop,
                 authenticated, observed, starts, commands>>

(* The server is the service's, whatever happened during that await.       *)
Started(c) ==
  LET t == tasks[c].transport
  IN  /\ IsTask(c, "start", "register")
      /\ observed' = observed \cup {t}
      /\ transport' = t
      /\ status' = "running"
      /\ call' = Asked(call, c, t)
      /\ Goto(c, "checkStatus")
      /\ UNCHANGED <<server, process, exitNotices, nextRequestID, pendingRequests, responses,
                     configured, serverGeneration, restartTask, idleStop, authenticated,
                     starts, commands>>

AuthStatusChecked(c) ==
  /\ IsTask(c, "start", "checkStatus")
  /\ IsSettled(c)
  /\ \E signedIn \in BOOLEAN :
       /\ signedIn => authenticated \/ Outcome(c) = "answered"
       /\ authenticated => signedIn
       /\ authenticated' = signedIn
       /\ ScheduleStop(c, signedIn)
  /\ call' = Taken(call, c)
  /\ UNCHANGED <<server, process, exitNotices, nextRequestID, pendingRequests, responses,
                 configured, status, transport, serverGeneration, restartTask, observed,
                 starts, commands>>

RestartFires(c) ==
  /\ IsTask(c, "restart", "sleep")
  /\ StartOrReturn(c)
  /\ restartTask' = IF restartTask = c THEN 0 ELSE restartTask
  /\ UNCHANGED <<transportVars, configured, transport, idleStop, authenticated, observed, commands>>

-------------------------------------------------------------------------------
(***************************************************************************)
(* stop().                                                                 *)
(***************************************************************************)
(* Mutant: with no server yet there seems to be nothing to stop.           *)
BeginStopOfServer(c) ==
  /\ restartTask' = 0
  /\ idleStop' = 0
  /\ serverGeneration' = 0
  /\ UNCHANGED status
  /\ IF transport # NoTransport
     THEN /\ tasks' = [Without(tasks, {restartTask, idleStop}) EXCEPT
                         ![c] = Task("stop", "shutdown", transport)]
          /\ call' = Asked(call, c, transport)
     ELSE tasks' = Without(tasks, {restartTask, idleStop, c}) /\ UNCHANGED call

(* Up to the await of the shutdown request; with no server it is all there *)
(* is.  The timeout of ten seconds in the task group ends nothing: the     *)
(* group awaits the request too.                                           *)
BeginStop(c) ==
  /\ restartTask' = 0
  /\ idleStop' = 0
  /\ serverGeneration' = 0
  /\ IF transport # NoTransport
     THEN /\ tasks' = [Without(tasks, {restartTask, idleStop}) EXCEPT
                         ![c] = Task("stop", "shutdown", transport)]
          /\ call' = Asked(call, c, transport)
          /\ UNCHANGED status
     ELSE /\ tasks' = Without(tasks, {restartTask, idleStop, c})
          /\ status' = "stopped"
          /\ UNCHANGED call

ShutdownDone(c) ==
  /\ IsTask(c, "stop", "shutdown")
  /\ IsSettled(c)
  /\ call' = Taken(call, c)
  /\ Goto(c, "exit")
  /\ UNCHANGED <<server, process, exitNotices, nextRequestID, pendingRequests, responses,
                 configured, status, transport, serverGeneration, restartTask, idleStop,
                 authenticated, observed, starts, commands>>

FinishStop(c) == End(c) /\ transport' = NoTransport /\ status' = "stopped"

(* The exit notification is sent; the transport to stop is the service's   *)
(* at this time.                                                           *)
ExitSent(c) ==
  /\ IsTask(c, "stop", "exit")
  /\ \/ /\ transport # NoTransport
        /\ tasks' = [tasks EXCEPT ![c] = Task("stop", "close", transport)]
        /\ UNCHANGED <<transport, status>>
     \/ transport = NoTransport /\ FinishStop(c)
  /\ UNCHANGED <<transportVars, configured, serverGeneration, restartTask, idleStop,
                 authenticated, observed, starts, commands>>

CloseTransport(c) ==
  /\ IsTask(c, "stop", "close")
  /\ StopTransport(tasks[c].transport)
  /\ Goto(c, "closed")
  /\ UNCHANGED <<configured, status, transport, serverGeneration, restartTask, idleStop,
                 authenticated, observed, starts, commands>>

Stopped(c) ==
  /\ IsTask(c, "stop", "closed")
  /\ FinishStop(c)
  /\ UNCHANGED <<transportVars, configured, serverGeneration, restartTask, idleStop,
                 authenticated, observed, starts, commands>>

(* Nobody has signed in for five minutes.                                  *)
IdleStopFires(c) ==
  /\ IsTask(c, "idle", "sleep")
  /\ \/ ~authenticated /\ status = "running" /\ BeginStop(c)
     \/ /\ authenticated \/ status # "running"
        /\ End(c)
        /\ idleStop' = 0
        /\ UNCHANGED <<call, status, serverGeneration, restartTask>>
  /\ UNCHANGED <<server, process, exitNotices, nextRequestID, pendingRequests, responses,
                 configured, transport, authenticated, observed, starts, commands>>

-------------------------------------------------------------------------------
(***************************************************************************)
(* The user, and the notifications of a server.                            *)
(***************************************************************************)
Command ==
  /\ commands < MaxCommands
  /\ commands' = commands + 1
  /\ FreeTasks # {}

(* The ai settings get a Copilot provider.                                 *)
AddProvider ==
  /\ Command
  /\ ~configured
  /\ configured' = TRUE
  /\ StartOrReturn(Fresh)
  /\ UNCHANGED <<transportVars, transport, restartTask, idleStop, authenticated, observed>>

RemoveProvider ==
  /\ Command
  /\ configured
  /\ configured' = FALSE
  /\ BeginStop(Fresh)
  /\ UNCHANGED <<server, process, exitNotices, nextRequestID, pendingRequests, responses,
                 transport, authenticated, observed, starts>>

(* signIn() while the service is stopped: start(), with the request that   *)
(* follows left to SendUserRequest.                                        *)
SignInStarts ==
  /\ Command
  /\ "signIn" \in Requests
  /\ configured
  /\ status = "stopped"
  /\ BeginStart(Fresh)
  /\ UNCHANGED <<transportVars, configured, transport, restartTask, idleStop, authenticated, observed>>

SendUserRequest(kind) ==
  /\ Command
  /\ transport # NoTransport
  /\ call' = Asked(call, Fresh, transport)
  /\ tasks' = [tasks EXCEPT ![Fresh] = Task(kind, "reply", transport)]
  /\ UNCHANGED <<server, process, exitNotices, nextRequestID, pendingRequests, responses,
                 configured, status, transport, serverGeneration, restartTask, idleStop,
                 authenticated, observed, starts>>

(* complete and its like only hand on what they got; signIn shows a code,  *)
(* unless the answer does not decode.                                      *)
RequestDone(c) ==
  /\ tasks[c].kind \in {"complete", "signIn"} /\ IsSettled(c)
  /\ call' = Taken(call, c)
  /\ \/ tasks[c].kind = "signIn" /\ Outcome(c) = "answered" /\ authenticated' = FALSE
     \/ UNCHANGED authenticated
  /\ End(c)
  /\ UNCHANGED <<server, process, exitNotices, nextRequestID, pendingRequests, responses,
                 configured, status, transport, serverGeneration, restartTask, idleStop,
                 observed, starts, commands>>

(* completeSignIn: signed in, or asked to poll again, or thrown out, also  *)
(* by an answer that does not decode.                                      *)
ConfirmDone(c) ==
  /\ IsTask(c, "confirm", "reply") /\ IsSettled(c)
  /\ call' = Taken(call, c)
  /\ \/ /\ Outcome(c) = "answered"
        /\ authenticated' = TRUE
        /\ tasks' = Without(tasks, {c, idleStop})
        /\ idleStop' = 0
     \/ Outcome(c) = "answered" /\ Goto(c, "poll") /\ UNCHANGED <<authenticated, idleStop>>
     \/ End(c) /\ UNCHANGED <<authenticated, idleStop>>
  /\ UNCHANGED <<server, process, exitNotices, nextRequestID, pendingRequests, responses,
                 configured, status, transport, serverGeneration, restartTask, observed,
                 starts, commands>>

(* It polls the transport it began with, and gives up after 60 attempts.   *)
ConfirmAgain(c) ==
  /\ IsTask(c, "confirm", "poll")
  /\ \/ /\ nextRequestID[tasks[c].transport] <= MaxRequests
        /\ call' = Asked(call, c, tasks[c].transport)
        /\ Goto(c, "reply")
     \/ End(c) /\ UNCHANGED call
  /\ UNCHANGED <<server, process, exitNotices, nextRequestID, pendingRequests, responses,
                 configured, status, transport, serverGeneration, restartTask, idleStop,
                 authenticated, observed, starts, commands>>

SignedOut(c) ==
  /\ IsTask(c, "signOut", "reply") /\ IsSettled(c)
  /\ call' = Taken(call, c)
  /\ authenticated' = FALSE
  /\ ScheduleStop(c, FALSE)
  /\ UNCHANGED <<server, process, exitNotices, nextRequestID, pendingRequests, responses,
                 configured, status, transport, serverGeneration, restartTask, observed,
                 starts, commands>>

(* A didChangeStatus that asks to sign in is read, maybe from a server     *)
(* that has exited since: its handler starts a task on the main actor.     *)
StatusChanges(t) ==
  /\ Command
  /\ t \in Notifying \cap observed \cap process
  /\ tasks' = [tasks EXCEPT ![Fresh] = Task("status", "queued", t)]
  /\ UNCHANGED <<transportVars, configured, status, transport, serverGeneration, restartTask,
                 idleStop, authenticated, observed, starts>>

(* The user is signed out, and the idle timer starts again, whatever has   *)
(* become of the server by then.                                           *)
HandleStatusNotification(c) ==
  /\ IsTask(c, "status", "queued")
  /\ authenticated' = FALSE
  /\ ScheduleStop(c, FALSE)
  /\ UNCHANGED <<transportVars, configured, status, transport, serverGeneration, restartTask,
                 observed, starts, commands>>

-------------------------------------------------------------------------------
StartSteps(c) ==
  \/ LaunchFails(c) \/ LaunchServer(c) \/ AskInitialize(c) \/ InitializeFails(c) \/ Initialized(c)
  \/ Started(c) \/ AuthStatusChecked(c)

StopSteps(c) == ShutdownDone(c) \/ ExitSent(c) \/ CloseTransport(c) \/ Stopped(c)

RequestSteps(c) ==
  \/ RequestDone(c) \/ ConfirmDone(c) \/ ConfirmAgain(c) \/ SignedOut(c)
  \/ HandleStatusNotification(c)

Timers(c) == RestartFires(c) \/ IdleStopFires(c)

TransportSteps ==
  /\ \/ \E c \in Callers : SendRequest(c) \/ RefuseRequest(c)
     \/ \E t \in Transports : HandleProcessExit(t)
     \/ \E t \in Transports : \E id \in responses[t] : DispatchResponse(t, id)
  /\ UNCHANGED serviceVars

ServerSteps ==
  /\ \E t \in Transports :
       ServerExits(t) \/ \E id \in 1..(nextRequestID[t] - 1) : Respond(t, id)
  /\ UNCHANGED serviceVars

UserSteps ==
  \/ AddProvider \/ RemoveProvider \/ SignInStarts
  \/ \E kind \in Requests : SendUserRequest(kind)

Next ==
  \/ TransportSteps \/ ServerSteps \/ UserSteps
  \/ \E c \in Callers : StartSteps(c) \/ StopSteps(c) \/ RequestSteps(c) \/ Timers(c)
  \/ \E t \in Transports : StatusChanges(t)

(* What task c, or an actor on its behalf, does next.                      *)
StepsOf(c) ==
  \/ StartSteps(c) \/ StopSteps(c) \/ RequestSteps(c)
  \/ /\ \/ SendRequest(c) \/ RefuseRequest(c)
        \/ \E t \in Transports : \E e \in pendingRequests[t] : e.caller = c /\ DispatchResponse(t, e.id)
     /\ UNCHANGED serviceVars

(* The app's own steps happen: what is queued on an actor runs, what is in *)
(* a pipe is read, and ensureBinary ends.  No timer need ever fire.        *)
AppFairness ==
  /\ \A c \in Callers : WF_vars(StepsOf(c))
  /\ \A t \in Transports : WF_vars(HandleProcessExit(t) /\ UNCHANGED serviceVars)

(* The server answers what it is asked, or exits.                          *)
ServerFairness ==
  \A c \in Callers :
    WF_vars(/\ \E t \in Transports : \E e \in pendingRequests[t] : e.caller = c /\ Respond(t, e.id)
            /\ UNCHANGED serviceVars)

AppSpec == Init /\ [][Next]_vars /\ AppFairness

Spec == AppSpec /\ ServerFairness
================================================================================
