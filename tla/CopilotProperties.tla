--------------------------- MODULE CopilotProperties ---------------------------
(* What the language server's transport and the service that keeps it      *)
(* promise.                                                                *)
EXTENDS CopilotService

Pcs == {"none", "sleep", "binary", "launched", "initialize", "register", "checkStatus",
        "shutdown", "exit", "close", "closed", "reply", "poll", "queued"}

Kinds == {"none", "start", "restart", "stop", "idle", "status"} \cup AllRequests

CallRecords ==
  [state : {"none", "asked", "waiting"} \cup Replies \cup Failures,
   transport : Transports \cup {NoTransport}]

TaskRecords == [kind : Kinds, pc : Pcs, transport : Transports \cup {NoTransport}]

(* Type correctness.                                                       *)
TypeOK ==
  /\ server \in [Transports -> {"none", "running", "exited"}]
  /\ process \subseteq Transports
  /\ exitNotices \subseteq Transports
  /\ nextRequestID \in [Transports -> Nat \ {0}]
  /\ pendingRequests \in [Transports -> SUBSET [id : Nat \ {0}, caller : Callers]]
  /\ responses \in [Transports -> SUBSET (Nat \ {0})]
  /\ call \in [Callers -> CallRecords]
  /\ configured \in BOOLEAN
  /\ status \in {"stopped", "starting", "running", "error", "noBinary"}
  /\ transport \in Transports \cup {NoTransport}
  /\ serverGeneration \in Callers \cup {0}
  /\ restartTask \in Callers \cup {0}
  /\ idleStop \in Callers \cup {0}
  /\ authenticated \in BOOLEAN
  /\ observed \subseteq Transports
  /\ tasks \in [Callers -> TaskRecords]
  /\ starts \in 0..MaxStarts
  /\ commands \in 0..MaxCommands

(* A request that is pending will hear: its process runs, or the exit is   *)
(* still to be handled.  A continuation left behind by stop() or by        *)
(* handleProcessExit would keep its task, and stop() with it, for ever.    *)
PendingIsLive ==
  \A t \in Transports :
    pendingRequests[t] # {} => t \in process /\ (server[t] = "running" \/ t \in exitNotices)

(* A start in progress is somebody's work: the start that took the latest  *)
(* generation has not returned, or a stop is about to set the status.      *)
StartingIsWorkedOn ==
  status = "starting" =>
    \/ serverGeneration # 0 /\ tasks[serverGeneration].kind = "start"
    \/ \E c \in Callers : tasks[c].kind = "stop"

(* After a failure that may go away the restart timer is running, unless   *)
(* the service is being stopped.                                           *)
ErrorIsRetried ==
  status = "error" =>
    \/ restartTask # 0 /\ IsTask(restartTask, "restart", "sleep")
    \/ \E c \in Callers : tasks[c].kind = "stop"

LineState(t) ==
  IF server[t] = "none" THEN "fresh"
  ELSE IF t \in process /\ (server[t] = "running" \/ t \in exitNotices) THEN "open"
  ELSE "closed"

CallState(c) ==
  IF call[c].state \in Replies THEN "replied"
  ELSE IF call[c].state \in Failures THEN "failed"
  ELSE call[c].state

Outcomes == INSTANCE RequestOutcomes WITH
  Lines <- Transports,
  NoLine <- NoTransport,
  call <- [c \in Callers |-> [state |-> CallState(c), line |-> call[c].transport]],
  line <- [t \in Transports |-> LineState(t)]

(* Each request gets one outcome, from the server it was sent to while the *)
(* line was open or from what closed that line: every step of the service  *)
(* is a step of RequestOutcomes or none of its business.                   *)
OneOutcomePerRequest == Outcomes!Safety

(* And it gets it, as long as servers answer or exit: with the above, the  *)
(* service implements Outcomes!Spec.                                       *)
EveryRequestIsSettled == Outcomes!EveryCallIsSettled

(* A start ends, as long as servers answer or exit.                        *)
StartEnds == status = "starting" ~> status # "starting"

(* stop() ends, as long as servers answer or exit.  It does not bound the  *)
(* wait for the shutdown answer itself, though it logs "Copilot shutdown   *)
(* RPC timed out, forcing exit".                                           *)
StopEnds == \A c \in Callers : tasks[c].kind = "stop" ~> tasks[c].kind # "stop"

(* "The Copilot language server starts when you add a Copilot provider and *)
(* stops when you remove it": once everything has come to rest, a removed  *)
(* provider has no server.                                                 *)
ServerStopsWhenRemoved ==
  ~configured /\ (\A c \in Callers : tasks[c].kind = "none")
    => transport = NoTransport /\ \A t \in process : server[t] # "running"
================================================================================
