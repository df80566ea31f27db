----------------------------- MODULE LSPTransport ------------------------------
(***************************************************************************)
(* LSPTransport: one language server process, the requests that await its  *)
(* responses, and the ways they end.                                       *)
(*                                                                         *)
(* The transport is an actor: each of its methods runs in one step, at     *)
(* some time after it was called.  A response in the pipe may be late,     *)
(* duplicated or overtaken by another, the process may exit at any moment, *)
(* and the actor hears of that only when the task which the termination    *)
(* handler creates has run.                                                *)
(***************************************************************************)
EXTENDS Naturals, FiniteSets

CONSTANTS
  Callers,       \* tasks that send requests, one at a time each
  Transports,    \* LSPTransport objects, one for each start of the server
  NoTransport,   \* nil
  Repeating      \* transports whose server may respond to a request more than once

ASSUME NoTransportAssumption == NoTransport \notin Transports
ASSUME RepeatingAssumption == Repeating \subseteq Transports

VARIABLES
  server,           \* transport -> its process as the system sees it
  process,          \* transports whose process property is not nil
  exitNotices,      \* transports with a task for handleProcessExit queued
  nextRequestID,    \* transport -> the id of its next request
  pendingRequests,  \* transport -> ids and the callers whose continuations they hold
  responses,        \* transport -> ids of the responses in its pipe
  call              \* caller -> the request it awaits

transportVars == <<server, process, exitNotices, nextRequestID, pendingRequests, responses, call>>

NoCall == [state |-> "none", transport |-> NoTransport]

Replies  == {"answered", "error"}
Failures == {"refused", "cancelled", "exited"}

(* Mutant: request ids begin at 0.                                         *)
TransportInitZero ==
  /\ server = [t \in Transports |-> "none"]
  /\ process = {}
  /\ exitNotices = {}
  /\ nextRequestID = [t \in Transports |-> 0]
  /\ pendingRequests = [t \in Transports |-> {}]
  /\ responses = [t \in Transports |-> {}]
  /\ call = [c \in Callers |-> NoCall]

TransportInit ==
  /\ server = [t \in Transports |-> "none"]
  /\ process = {}
  /\ exitNotices = {}
  /\ nextRequestID = [t \in Transports |-> 1]
  /\ pendingRequests = [t \in Transports |-> {}]
  /\ responses = [t \in Transports |-> {}]
  /\ call = [c \in Callers |-> NoCall]

-------------------------------------------------------------------------------
(***************************************************************************)
(* Callers.                                                                *)
(***************************************************************************)
(* A caller's await of sendRequest begins and ends.                        *)
Asked(calls, c, t) == [calls EXCEPT ![c] = [state |-> "asked", transport |-> t]]

Taken(calls, c) == [calls EXCEPT ![c] = NoCall]

IsSettled(c) == call[c].state \in Replies \cup Failures

-------------------------------------------------------------------------------
(***************************************************************************)
(* The actor.                                                              *)
(***************************************************************************)
(* start: the process runs, or run() throws.                               *)
Launch(t) ==
  /\ server[t] = "none"
  /\ server' = [server EXCEPT ![t] = "running"]
  /\ process' = process \cup {t}
  /\ UNCHANGED <<exitNotices, nextRequestID, pendingRequests, responses>>

IsRunning(t) == t \in process /\ server[t] = "running"

(* Mutant: a request is registered whether the process runs or not.        *)
SendWithoutGuard(c) ==
  LET t == call[c].transport
  IN  /\ call[c].state = "asked"
      /\ nextRequestID' = [nextRequestID EXCEPT ![t] = @ + 1]
      /\ pendingRequests' = [pendingRequests EXCEPT ![t] = @ \cup {[id |-> nextRequestID[t], caller |-> c]}]
      /\ call' = [call EXCEPT ![c].state = "waiting"]
      /\ UNCHANGED <<server, process, exitNotices, responses>>

SendRequest(c) ==
  LET t == call[c].transport
  IN  /\ call[c].state = "asked"
      /\ IsRunning(t)
      /\ nextRequestID' = [nextRequestID EXCEPT ![t] = @ + 1]
      /\ pendingRequests' = [pendingRequests EXCEPT ![t] = @ \cup {[id |-> nextRequestID[t], caller |-> c]}]
      /\ call' = [call EXCEPT ![c].state = "waiting"]
      /\ UNCHANGED <<server, process, exitNotices, responses>>

(* sendRequest throws processNotRunning.                                   *)
RefuseRequest(c) ==
  /\ call[c].state = "asked"
  /\ ~IsRunning(call[c].transport)
  /\ call' = [call EXCEPT ![c].state = "refused"]
  /\ UNCHANGED <<server, process, exitNotices, nextRequestID, pendingRequests, responses>>

(* What callers hear when the continuations in entries are resumed.        *)
Resumed(entries, outcome) ==
  [c \in Callers |-> IF \E e \in entries : e.caller = c
                     THEN [call[c] EXCEPT !.state = outcome]
                     ELSE call[c]]

(* Mutant: the continuation stays registered after its response.           *)
DispatchAndKeep(t, id) ==
  /\ id \in responses[t]
  /\ t \in process
  /\ responses' = [responses EXCEPT ![t] = @ \ {id}]
  /\ \E outcome \in Replies : call' = Resumed({e \in pendingRequests[t] : e.id = id}, outcome)
  /\ UNCHANGED <<server, process, exitNotices, nextRequestID, pendingRequests>>

(* Mutant: a response without a result resumes nobody.                     *)
DispatchToNobody(t, id) ==
  /\ id \in responses[t]
  /\ t \in process
  /\ responses' = [responses EXCEPT ![t] = @ \ {id}]
  /\ pendingRequests' = [pendingRequests EXCEPT ![t] = {e \in @ : e.id # id}]
  /\ UNCHANGED <<server, process, exitNotices, nextRequestID, call>>

(* runReadLoop and dispatchMessage: a response resumes its continuation,   *)
(* with a result or an error; one to an id that is not pending is dropped. *)
DispatchResponse(t, id) ==
  LET entries == {e \in pendingRequests[t] : e.id = id}
  IN  /\ id \in responses[t]
      /\ t \in process
      /\ responses' = [responses EXCEPT ![t] = @ \ {id}]
      /\ pendingRequests' = [pendingRequests EXCEPT ![t] = @ \ entries]
      /\ \E outcome \in Replies : call' = Resumed(entries, outcome)
      /\ UNCHANGED <<server, process, exitNotices, nextRequestID>>

(* Mutant: the exit is only noted.                                         *)
HandleExitWithoutResume(t) ==
  /\ t \in exitNotices
  /\ exitNotices' = exitNotices \ {t}
  /\ UNCHANGED <<server, process, nextRequestID, pendingRequests, responses, call>>

HandleProcessExit(t) ==
  /\ t \in exitNotices
  /\ exitNotices' = exitNotices \ {t}
  /\ pendingRequests' = [pendingRequests EXCEPT ![t] = {}]
  /\ call' = Resumed(pendingRequests[t], "exited")
  /\ UNCHANGED <<server, process, nextRequestID, responses>>

(* stop: every caller hears requestCancelled, the pipes close, and the     *)
(* process, if it runs, is asked to terminate, which ServerExits does.     *)
StopTransport(t) ==
  /\ process' = process \ {t}
  /\ pendingRequests' = [pendingRequests EXCEPT ![t] = {}]
  /\ responses' = [responses EXCEPT ![t] = {}]
  /\ call' = Resumed(pendingRequests[t], "cancelled")
  /\ UNCHANGED <<server, exitNotices, nextRequestID>>

-------------------------------------------------------------------------------
(***************************************************************************)
(* The server.                                                             *)
(***************************************************************************)
(* It responds to any request it has had, in any order, and maybe again.   *)
Respond(t, id) ==
  /\ IsRunning(t)
  /\ id \in 1..(nextRequestID[t] - 1)
  /\ id \notin responses[t]
  /\ t \in Repeating \/ \E e \in pendingRequests[t] : e.id = id
  /\ responses' = [responses EXCEPT ![t] = @ \cup {id}]
  /\ UNCHANGED <<server, process, exitNotices, nextRequestID, pendingRequests, call>>

(* It crashes, or ends because it was told to.                             *)
ServerExits(t) ==
  /\ server[t] = "running"
  /\ server' = [server EXCEPT ![t] = "exited"]
  /\ exitNotices' = exitNotices \cup {t}
  /\ UNCHANGED <<process, nextRequestID, pendingRequests, responses, call>>
================================================================================
