---------------------------- MODULE RequestOutcomes ----------------------------
(***************************************************************************)
(* What LSPTransport promises its callers, without processes, pipes, ids   *)
(* or messages: a request that is accepted gets exactly one outcome, a     *)
(* reply while its line is open or a failure; closing a line settles every *)
(* request that waits on it in the same step; and whatever is asked is     *)
(* settled in the end, if the other side keeps replying or goes away.      *)
(***************************************************************************)
CONSTANTS
  Callers,    \* those who make requests, one at a time each
  Lines,      \* one for each transport
  NoLine

VARIABLES
  call,       \* caller -> the request it makes
  line        \* line -> whether it has opened and closed

vars == <<call, line>>

NoCall == [state |-> "none", line |-> NoLine]

Init ==
  /\ call = [c \in Callers |-> NoCall]
  /\ line = [l \in Lines |-> "fresh"]

Ask(c, l) ==
  /\ call[c].state = "none"
  /\ call' = [call EXCEPT ![c] = [state |-> "asked", line |-> l]]
  /\ UNCHANGED line

Accept(c) ==
  /\ call[c].state = "asked"
  /\ line[call[c].line] = "open"
  /\ call' = [call EXCEPT ![c].state = "waiting"]
  /\ UNCHANGED line

Refuse(c) ==
  /\ call[c].state = "asked"
  /\ call' = [call EXCEPT ![c].state = "failed"]
  /\ UNCHANGED line

Reply(c) ==
  /\ call[c].state = "waiting"
  /\ line[call[c].line] = "open"
  /\ call' = [call EXCEPT ![c].state = "replied"]
  /\ UNCHANGED line

(* The caller goes on with what it was told.                               *)
Take(c) ==
  /\ call[c].state \in {"replied", "failed"}
  /\ call' = [call EXCEPT ![c] = NoCall]
  /\ UNCHANGED line

Open(l) ==
  /\ line[l] = "fresh"
  /\ line' = [line EXCEPT ![l] = "open"]
  /\ UNCHANGED call

(* Nobody waits on a line that is closed.                                  *)
Close(l) ==
  /\ line[l] = "open"
  /\ line' = [line EXCEPT ![l] = "closed"]
  /\ call' = [c \in Callers |->
                IF call[c].line = l /\ call[c].state = "waiting"
                THEN [call[c] EXCEPT !.state = "failed"]
                ELSE call[c]]

Next ==
  \/ \E c \in Callers : Accept(c) \/ Refuse(c) \/ Reply(c) \/ Take(c)
  \/ \E c \in Callers, l \in Lines : Ask(c, l)
  \/ \E l \in Lines : Open(l) \/ Close(l)

Unsettled(c) == call[c].state \in {"asked", "waiting"}

(* Whatever is asked gets its outcome.                                     *)
EveryCallIsSettled == \A c \in Callers : Unsettled(c) ~> ~Unsettled(c)

Safety == Init /\ [][Next]_vars

Spec == Safety /\ EveryCallIsSettled
================================================================================
