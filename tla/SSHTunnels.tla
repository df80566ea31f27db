------------------------------ MODULE SSHTunnels -------------------------------
(***************************************************************************)
(* The actor SSHTunnelManager: at most one tunnel per connection in its    *)
(* table, and the tunnels that run, in the table or not.  A tunnel of a    *)
(* connection is a number that stands for its object and its local port.   *)
(* Each action is one stretch of code between two awaits on the actor.     *)
(***************************************************************************)
EXTENDS Integers, FiniteSets

CONSTANTS
  Connections,  \* the saved connections that are used
  Tunnelled,    \* those with SSH enabled
  MaxTunnels    \* bound on the tunnels of one connection that exist at once

ASSUME TunnelledAssumption == Tunnelled \subseteq Connections
ASSUME TunnelsAssumption == MaxTunnels \in Nat

VARIABLES
  tunnels,  \* connection -> the tunnel in the table, 0 for none
  running   \* connection -> the tunnels whose isAlive is true

tunnelVars == <<tunnels, running>>

TunnelIds == 1..MaxTunnels

TunnelsInit ==
  /\ tunnels = [c \in Connections |-> 0]
  /\ running = [c \in Connections |-> {}]

(* Take the tunnel out of the table and close it; nothing if there is none. *)
CloseTunnel(c) ==
  /\ tunnels' = [tunnels EXCEPT ![c] = 0]
  /\ running' = [running EXCEPT ![c] = @ \ {tunnels[c]}]

(* The connection and authentication of createTunnel have succeeded.  What *)
(* the table held is overwritten.                                          *)
InstallTunnel(c, n) ==
  /\ tunnels' = [tunnels EXCEPT ![c] = n]
  /\ running' = [running EXCEPT ![c] = @ \cup {n}]

(* Keep-alive fails: the tunnel marks itself dead and calls onDeath.       *)
MarkDead(c, n) ==
  /\ n \in running[c]
  /\ running' = [running EXCEPT ![c] = @ \ {n}]
  /\ UNCHANGED tunnels

(* handleTunnelDeath forgets the tunnel that is in the table by then.      *)
ForgetTunnel(c) ==
  /\ tunnels' = [tunnels EXCEPT ![c] = 0]
  /\ UNCHANGED running

(* hasTunnel. *)
HasTunnel(c) == tunnels[c] \in running[c]
================================================================================
