---------------------------- MODULE MCConnections ------------------------------
(* One connection or two.  They differ only in what the cfg puts into      *)
(* Tunnelled and Monitored.                                                *)
EXTENDS ConnectionProperties, TLC

CONSTANTS a, b

OneConnection == {a}
TwoConnections == {a, b}
================================================================================
