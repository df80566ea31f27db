-------------------------------- MODULE MCSync --------------------------------
(* Two Macs with a connection and a group.                                 *)
EXTENDS SyncProperties

CONSTANTS d1, d2, c, g

TwoMacs == {d1, d2}
================================================================================
