------------------------------- MODULE MCCopilot -------------------------------
(* A task for each start, stop, timer and request that may be there at     *)
(* once.                                                                   *)
EXTENDS CopilotProperties, TLC

ThreeTasks == 1..3
TwoStarts == 1..2
================================================================================
