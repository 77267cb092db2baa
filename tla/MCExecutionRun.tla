--------------------------- MODULE MCExecutionRun ---------------------------
(* Instance of ExecutionRun for TLC.                                         *)
EXTENDS ExecutionRun, TLC

CONSTANTS h1, f1
=============================================================================
