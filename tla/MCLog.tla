------------------------------- MODULE MCLog -------------------------------
(* The log files for TLC: the constants are numbers.                       *)
EXTENDS LogRotation
=============================================================================
