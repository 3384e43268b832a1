------------------------------ MODULE MCServer ------------------------------
(* The server for TLC: the constants are sets of model values.             *)
EXTENDS Server
=============================================================================
