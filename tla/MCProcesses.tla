----------------------------- MODULE MCProcesses ----------------------------
(***************************************************************************)
(* Instances of Processes for TLC: host PIDs that compress to the same QNX *)
(* PIDs, and so few QNX PIDs that the linear search wraps around.          *)
(***************************************************************************)
EXTENDS Processes
=============================================================================
