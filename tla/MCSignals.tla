------------------------------ MODULE MCSignals -----------------------------
(***************************************************************************)
(* Instances of Signals for TLC.  Signal 1 is SIGUSR1, 2 an ordinary one   *)
(* (SIGCHLD, ignored by default), 3 SIGSEGV, and 4 a QNX signal without a  *)
(* host signal (SIGTSTP).  A handler of the guest masks signal 2 as well.  *)
(* qine starts with nothing masked, with SIGUSR1 and the ordinary signal   *)
(* masked, or with SIGSEGV masked.                                         *)
(***************************************************************************)
EXTENDS Signals

MCActMasks == {{2}}
MCInitPend == {{}}
MCInitMasks == {{}, {1, 2}, {3}}
=============================================================================
