----------------------------- MODULE SignalSpec -----------------------------
(***************************************************************************)
(* What the signal emulation of Emu promises a guest, without the host     *)
(* signals it is built from: a set of posted signals and a mask.  A posted *)
(* signal stays posted until the guest's handler for it is entered, a      *)
(* handler is entered only for a posted signal the mask lets through, and  *)
(* entering it masks the signal itself.                                    *)
(***************************************************************************)
CONSTANT Sig            \* the QNX signal numbers

VARIABLES
    pending,            \* signals posted to the guest and not yet taken
    mask,               \* signals the guest does not want now
    alive

vars == <<pending, mask, alive>>

Init ==
    /\ pending \subseteq Sig
    /\ mask \subseteq Sig
    /\ alive = TRUE

Post(s) ==
    /\ alive
    /\ pending' = pending \cup {s}
    /\ UNCHANGED <<mask, alive>>

(* The handler of s is entered; what else it masks is its own choice.      *)
Take(s) ==
    /\ alive
    /\ s \in pending \ mask
    /\ pending' = pending \ {s}
    /\ mask' \in SUBSET Sig
    /\ mask \cup {s} \subseteq mask'
    /\ UNCHANGED alive

(* The guest changes its mask: sigprocmask, SIG_HOLD or the return of a    *)
(* handler.                                                                *)
SetMask ==
    /\ alive
    /\ mask' \in SUBSET Sig
    /\ UNCHANGED <<pending, alive>>

(* What a dead process leaves behind is of no interest.                    *)
Die ==
    /\ alive
    /\ alive' = FALSE
    /\ pending' \in SUBSET Sig
    /\ mask' \in SUBSET Sig

Next ==
    \/ \E s \in Sig : Post(s) \/ Take(s)
    \/ SetMask
    \/ Die

Spec == Init /\ [][Next]_vars

=============================================================================
