------------------------------ MODULE Signals -------------------------------
(***************************************************************************)
(* The signal emulation of Emu (src/src/emu.cpp): the guest runs natively, *)
(* every guest system call is a SIGSEGV handled by handler_segv, every     *)
(* other host signal a guest listens to is handled by handler_generic, and *)
(* signal_tail, at the end of both, enters the guest's own handler.        *)
(*                                                                         *)
(* There is one thread.  Concurrency comes from the host delivering a      *)
(* signal between any two instructions that do not block it: handler_segv  *)
(* runs with the guest's own host mask, so handler_generic can run on top  *)
(* of it, sets a bit of m_sigpend and returns to the interrupted host      *)
(* code.  pc is the position of that thread:                               *)
(*                                                                         *)
(*   "guest"     guest code                                                *)
(*   "syscall"   handler_segv has recognised a system call                 *)
(*   "rload"     signal_raise(cur), before m_sigpend is read               *)
(*   "rstore"    signal_raise(cur), before m_sigpend is written            *)
(*   "pause"     asleep in the pause() of syscall_receivmx                 *)
(*   "tail"      signal_tail, before m_sigpend is copied to activesig      *)
(*   "pop"       clear_qnx_sig(cur), before m_sigpend is read              *)
(*   "popstore"  clear_qnx_sig(cur), before m_sigpend is written           *)
(*   "raise"     before the guest's handler of cur is set up               *)
(*   "leave"     activesig was empty, before the return to the guest       *)
(*   "dead"      the process has ended                                     *)
(*                                                                         *)
(* Host signals are named by the QNX signal they map to.                   *)
(***************************************************************************)
EXTENDS Integers, Sequences

CONSTANTS
    Sig,            \* QNX signals, QSIGMIN..QSIGMAX
    Mapped,         \* the ones with a host signal (SIG_MAP)
    SEGV,           \* QSIGSEGV, the signal system calls arrive by
    USR1,           \* QSIGUSR1, the signal enter_emu starts the guest with
    Uncatchable,    \* signals whose host sigaction fails
    DflIgnore,      \* signals whose host default action is to be ignored
    Table, NoTable, \* the tables of handlers in guest memory; m_sigtab null
    Acts,           \* the handlers the guest gives to signal_sigact,
    ActMasks,       \* and the masks it gives with them
    Held,           \* the signals the guest masks by its system calls
    InitMasks,      \* the masks qine may be started with
    InitPend,       \* what the uninitialised m_sigpend may start with
    AtomicRMW,      \* m_sigpend |= and &= are one instruction in this build
    MaxPosts,       \* bound: signals sent, raised and faults, together
    MaxActs         \* bound: tables registered and handlers set, together

(* The values of a guest handler: a function, or one of the constants of   *)
(* is_special_sighandler.                                                  *)
Special == {"dfl", "ign", "err", "hold"}
Handler == Special \cup {"fn"}

ASSUME SignalAssumption ==
    /\ Sig \subseteq Nat
    /\ Mapped \subseteq Sig
    /\ SEGV \in Mapped
    /\ USR1 \in Mapped
    /\ SEGV # USR1
    /\ Uncatchable \subseteq Mapped \ {SEGV, USR1}
    /\ DflIgnore \subseteq Mapped
    /\ NoTable \notin Table
    /\ Acts \subseteq Handler \ {"hold"}
    /\ ActMasks \subseteq SUBSET Sig
    /\ Held \subseteq Sig
    /\ InitMasks \subseteq SUBSET Mapped
    /\ InitPend \subseteq SUBSET Sig
    /\ AtomicRMW \in BOOLEAN
    /\ MaxPosts \in Nat
    /\ MaxActs \in Nat

(* An entry of a Qnx::Sigtab.                                              *)
Sigaction == [fn : Handler, mask : SUBSET Sig]
NoAction == [fn |-> "dfl", mask |-> {}]

PC == {"guest", "syscall", "rload", "rstore", "pause", "tail", "pop",
       "popstore", "raise", "leave", "dead"}

VARIABLES
    pc,
    cur,            \* the signal signal_raise or signal_tail works on
    reg,            \* m_sigpend as last loaded by a read-modify-write
    sigpend,        \* Emu::m_sigpend
    sigmask,        \* Emu::m_sigmask
    hmask,          \* the host signal mask of the thread
    kpend,          \* signals pending in the host kernel
    hdisp,          \* the host disposition of each signal
    tables,         \* the contents of the guest's tables, Qnx::Sigtab
    sigtab,         \* Process::m_sigtab
    amiss,          \* signals the guest itself left without a function
    frames,         \* masks saved on the guest stack by signal_tail
    fault,          \* handler_segv is handling a real guest fault
    posts,          \* signals sent, raised and faults so far
    acts            \* tables registered and handlers set so far

host == <<hmask, kpend, hdisp>>
guest == <<tables, sigtab, amiss, frames, acts>>
vars == <<pc, cur, reg, sigpend, sigmask, hmask, kpend, hdisp, tables,
          sigtab, amiss, frames, fault, posts, acts>>

Init ==
    /\ pc = "guest"
    /\ cur = SEGV
    /\ reg = {}
    /\ sigpend \in InitPend
    /\ sigmask \in InitMasks
    /\ hmask = sigmask \ {USR1}
    /\ kpend = {}
    /\ hdisp \in [Sig -> {"dfl", "ign"}]    \* what qine was started with,
    /\ hdisp[USR1] = "dfl"                  \* SA_RESETHAND
    /\ \A s \in Uncatchable \cup (Sig \ Mapped) : hdisp[s] = "dfl"
    /\ hdisp[SEGV] = "dfl"                  \* (stands for handler_segv)
    /\ tables = [t \in Table |-> [s \in Sig |-> NoAction]]
    /\ sigtab = NoTable
    /\ amiss = sigpend
    /\ frames = <<>>
    /\ fault = FALSE
    /\ posts = 0
    /\ acts = 0

-----------------------------------------------------------------------------
(* Helpers.                                                                *)

(* qnx_sigtab; without a table it returns null or throws, and nothing of   *)
(* the entry is used.                                                      *)
qnx_sigtab(s) == IF sigtab = NoTable THEN NoAction ELSE tables[sigtab][s]

is_special_sighandler(act) == act.fn \in Special

(* There is a function to enter for s: signal_tail throws otherwise.       *)
HasFunction(s) == ~is_special_sighandler(qnx_sigtab(s))

(* Mutant: signals without a host signal are kept.                         *)
map_to_host_sigset_kept(S) == S

(* QnxSigset::map_to_host_sigset: signals without a host signal drop out.  *)
map_to_host_sigset(S) == S \cap Mapped

(* sync_host_sigmask: the mask the host restores on return to the guest.   *)
sync_host_sigmask(S) == map_to_host_sigset(S) \ {SEGV}

(* QnxSigset::modify.                                                      *)
modify(S, change, bits) == (S \ change) \cup (bits \cap change)

(* activesig of signal_tail and should_preempt.                            *)
activesig == sigpend \ sigmask

(* QnxSigset::find_first.                                                  *)
find_first(s, S) == s \in S /\ \A t \in S : s <= t

(* The value a read-modify-write of m_sigpend starts from when it stores:  *)
(* an unoptimised build loaded it in an earlier instruction.               *)
Loaded == IF AtomicRMW THEN sigpend ELSE reg

Post == posts < MaxPosts /\ posts' = posts + 1

Act == acts < MaxActs /\ acts' = acts + 1

Die ==
    /\ pc' = "dead"
    /\ fault' = FALSE

-----------------------------------------------------------------------------
(* The host kernel.                                                        *)

(* Another process, a timer, the terminal or the guest's own kill sends s. *)
Send(s) ==
    /\ pc # "dead"
    /\ s \in Mapped
    /\ Post
    /\ kpend' = kpend \cup {s}
    /\ UNCHANGED <<pc, cur, reg, sigpend, sigmask, hmask, hdisp, guest, fault>>

Deliverable(s) ==
    /\ pc # "dead"
    /\ s \in kpend \ hmask
    /\ kpend' = kpend \ {s}
    /\ UNCHANGED <<reg, sigmask, hdisp, guest, posts>>

HostIgnores(s) ==
    \/ hdisp[s] = "ign"
    \/ hdisp[s] = "dfl" /\ s \in DflIgnore

DeliverIgnored(s) ==
    /\ Deliverable(s)
    /\ s # SEGV
    /\ HostIgnores(s)
    /\ UNCHANGED <<pc, cur, sigpend, hmask, fault>>

(* The host's default action ends the process; the handler SIG_ERR is a    *)
(* jump to a bad address, which handler_segv answers with abort().         *)
DeliverFatal(s) ==
    /\ Deliverable(s)
    /\ s # SEGV
    /\ ~HostIgnores(s)
    /\ hdisp[s] # "fn"
    /\ Die
    /\ UNCHANGED <<cur, sigpend, hmask>>

(* handler_generic interrupts guest code: every signal is blocked until    *)
(* the return to the guest.                                                *)
handler_generic(s) ==
    /\ Deliverable(s)
    /\ s # SEGV
    /\ hdisp[s] = "fn"
    /\ pc = "guest"
    /\ sigpend' = sigpend \cup {s}
    /\ hmask' = Mapped
    /\ pc' = "tail"
    /\ UNCHANGED <<cur, fault>>

(* handler_generic interrupts handler_segv: signal_tail sees the host code *)
(* selector and returns to it.  A sleeping pause() ends.                   *)
handler_generic_nested(s) ==
    /\ Deliverable(s)
    /\ s # SEGV
    /\ hdisp[s] = "fn"
    /\ pc # "guest"
    /\ sigpend' = sigpend \cup {s}
    /\ pc' = IF pc = "pause" THEN "tail" ELSE pc
    /\ UNCHANGED <<cur, hmask, fault>>

(* handler_segv for a SIGSEGV that somebody sent (si_code <= 0).           *)
SegvHandled == HasFunction(SEGV)

handler_segv_sent ==
    /\ Deliverable(SEGV)
    /\ \/ /\ ~SegvHandled                       \* abort()
          /\ Die
          /\ UNCHANGED <<cur, sigpend, hmask>>
       \/ /\ SegvHandled
          /\ pc = "guest"
          /\ hmask' = hmask \cup {SEGV}
          /\ cur' = SEGV
          /\ pc' = "rload"
          /\ UNCHANGED <<sigpend, fault>>
       \/ /\ SegvHandled
          /\ pc # "guest"
          /\ sigpend' = sigpend \cup {SEGV}
          /\ pc' = IF pc = "pause" THEN "tail" ELSE pc
          /\ UNCHANGED <<cur, hmask, fault>>

Deliver ==
    \/ \E s \in Mapped : \/ DeliverIgnored(s)
                         \/ DeliverFatal(s)
                         \/ handler_generic(s)
                         \/ handler_generic_nested(s)
    \/ handler_segv_sent

-----------------------------------------------------------------------------
(* The guest.                                                              *)

(* A system call.  A SIGSEGV the host mask blocks kills the process.       *)
Trap ==
    /\ pc = "guest"
    /\ pc' = IF SEGV \in hmask THEN "dead" ELSE "syscall"
    /\ UNCHANGED <<cur, reg, sigpend, sigmask, host, guest, fault, posts>>

(* A fault that is no system call: handle_guest_segv.                      *)
GuestFault ==
    /\ pc = "guest"
    /\ Post
    /\ IF SEGV \in hmask \/ ~SegvHandled
       THEN Die /\ UNCHANGED cur
       ELSE pc' = "rload" /\ cur' = SEGV /\ fault' = TRUE
    /\ UNCHANGED <<reg, sigpend, sigmask, host, guest>>

(* The guest leaves a signal handler by longjmp: no system call is made    *)
(* and the saved frame is forgotten.                                       *)
GuestLongjmp ==
    /\ pc = "guest"
    /\ frames # <<>>
    /\ frames' = Tail(frames)
    /\ UNCHANGED <<pc, cur, reg, sigpend, sigmask, host, tables, sigtab, amiss,
                   fault, posts, acts>>

-----------------------------------------------------------------------------
(* The system calls, in handler_segv.                                      *)

(* Any table, and at any time: the host's dispositions and the pending     *)
(* signals stay those of the table before.  A pointer out of bounds ends   *)
(* as OtherSyscall.                                                        *)
proc_sigtab(t) ==
    /\ pc = "syscall"
    /\ Act
    /\ sigtab' = t
    /\ amiss' = {s \in Sig : /\ hdisp[s] = "fn" \/ s \in sigpend
                            /\ is_special_sighandler(tables[t][s])}
    /\ pc' = "tail"
    /\ UNCHANGED <<cur, reg, sigpend, sigmask, host, tables, frames, fault,
                   posts>>

(* proc_sigact, through signal_sigact: SIG_HOLD only masks the signal.     *)
sigact_hold(s) ==
    /\ pc = "syscall"
    /\ sigmask' = sigmask \cup {s}
    /\ pc' = "tail"
    /\ UNCHANGED <<cur, reg, sigpend, host, guest, fault, posts>>

(* The signal has no host signal, or the host sigaction fails.             *)
sigact_refused(s) ==
    /\ pc = "syscall"
    /\ s \in Uncatchable \cup (Sig \ Mapped)
    /\ pc' = "tail"
    /\ UNCHANGED <<cur, reg, sigpend, sigmask, host, guest, fault, posts>>

(* A handler that is replaced while its signal is pending is missed.       *)
AmissAfter(s, h) ==
    IF h \in Special /\ s \in sigpend THEN amiss \cup {s} ELSE amiss \ {s}

(* Mutant: SIG_DFL changes the guest's table and not the host.             *)
sigact_dfl_kept(s, h, m) ==
    /\ pc = "syscall"
    /\ s \in Mapped \ Uncatchable
    /\ Act
    /\ sigtab # NoTable
    /\ hdisp' = IF s = SEGV \/ h = "dfl" THEN hdisp
                ELSE [hdisp EXCEPT ![s] = h]
    /\ tables' = [tables EXCEPT ![sigtab][s] = [fn |-> h, mask |-> m]]
    /\ amiss' = AmissAfter(s, h)
    /\ pc' = "tail"
    /\ UNCHANGED <<cur, reg, sigpend, sigmask, hmask, kpend, sigtab,
                   frames, fault, posts>>

(* The host disposition is set first, then the guest's table; without a    *)
(* table qnx_sigtab throws and the process ends.  The host forgets a       *)
(* pending signal that is ignored from now on.                             *)
sigact(s, h, m) ==
    /\ pc = "syscall"
    /\ s \in Mapped \ Uncatchable
    /\ Act
    /\ hdisp' = IF s = SEGV THEN hdisp ELSE [hdisp EXCEPT ![s] = h]
    /\ kpend' = IF s # SEGV /\ (h = "ign" \/ (h = "dfl" /\ s \in DflIgnore))
                THEN kpend \ {s} ELSE kpend
    /\ IF sigtab # NoTable
       THEN /\ tables' = [tables EXCEPT ![sigtab][s] = [fn |-> h, mask |-> m]]
            /\ pc' = "tail"
            /\ UNCHANGED fault
       ELSE Die /\ UNCHANGED tables
    /\ amiss' = AmissAfter(s, h)
    /\ UNCHANGED <<cur, reg, sigpend, sigmask, hmask, sigtab, frames, posts>>

proc_sigmask(change, bits) ==
    /\ pc = "syscall"
    /\ sigmask' = modify(sigmask, change, bits)
    /\ pc' = "tail"
    /\ UNCHANGED <<cur, reg, sigpend, host, guest, fault, posts>>

proc_sigraise(s) ==
    /\ pc = "syscall"
    /\ Post
    /\ cur' = s
    /\ amiss' = IF HasFunction(s) THEN amiss ELSE amiss \cup {s}
    /\ pc' = "rload"
    /\ UNCHANGED <<reg, sigpend, sigmask, host, tables, sigtab, frames, fault,
                   acts>>

syscall_sigreturn ==
    /\ pc = "syscall"
    /\ frames # <<>>
    /\ sigmask' = Head(frames)
    /\ frames' = Tail(frames)
    /\ pc' = "tail"
    /\ UNCHANGED <<cur, reg, sigpend, host, tables, sigtab, amiss, fault,
                   posts, acts>>

(* syscall_receivmx for the guest itself: pause().                         *)
syscall_receivmx ==
    /\ pc = "syscall"
    /\ pc' = "pause"
    /\ UNCHANGED <<cur, reg, sigpend, sigmask, host, guest, fault, posts>>

(* Every other system call leaves the signal state alone.                  *)
OtherSyscall ==
    /\ pc = "syscall"
    /\ pc' = "tail"
    /\ UNCHANGED <<cur, reg, sigpend, sigmask, host, guest, fault, posts>>

Syscall ==
    \/ \E t \in Table : proc_sigtab(t)
    \/ \E s \in Held : sigact_hold(s)
    \/ \E s \in Sig : \/ sigact_refused(s)
                      \/ \E h \in Acts, m \in ActMasks : sigact(s, h, m)
                      \/ proc_sigraise(s)
    \/ \E change \in SUBSET Held : \E bits \in SUBSET change :
          proc_sigmask(change, bits)
    \/ syscall_sigreturn
    \/ syscall_receivmx
    \/ OtherSyscall

-----------------------------------------------------------------------------
(* signal_raise: m_sigpend |= cur.                                         *)

RaiseLoad ==
    /\ pc = "rload"
    /\ reg' = sigpend
    /\ pc' = "rstore"
    /\ UNCHANGED <<cur, sigpend, sigmask, host, guest, fault, posts>>

RaiseStore ==
    /\ pc = "rstore"
    /\ sigpend' = Loaded \cup {cur}
    /\ reg' = {}
    /\ pc' = "tail"
    /\ UNCHANGED <<cur, sigmask, host, guest, fault, posts>>

-----------------------------------------------------------------------------
(* signal_tail, returning to guest code.                                   *)

(* Mutant: returns to the guest whatever is pending.                       *)
TailEmpty_always ==
    /\ pc = "tail"
    /\ pc' = "leave"
    /\ UNCHANGED <<cur, reg, sigpend, sigmask, host, guest, fault, posts>>

(* Mutant: the host's mask is taken for the guest's.                       *)
TailEmpty_hostmask ==
    /\ pc = "tail"
    /\ sigpend \ hmask = {}
    /\ pc' = "leave"
    /\ UNCHANGED <<cur, reg, sigpend, sigmask, host, guest, fault, posts>>

TailEmpty ==
    /\ pc = "tail"
    /\ activesig = {}
    /\ pc' = "leave"
    /\ UNCHANGED <<cur, reg, sigpend, sigmask, host, guest, fault, posts>>

(* Mutant: the mask is forgotten.                                          *)
TailPop_masked ==
    /\ pc = "tail"
    /\ \E s \in Sig : find_first(s, sigpend) /\ cur' = s
    /\ pc' = "pop"
    /\ UNCHANGED <<reg, sigpend, sigmask, host, guest, fault, posts>>

TailPop ==
    /\ pc = "tail"
    /\ \E s \in Sig : find_first(s, activesig) /\ cur' = s
    /\ pc' = "pop"
    /\ UNCHANGED <<reg, sigpend, sigmask, host, guest, fault, posts>>

PopLoad ==
    /\ pc = "pop"
    /\ reg' = sigpend
    /\ pc' = "popstore"
    /\ UNCHANGED <<cur, sigpend, sigmask, host, guest, fault, posts>>

(* Mutant: every pending signal is cleared.                                *)
PopStore_all ==
    /\ pc = "popstore"
    /\ sigpend' = {}
    /\ reg' = {}
    /\ pc' = "raise"
    /\ UNCHANGED <<cur, sigmask, host, guest, fault, posts>>

PopStore ==
    /\ pc = "popstore"
    /\ sigpend' = Loaded \ {cur}
    /\ reg' = {}
    /\ pc' = "raise"
    /\ UNCHANGED <<cur, sigmask, host, guest, fault, posts>>

(* The mask the guest's handler of s runs with.                            *)
HandlerMask(s) == sigmask \cup qnx_sigtab(s).mask \cup {s}

(* The guest's handler is set up and returned to.                          *)
Raise ==
    /\ pc = "raise"
    /\ HasFunction(cur)
    /\ frames' = <<sigmask>> \o frames
    /\ sigmask' = HandlerMask(cur)
    /\ hmask' = sync_host_sigmask(sigmask')
    /\ pc' = "guest"
    /\ fault' = FALSE
    /\ UNCHANGED <<cur, reg, sigpend, kpend, hdisp, tables, sigtab, amiss,
                   posts, acts>>

(* The exceptions that leave signal_tail and end the process: no table, no *)
(* function to call, or a guest stack the frame cannot be pushed on.       *)
RaiseThrows ==
    /\ pc = "raise"
    /\ Die
    /\ UNCHANGED <<cur, reg, sigpend, sigmask, host, guest, posts>>

(* Mutant: the host mask is not synchronised.                              *)
Leave_unsynced ==
    /\ pc = "leave"
    /\ pc' = "guest"
    /\ fault' = FALSE
    /\ UNCHANGED <<cur, reg, sigpend, sigmask, host, guest, posts>>

Leave ==
    /\ pc = "leave"
    /\ hmask' = sync_host_sigmask(sigmask)
    /\ pc' = "guest"
    /\ fault' = FALSE
    /\ UNCHANGED <<cur, reg, sigpend, sigmask, kpend, hdisp, guest, posts>>

-----------------------------------------------------------------------------
HandlerStep ==
    \/ Syscall \/ RaiseLoad \/ RaiseStore
    \/ TailEmpty \/ TailPop \/ PopLoad \/ PopStore \/ Raise \/ RaiseThrows
    \/ Leave

Next ==
    \/ \E s \in Sig : Send(s)
    \/ Deliver
    \/ Trap \/ GuestFault \/ GuestLongjmp
    \/ HandlerStep

Spec == Init /\ [][Next]_vars

(* The thread keeps running its handlers, the host delivers what it may,   *)
(* and the guest keeps making system calls.                                *)
FairSpec ==
    /\ Spec
    /\ WF_vars(HandlerStep)
    /\ WF_vars(Deliver)
    /\ WF_vars(Trap)

-----------------------------------------------------------------------------
(* Properties.                                                             *)

TypeOK ==
    /\ pc \in PC
    /\ cur \in Sig
    /\ reg \in SUBSET Sig
    /\ sigpend \in SUBSET Sig
    /\ sigmask \in SUBSET Sig
    /\ hmask \in SUBSET Mapped
    /\ kpend \in SUBSET Mapped
    /\ hdisp \in [Sig -> Handler]
    /\ tables \in [Table -> [Sig -> Sigaction]]
    /\ sigtab \in Table \cup {NoTable}
    /\ amiss \in SUBSET Sig
    /\ frames \in Seq(SUBSET Sig)
    /\ fault \in BOOLEAN
    /\ posts \in Nat
    /\ acts \in Nat

(* While guest code runs the host blocks exactly the signals the guest     *)
(* masks, SIGSEGV excepted (sync_host_sigmask) and excepting the start-up, *)
(* where enter_emu has unblocked SIGUSR1: system calls whose effect        *)
(* depends on the mask, like tcsetpgrp with SIGTTOU, rely on it.           *)
MaskSynced ==
    pc = "guest" =>
        /\ hmask \ {SEGV, USR1} = map_to_host_sigset(sigmask) \ {SEGV, USR1}
        /\ USR1 \in hmask => USR1 \in sigmask

(* signal_tail finds a function in the guest's table for the signal it     *)
(* took ("handler not registered -- should not happen"), whatever order of *)
(* sigact, refused sigact, SIG_HOLD, faults and sent signals led there.    *)
(* The exception is left only to signals the guest itself took the         *)
(* function away from (amiss): raised without one, replaced by a special   *)
(* handler while pending, or missing in a table registered later.          *)
HandlerFound == pc = "raise" /\ cur \notin amiss => HasFunction(cur)

(* The signal signal_tail takes is still pending and unmasked whatever     *)
(* handlers ran on top of it since it looked, and still unmasked when the  *)
(* guest's handler is set up.                                              *)
PoppedIsActive ==
    /\ pc \in {"pop", "popstore"} => cur \in activesig
    /\ pc = "raise" => cur \notin sigmask

(* A signal that interrupts guest code is not left behind: with every      *)
(* signal blocked (the sa_mask of signal_sigact) nothing unmasked is       *)
(* pending when signal_tail returns without raising.                       *)
GenericLeavesNothing ==
    pc = "leave" /\ hmask = Mapped => activesig = {}

(* Signals implements SignalSpec: no step of any handler loses a pending   *)
(* signal, raises one twice or raises a masked one.  The abstract handler  *)
(* entry is the write of m_sigpend in signal_tail.                         *)
Promise == INSTANCE SignalSpec WITH
    pending <- sigpend,
    mask <- IF pc = "raise" THEN HandlerMask(cur) ELSE sigmask,
    alive <- pc # "dead"

ImplementsSignalSpec == Promise!Spec

(* A pending signal the guest does not mask is raised, or masked, in the   *)
(* end, even when the return to the guest just missed it: a guest that     *)
(* keeps making system calls gets it, unless it sleeps in pause().         *)
RaisedEventually ==
    \A s \in Sig :
        (pc # "dead" /\ s \in activesig)
            ~> (s \notin activesig \/ pc \in {"dead", "pause"})

(* What the source says and the code does not do; refuted by a run of its  *)
(* own.                                                                    *)

(* syscall_receivmx: "slib:pause uses it as e.g. "pause" (=wait for        *)
(* signal)": with an unmasked signal pending there is nothing to wait for. *)
PauseSleepsIdle == pc = "pause" => activesig = {}

=============================================================================
