--------------------------- MODULE SignalsProofs ----------------------------
(***************************************************************************)
(* Proofs about Signals, for every set of signals, every mapping to host   *)
(* signals and any number of posted signals.                               *)
(***************************************************************************)
EXTENDS Signals, TLAPS

(* Every system call in one definition, without the existential            *)
(* quantifiers of Syscall: the case split all step proofs share.           *)
LEMMA SyscallCases ==
  ASSUME Syscall
  PROVE  \/ syscall_sigreturn \/ syscall_receivmx \/ OtherSyscall
         \/ \E t \in Table : proc_sigtab(t)
         \/ \E s \in Sig : sigact_hold(s) \/ sigact_refused(s)
                           \/ proc_sigraise(s)
         \/ \E s \in Sig, h \in Handler, m \in ActMasks : sigact(s, h, m)
         \/ \E change, bits \in SUBSET Sig : proc_sigmask(change, bits)
BY SignalAssumption DEF Syscall

(* The mask a handler runs with is a set of signals that holds what was    *)
(* masked before and the signal itself.                                    *)
LEMMA HandlerMaskType ==
  ASSUME TypeOK, NEW s \in Sig
  PROVE  /\ HandlerMask(s) \in SUBSET Sig
         /\ sigmask \cup {s} \subseteq HandlerMask(s)
<1>1. qnx_sigtab(s) \in Sigaction
    BY DEF TypeOK, qnx_sigtab, Sigaction, NoAction, Handler, Special
<1>2. qnx_sigtab(s).mask \in SUBSET Sig
    BY <1>1 DEF Sigaction
<1> QED BY <1>2 DEF HandlerMask, TypeOK

(* The type invariant of Signals holds initially.                          *)
LEMMA TypeInit == Init => TypeOK
<1> SUFFICES ASSUME Init PROVE TypeOK
    OBVIOUS
<1>1. frames \in Seq(SUBSET Sig)
    BY DEF Init
<1>2. tables \in [Table -> [Sig -> Sigaction]]
    BY DEF Init, Sigaction, NoAction, Handler, Special
<1>3. hdisp \in [Sig -> Handler]
    BY DEF Init, Handler, Special
<1> QED BY <1>1, <1>2, <1>3, SignalAssumption DEF Init, TypeOK, PC

(* A delivery by the host kernel keeps the types.                          *)
LEMMA TypeDeliver == TypeOK /\ Deliver => TypeOK'
<1> SUFFICES ASSUME TypeOK, Deliver PROVE TypeOK'
    OBVIOUS
<1> USE SignalAssumption DEF TypeOK, Deliverable, guest, PC
<1>1. ASSUME NEW s \in Mapped, DeliverIgnored(s) PROVE TypeOK'
    BY <1>1 DEF DeliverIgnored
<1>2. ASSUME NEW s \in Mapped, DeliverFatal(s) PROVE TypeOK'
    BY <1>2 DEF DeliverFatal, Die
<1>3. ASSUME NEW s \in Mapped, handler_generic(s) PROVE TypeOK'
    BY <1>3 DEF handler_generic
<1>4. ASSUME NEW s \in Mapped, handler_generic_nested(s) PROVE TypeOK'
    BY <1>4 DEF handler_generic_nested
<1>5. ASSUME handler_segv_sent PROVE TypeOK'
  <2>1. /\ kpend' = kpend \ {SEGV}
        /\ UNCHANGED <<reg, sigmask, hdisp, guest, posts>>
    BY <1>5 DEF handler_segv_sent
  <2>2. \/ pc' = "dead" /\ fault' = FALSE /\ UNCHANGED <<cur, sigpend, hmask>>
        \/ /\ pc' = "rload" /\ cur' = SEGV /\ hmask' = hmask \cup {SEGV}
           /\ UNCHANGED <<sigpend, fault>>
        \/ /\ pc' = "tail" \/ pc' = pc
           /\ sigpend' = sigpend \cup {SEGV}
           /\ UNCHANGED <<cur, hmask, fault>>
    <3> HIDE SignalAssumption DEF TypeOK, Deliverable, guest, PC
    <3> QED BY <1>5, ZenonT(40) DEF handler_segv_sent, Die
  <2>3. pc' \in PC /\ fault' \in BOOLEAN
    BY <2>2
  <2>4. cur' \in Sig /\ sigpend' \in SUBSET Sig
    <3>1. /\ sigpend' = sigpend \/ sigpend' = sigpend \cup {SEGV}
          /\ cur' = cur \/ cur' = SEGV
      BY <2>2
    <3>2. SEGV \in Sig /\ cur \in Sig /\ sigpend \in SUBSET Sig
      OBVIOUS
    <3> HIDE SignalAssumption DEF TypeOK
    <3> QED BY <3>1, <3>2
  <2>5. hmask' \in SUBSET Mapped /\ kpend' \in SUBSET Mapped
    BY <2>1, <2>2
  <2> QED BY <2>1, <2>3, <2>4, <2>5
<1> QED BY <1>1, <1>2, <1>3, <1>4, <1>5 DEF Deliver

(* A system call keeps the types.                                          *)
LEMMA TypeSyscall == TypeOK /\ Syscall => TypeOK'
<1> SUFFICES ASSUME TypeOK, Syscall PROVE TypeOK'
    OBVIOUS
<1> USE SignalAssumption DEF TypeOK, host, guest, PC
<1>1. ASSUME NEW t \in Table, proc_sigtab(t) PROVE TypeOK'
    BY <1>1 DEF proc_sigtab, Act
<1>2. ASSUME syscall_sigreturn PROVE TypeOK'
    BY <1>2 DEF syscall_sigreturn
<1>3. ASSUME syscall_receivmx \/ OtherSyscall PROVE TypeOK'
    BY <1>3 DEF syscall_receivmx, OtherSyscall
<1>4. ASSUME NEW s \in Sig, sigact_hold(s) \/ sigact_refused(s)
      PROVE  TypeOK'
    BY <1>4 DEF sigact_hold, sigact_refused
<1>5. ASSUME NEW s \in Sig, proc_sigraise(s) PROVE TypeOK'
  <2>1. amiss' \in SUBSET Sig
    BY <1>5 DEF proc_sigraise
  <2> QED BY <1>5, <2>1 DEF proc_sigraise, Post
<1>6. ASSUME NEW s \in Sig, NEW h \in Handler, NEW m \in ActMasks,
             sigact(s, h, m)
      PROVE  TypeOK'
  <2>1. tables' \in [Table -> [Sig -> Sigaction]]
    <3>1. [fn |-> h, mask |-> m] \in Sigaction
      BY DEF Sigaction
    <3>2. \/ tables' = tables
          \/ /\ sigtab \in Table
             /\ tables' = [tables EXCEPT ![sigtab][s] = [fn |-> h, mask |-> m]]
      BY <1>6 DEF sigact
    <3> HIDE SignalAssumption DEF TypeOK
    <3>3. tables \in [Table -> [Sig -> Sigaction]]
      BY DEF TypeOK
    <3> QED BY <3>1, <3>2, <3>3
  <2>2. hdisp' \in [Sig -> Handler]
    BY <1>6 DEF sigact
  <2>3. amiss' \in SUBSET Sig
    BY <1>6 DEF sigact, AmissAfter
  <2>4. pc' \in PC /\ fault' \in BOOLEAN
    BY <1>6 DEF sigact, Die
  <2>5. kpend' \in SUBSET Mapped
    BY <1>6 DEF sigact
  <2> QED BY <1>6, <2>1, <2>2, <2>3, <2>4, <2>5 DEF sigact, Act
<1>7. ASSUME NEW change \in SUBSET Sig, NEW bits \in SUBSET Sig,
             proc_sigmask(change, bits)
      PROVE  TypeOK'
    BY <1>7 DEF proc_sigmask, modify
<1> QED BY <1>1, <1>2, <1>3, <1>4, <1>5, <1>6, <1>7, SyscallCases

(* Every step of Signals keeps the types.                                  *)
LEMMA TypeStep == TypeOK /\ [Next]_vars => TypeOK'
<1> SUFFICES ASSUME TypeOK, [Next]_vars PROVE TypeOK'
    OBVIOUS
<1>1. CASE Deliver
    BY <1>1, TypeDeliver
<1>2. CASE Syscall
    BY <1>2, TypeSyscall
<1> USE SignalAssumption DEF TypeOK, host, guest, PC
<1>3. ASSUME NEW s \in Sig, Send(s) PROVE TypeOK'
    BY <1>3 DEF Send, Post
<1>4. CASE Trap
    BY <1>4 DEF Trap
<1>5. CASE GuestFault
  <2>1. /\ pc' \in {"dead", "rload"}
        /\ cur' \in {cur, SEGV}
        /\ fault' \in BOOLEAN
    BY <1>5 DEF GuestFault, Die
  <2> QED BY <1>5, <2>1 DEF GuestFault, Post
<1>6. CASE GuestLongjmp
    BY <1>6 DEF GuestLongjmp
<1>7. CASE RaiseLoad \/ PopLoad
    BY <1>7 DEF RaiseLoad, PopLoad
<1>8. CASE RaiseStore \/ PopStore
    BY <1>8 DEF RaiseStore, PopStore, Loaded
<1>9. CASE TailEmpty \/ TailPop
    BY <1>9 DEF TailEmpty, TailPop
<1>10. CASE Raise
  <2>1. frames' \in Seq(SUBSET Sig)
    BY <1>10 DEF Raise
  <2>2. sigmask' \in SUBSET Sig
    BY <1>10, HandlerMaskType DEF Raise
  <2>3. hmask' \in SUBSET Mapped
    BY <1>10, <2>2 DEF Raise, sync_host_sigmask, map_to_host_sigset
  <2> QED BY <1>10, <2>1, <2>2, <2>3 DEF Raise
<1>11. CASE RaiseThrows
    BY <1>11 DEF RaiseThrows, Die
<1>12. CASE Leave
    BY <1>12 DEF Leave, sync_host_sigmask, map_to_host_sigset
<1>13. CASE UNCHANGED vars
    BY <1>13 DEF vars
<1> QED
    BY <1>1, <1>2, <1>3, <1>4, <1>5, <1>6, <1>7, <1>8, <1>9, <1>10, <1>11,
       <1>12, <1>13 DEF Next, HandlerStep

(* Type correctness: in every reachable state of the signal emulation each *)
(* component of Emu's signal state, of the host's and of the guest's has   *)
(* its type; in particular the host mask only ever holds host signals.     *)
THEOREM TypeCorrect == Spec => []TypeOK
<1>1. Init => TypeOK
    BY TypeInit
<1>2. TypeOK /\ [Next]_vars => TypeOK'
    BY TypeStep
<1> QED BY <1>1, <1>2, PTL DEF Spec

-----------------------------------------------------------------------------
(* The invariants of signal_tail.                                          *)

(* A system call starts at "syscall" and ends in the dispatch of           *)
(* handler_segv: it never touches the host mask or m_sigpend.              *)
LEMMA SyscallFrame ==
  ASSUME Syscall
  PROVE  /\ pc = "syscall"
         /\ pc' \in {"tail", "pause", "rload", "dead"}
         /\ hmask' = hmask
         /\ sigpend' = sigpend
<1> USE DEF host, Die
<1> QED
    BY SyscallCases DEF proc_sigtab, syscall_sigreturn, syscall_receivmx,
       OtherSyscall, sigact_hold, sigact_refused, proc_sigraise, sigact,
       proc_sigmask

(* What a delivery does to the thread: it posts, wakes a pause() or ends   *)
(* the process, and moves the thread only from guest code.                 *)
LEMMA DeliverFrame ==
  ASSUME TypeOK, Deliver
  PROVE  /\ pc # "dead"
         /\ sigmask' = sigmask
         /\ guest' = guest
         /\ hdisp' = hdisp
         /\ sigpend \subseteq sigpend'
         /\ sigpend' # sigpend => ~(Mapped \subseteq hmask)
         /\ \/ pc' = "dead" /\ hmask' = hmask
            \/ pc = "guest" /\ pc' = pc /\ hmask' = hmask
            \/ pc = "guest" /\ pc' \in {"tail", "rload"}
            \/ /\ pc # "guest"
               /\ pc' = IF pc = "pause" THEN "tail" ELSE pc
               /\ cur' = cur
               /\ hmask' = hmask
            \/ pc' = pc /\ cur' = cur /\ hmask' = hmask
<1> USE SignalAssumption DEF TypeOK, Deliverable, guest
<1> DEFINE G == /\ pc # "dead"
                /\ sigmask' = sigmask
                /\ guest' = guest
                /\ hdisp' = hdisp
                /\ sigpend \subseteq sigpend'
                /\ sigpend' # sigpend => ~(Mapped \subseteq hmask)
           H == \/ pc' = "dead" /\ hmask' = hmask
                \/ pc = "guest" /\ pc' = pc /\ hmask' = hmask
                \/ pc = "guest" /\ pc' \in {"tail", "rload"}
                \/ /\ pc # "guest"
                   /\ pc' = IF pc = "pause" THEN "tail" ELSE pc
                   /\ cur' = cur
                   /\ hmask' = hmask
                \/ pc' = pc /\ cur' = cur /\ hmask' = hmask
<1>1. ASSUME NEW s \in Mapped, DeliverIgnored(s) PROVE G /\ H
    BY <1>1 DEF DeliverIgnored
<1>2. ASSUME NEW s \in Mapped, DeliverFatal(s) PROVE G /\ H
    BY <1>2 DEF DeliverFatal, Die
<1>3. ASSUME NEW s \in Mapped, handler_generic(s) PROVE G /\ H
    BY <1>3 DEF handler_generic
<1>4. ASSUME NEW s \in Mapped, handler_generic_nested(s) PROVE G /\ H
    BY <1>4 DEF handler_generic_nested
<1>5. ASSUME handler_segv_sent PROVE G /\ H
    BY <1>5 DEF handler_segv_sent, Die
<1> QED BY <1>1, <1>2, <1>3, <1>4, <1>5 DEF Deliver

(* PoppedIsActive is inductive: nested handlers only add to m_sigpend.     *)
LEMMA PoppedStep == TypeOK /\ PoppedIsActive /\ [Next]_vars => PoppedIsActive'
<1> SUFFICES ASSUME TypeOK, PoppedIsActive, [Next]_vars
             PROVE  PoppedIsActive'
    OBVIOUS
<1> USE DEF PoppedIsActive, activesig
<1>1. CASE Deliver
    BY <1>1, DeliverFrame
<1>2. CASE Syscall
    BY <1>2, SyscallFrame
<1>3. ASSUME NEW s \in Sig, Send(s) PROVE PoppedIsActive'
    BY <1>3 DEF Send
<1>4. CASE Trap \/ GuestFault \/ GuestLongjmp
    BY <1>4 DEF Trap, GuestFault, GuestLongjmp, Die
<1>5. CASE RaiseLoad \/ RaiseStore \/ TailEmpty \/ Leave \/ RaiseThrows
    BY <1>5 DEF RaiseLoad, RaiseStore, TailEmpty, Leave, RaiseThrows, Die
<1>6. CASE TailPop
    BY <1>6 DEF TailPop, find_first
<1>7. CASE PopLoad \/ PopStore
    BY <1>7 DEF PopLoad, PopStore
<1>8. CASE Raise
    BY <1>8 DEF Raise
<1>9. CASE UNCHANGED vars
    BY <1>9 DEF vars
<1> QED
    BY <1>1, <1>2, <1>3, <1>4, <1>5, <1>6, <1>7, <1>8, <1>9
       DEF Next, HandlerStep

(* GenericLeavesNothing is inductive: with every host signal blocked       *)
(* nothing can be delivered between the copy of m_sigpend and the return.  *)
LEMMA GenericStep ==
  TypeOK /\ GenericLeavesNothing /\ [Next]_vars => GenericLeavesNothing'
<1> SUFFICES ASSUME TypeOK, GenericLeavesNothing, [Next]_vars
             PROVE  GenericLeavesNothing'
    OBVIOUS
<1> USE DEF GenericLeavesNothing, activesig
<1>1. CASE Deliver
    BY <1>1, DeliverFrame
<1>2. CASE Syscall
    BY <1>2, SyscallFrame
<1>3. ASSUME NEW s \in Sig, Send(s) PROVE GenericLeavesNothing'
    BY <1>3 DEF Send
<1>4. CASE Trap \/ GuestFault \/ GuestLongjmp
    BY <1>4 DEF Trap, GuestFault, GuestLongjmp, Die
<1>5. CASE RaiseLoad \/ RaiseStore \/ Leave \/ RaiseThrows \/ Raise
    BY <1>5 DEF RaiseLoad, RaiseStore, Leave, RaiseThrows, Raise, Die
<1>6. CASE TailPop \/ PopLoad \/ PopStore
    BY <1>6 DEF TailPop, PopLoad, PopStore
<1>7. CASE TailEmpty
    BY <1>7 DEF TailEmpty
<1>8. CASE UNCHANGED vars
    BY <1>8 DEF vars
<1> QED
    BY <1>1, <1>2, <1>3, <1>4, <1>5, <1>6, <1>7, <1>8 DEF Next, HandlerStep

(* MaskSynced is inductive: guest code is entered only through             *)
(* sync_host_sigmask.                                                      *)
LEMMA MaskStep == TypeOK /\ MaskSynced /\ [Next]_vars => MaskSynced'
<1> SUFFICES ASSUME TypeOK, MaskSynced, [Next]_vars PROVE MaskSynced'
    OBVIOUS
<1> USE SignalAssumption DEF MaskSynced, map_to_host_sigset
<1>1. CASE Deliver
    BY <1>1, DeliverFrame
<1>2. CASE Syscall
    BY <1>2, SyscallFrame
<1>3. ASSUME NEW s \in Sig, Send(s) PROVE MaskSynced'
    BY <1>3 DEF Send
<1>4. CASE Trap \/ GuestFault
    BY <1>4 DEF Trap, GuestFault, Die
<1>5. CASE GuestLongjmp
    BY <1>5 DEF GuestLongjmp, host
<1>6. CASE RaiseLoad \/ RaiseStore \/ TailEmpty \/ TailPop \/ PopLoad
           \/ PopStore \/ RaiseThrows
    BY <1>6 DEF RaiseLoad, RaiseStore, TailEmpty, TailPop, PopLoad,
       PopStore, RaiseThrows, Die
<1>7. CASE Raise
    BY <1>7 DEF Raise, sync_host_sigmask
<1>8. CASE Leave
    BY <1>8 DEF Leave, sync_host_sigmask
<1>9. CASE UNCHANGED vars
    BY <1>9 DEF vars
<1> QED
    BY <1>1, <1>2, <1>3, <1>4, <1>5, <1>6, <1>7, <1>8, <1>9
       DEF Next, HandlerStep

(* What makes HandlerFound inductive: every signal that is pending, about  *)
(* to be raised or caught by the host has a function, the excepted ones    *)
(* aside; a stale copy of m_sigpend names no others.                       *)
Served(s) ==
    \/ s \in sigpend
    \/ hdisp[s] = "fn"
    \/ pc \in {"rload", "rstore", "raise"} /\ s = cur

AllServed ==
    pc # "dead" =>
        /\ reg \subseteq sigpend
        /\ hdisp[SEGV] # "fn"
        /\ \A s \in Sig \ amiss : Served(s) => HasFunction(s)

(* The host kernel calls a handler of qine only for a signal that has a    *)
(* function: through the disposition, or through the test of               *)
(* handle_guest_segv.                                                      *)
LEMMA ServedDeliver == TypeOK /\ AllServed /\ Deliver => AllServed'
<1> SUFFICES ASSUME TypeOK, AllServed, Deliver PROVE AllServed'
    OBVIOUS
<1> USE SignalAssumption DEF Deliverable, guest
<1>h. ASSUME guest' = guest, NEW s \in Sig
      PROVE  HasFunction(s)' = HasFunction(s)
    BY <1>h DEF HasFunction, qnx_sigtab, is_special_sighandler
<1> USE DEF AllServed, Served
<1>1. ASSUME NEW s \in Mapped, DeliverIgnored(s) PROVE AllServed'
    BY <1>1, <1>h DEF DeliverIgnored
<1>2. ASSUME NEW s \in Mapped, DeliverFatal(s) PROVE AllServed'
    BY <1>2 DEF DeliverFatal, Die
<1>3. ASSUME NEW s \in Mapped, handler_generic(s) PROVE AllServed'
    BY <1>3, <1>h DEF handler_generic
<1>4. ASSUME NEW s \in Mapped, handler_generic_nested(s) PROVE AllServed'
    BY <1>4, <1>h DEF handler_generic_nested
<1>5. ASSUME handler_segv_sent PROVE AllServed'
    BY <1>5, <1>h DEF handler_segv_sent, SegvHandled, Die
<1> QED BY <1>1, <1>2, <1>3, <1>4, <1>5 DEF Deliver

(* Setting a handler: the host's disposition and the table agree           *)
(* afterwards, and a pending signal that lost its function is in amiss.    *)
LEMMA ServedSigact ==
  ASSUME TypeOK, AllServed,
         NEW s \in Sig, NEW h \in Handler, NEW m \in ActMasks, sigact(s, h, m)
  PROVE  AllServed'
<1>1. CASE sigtab = NoTable
    BY <1>1 DEF sigact, AllServed, Die
<1>2. CASE sigtab # NoTable
  <2>1. /\ pc = "syscall" /\ pc' = "tail"
        /\ sigtab \in Table /\ sigtab' = sigtab
        /\ tables' = [tables EXCEPT ![sigtab][s] = [fn |-> h, mask |-> m]]
        /\ hdisp' = IF s = SEGV THEN hdisp ELSE [hdisp EXCEPT ![s] = h]
        /\ amiss' = AmissAfter(s, h)
        /\ reg' = reg /\ sigpend' = sigpend
    BY <1>2 DEF sigact, TypeOK
  <2>2. ASSUME NEW t \in Sig
        PROVE  HasFunction(t)' <=> IF t = s THEN h \notin Special
                                   ELSE HasFunction(t)
    <3>1. qnx_sigtab(t)' = IF t = s THEN [fn |-> h, mask |-> m]
                           ELSE qnx_sigtab(t)
      BY <1>2, <2>1 DEF qnx_sigtab, TypeOK
    <3> QED BY <3>1 DEF HasFunction, is_special_sighandler
  <2>3. /\ hdisp'[SEGV] = hdisp[SEGV]
        /\ \A t \in Sig : t # s => hdisp'[t] = hdisp[t]
        /\ s # SEGV => hdisp'[s] = h
    BY <2>1, SignalAssumption DEF TypeOK
  <2>4. ASSUME NEW t \in Sig \ amiss', Served(t)' PROVE HasFunction(t)'
    <3>1. CASE t = s
      <4>1. CASE h \in Special
        <5>1. s \notin sigpend
          BY <2>1, <2>4, <3>1, <4>1 DEF AmissAfter
        <5>2. hdisp'[s] # "fn"
          BY <2>1, <2>3, <4>1 DEF AllServed, Special
        <5> QED BY <2>1, <2>4, <3>1, <5>1, <5>2 DEF Served
      <4> QED BY <2>2, <3>1, <4>1
    <3>2. CASE t # s
      <4>1. t \notin amiss /\ Served(t)
        BY <2>1, <2>3, <2>4, <3>2 DEF AmissAfter, Served
      <4>2. HasFunction(t)
        BY <2>1, <4>1 DEF AllServed
      <4> QED BY <2>2, <3>2, <4>2
    <3> QED BY <3>1, <3>2
  <2> QED BY <2>1, <2>3, <2>4 DEF AllServed
<1> QED BY <1>1, <1>2

(* Registering a table and raising a signal: what lacks a function         *)
(* afterwards is in amiss.                                                 *)
LEMMA ServedTabRaise ==
  ASSUME TypeOK, AllServed,
         \/ \E t \in Table : proc_sigtab(t)
         \/ \E s \in Sig : proc_sigraise(s)
  PROVE  AllServed'
<1>1. ASSUME NEW t \in Table, proc_sigtab(t) PROVE AllServed'
  <2>1. ASSUME NEW s \in Sig
        PROVE  HasFunction(s)' <=> ~is_special_sighandler(tables[t][s])
    BY <1>1, SignalAssumption
       DEF proc_sigtab, HasFunction, qnx_sigtab, is_special_sighandler
  <2> QED BY <1>1, <2>1 DEF proc_sigtab, AllServed, Served, host
<1>2. ASSUME NEW s \in Sig, proc_sigraise(s) PROVE AllServed'
  <2>1. ASSUME NEW t \in Sig PROVE HasFunction(t)' = HasFunction(t)
    BY <1>2 DEF proc_sigraise, HasFunction, qnx_sigtab, is_special_sighandler
  <2> QED BY <1>2, <2>1 DEF proc_sigraise, AllServed, Served, host
<1> QED BY <1>1, <1>2

(* AllServed is inductive.                                                 *)
LEMMA ServedStep ==
  TypeOK /\ PoppedIsActive /\ AllServed /\ [Next]_vars => AllServed'
<1> SUFFICES ASSUME TypeOK, PoppedIsActive, AllServed, [Next]_vars
             PROVE  AllServed'
    OBVIOUS
<1>1. CASE Deliver
    BY <1>1, ServedDeliver
<1>2. CASE \/ \E s \in Sig, h \in Handler, m \in ActMasks : sigact(s, h, m)
           \/ \E t \in Table : proc_sigtab(t)
           \/ \E s \in Sig : proc_sigraise(s)
    BY <1>2, ServedSigact, ServedTabRaise
<1>h. ASSUME tables' = tables, sigtab' = sigtab, NEW s \in Sig
      PROVE  HasFunction(s)' = HasFunction(s)
    BY <1>h DEF HasFunction, qnx_sigtab, is_special_sighandler
<1> USE DEF AllServed, Served, host, guest
<1>3. CASE syscall_sigreturn \/ syscall_receivmx \/ OtherSyscall
    BY <1>3, <1>h DEF syscall_sigreturn, syscall_receivmx, OtherSyscall
<1>4. ASSUME NEW s \in Sig, sigact_hold(s) \/ sigact_refused(s)
      PROVE  AllServed'
    BY <1>4, <1>h DEF sigact_hold, sigact_refused
<1>5. ASSUME NEW change \in SUBSET Sig, NEW bits \in SUBSET Sig,
             proc_sigmask(change, bits)
      PROVE  AllServed'
    BY <1>5, <1>h DEF proc_sigmask
<1>6. CASE Syscall
    BY <1>2, <1>3, <1>4, <1>5, <1>6, SyscallCases
<1>7. ASSUME NEW s \in Sig, Send(s) PROVE AllServed'
    BY <1>7, <1>h DEF Send
<1>8. CASE Trap \/ GuestLongjmp
    BY <1>8, <1>h DEF Trap, GuestLongjmp
<1>9. CASE GuestFault
    BY <1>9, <1>h, SignalAssumption DEF GuestFault, SegvHandled, Die
<1>10. CASE RaiseLoad \/ PopLoad
    BY <1>10, <1>h DEF RaiseLoad, PopLoad
<1>11. CASE RaiseStore
    BY <1>11, <1>h DEF RaiseStore, Loaded
<1>12. CASE PopStore
    BY <1>12, <1>h DEF PopStore, Loaded, PoppedIsActive, activesig
<1>13. CASE TailEmpty \/ TailPop \/ Leave \/ Raise
    BY <1>13, <1>h DEF TailEmpty, TailPop, Leave, Raise
<1>14. CASE RaiseThrows
    BY <1>14 DEF RaiseThrows, Die
<1>15. CASE UNCHANGED vars
    BY <1>15, <1>h DEF vars
<1> QED
    BY <1>1, <1>6, <1>7, <1>8, <1>9, <1>10, <1>11, <1>12, <1>13, <1>14,
       <1>15 DEF Next, HandlerStep

(* The invariants of Signals together: with the types, each one holds      *)
(* initially and is kept by every step.                                    *)
Inv ==
    /\ TypeOK
    /\ MaskSynced
    /\ AllServed
    /\ PoppedIsActive
    /\ GenericLeavesNothing

(* Inv is an inductive invariant of the signal emulation.                  *)
LEMMA Invariance == Spec => []Inv
<1>1. Init => Inv
  <2> SUFFICES ASSUME Init PROVE Inv
    OBVIOUS
  <2>1. MaskSynced
    BY SignalAssumption DEF Init, MaskSynced, map_to_host_sigset
  <2>2. AllServed
    BY SignalAssumption DEF Init, AllServed, Served
  <2>3. PoppedIsActive /\ GenericLeavesNothing
    BY DEF Init, PoppedIsActive, GenericLeavesNothing
  <2> QED BY <2>1, <2>2, <2>3, TypeInit DEF Inv
<1>2. Inv /\ [Next]_vars => Inv'
    BY TypeStep, MaskStep, ServedStep, PoppedStep, GenericStep DEF Inv
<1> QED BY <1>1, <1>2, PTL DEF Spec

(* Whatever the interleaving of handlers, guest code never runs with a     *)
(* host mask that differs from the guest's own one.                        *)
THEOREM MaskAlwaysSynced == Spec => []MaskSynced
<1>1. Inv => MaskSynced
    BY DEF Inv
<1> QED BY <1>1, Invariance, PTL

(* signal_tail reaches its "should not happen" only for a signal the guest *)
(* itself left without a function, with any number of tables registered in *)
(* any order.                                                              *)
THEOREM HandlerAlwaysFound == Spec => []HandlerFound
<1>1. Inv => HandlerFound
    BY DEF Inv, AllServed, Served, HandlerFound, TypeOK
<1> QED BY <1>1, Invariance, PTL

(* signal_tail takes a signal that is pending and unmasked, also after any *)
(* number of handlers ran on top of it.                                    *)
THEOREM PopsOnlyActive == Spec => []PoppedIsActive
<1>1. Inv => PoppedIsActive
    BY DEF Inv
<1> QED BY <1>1, Invariance, PTL

(* handler_generic over guest code leaves no unmasked signal behind.       *)
THEOREM GenericComplete == Spec => []GenericLeavesNothing
<1>1. Inv => GenericLeavesNothing
    BY DEF Inv
<1> QED BY <1>1, Invariance, PTL

-----------------------------------------------------------------------------
(* Refinement: with an m_sigpend that is updated in one instruction,       *)
(* Signals implements SignalSpec.                                          *)

(* A delivery posts a signal, ends the process or changes nothing the      *)
(* abstract specification speaks of.                                       *)
LEMMA DeliverRefines ==
  ASSUME TypeOK, Deliver
  PROVE  [Promise!Next]_(Promise!vars)
<1> DEFINE m == IF pc = "raise" THEN HandlerMask(cur) ELSE sigmask
           a == pc # "dead"
<1> USE SignalAssumption DEF Deliverable, guest, HandlerMask, qnx_sigtab
<1>0. pc # "dead" /\ m \in SUBSET Sig /\ m' \in SUBSET Sig
      /\ sigpend' \in SUBSET Sig
  <2>1. m \in SUBSET Sig
    BY HandlerMaskType DEF TypeOK
  <2>2. m' = m \/ m' = sigmask
    <3>1. sigmask' = sigmask /\ tables' = tables /\ sigtab' = sigtab
      BY DeliverFrame
    <3>2. pc' = "raise" => pc = "raise" /\ cur' = cur
      BY DeliverFrame
    <3> QED BY <3>1, <3>2
  <2> QED BY <2>1, <2>2, TypeDeliver, DeliverFrame DEF TypeOK
<1>1. ASSUME NEW s \in Mapped, DeliverIgnored(s)
      PROVE  sigpend' = sigpend /\ m' = m /\ a' = a
    BY <1>1 DEF DeliverIgnored
<1>2. ASSUME NEW s \in Mapped, DeliverFatal(s) PROVE ~a'
    BY <1>2 DEF DeliverFatal, Die
<1>3. ASSUME NEW s \in Mapped, handler_generic(s)
      PROVE  sigpend' = sigpend \cup {s} /\ m' = m /\ a' = a
    BY <1>3 DEF handler_generic
<1>4. ASSUME NEW s \in Mapped, handler_generic_nested(s)
      PROVE  sigpend' = sigpend \cup {s} /\ m' = m /\ a' = a
    BY <1>4 DEF handler_generic_nested
<1>5. ASSUME handler_segv_sent
      PROVE  \/ ~a'
             \/ sigpend' = sigpend /\ m' = m /\ a' = a
             \/ sigpend' = sigpend \cup {SEGV} /\ m' = m /\ a' = a
    BY <1>5 DEF handler_segv_sent, Die
<1>6. \/ ~a'
      \/ sigpend' = sigpend /\ m' = m /\ a' = a
      \/ \E s \in Sig : sigpend' = sigpend \cup {s} /\ m' = m /\ a' = a
    BY <1>1, <1>2, <1>3, <1>4, <1>5 DEF Deliver
<1> QED
    BY <1>0, <1>6 DEF Promise!Next, Promise!vars, Promise!Post, Promise!Die

(* A system call changes the abstract mask, or nothing, or ends the        *)
(* process.                                                                *)
LEMMA SyscallRefines ==
  ASSUME TypeOK, Syscall
  PROVE  [Promise!Next]_(Promise!vars)
<1>1. /\ pc = "syscall"
      /\ pc' \in {"tail", "pause", "rload", "dead"}
      /\ sigpend' = sigpend
    BY SyscallFrame
<1>2. sigmask' \in SUBSET Sig /\ sigpend' \in SUBSET Sig
    BY TypeSyscall DEF TypeOK
<1> QED
    BY <1>1, <1>2 DEF Promise!Next, Promise!vars, Promise!SetMask,
       Promise!Die

(* The two writes of m_sigpend: a post, and the entry of a handler.        *)
LEMMA StoreRefines ==
  ASSUME AtomicRMW, Inv, RaiseStore \/ PopStore
  PROVE  [Promise!Next]_(Promise!vars)
<1> USE DEF host, guest, Inv, TypeOK
<1>1. CASE RaiseStore
  <2>1. /\ sigpend' = sigpend \cup {cur}
        /\ sigmask' = sigmask
        /\ pc = "rstore" /\ pc' = "tail"
        /\ cur \in Sig
    BY <1>1 DEF RaiseStore, Loaded
  <2> QED BY <2>1 DEF Promise!Next, Promise!Post
<1>2. CASE PopStore
  <2>1. /\ sigpend' = sigpend \ {cur}
        /\ pc = "popstore" /\ pc' = "raise"
        /\ cur \in Sig /\ cur' = cur
        /\ cur \in sigpend \ sigmask
    BY <1>2 DEF PopStore, Loaded, PoppedIsActive, activesig
  <2>2. HandlerMask(cur)' = HandlerMask(cur)
    BY <1>2 DEF PopStore, HandlerMask, qnx_sigtab
  <2>3. /\ HandlerMask(cur) \in SUBSET Sig
        /\ sigmask \cup {cur} \subseteq HandlerMask(cur)
    BY HandlerMaskType DEF Inv
  <2>4. Promise!Take(cur)
    BY <2>1, <2>2, <2>3 DEF Promise!Take
  <2> QED BY <2>1, <2>4 DEF Promise!Next
<1> QED BY <1>1, <1>2

(* Every step of Signals is a step of SignalSpec or leaves it unchanged.   *)
LEMMA StepRefines ==
  ASSUME AtomicRMW, Inv, [Next]_vars
  PROVE  [Promise!Next]_(Promise!vars)
<1> USE DEF host, guest, Promise!vars
<1>t. TypeOK /\ TypeOK'
    BY TypeStep DEF Inv
<1>1. CASE Deliver
    BY <1>1, <1>t, DeliverRefines
<1>2. CASE Syscall
    BY <1>2, <1>t, SyscallRefines
<1>3. CASE RaiseStore \/ PopStore
    BY <1>3, StoreRefines
<1>4. ASSUME NEW s \in Sig, Send(s) PROVE UNCHANGED Promise!vars
    BY <1>4 DEF Send, HandlerMask, qnx_sigtab
<1>5. CASE Trap
    BY <1>5, <1>t DEF Trap, Promise!Next, Promise!Die, TypeOK
<1>6. CASE GuestFault
    BY <1>6, <1>t DEF GuestFault, Die, Promise!Next, Promise!Die, TypeOK
<1>7. CASE GuestLongjmp
    BY <1>7 DEF GuestLongjmp, HandlerMask, qnx_sigtab
<1>8. CASE RaiseLoad \/ TailEmpty \/ TailPop \/ PopLoad \/ Leave
    BY <1>8 DEF RaiseLoad, TailEmpty, TailPop, PopLoad, Leave
<1>9. CASE Raise
  <2>1. pc = "raise" /\ pc' = "guest" /\ sigmask' = HandlerMask(cur)
        /\ sigpend' = sigpend
    BY <1>9 DEF Raise
  <2> QED BY <2>1
<1>10. CASE RaiseThrows
  <2>1. pc = "raise" /\ pc' = "dead"
    BY <1>10 DEF RaiseThrows, Die
  <2> QED BY <2>1, <1>t DEF Promise!Next, Promise!Die, TypeOK
<1>11. CASE UNCHANGED vars
    BY <1>11 DEF vars, HandlerMask, qnx_sigtab
<1> QED
    BY <1>1, <1>2, <1>3, <1>4, <1>5, <1>6, <1>7, <1>8, <1>9, <1>10, <1>11
       DEF Next, HandlerStep

(* With an m_sigpend that is updated in one instruction the emulation      *)
(* keeps its promise to the guest: no posted signal is lost, none is       *)
(* raised twice for one post, none is raised while masked.                 *)
THEOREM Implements ==
  ASSUME AtomicRMW
  PROVE  Spec => ImplementsSignalSpec
<1>1. Init => Promise!Init
    BY SignalAssumption DEF Init, Promise!Init
<1>2. Inv /\ [Next]_vars => [Promise!Next]_(Promise!vars)
    BY StepRefines
<1> QED
    BY <1>1, <1>2, Invariance, PTL DEF Spec, ImplementsSignalSpec, Promise!Spec

=============================================================================
