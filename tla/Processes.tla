----------------------------- MODULE Processes ------------------------------
(***************************************************************************)
(* The tree of qine processes and their PID tables: proc_fork, proc_spawn, *)
(* proc_exec, proc_wait and proc_terminate of src/src/main_handler.cpp,    *)
(* Process::update_pids_after_fork and Process::initialize_pids, and the   *)
(* translation of guest PIDs by kill, setpgid, wait and tcsetpgrp.         *)
(*                                                                         *)
(* Each process has its own copy of the table.  fork() returns twice: the  *)
(* parent enters the child in its table and the child enters itself in the *)
(* copy it got, in either order, and either may end in between.  The host  *)
(* reuses the PIDs of processes that are gone.                             *)
(***************************************************************************)
EXTENDS PidMap

CONSTANTS
    Proc,           \* host PIDs of qine processes
    Root,           \* the one the user started
    Leader,         \* the session leader, parent of Root and of orphans
    Groups,         \* guests change process groups
    MaxForks        \* bound: processes forked

ASSUME ProcAssumption ==
    /\ Proc \subseteq Nat \ {0}
    /\ Root \in Proc
    /\ Leader \in Nat \ {0}
    /\ Leader \notin Proc
    /\ Groups \in BOOLEAN
    /\ MaxForks \in Nat

Host == Proc \cup {Leader}
NoChild == 0

VARIABLES
    st,         \* "free", "forked", "spawned", "run" or "zombie"
    ppid,       \* the host's parent of each process
    pgid,       \* the host's process group of each process
    tab,        \* Process::m_pids
    my,         \* Process::m_my_pid
    parent,     \* Process::m_parent_pid
    newborn,    \* child that fork() returned and alloc_child_pid has not seen
    forked,     \* the process came by proc_fork and has not executed since
    told,       \* QNX PIDs of the children the guest has forked (ghost)
    forks,      \* processes forked so far
    died        \* how the last step aborted a process, if it did (ghost)

vars == <<st, ppid, pgid, tab, my, parent, newborn, forked, told, forks,
          died>>

NoKids == [c \in {} |-> 0]

Init ==
    /\ st = [p \in Proc |-> IF p = Root THEN "run" ELSE "free"]
    /\ ppid = [p \in Proc |-> Leader]
    /\ pgid = [p \in Proc |-> Leader]
    /\ \E pp \in related_pids(PermanentTable, Leader) :
       \E m \in related_pids(ParentTable(Leader, pp), Root) :
       \E t \in InitialTables(Leader, pp, Root, m, Leader, Leader, Leader) :
          /\ tab = [p \in Proc |-> IF p = Root THEN t ELSE PermanentTable]
          /\ my = [p \in Proc |-> IF p = Root THEN m ELSE PID_PROC]
          /\ parent = [p \in Proc |-> IF p = Root THEN pp ELSE PID_PROC]
    /\ newborn = [p \in Proc |-> NoChild]
    /\ forked = [p \in Proc |-> FALSE]
    /\ told = [p \in Proc |-> NoKids]
    /\ forks = 0
    /\ died = "none"

(* p runs guest code and is not between fork() and alloc_child_pid.        *)
Running(p) == st[p] = "run" /\ newborn[p] = NoChild

(* What the host does when p ends: p becomes a zombie if its parent may    *)
(* still wait for it; orphans go to Leader, which reaps them.  The rest is *)
(* as in a PID that was never used.                                        *)
Ended(p) ==
    /\ st' = [q \in Proc |->
                IF q = p
                THEN IF ppid[p] \in Proc THEN "zombie" ELSE "free"
                ELSE IF ppid[q] = p /\ st[q] = "zombie" THEN "free"
                     ELSE st[q]]
    /\ ppid' = [q \in Proc |-> IF ppid[q] = p THEN Leader ELSE ppid[q]]
    /\ pgid' = [pgid EXCEPT ![p] = Leader]
    /\ tab' = [tab EXCEPT ![p] = PermanentTable]
    /\ my' = [my EXCEPT ![p] = PID_PROC]
    /\ parent' = [parent EXCEPT ![p] = PID_PROC]
    /\ newborn' = [newborn EXCEPT ![p] = NoChild]
    /\ forked' = [forked EXCEPT ![p] = FALSE]
    /\ told' = [told EXCEPT ![p] = NoKids]

(* An assertion, an uncaught exception or a null pointer in qine.          *)
Abort(p, why) == Ended(p) /\ died' = why /\ UNCHANGED forks

-----------------------------------------------------------------------------
(* proc_fork and proc_spawn: the fork() call.                              *)
fork(p, c, as) ==
    /\ Running(p)
    /\ st[c] = "free"
    /\ st' = [st EXCEPT ![c] = as]
    /\ \A q \in Proc : pgid[q] # c          \* not the PID of a group
    /\ ppid' = [ppid EXCEPT ![c] = p]
    /\ pgid' = [pgid EXCEPT ![c] = pgid[p]]
    /\ tab' = [tab EXCEPT ![c] = tab[p]]
    /\ my' = [my EXCEPT ![c] = my[p]]
    /\ parent' = [parent EXCEPT ![c] = parent[p]]
    /\ newborn' = [newborn EXCEPT ![p] = c]
    /\ forked' = [forked EXCEPT ![c] = (as = "forked")]
    /\ died' = "none"
    /\ forks < MaxForks
    /\ forks' = forks + 1
    /\ UNCHANGED told

(* Mutant: the reply holds the compressed PID, not the entry's.            *)
fork_parent_compressed(p) ==
    /\ st[p] = "run"
    /\ newborn[p] # NoChild
    /\ \E q \in AnyPid :
          /\ alloc_child_pid(tab[p], newborn[p], q)
          /\ tab' = [tab EXCEPT ![p] = Enter(@, q, newborn[p], "CHILD")]
    /\ told' = [told EXCEPT ![p] =
                  [c \in DOMAIN @ \cup {newborn[p]} |->
                      IF c = newborn[p] THEN compress_pid(c) ELSE @[c]]]
    /\ newborn' = [newborn EXCEPT ![p] = NoChild]
    /\ died' = "none"
    /\ UNCHANGED <<st, ppid, pgid, my, parent, forked, forks>>

(* In the parent: alloc_child_pid and the reply with the child's PID.      *)
fork_parent(p) ==
    /\ st[p] = "run"
    /\ newborn[p] # NoChild
    /\ \E q \in AnyPid :
          /\ alloc_child_pid(tab[p], newborn[p], q)
          /\ tab' = [tab EXCEPT ![p] = Enter(@, q, newborn[p], "CHILD")]
          /\ told' = [told EXCEPT ![p] =
                        [c \in DOMAIN @ \cup {newborn[p]} |->
                            IF c = newborn[p] THEN q ELSE @[c]]]
    /\ newborn' = [newborn EXCEPT ![p] = NoChild]
    /\ died' = "none"
    /\ UNCHANGED <<st, ppid, pgid, my, parent, forked, forks>>

fork_parent_aborts(p) ==
    /\ st[p] = "run"
    /\ newborn[p] # NoChild
    /\ \/ ~ChildIsNew(tab[p], newborn[p]) /\ Abort(p, "assert")
       \/ PidMapFull(tab[p], newborn[p]) /\ Abort(p, "full")

(* Mutant: update_pids_after_fork is forgotten.                            *)
fork_child_keeps(c) ==
    /\ st[c] = "forked"
    /\ st' = [st EXCEPT ![c] = "run"]
    /\ died' = "none"
    /\ UNCHANGED <<ppid, pgid, tab, my, parent, newborn, forked, told, forks>>

(* In the child of proc_fork: update_pids_after_fork.                      *)
fork_child(c) ==
    /\ st[c] = "forked"
    /\ \E q \in AnyPid :
          /\ alloc_related_pid(tab[c], c, q)
          /\ tab' = [tab EXCEPT ![c] = Related(@, c, "SELF", q)]
          /\ my' = [my EXCEPT ![c] = q]
    /\ parent' = [parent EXCEPT ![c] = my[c]]
    /\ st' = [st EXCEPT ![c] = "run"]
    /\ died' = "none"
    /\ UNCHANGED <<ppid, pgid, newborn, forked, told, forks>>

fork_child_aborts(c) ==
    /\ st[c] = "forked"
    /\ c \notin DOMAIN tab[c].rev
    /\ PidMapFull(tab[c], c)
    /\ Abort(c, "full")

GroupOf(h) == IF h \in Proc THEN pgid[h] ELSE Leader

(* qine starts over in process p, for proc_exec and in the child of        *)
(* proc_spawn: a new table, built by initialize_pids.                      *)
execve(p) ==
    /\ Running(p) \/ st[p] = "spawned"
    /\ \E pp \in related_pids(PermanentTable, ppid[p]) :
       \E m \in related_pids(ParentTable(ppid[p], pp), p) :
       \E t \in InitialTables(ppid[p], pp, p, m, Leader, GroupOf(ppid[p]),
                             pgid[p]) :
          /\ tab' = [tab EXCEPT ![p] = t]
          /\ my' = [my EXCEPT ![p] = m]
          /\ parent' = [parent EXCEPT ![p] = pp]
    /\ st' = [st EXCEPT ![p] = "run"]
    /\ forked' = [forked EXCEPT ![p] = FALSE]
    /\ told' = [told EXCEPT ![p] = NoKids]
    /\ died' = "none"
    /\ UNCHANGED <<ppid, pgid, newborn, forks>>

(* proc_terminate, a signal, or a host program the child became.           *)
exit(p) ==
    /\ st[p] \in {"forked", "spawned", "run"}
    /\ Ended(p)
    /\ died' = "none"
    /\ UNCHANGED forks

(* proc_wait: waitpid returned the child c.                                *)
Waited(p, c) ==
    /\ Running(p)
    /\ st[c] = "zombie"
    /\ ppid[c] = p

(* The reverse map leads to an entry that is gone.                         *)
Dangling(t, h) == h \in DOMAIN t.rev /\ t.rev[h] \notin DOMAIN t.qnx

proc_wait(p, c) ==
    /\ Waited(p, c)
    /\ ~Dangling(tab[p], c)
    /\ st' = [st EXCEPT ![c] = "free"]
    /\ ppid' = [ppid EXCEPT ![c] = Leader]
    /\ tab' = [tab EXCEPT ![p] = IF c \in DOMAIN @.rev
                                 THEN free_pid(@, @.rev[c]) ELSE @]
    /\ told' = [told EXCEPT ![p] = Restrict(@, DOMAIN @ \ {c})]
    /\ died' = "none"
    /\ UNCHANGED <<pgid, my, parent, newborn, forked, forks>>

(* host() returned a dangling pointer: undefined from here on.             *)
proc_wait_dangling(p, c) ==
    /\ Waited(p, c)
    /\ Dangling(tab[p], c)
    /\ Abort(p, "dangling")

(* The host PIDs the guest has a QNX PID for.                              *)
Known(p) == {tab[p].qnx[q].host : q \in DOMAIN tab[p].qnx}

(* proc_setpgid, for a process and a group the guest has PIDs for; what    *)
(* follows is the host's setpgid.                                          *)
proc_setpgid(p, q, g) ==
    /\ Groups
    /\ Running(p)
    /\ {q, g} \subseteq Known(p)
    /\ q = p \/ (ppid[q] = p /\ (forked[q] \/ st[q] = "spawned"))
    /\ g = q \/ g = Leader \/ \E r \in Proc : pgid[r] = g
    /\ pgid' = [pgid EXCEPT ![q] = g]
    /\ died' = "none"
    /\ UNCHANGED <<st, ppid, tab, my, parent, newborn, forked, told, forks>>

(* qnx_valid_host, called by kill, proc_setpgid, proc_wait and             *)
(* handle_tcsetpgrp with a PID of the guest's: an unknown PID is a null    *)
(* pointer; a known one is translated, which changes nothing here.         *)
qnx_valid_host(p) ==
    /\ Running(p)
    /\ ~(QnxPid \subseteq DOMAIN tab[p].qnx)
    /\ Abort(p, "null")

Next ==
    \E p \in Proc :
        \/ \E c \in Proc : \/ \E as \in {"forked", "spawned"} : fork(p, c, as)
                           \/ proc_wait(p, c)
                           \/ proc_wait_dangling(p, c)
        \/ fork_parent(p)
        \/ fork_parent_aborts(p)
        \/ fork_child(p)
        \/ fork_child_aborts(p)
        \/ execve(p)
        \/ exit(p)
        \/ qnx_valid_host(p)
        \/ \E q \in Proc, g \in Host : proc_setpgid(p, q, g)

Spec == Init /\ [][Next]_vars

-----------------------------------------------------------------------------
(* Properties.                                                             *)

IsTable(t) ==
    /\ DOMAIN t = {"qnx", "rev", "bad"}
    /\ DOMAIN t.qnx \subseteq QnxPid
    /\ \A q \in DOMAIN t.qnx : t.qnx[q] \in [host : Host \cup {NoHost},
                                             type : Type]
    /\ DOMAIN t.rev \subseteq Host
    /\ \A h \in DOMAIN t.rev : t.rev[h] \in QnxPid
    /\ t.bad \in BOOLEAN

(* The type invariant: QNX PIDs stay within the range of PidMap and tables *)
(* map them to host PIDs and back.                                         *)
TypeOK ==
    /\ st \in [Proc -> {"free", "forked", "spawned", "run", "zombie"}]
    /\ ppid \in [Proc -> Host]
    /\ pgid \in [Proc -> Host]
    /\ DOMAIN tab = Proc
    /\ \A p \in Proc : IsTable(tab[p])
    /\ my \in [Proc -> QnxPid]
    /\ parent \in [Proc -> QnxPid]
    /\ newborn \in [Proc -> Proc \cup {NoChild}]
    /\ forked \in [Proc -> BOOLEAN]
    /\ DOMAIN told = Proc
    /\ \A p \in Proc : /\ DOMAIN told[p] \subseteq Proc
                       /\ \A c \in DOMAIN told[p] : told[p][c] \in QnxPid
    /\ forks \in 0 .. MaxForks
    /\ died \in {"none", "assert", "full", "dangling", "null"}

(* The two maps of every table stay inverse to each other through forks,   *)
(* waits, PID reuse by the host and collisions, unless an allocation       *)
(* wrapped around onto an entry in use or the entry of a process group was *)
(* freed.                                                                  *)
TablesConsistent ==
    \A p \in Proc : ~tab[p].bad => Consistent(tab[p])

(* A process is known to itself under the PID getpid() reports, and that   *)
(* entry is never given away while the process runs.                       *)
SelfKnown ==
    \A p \in Proc :
        st[p] = "run" /\ ~tab[p].bad =>
            /\ my[p] \in DOMAIN tab[p].qnx
            /\ tab[p].qnx[my[p]].host = p

(* "we create entries for forked processes, so that we can wait for them": *)
(* the PID fork returned for a child that has not been waited for is the   *)
(* PID wait will report and kill will reach it by.                         *)
ChildrenKnown ==
    \A p \in Proc : \A c \in DOMAIN told[p] :
        ~tab[p].bad =>
            /\ c \in DOMAIN tab[p].rev
            /\ tab[p].rev[c] = told[p][c]
            /\ tab[p].qnx[told[p][c]] = Entry(c, "CHILD")

(* Every process finds itself and the children it may still wait for in    *)
(* its table, under the PIDs that getpid() and fork reported, whatever was *)
(* allocated and freed since (PidMap::alloc_related_pid, alloc_child_pid,  *)
(* free_pid).                                                              *)
FamilyKnown == SelfKnown /\ ChildrenKnown

(* Parent and child agree on the child's PID: what fork returned to the    *)
(* parent is what getpid() returns in the child, until it executes a new   *)
(* program, although each computes it in its own table.                    *)
ForkAgrees ==
    \A p, c \in Proc :
        /\ ppid[c] = p
        /\ st[c] = "run"
        /\ forked[c]
        /\ c \in DOMAIN told[p]
        => my[c] = told[p][c]

(* What the source says and the code does not do; refuted by a run of its  *)
(* own.                                                                    *)

(* QnxPid::Type: "These are just informative (for debugging) for now" --   *)
(* freeing a PID forgets its host PID whatever its type, and the reverse   *)
(* map never leads to a freed entry.                                       *)
NeverDangling ==
    \A p \in Proc :
        \A h \in DOMAIN tab[p].rev : tab[p].rev[h] \in DOMAIN tab[p].qnx

=============================================================================
