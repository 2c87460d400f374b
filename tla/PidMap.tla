------------------------------- MODULE PidMap -------------------------------
(***************************************************************************)
(* The PID table of a qine process (src/src/qnx_pid.cpp): host PIDs do not *)
(* fit the 16 bits of a QNX PID, so each process keeps a map from QNX PIDs *)
(* to entries and a reverse map from host PIDs to the same entries.        *)
(*                                                                         *)
(* A table is a record                                                     *)
(*   qnx   m_qnx_map, a function from QNX PIDs to entries                  *)
(*   rev   m_reverse_map, from host PIDs to the QNX PID of their entry     *)
(*   bad   (ghost) an allocation has reused an entry that was in use, or a *)
(*         freed entry has stayed in the reverse map                       *)
(* The operators that allocate are relations: alloc_x(t, h, p) holds when  *)
(* the call for host PID h in table t returns the entry of QNX PID p.      *)
(***************************************************************************)
EXTENDS Integers, Functions

CONSTANTS
    StartPid,       \* m_start_pid, 10
    LastPid,        \* m_last_pid, 32767
    HashMul,        \* 3779
    HashMod         \* 2^32, the width of the hash

ASSUME PidAssumption ==
    /\ StartPid \in Nat /\ LastPid \in Nat
    /\ StartPid > 2
    /\ LastPid - StartPid + 1 >= StartPid
    /\ HashMul \in Nat
    /\ HashMod \in Nat \ {0}

PID_PROC == 1
PID_UNKNOWN == 2
NoHost == -1

(* What a 16-bit PID can hold, and the PIDs that are given out.            *)
AnyPid == 0 .. 2 * LastPid + 1
QnxPid == {PID_PROC, PID_UNKNOWN} \cup (StartPid .. LastPid)
Type == {"PERMANENT", "ROOT_PARENT", "SELF", "CHILD", "SID", "PGID"}

pid_range == LastPid - StartPid + 1

(* Mutant: the offset of the first PID is forgotten.                       *)
compress_pid_from_zero(h) ==
    (IF h < StartPid THEN h + pid_range ELSE h) % pid_range

(* Preserves small PIDs.                                                   *)
compress_pid(h) ==
    LET x == IF h < StartPid THEN h + pid_range ELSE h
    IN  StartPid + ((x - StartPid) % pid_range)

randomize_pid(h) ==
    LET hash == (StartPid + h * HashMul) % HashMod
    IN  StartPid + (hash % pid_range)

(* alloc_empty: the compressed PID if it is free; else the first gap at or *)
(* after the randomised one; else the search wraps around to StartPid.     *)
(* The wrap sets the iterator to the first entry of the map, which is      *)
(* PID_PROC and not StartPid, so the loop ends there and then: StartPid is *)
(* taken whether it is free or not, unless the search began at it.         *)
alloc_empty(t, h, p) ==
    LET used == DOMAIN t.qnx
        from == randomize_pid(h)
    IN  IF compress_pid(h) \notin used
        THEN p = compress_pid(h)
        ELSE \/ /\ p \in from .. LastPid
                /\ p \notin used
                /\ from .. p - 1 \subseteq used
             \/ /\ from .. LastPid \subseteq used
                /\ from # StartPid
                /\ p = StartPid

(* alloc_empty throws PidMapFull.                                          *)
PidMapFull(t, h) ==
    /\ compress_pid(h) \in DOMAIN t.qnx
    /\ randomize_pid(h) = StartPid
    /\ StartPid .. LastPid \subseteq DOMAIN t.qnx

Entry(h, type) == [host |-> h, type |-> type]

(* The table after an entry for h has been created at p.                   *)
Enter(t, p, h, type) ==
    [qnx |-> [x \in DOMAIN t.qnx \cup {p} |->
                 IF x = p THEN Entry(h, type) ELSE t.qnx[x]],
     rev |-> [x \in DOMAIN t.rev \cup {h} |->
                 IF x = h THEN p ELSE t.rev[x]],
     bad |-> t.bad \/ p \in DOMAIN t.qnx]

(* alloc_related_pid returns the entry h has, or a new one.                *)
alloc_related_pid(t, h, p) ==
    IF h \in DOMAIN t.rev THEN p = t.rev[h] ELSE alloc_empty(t, h, p)

Related(t, h, type, p) ==
    IF h \in DOMAIN t.rev THEN t ELSE Enter(t, p, h, type)

(* alloc_child_pid, and its assertion: h has no entry yet.                 *)
ChildIsNew(t, h) == h \notin DOMAIN t.rev

alloc_child_pid(t, h, p) == ChildIsNew(t, h) /\ alloc_empty(t, h, p)

(* Mutants: one of the two maps is forgotten.                              *)
free_pid_only_qnx(t, p) ==
    [t EXCEPT !.qnx = Restrict(@, DOMAIN @ \ {p})]

(* free_pid: the reverse map forgets only children.                        *)
free_pid(t, p) ==
    [qnx |-> Restrict(t.qnx, DOMAIN t.qnx \ {p}),
     rev |-> IF t.qnx[p].host > 0 /\ t.qnx[p].type = "CHILD"
             THEN Restrict(t.rev, DOMAIN t.rev \ {t.qnx[p].host})
             ELSE t.rev,
     bad |-> t.bad \/ t.qnx[p].type # "CHILD"]

(* The constructor and the two alloc_permanent_pid calls of                *)
(* Process::initialize_pids.                                               *)
PermanentTable ==
    [qnx |-> [p \in {PID_PROC, PID_UNKNOWN} |-> Entry(NoHost, "PERMANENT")],
     rev |-> [h \in {} |-> 0],
     bad |-> FALSE]

(* The rest of initialize_pids, for the process self of group pgid,        *)
(* started by ppid of group ppgid, all in the session sid: the tables      *)
(* after each of the six calls; the PIDs come out of related_pids, and the *)
(* third session call finds the entry of the first.                        *)
related_pids(t, h) == {p \in AnyPid : alloc_related_pid(t, h, p)}

ParentTable(ppid, parent) ==
    Related(PermanentTable, ppid, "ROOT_PARENT", parent)
SelfTable(ppid, parent, self, my) ==
    Related(ParentTable(ppid, parent), self, "SELF", my)
GroupTable(t, h, type) ==
    {Related(t, h, type, p) : p \in related_pids(t, h)}
InitialTables(ppid, parent, self, my, sid, ppgid, pgid) ==
    UNION {UNION {GroupTable(u, pgid, "PGID") : u \in GroupTable(t, ppgid, "PGID")} :
              t \in GroupTable(SelfTable(ppid, parent, self, my), sid, "SID")}

-----------------------------------------------------------------------------
(* The two maps are inverse to each other: each host PID of the reverse    *)
(* map leads to the entry that names it, and each entry with a host PID is *)
(* found by it.                                                            *)
Consistent(t) ==
    /\ \A h \in DOMAIN t.rev : /\ t.rev[h] \in DOMAIN t.qnx
                               /\ t.qnx[t.rev[h]].host = h
    /\ \A p \in DOMAIN t.qnx :
          t.qnx[p].host # NoHost =>
              /\ t.qnx[p].host \in DOMAIN t.rev
              /\ t.rev[t.qnx[p].host] = p

=============================================================================
