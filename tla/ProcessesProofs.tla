-------------------------- MODULE ProcessesProofs ---------------------------
(***************************************************************************)
(* Proofs about Processes and PidMap, for every range of PIDs, every hash, *)
(* any number of processes and of forks.                                   *)
(***************************************************************************)
EXTENDS Processes, TLAPS

-----------------------------------------------------------------------------
(* PidMap.                                                                 *)

(* compress_pid and randomize_pid stay within the PIDs to be given out.    *)
LEMMA PidRange ==
  ASSUME NEW h \in Nat
  PROVE  /\ compress_pid(h) \in StartPid .. LastPid
         /\ randomize_pid(h) \in StartPid .. LastPid
<1>1. ASSUME NEW a \in Int, NEW n \in Nat \ {0} PROVE a % n \in 0 .. n - 1
    OBVIOUS
<1> QED BY <1>1, PidAssumption DEF compress_pid, randomize_pid, pid_range

(* alloc_empty gives out a PID of the range, on every path.                *)
LEMMA AllocEmptyRange ==
  ASSUME NEW t, NEW h \in Nat, NEW p, alloc_empty(t, h, p)
  PROVE  p \in StartPid .. LastPid
BY PidRange, PidAssumption DEF alloc_empty

(* The search of alloc_empty has one outcome: two processes that allocate  *)
(* for the same host PID in the same table get the same QNX PID.           *)
LEMMA AllocEmptyUnique ==
  ASSUME NEW t, NEW h \in Nat, NEW p, NEW q,
         alloc_empty(t, h, p), alloc_empty(t, h, q)
  PROVE  p = q
<1>1. p \in Int /\ q \in Int /\ randomize_pid(h) \in Int
    BY AllocEmptyRange, PidRange, PidAssumption
<1>2. CASE compress_pid(h) \notin DOMAIN t.qnx
    BY <1>2 DEF alloc_empty
<1>3. CASE compress_pid(h) \in DOMAIN t.qnx
  <2>1. ASSUME p < q PROVE FALSE
      BY <1>1, <1>3, <2>1, PidRange, PidAssumption DEF alloc_empty
  <2>2. ASSUME q < p PROVE FALSE
      BY <1>1, <1>3, <2>2, PidRange, PidAssumption DEF alloc_empty
  <2> QED BY <1>1, <2>1, <2>2
<1> QED BY <1>2, <1>3

(* A table with its types whose maps are inverse unless it is marked.      *)
TableOK(t) == IsTable(t) /\ (~t.bad => Consistent(t))

(* The table of a process that has just started is in order.               *)
LEMMA PermanentOK == TableOK(PermanentTable) /\ ~PermanentTable.bad
BY PidAssumption DEF TableOK, IsTable, Consistent, PermanentTable, QnxPid,
   Entry, Type, PID_PROC, PID_UNKNOWN

(* Entering a host PID the table does not have at a PID of the range keeps *)
(* the table in order, or marks it.                                        *)
LEMMA EnterOK ==
  ASSUME NEW t, TableOK(t), NEW h \in Host, h \notin DOMAIN t.rev,
         NEW p \in QnxPid, NEW type \in Type
  PROVE  LET u == Enter(t, p, h, type)
         IN  /\ TableOK(u)
             /\ t.bad => u.bad
             /\ p \in DOMAIN u.qnx /\ u.qnx[p] = Entry(h, type)
             /\ DOMAIN u.rev = DOMAIN t.rev \cup {h} /\ u.rev[h] = p
             /\ \A x \in DOMAIN t.rev : u.rev[x] = t.rev[x]
             /\ ~u.bad => \A x \in DOMAIN t.qnx : /\ x \in DOMAIN u.qnx
                                                  /\ u.qnx[x] = t.qnx[x]
<1> DEFINE u == Enter(t, p, h, type)
<1>1. h # NoHost
    BY ProcAssumption DEF Host, NoHost
<1>2. /\ DOMAIN u.qnx = DOMAIN t.qnx \cup {p}
      /\ u.qnx[p] = Entry(h, type)
      /\ \A x \in DOMAIN t.qnx : x # p => u.qnx[x] = t.qnx[x]
      /\ DOMAIN u.rev = DOMAIN t.rev \cup {h}
      /\ u.rev[h] = p
      /\ \A x \in DOMAIN t.rev : u.rev[x] = t.rev[x]
      /\ u.bad = (t.bad \/ p \in DOMAIN t.qnx)
      /\ DOMAIN u = {"qnx", "rev", "bad"}
    BY DEF Enter
<1>3. IsTable(u)
    BY <1>2 DEF TableOK, IsTable, Entry
<1>4. ASSUME ~u.bad PROVE Consistent(u)
  <2>1. p \notin DOMAIN t.qnx /\ Consistent(t)
      BY <1>2, <1>4 DEF TableOK
  <2>2. ASSUME NEW x \in DOMAIN u.rev
        PROVE  u.rev[x] \in DOMAIN u.qnx /\ u.qnx[u.rev[x]].host = x
      BY <1>2, <2>1 DEF Consistent, Entry
  <2>3. ASSUME NEW x \in DOMAIN u.qnx, u.qnx[x].host # NoHost
        PROVE  /\ u.qnx[x].host \in DOMAIN u.rev
               /\ u.rev[u.qnx[x].host] = x
      BY <1>2, <2>1, <2>3 DEF Consistent, Entry
  <2> QED BY <2>2, <2>3 DEF Consistent
<1> QED BY <1>2, <1>3, <1>4 DEF TableOK

(* alloc_related_pid keeps the table in order and finds or enters the host *)
(* PID; unless the table is marked, every entry it had stays.              *)
LEMMA RelatedOK ==
  ASSUME NEW t, TableOK(t), NEW h \in Host, NEW type \in Type,
         NEW p, alloc_related_pid(t, h, p)
  PROVE  LET u == Related(t, h, type, p)
         IN  /\ TableOK(u)
             /\ p \in QnxPid
             /\ t.bad => u.bad
             /\ ~u.bad => p \in DOMAIN u.qnx /\ u.qnx[p].host = h
             /\ ~u.bad => \A x \in DOMAIN t.qnx : /\ x \in DOMAIN u.qnx
                                                  /\ u.qnx[x] = t.qnx[x]
<1>1. CASE h \in DOMAIN t.rev
    BY <1>1 DEF alloc_related_pid, Related, TableOK, IsTable, Consistent
<1>2. CASE h \notin DOMAIN t.rev
  <2>1. p \in QnxPid
      BY <1>2, AllocEmptyRange, ProcAssumption
      DEF alloc_related_pid, Host, QnxPid
  <2>2. Entry(h, type).host = h
      BY DEF Entry
  <2> QED BY <1>2, <2>1, <2>2, EnterOK DEF Related
<1> QED BY <1>1, <1>2

(* free_pid of a host PID in the reverse map, by way of its entry, keeps   *)
(* the table in order, or marks it.                                        *)
LEMMA FreeOK ==
  ASSUME NEW t, TableOK(t), NEW h \in Host, h \in DOMAIN t.rev,
         t.rev[h] \in DOMAIN t.qnx
  PROVE  LET u == free_pid(t, t.rev[h])
         IN  /\ TableOK(u)
             /\ t.bad => u.bad
             /\ ~u.bad => \A x \in DOMAIN t.qnx :
                   t.qnx[x].host # h => /\ x \in DOMAIN u.qnx
                                        /\ u.qnx[x] = t.qnx[x]
             /\ \A x \in DOMAIN t.rev :
                   ~u.bad /\ x # h => x \in DOMAIN u.rev /\ u.rev[x] = t.rev[x]
<1> DEFINE p == t.rev[h]
           u == free_pid(t, p)
<1>1. /\ DOMAIN u.qnx = DOMAIN t.qnx \ {p}
      /\ \A x \in DOMAIN u.qnx : u.qnx[x] = t.qnx[x]
      /\ u.bad = (t.bad \/ t.qnx[p].type # "CHILD")
      /\ DOMAIN u = {"qnx", "rev", "bad"}
    BY DEF free_pid, Restrict
<1>2. /\ DOMAIN u.rev \subseteq DOMAIN t.rev
      /\ \A x \in DOMAIN u.rev : u.rev[x] = t.rev[x]
    BY DEF free_pid, Restrict
<1>3. IsTable(u)
    BY <1>1, <1>2 DEF TableOK, IsTable
<1>4. ASSUME ~u.bad
      PROVE  Consistent(t) /\ t.qnx[p].host = h
             /\ DOMAIN u.rev = DOMAIN t.rev \ {h}
  <2>1. ~t.bad /\ t.qnx[p].type = "CHILD"
      BY <1>1, <1>4
  <2>2. Consistent(t)
      BY <2>1 DEF TableOK
  <2>3. t.qnx[p].host = h
      BY <2>2 DEF Consistent
  <2>4. h > 0
    <3>1. h \in Nat \ {0}
        BY ProcAssumption DEF Host
    <3> QED BY <3>1
  <2> QED BY <2>1, <2>2, <2>3, <2>4 DEF free_pid, Restrict
<1>5. ~u.bad => Consistent(u)
  <2> SUFFICES ASSUME ~u.bad PROVE Consistent(u)
    OBVIOUS
  <2>1. Consistent(t) /\ t.qnx[p].host = h /\ DOMAIN u.rev = DOMAIN t.rev \ {h}
    BY <1>4
  <2>2. t.rev[h] = p
    OBVIOUS
  <2> HIDE DEF u, p
  <2>3. ASSUME NEW x \in DOMAIN u.rev PROVE u.rev[x] \in DOMAIN u.qnx /\ u.qnx[u.rev[x]].host = x
    <3>1. u.rev[x] = t.rev[x] /\ x \in DOMAIN t.rev /\ x # h
      BY <1>2, <2>1
    <3>2. t.rev[x] \in DOMAIN t.qnx /\ t.qnx[t.rev[x]].host = x
      BY <2>1, <3>1 DEF Consistent
    <3> QED BY <1>1, <2>1, <3>1, <3>2
  <2>4. ASSUME NEW q \in DOMAIN u.qnx, u.qnx[q].host # NoHost
        PROVE  u.qnx[q].host \in DOMAIN u.rev /\ u.rev[u.qnx[q].host] = q
    <3>1. u.qnx[q] = t.qnx[q] /\ q \in DOMAIN t.qnx /\ q # p
      BY <1>1
    <3>2. t.qnx[q].host \in DOMAIN t.rev /\ t.rev[t.qnx[q].host] = q
      BY <2>1, <2>4, <3>1 DEF Consistent
    <3> QED BY <1>2, <2>1, <2>2, <3>1, <3>2
  <2> QED BY <2>3, <2>4 DEF Consistent
<1>6. t.bad => u.bad
    BY <1>1 DEF TableOK, IsTable
<1> QED BY <1>1, <1>2, <1>3, <1>4, <1>5, <1>6 DEF TableOK

(* initialize_pids, all six calls: the table is in order, and unless it is *)
(* marked the process is in it under the PID that the second call gave.    *)
LEMMA InitialOK ==
  ASSUME NEW dad \in Host, NEW self \in Host, NEW sid \in Host,
         NEW dadgrp \in Host, NEW grp \in Host,
         NEW pp \in related_pids(PermanentTable, dad),
         NEW m \in related_pids(ParentTable(dad, pp), self),
         NEW t \in InitialTables(dad, pp, self, m, sid, dadgrp, grp)
  PROVE  /\ TableOK(t) /\ pp \in QnxPid /\ m \in QnxPid
         /\ ~t.bad => m \in DOMAIN t.qnx /\ t.qnx[m].host = self
<1> DEFINE Has(u) == ~u.bad => m \in DOMAIN u.qnx /\ u.qnx[m].host = self
<1>1. TableOK(ParentTable(dad, pp)) /\ pp \in QnxPid
    BY PermanentOK, RelatedOK DEF ParentTable, related_pids, Type
<1>2. /\ TableOK(SelfTable(dad, pp, self, m)) /\ m \in QnxPid
      /\ Has(SelfTable(dad, pp, self, m))
    BY <1>1, RelatedOK DEF SelfTable, related_pids, Type
<1>3. ASSUME NEW u, TableOK(u), Has(u), NEW h \in Host, NEW type \in Type,
             NEW v \in GroupTable(u, h, type)
      PROVE  TableOK(v) /\ Has(v)
  <2>1. PICK p : alloc_related_pid(u, h, p) /\ v = Related(u, h, type, p)
      BY DEF GroupTable, related_pids
  <2>2. /\ TableOK(v) /\ (u.bad => v.bad)
        /\ ~v.bad => \A x \in DOMAIN u.qnx : /\ x \in DOMAIN v.qnx
                                             /\ v.qnx[x] = u.qnx[x]
      BY <1>3, <2>1, RelatedOK
  <2> QED BY <1>3, <2>2
<1>4. PICK t1 \in GroupTable(SelfTable(dad, pp, self, m), sid, "SID") :
      \E t2 \in GroupTable(t1, dadgrp, "PGID") : t \in GroupTable(t2, grp, "PGID")
    BY DEF InitialTables
<1>5. PICK t2 \in GroupTable(t1, dadgrp, "PGID") :
          t \in GroupTable(t2, grp, "PGID")
    BY <1>4
<1>6. "SID" \in Type /\ "PGID" \in Type
    BY DEF Type
<1>7. TableOK(t1) /\ Has(t1)
    BY <1>2, <1>3, <1>4, <1>6
<1>8. TableOK(t2) /\ Has(t2)
    BY <1>3, <1>5, <1>6, <1>7
<1>9. TableOK(t) /\ Has(t)
    BY <1>3, <1>5, <1>6, <1>8
<1> QED BY <1>1, <1>2, <1>9

-----------------------------------------------------------------------------
(* The inductive invariant.                                                *)

(* Only a running process has children it has forked or is forking.        *)
IdleKidless ==
    \A p \in Proc : st[p] # "run" =>
        newborn[p] = NoChild /\ DOMAIN told[p] = {}

(* A child that fork has returned, or that the guest knows of, is still a  *)
(* child of this process on the host: it is not reaped, and its PID not    *)
(* reused, before the guest waits for it.                                  *)
KidsKept ==
    /\ \A p \in Proc : ppid[p] # p
    /\ \A p \in Proc : newborn[p] # NoChild =>
          ppid[newborn[p]] = p /\ st[newborn[p]] # "free"
    /\ \A p \in Proc : \A c \in DOMAIN told[p] : ppid[c] = p /\ st[c] # "free"

(* Between fork and the last of the two allocations for the child, the     *)
(* side that has not allocated yet has the table that the other one        *)
(* allocated in.                                                           *)
SameTable ==
    /\ \A p \in Proc : newborn[p] # NoChild =>
          LET c == newborn[p]
          IN  /\ st[c] = "forked" => tab[c] = tab[p]
              /\ st[c] = "run" /\ forked[c] => alloc_related_pid(tab[p], c, my[c])
    /\ \A p \in Proc : \A c \in DOMAIN told[p] :
          st[c] = "forked" => alloc_child_pid(tab[c], c, told[p][c])

IInv ==
    /\ TypeOK
    /\ TablesConsistent
    /\ SelfKnown
    /\ ChildrenKnown
    /\ IdleKidless
    /\ KidsKept
    /\ SameTable
    /\ ForkAgrees

(* A process starts with a table in order and no children.                 *)
LEMMA InvInit == Init => IInv
<1> SUFFICES ASSUME Init PROVE IInv
    OBVIOUS
<1>1. PICK pp \in related_pids(PermanentTable, Leader) :
      \E m \in related_pids(ParentTable(Leader, pp), Root) :
      \E t \in InitialTables(Leader, pp, Root, m, Leader, Leader, Leader) :
          /\ tab = [p \in Proc |-> IF p = Root THEN t ELSE PermanentTable]
          /\ my = [p \in Proc |-> IF p = Root THEN m ELSE PID_PROC]
          /\ parent = [p \in Proc |-> IF p = Root THEN pp ELSE PID_PROC]
    BY DEF Init
<1>2. PICK m \in related_pids(ParentTable(Leader, pp), Root) :
      \E t \in InitialTables(Leader, pp, Root, m, Leader, Leader, Leader) :
          /\ tab = [p \in Proc |-> IF p = Root THEN t ELSE PermanentTable]
          /\ my = [p \in Proc |-> IF p = Root THEN m ELSE PID_PROC]
          /\ parent = [p \in Proc |-> IF p = Root THEN pp ELSE PID_PROC]
    BY <1>1
<1>3. PICK t \in InitialTables(Leader, pp, Root, m, Leader, Leader, Leader) :
          /\ tab = [p \in Proc |-> IF p = Root THEN t ELSE PermanentTable]
          /\ my = [p \in Proc |-> IF p = Root THEN m ELSE PID_PROC]
          /\ parent = [p \in Proc |-> IF p = Root THEN pp ELSE PID_PROC]
    BY <1>2
<1>4. Leader \in Host /\ Root \in Host /\ Root \in Proc
    BY ProcAssumption DEF Host
<1>5. /\ TableOK(t) /\ pp \in QnxPid /\ m \in QnxPid
      /\ ~t.bad => m \in DOMAIN t.qnx /\ t.qnx[m].host = Root
    BY <1>4, InitialOK
<1>6. \A p \in Proc : TableOK(tab[p])
    BY <1>3, <1>5, PermanentOK
<1>7. TypeOK
  <2>1. PID_PROC \in QnxPid
      BY DEF QnxPid
  <2>2. my \in [Proc -> QnxPid] /\ parent \in [Proc -> QnxPid]
      BY <1>3, <1>5, <2>1
  <2>3. DOMAIN tab = Proc /\ \A p \in Proc : IsTable(tab[p])
      BY <1>3, <1>6 DEF TableOK
  <2>4. DOMAIN told = Proc /\ \A p \in Proc : DOMAIN told[p] = {}
      BY DEF Init, NoKids
  <2> QED BY <1>4, <2>2, <2>3, <2>4, ProcAssumption DEF Init, TypeOK, NoChild
<1>8. TablesConsistent
    BY <1>6 DEF TablesConsistent, TableOK
<1>9. SelfKnown
    BY <1>3, <1>5 DEF SelfKnown, Init
<1>10. ChildrenKnown /\ IdleKidless /\ KidsKept /\ SameTable /\ ForkAgrees
  <2>1. \A p \in Proc : /\ DOMAIN told[p] = {} /\ newborn[p] = NoChild
                        /\ ppid[p] = Leader
      BY DEF Init, NoKids
  <2> QED BY <2>1, ProcAssumption
          DEF ChildrenKnown, IdleKidless, KidsKept, SameTable, ForkAgrees
<1> QED BY <1>7, <1>8, <1>9, <1>10 DEF IInv

-----------------------------------------------------------------------------
(* Steps.                                                                  *)

(* In every state of the invariant each table is in order.                 *)
LEMMA TabOK == ASSUME IInv, NEW p \in Proc PROVE TableOK(tab[p])
BY DEF IInv, TypeOK, TablesConsistent, TableOK

(* fork keeps the invariant: the child's PID was not in use.               *)
LEMMA ForkStep ==
  ASSUME IInv, NEW p \in Proc, NEW c \in Proc,
         NEW as \in {"forked", "spawned"}, fork(p, c, as)
  PROVE  IInv'
<1>1. p # c /\ st[p] = "run" /\ st[c] = "free" /\ newborn[p] = NoChild
    BY DEF fork, Running
<1>2. newborn[c] = NoChild /\ DOMAIN told[c] = {}
    BY <1>1 DEF IInv, IdleKidless
<1>3. \A q \in Proc : newborn[q] # c /\ c \notin DOMAIN told[q]
  <2>1. c # NoChild
      BY ProcAssumption DEF NoChild
  <2> QED BY <1>1, <2>1 DEF IInv, KidsKept
<1>4. /\ DOMAIN tab = Proc /\ told' = told /\ DOMAIN told = Proc
      /\ tab' = [tab EXCEPT ![c] = tab[p]]
      /\ st' = [st EXCEPT ![c] = as] /\ ppid' = [ppid EXCEPT ![c] = p]
      /\ newborn' = [newborn EXCEPT ![p] = c]
      /\ forked' = [forked EXCEPT ![c] = (as = "forked")]
      /\ my' = [my EXCEPT ![c] = my[p]]
    BY DEF fork, IInv, TypeOK
<1>5. TypeOK'
  <2>1. \A q \in Proc : IsTable(tab'[q])
      BY <1>4 DEF IInv, TypeOK
  <2>2. DOMAIN tab' = Proc /\ newborn' \in [Proc -> Proc \cup {NoChild}]
        /\ st' \in [Proc -> {"free", "forked", "spawned", "run", "zombie"}]
        /\ forked' \in [Proc -> BOOLEAN]
      BY <1>4 DEF IInv, TypeOK
  <2>3. ppid' \in [Proc -> Host] /\ pgid' \in [Proc -> Host]
      BY DEF fork, IInv, TypeOK, Host
  <2>4. my' \in [Proc -> QnxPid] /\ parent' \in [Proc -> QnxPid]
      BY DEF fork, IInv, TypeOK
  <2>5. forks' \in 0 .. MaxForks /\ died' = "none"
      BY ProcAssumption DEF fork, IInv, TypeOK
  <2> QED BY <1>4, <2>1, <2>2, <2>3, <2>4, <2>5 DEF IInv, TypeOK
<1>6. TablesConsistent'
    BY <1>4 DEF IInv, TablesConsistent
<1>7. SelfKnown'
    BY <1>1, <1>4 DEF IInv, SelfKnown, TypeOK
<1>8. ChildrenKnown'
    BY <1>2, <1>4 DEF IInv, ChildrenKnown
<1>9. IdleKidless'
    BY <1>1, <1>2, <1>4 DEF IInv, IdleKidless, TypeOK
<1>10. KidsKept'
  <2>1. \A q \in Proc : ppid'[q] # q
      BY <1>1, <1>4 DEF IInv, KidsKept, TypeOK
  <2>2. ASSUME NEW q \in Proc, newborn'[q] # NoChild
        PROVE  ppid'[newborn'[q]] = q /\ st'[newborn'[q]] # "free"
    <3>1. CASE q = p
        BY <1>1, <1>4, <3>1 DEF IInv, TypeOK
    <3>2. CASE q # p
      <4>1. newborn'[q] = newborn[q] /\ newborn[q] \in Proc /\ newborn[q] # c
          BY <1>3, <1>4, <2>2, <3>2 DEF IInv, TypeOK
      <4>2. ppid[newborn[q]] = q /\ st[newborn[q]] # "free"
          BY <2>2, <4>1 DEF IInv, KidsKept
      <4> QED BY <1>4, <4>1, <4>2 DEF IInv, TypeOK
    <3> QED BY <3>1, <3>2
  <2>3. ASSUME NEW q \in Proc, NEW k \in DOMAIN told'[q]
        PROVE  ppid'[k] = q /\ st'[k] # "free"
      BY <1>3, <1>4 DEF IInv, KidsKept, TypeOK
  <2> QED BY <2>1, <2>2, <2>3 DEF KidsKept
<1>11. SameTable'
  <2>1. ASSUME NEW q \in Proc, newborn'[q] # NoChild, NEW k, k = newborn'[q]
        PROVE  /\ st'[k] = "forked" => tab'[k] = tab'[q]
               /\ st'[k] = "run" /\ forked'[k] =>
                     alloc_related_pid(tab'[q], k, my'[k])
    <3>1. CASE q = p
      <4>1. k = c /\ st'[k] = as /\ tab'[k] = tab[p] /\ tab'[p] = tab[p]
          BY <1>1, <1>4, <2>1, <3>1 DEF IInv, TypeOK
      <4> QED BY <3>1, <4>1
    <3>2. CASE q # p
      <4>1. k = newborn[q] /\ k \in Proc /\ k # c /\ q # c
          BY <1>2, <1>3, <1>4, <2>1, <3>2 DEF IInv, TypeOK
      <4>2. /\ st'[k] = st[k] /\ tab'[k] = tab[k] /\ tab'[q] = tab[q]
            /\ forked'[k] = forked[k] /\ my'[k] = my[k]
          BY <1>4, <4>1 DEF IInv, TypeOK
      <4>3. k # NoChild
          BY <4>1, ProcAssumption DEF NoChild
      <4> QED BY <4>1, <4>2, <4>3 DEF IInv, SameTable
    <3> QED BY <3>1, <3>2
  <2>2. ASSUME NEW q \in Proc, NEW k \in DOMAIN told'[q], st'[k] = "forked"
        PROVE  alloc_child_pid(tab'[k], k, told'[q][k])
      BY <1>3, <1>4, <2>2 DEF IInv, SameTable, TypeOK
  <2> QED BY <2>1, <2>2 DEF SameTable
<1>12. ForkAgrees'
    BY <1>1, <1>3, <1>4 DEF IInv, ForkAgrees, TypeOK
<1> QED BY <1>5, <1>6, <1>7, <1>8, <1>9, <1>10, <1>11, <1>12 DEF IInv

(* The end of a process keeps the invariant: its children go to Leader,    *)
(* and nobody else has them.                                               *)
LEMMA EndedStep ==
  ASSUME IInv, NEW p \in Proc, st[p] \in {"forked", "spawned", "run"},
         Ended(p), forks' = forks,
         died' \in {"none", "assert", "full", "dangling", "null"}
  PROVE  IInv'
<1>1. /\ DOMAIN tab = Proc /\ DOMAIN told = Proc /\ Leader \notin Proc
      /\ tab' = [tab EXCEPT ![p] = PermanentTable]
      /\ told' = [told EXCEPT ![p] = NoKids]
      /\ newborn' = [newborn EXCEPT ![p] = NoChild]
      /\ forked' = [forked EXCEPT ![p] = FALSE]
      /\ my' = [my EXCEPT ![p] = PID_PROC]
      /\ DOMAIN NoKids = {}
    BY ProcAssumption DEF Ended, IInv, TypeOK, NoKids
<1>2. /\ \A q \in Proc : ppid'[q] = IF ppid[q] = p THEN Leader ELSE ppid[q]
      /\ st'[p] \in {"zombie", "free"}
      /\ \A q \in Proc : q # p =>
            st'[q] = IF ppid[q] = p /\ st[q] = "zombie" THEN "free" ELSE st[q]
      /\ ppid[p] \in Proc => st'[p] = "zombie"
    BY DEF Ended
<1>3. TypeOK'
  <2>1. \A q \in Proc : IsTable(tab'[q])
      BY <1>1, PermanentOK DEF IInv, TypeOK, TableOK
  <2>2. DOMAIN tab' = Proc /\ newborn' \in [Proc -> Proc \cup {NoChild}]
        /\ forked' \in [Proc -> BOOLEAN]
      BY <1>1 DEF IInv, TypeOK
  <2>3. st' \in [Proc -> {"free", "forked", "spawned", "run", "zombie"}]
      BY DEF Ended, IInv, TypeOK
  <2>4. ppid' \in [Proc -> Host] /\ pgid' \in [Proc -> Host]
      BY DEF Ended, IInv, TypeOK, Host
  <2>5. my' \in [Proc -> QnxPid] /\ parent' \in [Proc -> QnxPid]
      BY DEF Ended, IInv, TypeOK, QnxPid
  <2>6. /\ DOMAIN told' = Proc
        /\ \A q \in Proc : /\ DOMAIN told'[q] \subseteq Proc
                            /\ \A c \in DOMAIN told'[q] : told'[q][c] \in QnxPid
      BY <1>1 DEF IInv, TypeOK
  <2> QED BY <2>1, <2>2, <2>3, <2>4, <2>5, <2>6 DEF IInv, TypeOK
<1>4. TablesConsistent'
    BY <1>1, PermanentOK DEF IInv, TablesConsistent, TableOK
<1>5. SelfKnown'
    BY <1>1, <1>2 DEF IInv, SelfKnown, TypeOK
<1>6. ChildrenKnown'
    BY <1>1 DEF IInv, ChildrenKnown
<1>7. IdleKidless'
    BY <1>1, <1>2 DEF IInv, IdleKidless, TypeOK
<1>8. KidsKept'
    BY <1>1, <1>2 DEF IInv, KidsKept, TypeOK
<1>9. SameTable'
    BY <1>1, <1>2 DEF IInv, SameTable, KidsKept, TypeOK
<1>10. ForkAgrees'
    BY <1>1, <1>2 DEF IInv, ForkAgrees, TypeOK
<1> QED BY <1>3, <1>4, <1>5, <1>6, <1>7, <1>8, <1>9, <1>10 DEF IInv

(* The parent's allocation keeps the invariant.  If the child has not      *)
(* allocated yet it has the same table; if it has, it got the same PID.    *)
LEMMA ForkParentStep ==
  ASSUME IInv, NEW p \in Proc, fork_parent(p)
  PROVE  IInv'
<1> DEFINE c == newborn[p]
<1>1. /\ st[p] = "run" /\ c \in Proc /\ c \in Host /\ c \in Nat
      /\ ppid[c] = p /\ st[c] # "free" /\ c # p /\ c # NoChild
    BY ProcAssumption DEF fork_parent, IInv, TypeOK, KidsKept, Host
<1>2. PICK q \in AnyPid :
          /\ alloc_child_pid(tab[p], c, q)
          /\ tab' = [tab EXCEPT ![p] = Enter(@, q, c, "CHILD")]
          /\ told' = [told EXCEPT ![p] =
                        [k \in DOMAIN @ \cup {c} |-> IF k = c THEN q ELSE @[k]]]
    BY DEF fork_parent
<1>3. q \in QnxPid /\ c \notin DOMAIN tab[p].rev /\ "CHILD" \in Type
    BY <1>1, <1>2, AllocEmptyRange DEF alloc_child_pid, ChildIsNew, QnxPid, Type
<1> DEFINE u == Enter(tab[p], q, c, "CHILD")
<1>4. /\ TableOK(u)
      /\ tab[p].bad => u.bad
      /\ q \in DOMAIN u.qnx /\ u.qnx[q] = Entry(c, "CHILD")
      /\ DOMAIN u.rev = DOMAIN tab[p].rev \cup {c} /\ u.rev[c] = q
      /\ \A x \in DOMAIN tab[p].rev : u.rev[x] = tab[p].rev[x]
      /\ ~u.bad => \A x \in DOMAIN tab[p].qnx : /\ x \in DOMAIN u.qnx
                                                /\ u.qnx[x] = tab[p].qnx[x]
    BY <1>1, <1>3, TabOK, EnterOK
<1> HIDE DEF u, c
<1>5. /\ DOMAIN tab = Proc /\ DOMAIN told = Proc
      /\ DOMAIN tab' = Proc /\ DOMAIN told' = Proc
      /\ tab'[p] = u /\ \A x \in Proc : x # p => tab'[x] = tab[x]
      /\ DOMAIN told'[p] = DOMAIN told[p] \cup {c}
      /\ told'[p][c] = q
      /\ \A k \in DOMAIN told[p] : k # c => told'[p][k] = told[p][k]
      /\ \A x \in Proc : x # p => told'[x] = told[x]
    BY <1>2 DEF u, IInv, TypeOK
<1>6. /\ newborn' = [newborn EXCEPT ![p] = NoChild] /\ died' = "none"
      /\ UNCHANGED <<st, ppid, pgid, my, parent, forked, forks>>
    BY DEF fork_parent
<1>7. TypeOK'
  <2>1. \A x \in Proc : IsTable(tab'[x])
      BY <1>4, <1>5 DEF IInv, TypeOK, TableOK
  <2>2. \A x \in Proc : /\ DOMAIN told'[x] \subseteq Proc
                        /\ \A k \in DOMAIN told'[x] : told'[x][k] \in QnxPid
      BY <1>1, <1>3, <1>5 DEF IInv, TypeOK
  <2>3. newborn' \in [Proc -> Proc \cup {NoChild}]
      BY <1>6 DEF IInv, TypeOK
  <2> QED BY <1>5, <1>6, <2>1, <2>2, <2>3 DEF IInv, TypeOK
<1>8. TablesConsistent'
    BY <1>4, <1>5 DEF IInv, TablesConsistent, TableOK
<1>9. SelfKnown'
    BY <1>4, <1>5, <1>6 DEF IInv, SelfKnown
<1>10. ChildrenKnown'
  <2>1. ASSUME NEW x \in Proc, NEW k \in DOMAIN told'[x], ~tab'[x].bad
        PROVE  /\ k \in DOMAIN tab'[x].rev
               /\ tab'[x].rev[k] = told'[x][k]
               /\ tab'[x].qnx[told'[x][k]] = Entry(k, "CHILD")
    <3>1. CASE x # p
        BY <1>5, <2>1, <3>1 DEF IInv, ChildrenKnown
    <3>2. CASE x = p /\ k = c
        BY <1>4, <1>5, <3>2
    <3>3. CASE x = p /\ k # c
      <4>1. /\ k \in DOMAIN told[p] /\ ~tab[p].bad
            /\ told'[p][k] = told[p][k] /\ tab'[p] = u
          BY <1>4, <1>5, <2>1, <3>3
      <4>2. /\ k \in DOMAIN tab[p].rev /\ tab[p].rev[k] = told[p][k]
            /\ tab[p].qnx[told[p][k]] = Entry(k, "CHILD")
          BY <4>1 DEF IInv, ChildrenKnown
      <4>3. told[p][k] \in DOMAIN tab[p].qnx
          BY <4>1, <4>2 DEF IInv, TablesConsistent, Consistent
      <4> QED BY <1>4, <2>1, <3>3, <4>1, <4>2, <4>3
    <3> QED BY <3>1, <3>2, <3>3
  <2> QED BY <2>1 DEF ChildrenKnown
<1>11. IdleKidless'
    BY <1>1, <1>5, <1>6 DEF IInv, IdleKidless, TypeOK
<1>12. KidsKept'
    BY <1>1, <1>5, <1>6 DEF IInv, KidsKept, TypeOK
<1>13. SameTable'
  <2>1. ASSUME NEW x \in Proc, newborn'[x] # NoChild, NEW k, k = newborn'[x]
        PROVE  /\ st'[k] = "forked" => tab'[k] = tab'[x]
               /\ st'[k] = "run" /\ forked'[k] =>
                     alloc_related_pid(tab'[x], k, my'[k])
    <3>1. x # p /\ k = newborn[x] /\ k \in Proc /\ ppid[k] = x
        BY <1>6, <2>1 DEF IInv, TypeOK, KidsKept
    <3>2. tab'[x] = tab[x] /\ st' = st /\ forked' = forked /\ my' = my
        BY <1>5, <1>6, <3>1
    <3>3. st[k] = "forked" => k # p
        BY <1>1
    <3> QED BY <1>5, <2>1, <3>1, <3>2, <3>3 DEF IInv, SameTable
  <2>2. ASSUME NEW x \in Proc, NEW k \in DOMAIN told'[x], st'[k] = "forked"
        PROVE  alloc_child_pid(tab'[k], k, told'[x][k])
    <3>1. k \in Proc /\ k # p /\ tab'[k] = tab[k] /\ st[k] = "forked"
        BY <1>1, <1>5, <1>6, <2>2, <1>7 DEF TypeOK
    <3>2. CASE x = p /\ k = c
      <4>1. tab[c] = tab[p]
          BY <1>1, <3>1, <3>2 DEF IInv, SameTable, c
      <4> QED BY <1>2, <1>5, <3>1, <3>2, <4>1 DEF c
    <3>3. CASE ~(x = p /\ k = c)
        BY <1>5, <2>2, <3>1, <3>3 DEF IInv, SameTable
    <3> QED BY <3>2, <3>3
  <2> QED BY <2>1, <2>2 DEF SameTable
<1>14. ForkAgrees'
  <2>1. ASSUME NEW x \in Proc, NEW k \in Proc, ppid'[k] = x, st'[k] = "run",
               forked'[k], k \in DOMAIN told'[x]
        PROVE  my'[k] = told'[x][k]
    <3>1. CASE x = p /\ k = c
      <4>1. alloc_related_pid(tab[p], c, my[c])
          BY <1>1, <1>6, <2>1, <3>1 DEF IInv, SameTable, c
      <4>2. alloc_empty(tab[p], c, my[c]) /\ alloc_empty(tab[p], c, q)
          BY <1>2, <1>3, <4>1 DEF alloc_related_pid, alloc_child_pid, c
      <4>3. my[c] = q
          BY <1>1, <4>2, AllocEmptyUnique
      <4> QED BY <1>5, <1>6, <3>1, <4>3
    <3>2. CASE ~(x = p /\ k = c)
        BY <1>5, <1>6, <2>1, <3>2 DEF IInv, ForkAgrees
    <3> QED BY <3>1, <3>2
  <2> QED BY <2>1 DEF ForkAgrees
<1> QED BY <1>7, <1>8, <1>9, <1>10, <1>11, <1>12, <1>13, <1>14 DEF IInv

(* The child's allocation keeps the invariant, for the same reason.        *)
LEMMA ForkChildStep ==
  ASSUME IInv, NEW c \in Proc, fork_child(c)
  PROVE  IInv'
<1>1. PICK q \in AnyPid :
          /\ alloc_related_pid(tab[c], c, q)
          /\ tab' = [tab EXCEPT ![c] = Related(@, c, "SELF", q)]
          /\ my' = [my EXCEPT ![c] = q]
    BY DEF fork_child
<1>2. /\ st[c] = "forked" /\ c \in Host /\ c \in Nat /\ "SELF" \in Type
      /\ newborn[c] = NoChild /\ DOMAIN told[c] = {}
    BY ProcAssumption DEF fork_child, IInv, IdleKidless, Host, Type
<1> DEFINE u == Related(tab[c], c, "SELF", q)
<1>3. /\ TableOK(u) /\ q \in QnxPid
      /\ ~u.bad => q \in DOMAIN u.qnx /\ u.qnx[q].host = c
    BY <1>1, <1>2, TabOK, RelatedOK
<1> HIDE DEF u
<1>4. /\ DOMAIN tab = Proc /\ DOMAIN tab' = Proc
      /\ tab'[c] = u /\ \A x \in Proc : x # c => tab'[x] = tab[x]
      /\ my'[c] = q /\ \A x \in Proc : x # c => my'[x] = my[x]
      /\ st'[c] = "run" /\ \A x \in Proc : x # c => st'[x] = st[x]
      /\ UNCHANGED <<ppid, pgid, newborn, forked, told, forks>>
      /\ parent' = [parent EXCEPT ![c] = my[c]] /\ died' = "none"
    BY <1>1 DEF fork_child, u, IInv, TypeOK
<1>5. TypeOK'
  <2>1. \A x \in Proc : IsTable(tab'[x])
      BY <1>3, <1>4 DEF IInv, TypeOK, TableOK
  <2>2. my' \in [Proc -> QnxPid] /\ parent' \in [Proc -> QnxPid]
      BY <1>1, <1>3, <1>4 DEF IInv, TypeOK
  <2>3. st' \in [Proc -> {"free", "forked", "spawned", "run", "zombie"}]
      BY DEF fork_child, IInv, TypeOK
  <2> QED BY <1>4, <2>1, <2>2, <2>3 DEF IInv, TypeOK
<1>6. TablesConsistent'
    BY <1>3, <1>4 DEF IInv, TablesConsistent, TableOK
<1>7. SelfKnown'
    BY <1>3, <1>4 DEF IInv, SelfKnown
<1>8. ChildrenKnown'
    BY <1>2, <1>4 DEF IInv, ChildrenKnown
<1>9. IdleKidless'
    BY <1>4 DEF IInv, IdleKidless
<1>10. KidsKept'
  <2>1. \A x \in Proc : st'[x] = "free" => st[x] = "free"
      BY <1>4
  <2> QED BY <1>4, <2>1 DEF IInv, KidsKept, TypeOK
<1>11. SameTable'
  <2>1. ASSUME NEW x \in Proc, newborn'[x] # NoChild, NEW k, k = newborn'[x]
        PROVE  /\ st'[k] = "forked" => tab'[k] = tab'[x]
               /\ st'[k] = "run" /\ forked'[k] =>
                     alloc_related_pid(tab'[x], k, my'[k])
    <3>1. x # c /\ tab'[x] = tab[x] /\ k = newborn[x] /\ k \in Proc
        BY <1>2, <1>4, <2>1 DEF IInv, TypeOK
    <3>2. CASE k = c
      <4>1. tab[c] = tab[x]
          BY <1>2, <2>1, <3>1, <3>2, <1>4 DEF IInv, SameTable
      <4> QED BY <1>1, <1>4, <3>1, <3>2, <4>1
    <3>3. CASE k # c
        BY <1>4, <2>1, <3>1, <3>3 DEF IInv, SameTable
    <3> QED BY <3>2, <3>3
  <2>2. ASSUME NEW x \in Proc, NEW k \in DOMAIN told'[x], st'[k] = "forked"
        PROVE  alloc_child_pid(tab'[k], k, told'[x][k])
    <3>1. k \in Proc /\ k # c
        BY <1>4, <2>2 DEF IInv, TypeOK
    <3> QED BY <1>4, <2>2, <3>1 DEF IInv, SameTable
  <2> QED BY <2>1, <2>2 DEF SameTable
<1>12. ForkAgrees'
  <2>1. ASSUME NEW x \in Proc, NEW k \in Proc, ppid'[k] = x, st'[k] = "run",
               forked'[k], k \in DOMAIN told'[x]
        PROVE  my'[k] = told'[x][k]
    <3>1. CASE k = c
      <4>1. alloc_child_pid(tab[c], c, told[x][c])
          BY <1>2, <1>4, <2>1, <3>1 DEF IInv, SameTable
      <4>2. alloc_empty(tab[c], c, told[x][c]) /\ alloc_empty(tab[c], c, q)
          BY <1>1, <4>1 DEF alloc_child_pid, alloc_related_pid, ChildIsNew
      <4> QED BY <1>2, <1>4, <3>1, <4>2, AllocEmptyUnique
    <3>2. CASE k # c
        BY <1>4, <2>1, <3>2 DEF IInv, ForkAgrees
    <3> QED BY <3>1, <3>2
  <2> QED BY <2>1 DEF ForkAgrees
<1> QED BY <1>5, <1>6, <1>7, <1>8, <1>9, <1>10, <1>11, <1>12 DEF IInv

(* A new program keeps the invariant: it starts with a new table and       *)
(* knows of no children.                                                   *)
LEMMA ExecStep ==
  ASSUME IInv, NEW p \in Proc, execve(p)
  PROVE  IInv'
<1>1. /\ ppid[p] \in Host /\ p \in Host /\ Leader \in Host
      /\ GroupOf(ppid[p]) \in Host /\ pgid[p] \in Host
    BY ProcAssumption DEF IInv, TypeOK, Host, GroupOf
<1>2. PICK pp \in related_pids(PermanentTable, ppid[p]) :
      \E m \in related_pids(ParentTable(ppid[p], pp), p) :
      \E t \in InitialTables(ppid[p], pp, p, m, Leader, GroupOf(ppid[p]),
                             pgid[p]) :
          /\ tab' = [tab EXCEPT ![p] = t]
          /\ my' = [my EXCEPT ![p] = m]
          /\ parent' = [parent EXCEPT ![p] = pp]
    BY DEF execve
<1>3. PICK m \in related_pids(ParentTable(ppid[p], pp), p) :
      \E t \in InitialTables(ppid[p], pp, p, m, Leader, GroupOf(ppid[p]),
                             pgid[p]) :
          /\ tab' = [tab EXCEPT ![p] = t]
          /\ my' = [my EXCEPT ![p] = m]
          /\ parent' = [parent EXCEPT ![p] = pp]
    BY <1>2
<1>4. PICK t \in InitialTables(ppid[p], pp, p, m, Leader, GroupOf(ppid[p]),
                              pgid[p]) :
          /\ tab' = [tab EXCEPT ![p] = t]
          /\ my' = [my EXCEPT ![p] = m]
          /\ parent' = [parent EXCEPT ![p] = pp]
    BY <1>3
<1>5. /\ TableOK(t) /\ pp \in QnxPid /\ m \in QnxPid
      /\ ~t.bad => m \in DOMAIN t.qnx /\ t.qnx[m].host = p
    BY <1>1, InitialOK, SMTT(30)
<1>6. newborn[p] = NoChild
    BY DEF execve, Running, IInv, IdleKidless
<1>7. /\ DOMAIN tab' = Proc /\ DOMAIN told' = Proc
      /\ tab'[p] = t /\ \A x \in Proc : x # p => tab'[x] = tab[x]
      /\ my'[p] = m /\ \A x \in Proc : x # p => my'[x] = my[x]
      /\ st'[p] = "run" /\ \A x \in Proc : x # p => st'[x] = st[x]
      /\ forked'[p] = FALSE /\ \A x \in Proc : x # p => forked'[x] = forked[x]
      /\ DOMAIN told'[p] = {} /\ \A x \in Proc : x # p => told'[x] = told[x]
      /\ UNCHANGED <<ppid, pgid, newborn, forks>> /\ died' = "none"
    BY <1>4 DEF execve, IInv, TypeOK, NoKids
<1>8. TypeOK'
  <2>1. \A x \in Proc : IsTable(tab'[x])
      BY <1>5, <1>7 DEF IInv, TypeOK, TableOK
  <2>2. my' \in [Proc -> QnxPid] /\ parent' \in [Proc -> QnxPid]
      BY <1>4, <1>5 DEF IInv, TypeOK
  <2>3. /\ st' \in [Proc -> {"free", "forked", "spawned", "run", "zombie"}]
        /\ forked' \in [Proc -> BOOLEAN]
      BY DEF execve, IInv, TypeOK
  <2>4. \A x \in Proc : /\ DOMAIN told'[x] \subseteq Proc
                        /\ \A k \in DOMAIN told'[x] : told'[x][k] \in QnxPid
      BY <1>7 DEF IInv, TypeOK
  <2> QED BY <1>7, <2>1, <2>2, <2>3, <2>4 DEF IInv, TypeOK
<1>9. TablesConsistent'
    BY <1>5, <1>7 DEF IInv, TablesConsistent, TableOK
<1>10. SelfKnown'
    BY <1>5, <1>7 DEF IInv, SelfKnown
<1>11. ChildrenKnown'
    BY <1>7 DEF IInv, ChildrenKnown
<1>12. IdleKidless'
    BY <1>7 DEF IInv, IdleKidless
<1>13. KidsKept'
  <2>1. \A x \in Proc : st'[x] = "free" => st[x] = "free"
      BY <1>7
  <2>2. \A x \in Proc : DOMAIN told'[x] \subseteq DOMAIN told[x]
      BY <1>7
  <2> QED BY <1>7, <2>1, <2>2 DEF IInv, KidsKept, TypeOK
<1>14. SameTable'
  <2>1. ASSUME NEW x \in Proc, newborn'[x] # NoChild, NEW k, k = newborn'[x]
        PROVE  /\ st'[k] = "forked" => tab'[k] = tab'[x]
               /\ st'[k] = "run" /\ forked'[k] =>
                     alloc_related_pid(tab'[x], k, my'[k])
    <3>1. x # p /\ tab'[x] = tab[x] /\ k = newborn[x] /\ k \in Proc
        BY <1>6, <1>7, <2>1 DEF IInv, TypeOK
    <3> QED BY <1>7, <2>1, <3>1 DEF IInv, SameTable
  <2>2. ASSUME NEW x \in Proc, NEW k \in DOMAIN told'[x], st'[k] = "forked"
        PROVE  alloc_child_pid(tab'[k], k, told'[x][k])
    <3>1. x # p /\ k \in DOMAIN told[x] /\ k \in Proc /\ k # p
        BY <1>7, <2>2 DEF IInv, TypeOK
    <3> QED BY <1>7, <2>2, <3>1 DEF IInv, SameTable
  <2> QED BY <2>1, <2>2 DEF SameTable
<1>15. ForkAgrees'
    BY <1>7 DEF IInv, ForkAgrees
<1> QED BY <1>8, <1>9, <1>10, <1>11, <1>12, <1>13, <1>14, <1>15 DEF IInv

(* proc_wait keeps the invariant: only the child's entry goes, and nobody  *)
(* else was told of the child whose PID the host may now reuse.            *)
LEMMA WaitStep ==
  ASSUME IInv, NEW p \in Proc, NEW c \in Proc, proc_wait(p, c)
  PROVE  IInv'
<1>1. /\ st[p] = "run" /\ newborn[p] = NoChild /\ st[c] = "zombie"
      /\ ppid[c] = p /\ c # p /\ c \in Host /\ Leader \in Host /\ Leader # c
    BY ProcAssumption DEF proc_wait, Waited, Running, Host
<1> DEFINE u == IF c \in DOMAIN tab[p].rev THEN free_pid(tab[p], tab[p].rev[c])
                ELSE tab[p]
<1>2. /\ TableOK(u)
      /\ tab[p].bad => u.bad
      /\ ~u.bad => \A x \in DOMAIN tab[p].qnx :
            tab[p].qnx[x].host # c => /\ x \in DOMAIN u.qnx
                                      /\ u.qnx[x] = tab[p].qnx[x]
      /\ \A x \in DOMAIN tab[p].rev :
            ~u.bad /\ x # c => x \in DOMAIN u.rev /\ u.rev[x] = tab[p].rev[x]
  <2>1. CASE c \in DOMAIN tab[p].rev
    <3>1. tab[p].rev[c] \in DOMAIN tab[p].qnx
        BY <2>1 DEF proc_wait, Dangling
    <3>2. u = free_pid(tab[p], tab[p].rev[c])
        BY <2>1
    <3> HIDE DEF u
    <3> QED BY <1>1, <2>1, <3>1, <3>2, TabOK, FreeOK
  <2>2. CASE c \notin DOMAIN tab[p].rev
    <3>1. u = tab[p]
        BY <2>2
    <3> HIDE DEF u
    <3> QED BY <3>1, TabOK
  <2> QED BY <2>1, <2>2
<1> HIDE DEF u
<1>3. /\ DOMAIN tab' = Proc /\ DOMAIN told' = Proc
      /\ tab'[p] = u /\ \A x \in Proc : x # p => tab'[x] = tab[x]
      /\ DOMAIN told'[p] = DOMAIN told[p] \ {c}
      /\ \A k \in DOMAIN told'[p] : told'[p][k] = told[p][k]
      /\ \A x \in Proc : x # p => told'[x] = told[x]
    BY DEF proc_wait, Restrict, u, IInv, TypeOK
<1>4. /\ st'[c] = "free" /\ \A x \in Proc : x # c => st'[x] = st[x]
      /\ ppid'[c] = Leader /\ \A x \in Proc : x # c => ppid'[x] = ppid[x]
      /\ UNCHANGED <<pgid, my, parent, newborn, forked, forks>>
      /\ died' = "none"
    BY DEF proc_wait, IInv, TypeOK
<1>5. ASSUME NEW x \in Proc
      PROVE  newborn'[x] # c /\ c \notin DOMAIN told'[x]
  <2>1. newborn[x] # c
      BY <1>1, ProcAssumption DEF IInv, KidsKept, NoChild
  <2>2. c \in DOMAIN told[x] => x = p
      BY <1>1 DEF IInv, KidsKept
  <2> QED BY <1>3, <1>4, <2>1, <2>2
<1>6. ASSUME NEW x \in Proc, NEW k \in DOMAIN told'[x]
      PROVE  /\ k \in DOMAIN told[x] /\ told'[x][k] = told[x][k]
             /\ k \in Proc /\ k # c
    BY <1>3, <1>5 DEF IInv, TypeOK
<1>7. TypeOK'
  <2>1. \A x \in Proc : IsTable(tab'[x])
      BY <1>2, <1>3 DEF IInv, TypeOK, TableOK
  <2>2. \A x \in Proc : /\ DOMAIN told'[x] \subseteq Proc
                        /\ \A k \in DOMAIN told'[x] : told'[x][k] \in QnxPid
      BY <1>6 DEF IInv, TypeOK
  <2>3. /\ st' \in [Proc -> {"free", "forked", "spawned", "run", "zombie"}]
        /\ ppid' \in [Proc -> Host]
      BY <1>1 DEF proc_wait, IInv, TypeOK
  <2> QED BY <1>3, <1>4, <2>1, <2>2, <2>3 DEF IInv, TypeOK
<1>8. TablesConsistent'
    BY <1>2, <1>3 DEF IInv, TablesConsistent, TableOK
<1>9. SelfKnown'
  <2>1. ASSUME NEW x \in Proc, st'[x] = "run", ~tab'[x].bad
        PROVE  /\ my'[x] \in DOMAIN tab'[x].qnx
               /\ tab'[x].qnx[my'[x]].host = x
    <3>1. x # c /\ st[x] = "run" /\ my' = my
        BY <1>4, <2>1
    <3>2. CASE x = p
        BY <1>1, <1>2, <1>3, <2>1, <3>1, <3>2 DEF IInv, SelfKnown
    <3>3. CASE x # p
        BY <1>3, <2>1, <3>1, <3>3 DEF IInv, SelfKnown
    <3> QED BY <3>2, <3>3
  <2> QED BY <2>1 DEF SelfKnown
<1>10. ChildrenKnown'
  <2>1. ASSUME NEW x \in Proc, NEW k \in DOMAIN told'[x], ~tab'[x].bad
        PROVE  /\ k \in DOMAIN tab'[x].rev
               /\ tab'[x].rev[k] = told'[x][k]
               /\ tab'[x].qnx[told'[x][k]] = Entry(k, "CHILD")
    <3>1. CASE x # p
        BY <1>3, <2>1, <3>1 DEF IInv, ChildrenKnown
    <3>2. CASE x = p
      <4>1. /\ k \in DOMAIN told[p] /\ k # c /\ told'[p][k] = told[p][k]
            /\ tab'[p] = u /\ ~u.bad /\ ~tab[p].bad
          BY <1>2, <1>3, <1>6, <2>1, <3>2
      <4>2. /\ k \in DOMAIN tab[p].rev /\ tab[p].rev[k] = told[p][k]
            /\ tab[p].qnx[told[p][k]] = Entry(k, "CHILD")
          BY <4>1 DEF IInv, ChildrenKnown
      <4>3. told[p][k] \in DOMAIN tab[p].qnx
          BY <4>1, <4>2 DEF IInv, TablesConsistent, Consistent
      <4>4. tab[p].qnx[told[p][k]].host # c
          BY <4>1, <4>2 DEF Entry
      <4> QED BY <1>2, <3>2, <4>1, <4>2, <4>3, <4>4
    <3> QED BY <3>1, <3>2
  <2> QED BY <2>1 DEF ChildrenKnown
<1>11. IdleKidless'
  <2>1. ASSUME NEW x \in Proc, st'[x] # "run"
        PROVE  newborn'[x] = NoChild /\ DOMAIN told'[x] = {}
    <3>1. st[x] # "run"
        BY <1>1, <1>4, <2>1
    <3>2. newborn[x] = NoChild /\ DOMAIN told[x] = {}
        BY <3>1 DEF IInv, IdleKidless
    <3> QED BY <1>3, <1>4, <3>2
  <2> QED BY <2>1 DEF IdleKidless
<1>12. KidsKept'
  <2>1. ASSUME NEW x \in Proc PROVE ppid'[x] # x
      BY <1>1, <1>4 DEF IInv, KidsKept
  <2>2. ASSUME NEW x \in Proc, newborn'[x] # NoChild
        PROVE  ppid'[newborn'[x]] = x /\ st'[newborn'[x]] # "free"
      BY <1>4, <1>5, <2>2 DEF IInv, KidsKept, TypeOK
  <2>3. ASSUME NEW x \in Proc, NEW k \in DOMAIN told'[x]
        PROVE  ppid'[k] = x /\ st'[k] # "free"
      BY <1>4, <1>6 DEF IInv, KidsKept
  <2> QED BY <2>1, <2>2, <2>3 DEF KidsKept
<1>13. SameTable'
  <2>1. ASSUME NEW x \in Proc, newborn'[x] # NoChild, NEW k, k = newborn'[x]
        PROVE  /\ st'[k] = "forked" => tab'[k] = tab'[x]
               /\ st'[k] = "run" /\ forked'[k] =>
                     alloc_related_pid(tab'[x], k, my'[k])
    <3>1. /\ x # p /\ k # c /\ k = newborn[x] /\ k \in Proc
          /\ tab'[x] = tab[x] /\ st'[k] = st[k]
        BY <1>1, <1>3, <1>4, <1>5, <2>1 DEF IInv, TypeOK
    <3>2. st[k] = "forked" => tab'[k] = tab[k]
        BY <1>1, <1>3, <3>1
    <3> QED BY <1>4, <2>1, <3>1, <3>2 DEF IInv, SameTable
  <2>2. ASSUME NEW x \in Proc, NEW k \in DOMAIN told'[x], st'[k] = "forked"
        PROVE  alloc_child_pid(tab'[k], k, told'[x][k])
    <3>1. /\ k \in DOMAIN told[x] /\ told'[x][k] = told[x][k] /\ k \in Proc
          /\ st[k] = "forked"
        BY <1>4, <1>6, <2>2
    <3>2. tab'[k] = tab[k]
        BY <1>1, <1>3, <3>1
    <3> QED BY <3>1, <3>2 DEF IInv, SameTable
  <2> QED BY <2>1, <2>2 DEF SameTable
<1>14. ForkAgrees'
  <2>1. ASSUME NEW x \in Proc, NEW k \in Proc, ppid'[k] = x, st'[k] = "run",
               forked'[k], k \in DOMAIN told'[x]
        PROVE  my'[k] = told'[x][k]
      BY <1>4, <1>6, <2>1 DEF IInv, ForkAgrees
  <2> QED BY <2>1 DEF ForkAgrees
<1> QED BY <1>7, <1>8, <1>9, <1>10, <1>11, <1>12, <1>13, <1>14 DEF IInv

(* proc_setpgid moves processes between groups and touches no table.       *)
LEMMA SetpgidStep ==
  ASSUME IInv, NEW p \in Proc, NEW q \in Proc, NEW g \in Host,
         proc_setpgid(p, q, g)
  PROVE  IInv'
<1>1. UNCHANGED <<st, ppid, tab, my, parent, newborn, forked, told, forks>>
    BY DEF proc_setpgid
<1>2. TypeOK'
    BY <1>1 DEF proc_setpgid, IInv, TypeOK
<1> QED BY <1>1, <1>2 DEF IInv, TablesConsistent, SelfKnown, ChildrenKnown,
           IdleKidless, KidsKept, SameTable, ForkAgrees

(* Every step of every process keeps the invariant.                        *)
LEMMA InvStep == IInv /\ [Next]_vars => IInv'
<1> SUFFICES ASSUME IInv, [Next]_vars PROVE IInv'
    OBVIOUS
<1>1. ASSUME NEW p \in Proc, NEW why \in {"assert", "full", "dangling", "null"},
             st[p] \in {"forked", "spawned", "run"}, Abort(p, why)
      PROVE  IInv'
    BY <1>1, EndedStep DEF Abort
<1>2. ASSUME NEW p \in Proc, NEW c \in Proc,
             \E as \in {"forked", "spawned"} : fork(p, c, as)
      PROVE  IInv'
    BY <1>2, ForkStep
<1>3. ASSUME NEW p \in Proc, NEW c \in Proc, proc_wait(p, c) PROVE IInv'
    BY <1>3, WaitStep
<1>4. ASSUME NEW p \in Proc, NEW c \in Proc, proc_wait_dangling(p, c)
      PROVE  IInv'
    BY <1>1, <1>4 DEF proc_wait_dangling, Waited, Running
<1>5. ASSUME NEW p \in Proc, fork_parent(p) PROVE IInv'
    BY <1>5, ForkParentStep
<1>6. ASSUME NEW p \in Proc, fork_parent_aborts(p) PROVE IInv'
    BY <1>1, <1>6 DEF fork_parent_aborts
<1>7. ASSUME NEW p \in Proc, fork_child(p) PROVE IInv'
    BY <1>7, ForkChildStep
<1>8. ASSUME NEW p \in Proc, fork_child_aborts(p) PROVE IInv'
    BY <1>1, <1>8 DEF fork_child_aborts
<1>9. ASSUME NEW p \in Proc, execve(p) PROVE IInv'
    BY <1>9, ExecStep
<1>10. ASSUME NEW p \in Proc, exit(p) PROVE IInv'
    BY <1>10, EndedStep DEF exit
<1>11. ASSUME NEW p \in Proc, qnx_valid_host(p) PROVE IInv'
    BY <1>1, <1>11 DEF qnx_valid_host, Running
<1>12. ASSUME NEW p \in Proc, NEW q \in Proc, NEW g \in Host,
              proc_setpgid(p, q, g)
       PROVE  IInv'
    BY <1>12, SetpgidStep
<1>13. CASE UNCHANGED vars
    BY <1>13 DEF vars, IInv, TypeOK, TablesConsistent, SelfKnown,
       ChildrenKnown, IdleKidless, KidsKept, SameTable, ForkAgrees
<1> QED BY <1>2, <1>3, <1>4, <1>5, <1>6, <1>7, <1>8, <1>9, <1>10, <1>11,
           <1>12, <1>13 DEF Next

-----------------------------------------------------------------------------
(* Theorems.                                                               *)

(* Every QNX PID that the tables hold or the guest is told is one of       *)
(* PidMap's range, whatever the host's PIDs are.                           *)
THEOREM TypeCorrect == Spec => []TypeOK
<1>1. IInv => TypeOK
    BY DEF IInv
<1> QED BY <1>1, InvInit, InvStep, PTL DEF Spec

(* The two maps of a PidMap stay inverse to each other, in every process,  *)
(* through any sequence of forks, waits, executions and exits, until an    *)
(* allocation wraps around or a group's entry is freed.                    *)
THEOREM TablesAlwaysConsistent == Spec => []TablesConsistent
<1>1. IInv => TablesConsistent
    BY DEF IInv
<1> QED BY <1>1, InvInit, InvStep, PTL DEF Spec

(* A process always finds itself under the PID getpid() gave, and each     *)
(* child it has not waited for under the PID fork gave: neither the        *)
(* host's reuse of PIDs nor the freeing of other entries takes one away.   *)
THEOREM FamilyAlwaysKnown == Spec => []FamilyKnown
<1>1. IInv => FamilyKnown
    BY DEF IInv, FamilyKnown
<1> QED BY <1>1, InvInit, InvStep, PTL DEF Spec

(* Parent and child compute the same PID for the child from their own      *)
(* copies of the table, whichever allocates first and whatever runs in     *)
(* between.                                                                *)
THEOREM ForkAlwaysAgrees == Spec => []ForkAgrees
<1>1. IInv => ForkAgrees
    BY DEF IInv
<1> QED BY <1>1, InvInit, InvStep, PTL DEF Spec
=============================================================================
