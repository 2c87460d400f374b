----------------------------- MODULE FdMapProofs ----------------------------
(***************************************************************************)
(* Proofs about FdMap, for any number of descriptors on both sides and any *)
(* number of redirections.                                                 *)
(***************************************************************************)
EXTENDS FdMap, FiniteSetTheorems, Induction

-----------------------------------------------------------------------------
(* The host.                                                               *)

(* A table of host descriptors.                                            *)
HostOK(h) == DOMAIN h \subseteq HostFd /\ \A n \in DOMAIN h : h[n] \in Desc

(* The descriptor n is closed when qine executes a program.                *)
CloexecOn(h, n) == h[n].cloexec

(* Descriptor n of u is as in h.                                           *)
SameAt(u, h, n) == u[n] = h[n] /\ (CloexecOn(u, n) <=> CloexecOn(h, n))

(* The host gives a free descriptor, and the lowest.                       *)
LEMMA MinFree ==
  ASSUME NEW S, S \subseteq Nat, S # {}
  PROVE  Min(S) \in S /\ \A n \in S : Min(S) <= n
BY LeastNat DEF Min

(* Opening at, or moving to, a descriptor of the host's.                   *)
OpenAt(h, n, file) == Put(h, n, file, FALSE)

(* The descriptor is open for the file, close-on-exec off, and the others  *)
(* are as they were.                                                       *)
LEMMA OpenAtOK ==
  ASSUME NEW h, HostOK(h), NEW n \in HostFd, NEW file \in File
  PROVE  LET u == OpenAt(h, n, file)
         IN  /\ HostOK(u)
             /\ DOMAIN u = DOMAIN h \cup {n}
             /\ u[n].file = file /\ ~CloexecOn(u, n)
             /\ \A m \in DOMAIN h : m # n => SameAt(u, h, m)
<1> DEFINE u == OpenAt(h, n, file)
           d == [file |-> file, cloexec |-> FALSE]
<1>1. d \in Desc /\ d.file = file /\ d.cloexec = FALSE
    BY DEF Desc
<1>2. u = [m \in DOMAIN h \cup {n} |-> IF m = n THEN d ELSE h[m]]
    BY DEF OpenAt, Put
<1> SUFFICES /\ HostOK(u)
             /\ DOMAIN u = DOMAIN h \cup {n}
             /\ u[n].file = file /\ ~CloexecOn(u, n)
             /\ \A m \in DOMAIN h : m # n => SameAt(u, h, m)
    OBVIOUS
<1> HIDE DEF d, u
<1>3. /\ DOMAIN u = DOMAIN h \cup {n} /\ u[n] = d
      /\ \A m \in DOMAIN h : m # n => u[m] = h[m]
    BY <1>2
<1>4. HostOK(u)
    BY <1>1, <1>3 DEF HostOK
<1>5. \A m \in DOMAIN h : m # n => SameAt(u, h, m)
    BY <1>3 DEF SameAt, CloexecOn
<1>6. ~CloexecOn(u, n)
    BY <1>1, <1>3 DEF CloexecOn
<1> QED BY <1>1, <1>3, <1>4, <1>5, <1>6

(* UniqueFd::close.                                                        *)
LEMMA UniqueCloseOK ==
  ASSUME NEW h, HostOK(h), NEW n \in HostFd
  PROVE  LET u == UniqueClose(h, n)
         IN  /\ HostOK(u)
             /\ DOMAIN u = IF n = 0 THEN DOMAIN h ELSE DOMAIN h \ {n}
             /\ \A m \in DOMAIN u : SameAt(u, h, m)
BY FdAssumption
DEF UniqueClose, Close, Restrict, HostOK, HostFd, SameAt, CloexecOn

(* close.                                                                  *)
LEMMA CloseOK ==
  ASSUME NEW h, HostOK(h), NEW n
  PROVE  LET u == Close(h, n)
         IN  /\ HostOK(u)
             /\ DOMAIN u = DOMAIN h \ {n}
             /\ \A m \in DOMAIN u : SameAt(u, h, m)
BY DEF Close, Restrict, HostOK, SameAt, CloexecOn

(* fcntl(F_SETFD).                                                         *)
LEMMA SetCloexecOK ==
  ASSUME NEW h, HostOK(h), NEW n, NEW on \in BOOLEAN
  PROVE  LET u == SetCloexec(h, n, on)
         IN  /\ HostOK(u)
             /\ DOMAIN u = DOMAIN h
             /\ \A m \in DOMAIN h : u[m].file = h[m].file
             /\ \A m \in DOMAIN h : m # n => SameAt(u, h, m)
             /\ n \in DOMAIN h => (CloexecOn(u, n) <=> on)
<1> DEFINE u == SetCloexec(h, n, on)
<1>1. CASE n \in DOMAIN h
  <2>1. h[n] \in Desc
      BY <1>1 DEF HostOK
  <2>2. /\ DOMAIN u = DOMAIN h
        /\ \A m \in DOMAIN h : m # n => u[m] = h[m]
        /\ u[n] = [h[n] EXCEPT !.cloexec = on]
      BY <1>1 DEF SetCloexec
  <2>3. u[n] \in Desc /\ u[n].file = h[n].file /\ u[n].cloexec = on
      BY <2>1, <2>2 DEF Desc
  <2> SUFFICES
        /\ HostOK(u)
        /\ DOMAIN u = DOMAIN h
        /\ \A m \in DOMAIN h : u[m].file = h[m].file
        /\ \A m \in DOMAIN h : m # n => SameAt(u, h, m)
        /\ n \in DOMAIN h => (CloexecOn(u, n) <=> on)
      OBVIOUS
  <2> HIDE DEF u
  <2>4. HostOK(u)
      BY <1>1, <2>2, <2>3 DEF HostOK
  <2>5. CloexecOn(u, n) <=> on
      BY <2>3 DEF CloexecOn
  <2>6. \A m \in DOMAIN h : m # n => SameAt(u, h, m)
      BY <2>2 DEF SameAt, CloexecOn
  <2>7. \A m \in DOMAIN h : u[m].file = h[m].file
      BY <2>2, <2>3
  <2> QED BY <2>2, <2>4, <2>5, <2>6, <2>7
<1>2. CASE n \notin DOMAIN h
    BY <1>2 DEF SetCloexec, SameAt, CloexecOn
<1> QED BY <1>1, <1>2

-----------------------------------------------------------------------------
(* assign_fds.                                                             *)

(* The fields of what host_fd_moved returns.                               *)
LEMMA MovedFields ==
  ASSUME NEW s, DOMAIN s = {"h", "hf", "keys", "err"}, DOMAIN s.hf = {0, 1},
         NEW i \in {0, 1}, NEW to
  PROVE  LET u == host_fd_moved(s, i, to)
         IN  /\ DOMAIN u = {"h", "hf", "keys", "err"}
             /\ u.h = UniqueClose(s.h, s.hf[i])
             /\ DOMAIN u.hf = {0, 1}
             /\ u.hf[i] = to
             /\ \A j \in {0, 1} : j # i => u.hf[j] = s.hf[j]
             /\ u.keys = (s.keys \ {s.hf[i]}) \cup {-1}
             /\ u.err = s.err
BY DEF host_fd_moved

(* The first loop, after its first round if nothing went wrong: the read   *)
(* end is at its place, the write end at a descriptor of its own, and only *)
(* descriptor 0 may have been left behind.                                 *)
HalfMoved(s, in, out, r, w) ==
    /\ DOMAIN s = {"h", "hf", "keys", "err"}
    /\ s.err = "none"
    /\ DOMAIN s.hf = {0, 1} /\ s.hf[0] = in
    /\ in \in HostFd /\ in # out
    /\ s.hf[1] \in HostFd /\ s.hf[1] # in /\ s.hf[1] # 0
    /\ s.hf[1] \notin DOMAIN host
    /\ HostOK(s.h)
    /\ in \in DOMAIN s.h /\ s.h[in].file = r /\ ~CloexecOn(s.h, in)
    /\ s.hf[1] \in DOMAIN s.h
    /\ s.h[s.hf[1]].file = w /\ ~CloexecOn(s.h, s.hf[1])
    /\ out \in s.keys => out = s.hf[1]
    /\ \A n \in DOMAIN host : n # in => n \in DOMAIN s.h /\ SameAt(s.h, host, n)
    /\ \A n \in DOMAIN s.h : n \in DOMAIN host \cup {0, in, s.hf[1]}

(* Both ends are at their places, and no other descriptor has changed but  *)
(* 0, which may have been left open.                                       *)
BothMoved(s, in, out, r, w) ==
    /\ s.err = "none"
    /\ in \in HostFd /\ out \in HostFd
    /\ s.hf[0] = in /\ s.hf[1] = out
    /\ HostOK(s.h)
    /\ in \in DOMAIN s.h /\ s.h[in].file = r /\ ~CloexecOn(s.h, in)
    /\ out \in DOMAIN s.h /\ s.h[out].file = w /\ ~CloexecOn(s.h, out)
    /\ \A n \in DOMAIN host :
          n # in /\ n # out => n \in DOMAIN s.h /\ SameAt(s.h, host, n)
    /\ \A n \in DOMAIN s.h : n \in DOMAIN host \cup {0, in, out}

(* What is left when assign_fds has failed and both ends are closed again: *)
(* a descriptor of neither FD is as before and none but 0 has been left    *)
(* open.                                                                   *)
GaveUp(s, in, out) ==
    LET u == UniqueClose(UniqueClose(s.h, s.hf[0]), s.hf[1])
    IN  /\ s.err = "dup"
        /\ HostOK(u)
        /\ \A n \in DOMAIN host :
              n # in /\ n # out => n \in DOMAIN u /\ SameAt(u, host, n)
        /\ \A n \in DOMAIN u : n \in DOMAIN host \cup {0}

(* The second round completes the move or gives up.                        *)
LEMMA SecondRound ==
  ASSUME NEW s, NEW in, NEW out \in Fd, NEW r \in File, NEW w \in File,
         HostOK(host), HalfMoved(s, in, out, r, w)
  PROVE  LET u == AssignRound(s, 1, out)
         IN  BothMoved(u, in, out, r, w) \/ GaveUp(u, in, out)
<1> DEFINE u == AssignRound(s, 1, out)
           b == s.hf[1]
<1> SUFFICES BothMoved(u, in, out, r, w) \/ GaveUp(u, in, out)
    OBVIOUS
<1>0. /\ HostOK(s.h) /\ in \in HostFd /\ b \in HostFd /\ b # 0
      /\ s.h[b].file = w
    BY DEF HalfMoved
<1>1. CASE out = b
  <2>1. u = [s EXCEPT !.keys = @ \ {fds[out].host}]
      BY <1>1 DEF AssignRound, HalfMoved
  <2>2. u.h = s.h /\ u.hf = s.hf /\ u.err = s.err
      BY <2>1 DEF HalfMoved
  <2> HIDE DEF u
  <2> QED BY <1>1, <2>2 DEF HalfMoved, BothMoved
<1>2. CASE out # b /\ out \notin HostFd
  <2>1. u = [s EXCEPT !.err = "dup"]
      BY <1>2 DEF AssignRound, HalfMoved, realloc_fd
  <2>2. u.h = s.h /\ u.hf = s.hf /\ u.err = "dup"
      BY <2>1 DEF HalfMoved
  <2> HIDE DEF u
  <2> DEFINE c == UniqueClose(s.h, in)
             d == UniqueClose(c, b)
  <2>3. /\ HostOK(c) /\ DOMAIN c = IF in = 0 THEN DOMAIN s.h ELSE DOMAIN s.h \ {in}
        /\ \A m \in DOMAIN c : SameAt(c, s.h, m)
      BY <1>0, UniqueCloseOK
  <2> HIDE DEF c
  <2>4. /\ HostOK(d) /\ DOMAIN d = DOMAIN c \ {b}
        /\ \A m \in DOMAIN d : SameAt(d, c, m)
      BY <1>0, <2>3, UniqueCloseOK
  <2> HIDE DEF d
  <2>5. d = UniqueClose(UniqueClose(u.h, u.hf[0]), u.hf[1])
      BY <2>2 DEF d, c, HalfMoved
  <2>6. \A n \in DOMAIN host :
              n # in /\ n # out => n \in DOMAIN d /\ SameAt(d, host, n)
      BY <2>3, <2>4 DEF HalfMoved, SameAt
  <2>7. \A n \in DOMAIN d : n \in DOMAIN host \cup {0}
      BY <2>3, <2>4 DEF HalfMoved, SameAt
  <2>8. GaveUp(u, in, out)
      BY <2>2, <2>4, <2>5, <2>6, <2>7 DEF GaveUp
  <2> QED BY <2>8
<1>3. CASE out # b /\ out \in HostFd
  <2> DEFINE c == Dup2(s.h, b, out)
             v == [s EXCEPT !.h = c]
  <2>1. u = host_fd_moved(v, 1, out)
      BY <1>3 DEF AssignRound, HalfMoved, realloc_fd
  <2>2. /\ DOMAIN v = {"h", "hf", "keys", "err"} /\ DOMAIN v.hf = {0, 1}
        /\ v.h = c /\ v.hf = s.hf /\ v.err = s.err
        /\ s.err = "none" /\ s.hf[0] = in
      BY DEF HalfMoved
  <2> HIDE DEF c, u, v
  <2>3. /\ u.h = UniqueClose(c, b) /\ u.hf[1] = out /\ u.hf[0] = s.hf[0]
        /\ u.err = s.err
      BY <2>1, <2>2, MovedFields
  <2>4. /\ HostOK(c) /\ DOMAIN c = DOMAIN s.h \cup {out}
        /\ c[out].file = w /\ ~CloexecOn(c, out)
        /\ \A m \in DOMAIN s.h : m # out => SameAt(c, s.h, m)
    <3>1. c = OpenAt(s.h, out, w)
        BY <1>0 DEF Dup2, OpenAt, c
    <3>2. HostOK(s.h) /\ out \in HostFd /\ w \in File
        BY <1>0, <1>3
    <3> QED BY <3>1, <3>2, OpenAtOK
  <2>5. /\ HostOK(u.h) /\ DOMAIN u.h = DOMAIN c \ {b}
        /\ \A m \in DOMAIN u.h : SameAt(u.h, c, m)
      BY <1>0, <2>3, <2>4, UniqueCloseOK, SMTT(30)
  <2>6. u.hf[0] = in /\ u.err = "none"
      BY <2>2, <2>3
  <2>7. /\ in \in DOMAIN u.h /\ u.h[in].file = r /\ ~CloexecOn(u.h, in)
        /\ out \in DOMAIN u.h /\ u.h[out].file = w /\ ~CloexecOn(u.h, out)
      BY <1>3, <2>4, <2>5 DEF HalfMoved, SameAt
  <2>8. \A n \in DOMAIN host :
          n # in /\ n # out => n \in DOMAIN u.h /\ SameAt(u.h, host, n)
      BY <2>4, <2>5 DEF HalfMoved, SameAt
  <2>9. \A n \in DOMAIN u.h : n \in DOMAIN host \cup {0, in, out}
      BY <2>4, <2>5 DEF HalfMoved, SameAt
  <2>10. BothMoved(u, in, out, r, w)
      BY <1>3, <2>3, <2>5, <2>6, <2>7, <2>8, <2>9 DEF BothMoved, HalfMoved
  <2> QED BY <2>10
<1> QED BY <1>1, <1>2, <1>3

(* The state of assign_fds when the pipe is open at a and b.               *)
Piped(s, a, b, r, w) ==
    /\ DOMAIN s = {"h", "hf", "keys", "err"} /\ s.err = "none"
    /\ DOMAIN s.hf = {0, 1} /\ s.hf[0] = a /\ s.hf[1] = b
    /\ s.keys = {a, b}
    /\ a \in HostFd /\ b \in HostFd /\ a < b
    /\ a \notin DOMAIN host /\ b \notin DOMAIN host
    /\ HostOK(s.h) /\ DOMAIN s.h = DOMAIN host \cup {a, b}
    /\ s.h[a].file = r /\ ~CloexecOn(s.h, a)
    /\ s.h[b].file = w /\ ~CloexecOn(s.h, b)
    /\ \A n \in DOMAIN host : SameAt(s.h, host, n)

(* Closing both ends where they are.                                       *)
LEMMA GivesUp ==
  ASSUME HostOK(host), NEW s, NEW u, NEW a, NEW b, NEW r, NEW w, NEW in, NEW out,
         Piped(s, a, b, r, w), u = [s EXCEPT !.err = "dup"]
  PROVE  GaveUp(u, in, out)
<1>1. u.h = s.h /\ u.hf = s.hf /\ u.err = "dup"
    BY DEF Piped
<1>2. /\ HostOK(s.h) /\ a \in HostFd /\ b \in HostFd /\ b # 0
      /\ DOMAIN s.h = DOMAIN host \cup {a, b} /\ s.hf[0] = a /\ s.hf[1] = b
      /\ a \notin DOMAIN host /\ b \notin DOMAIN host
    BY DEF Piped, HostFd
<1> DEFINE c == UniqueClose(s.h, a)
           d == UniqueClose(c, b)
<1>3. /\ HostOK(c) /\ DOMAIN c = IF a = 0 THEN DOMAIN s.h ELSE DOMAIN s.h \ {a}
      /\ \A m \in DOMAIN c : SameAt(c, s.h, m)
    BY <1>2, UniqueCloseOK
<1> HIDE DEF c
<1>4. /\ HostOK(d) /\ DOMAIN d = DOMAIN c \ {b}
      /\ \A m \in DOMAIN d : SameAt(d, c, m)
    BY <1>2, <1>3, UniqueCloseOK
<1> HIDE DEF d
<1>5. d = UniqueClose(UniqueClose(u.h, u.hf[0]), u.hf[1])
    BY <1>1, <1>2 DEF c, d
<1>6. \A n \in DOMAIN host : n \in DOMAIN d /\ SameAt(d, host, n)
  <2>1. ASSUME NEW n \in DOMAIN host PROVE n \in DOMAIN d /\ SameAt(d, host, n)
    <3>1. n \in DOMAIN d /\ n \in DOMAIN c /\ n \in DOMAIN s.h
        BY <1>2, <1>3, <1>4
    <3>2. SameAt(d, c, n) /\ SameAt(c, s.h, n)
        BY <1>3, <1>4, <3>1
    <3>3. SameAt(s.h, host, n)
        BY DEF Piped
    <3> QED BY <3>1, <3>2, <3>3 DEF SameAt
  <2> QED BY <2>1
<1>7. \A n \in DOMAIN d : n \in DOMAIN host \cup {0}
    BY <1>2, <1>3, <1>4
<1> QED BY <1>1, <1>4, <1>5, <1>6, <1>7 DEF GaveUp

(* The first round.  It gives up where a descriptor is beyond the limit or *)
(* none is free, and is undefined where the read end's place is taken by   *)
(* the write end, but for descriptor 1.                                    *)
LEMMA FirstRound ==
  ASSUME HostOK(host), NEW s, NEW a, NEW b, NEW in \in Fd, NEW out \in Fd,
         NEW r \in File, NEW w \in File, in # out, Piped(s, a, b, r, w)
  PROVE  LET u == AssignRound(s, 0, in)
         IN  \/ HalfMoved(u, in, out, r, w)
             \/ GaveUp(u, in, out)
             \/ u.err = "undefined"
<1> DEFINE u == AssignRound(s, 0, in)
<1> SUFFICES \/ HalfMoved(u, in, out, r, w)
             \/ GaveUp(u, in, out)
             \/ u.err = "undefined"
    OBVIOUS
<1>1. /\ DOMAIN s = {"h", "hf", "keys", "err"} /\ s.err = "none"
      /\ DOMAIN s.hf = {0, 1} /\ s.hf[0] = a /\ s.hf[1] = b
      /\ s.keys = {a, b} /\ a \in HostFd /\ b \in HostFd /\ a # b /\ b # 0
      /\ HostOK(s.h) /\ DOMAIN s.h = DOMAIN host \cup {a, b}
    BY DEF Piped, HostFd
<1>2. CASE in = a
  <2>1. u = [s EXCEPT !.keys = @ \ {fds[in].host}]
      BY <1>1, <1>2 DEF AssignRound
  <2>2. /\ DOMAIN u = {"h", "hf", "keys", "err"} /\ u.h = s.h /\ u.hf = s.hf
        /\ u.err = "none" /\ u.keys \subseteq {a, b}
      BY <1>1, <2>1
  <2> HIDE DEF u
  <2> QED BY <1>1, <1>2, <2>2 DEF Piped, HalfMoved
<1>3. CASE in # a /\ in # b /\ in \notin HostFd
  <2>1. u = [s EXCEPT !.err = "dup"]
      BY <1>1, <1>3 DEF AssignRound, realloc_fd
  <2> HIDE DEF u
  <2> QED BY <2>1, GivesUp
<1>4. CASE in # a /\ in # b /\ in \in HostFd
  <2> DEFINE c == Dup2(s.h, a, in)
             v == [s EXCEPT !.h = c]
  <2>1. u = host_fd_moved(v, 0, in)
      BY <1>1, <1>4 DEF AssignRound, realloc_fd
  <2>2. /\ DOMAIN v = {"h", "hf", "keys", "err"} /\ DOMAIN v.hf = {0, 1}
        /\ v.h = c /\ v.hf = s.hf /\ v.err = "none" /\ v.keys = s.keys
      BY <1>1
  <2> HIDE DEF c, u, v
  <2>3. /\ DOMAIN u = {"h", "hf", "keys", "err"} /\ DOMAIN u.hf = {0, 1}
        /\ u.h = UniqueClose(c, a) /\ u.hf[0] = in /\ u.hf[1] = b
        /\ u.keys = (s.keys \ {a}) \cup {-1} /\ u.err = "none"
      BY <1>1, <2>1, <2>2, MovedFields
  <2>4. /\ HostOK(c) /\ DOMAIN c = DOMAIN s.h \cup {in}
        /\ c[in].file = r /\ ~CloexecOn(c, in)
        /\ \A m \in DOMAIN s.h : m # in => SameAt(c, s.h, m)
    <3>1. c = OpenAt(s.h, in, r)
        BY DEF Dup2, OpenAt, c, Piped
    <3>2. HostOK(s.h) /\ in \in HostFd /\ r \in File
        BY <1>1, <1>4
    <3> QED BY <3>1, <3>2, OpenAtOK
  <2>5. /\ HostOK(u.h)
        /\ DOMAIN u.h = IF a = 0 THEN DOMAIN c ELSE DOMAIN c \ {a}
        /\ \A m \in DOMAIN u.h : SameAt(u.h, c, m)
    <3>1. HostOK(c) /\ a \in HostFd /\ u.h = UniqueClose(c, a)
        BY <1>1, <2>3, <2>4
    <3> DEFINE x == UniqueClose(c, a)
    <3>2. /\ HostOK(x) /\ DOMAIN x = IF a = 0 THEN DOMAIN c ELSE DOMAIN c \ {a}
          /\ \A m \in DOMAIN x : SameAt(x, c, m)
        BY <3>1, UniqueCloseOK
    <3> HIDE DEF x
    <3> QED BY <3>1, <3>2 DEF x
  <2>6. /\ in \in DOMAIN u.h /\ u.h[in].file = r /\ ~CloexecOn(u.h, in)
        /\ b \in DOMAIN u.h /\ u.h[b].file = w /\ ~CloexecOn(u.h, b)
      BY <1>1, <1>4, <2>4, <2>5 DEF Piped, SameAt
  <2>7. \A n \in DOMAIN host : n # in => n \in DOMAIN u.h /\ SameAt(u.h, host, n)
      BY <1>1, <2>4, <2>5 DEF Piped, SameAt
  <2>8. \A n \in DOMAIN u.h : n \in DOMAIN host \cup {0, in, b}
      BY <1>1, <2>4, <2>5
  <2>9. out \in u.keys => out = b
    <3>1. out # -1
        BY FdAssumption DEF Fd
    <3>2. u.keys \subseteq {b, -1}
        BY <1>1, <2>3
    <3> QED BY <3>1, <3>2
  <2>10. HalfMoved(u, in, out, r, w)
      BY <1>1, <1>4, <2>3, <2>5, <2>6, <2>7, <2>8, <2>9 DEF HalfMoved, Piped
  <2> QED BY <2>10
<1>5. CASE in = b /\ Free(s.h) = {}
  <2>1. realloc_fd(s, in) = [s EXCEPT !.err = "dup"]
      BY <1>1, <1>5 DEF realloc_fd
  <2> DEFINE v == [s EXCEPT !.err = "dup"]
  <2>2. v.err = "dup"
      BY <1>1
  <2>3. u = v
      BY <1>1, <1>5, <2>1, <2>2 DEF AssignRound
  <2> HIDE DEF u
  <2> QED BY <2>3, GivesUp
<1>6. CASE in = b /\ Free(s.h) # {} /\ b # 1
  <2>1. realloc_fd(s, in) = [s EXCEPT !.err = "undefined"]
      BY <1>1, <1>6 DEF realloc_fd
  <2> DEFINE v == [s EXCEPT !.err = "undefined"]
  <2>2. v.err = "undefined"
      BY <1>1
  <2>3. u = v
      BY <1>1, <1>6, <2>1, <2>2 DEF AssignRound
  <2> QED BY <2>2, <2>3
<1>7. CASE in = b /\ Free(s.h) # {} /\ b = 1
  <2> DEFINE new == Min(Free(s.h))
             c == Dup2(s.h, 1, new)
             v == [s EXCEPT !.h = c]
             m1 == host_fd_moved(v, 1, new)
             d == Dup2(m1.h, 0, 1)
             x == [m1 EXCEPT !.h = d]
  <2>1. a = 0
      BY <1>7 DEF Piped, HostFd
  <2>2. new \in HostFd /\ new \notin DOMAIN s.h
    <3>1. Free(s.h) \subseteq HostFd /\ Free(s.h) \subseteq Nat
        BY FdAssumption DEF Free, HostFd
    <3>2. new \in Free(s.h)
        BY <1>7, <3>1, MinFree
    <3> QED BY <3>2 DEF Free
  <2>3. new # 0 /\ new # 1
      BY <1>1, <1>7, <2>1, <2>2
  <2>4. realloc_fd(s, in) = m1
      BY <1>1, <1>7, <2>1 DEF realloc_fd
  <2>5. /\ DOMAIN v = {"h", "hf", "keys", "err"} /\ DOMAIN v.hf = {0, 1}
        /\ v.h = c /\ v.hf = s.hf /\ v.err = "none" /\ v.keys = s.keys
      BY <1>1
  <2> HIDE DEF new, c, v
  <2>6. /\ DOMAIN m1 = {"h", "hf", "keys", "err"} /\ DOMAIN m1.hf = {0, 1}
        /\ m1.h = UniqueClose(c, 1) /\ m1.hf[0] = 0 /\ m1.hf[1] = new
        /\ m1.keys = (s.keys \ {1}) \cup {-1} /\ m1.err = "none"
      BY <1>1, <1>7, <2>1, <2>5, MovedFields
  <2> HIDE DEF m1
  <2>7. u = host_fd_moved(x, 0, 1)
      BY <1>1, <1>7, <2>1, <2>4, <2>6 DEF AssignRound
  <2>8. /\ DOMAIN x = {"h", "hf", "keys", "err"} /\ DOMAIN x.hf = {0, 1}
        /\ x.h = d /\ x.hf = m1.hf /\ x.err = "none" /\ x.keys = m1.keys
      BY <2>6
  <2> HIDE DEF u, d, x
  <2>9. /\ DOMAIN u = {"h", "hf", "keys", "err"} /\ DOMAIN u.hf = {0, 1}
        /\ u.h = UniqueClose(d, 0) /\ u.hf[0] = 1 /\ u.hf[1] = new
        /\ u.keys = (m1.keys \ {0}) \cup {-1} /\ u.err = "none"
      BY <2>6, <2>7, <2>8, MovedFields
  <2>10. /\ HostOK(c) /\ DOMAIN c = DOMAIN s.h \cup {new}
         /\ c[new].file = w /\ ~CloexecOn(c, new)
         /\ \A m \in DOMAIN s.h : m # new => SameAt(c, s.h, m)
    <3>1. c = OpenAt(s.h, new, w)
        BY <1>7 DEF Dup2, OpenAt, c, Piped
    <3>2. HostOK(s.h) /\ new \in HostFd /\ w \in File
        BY <1>1, <2>2
    <3> QED BY <3>1, <3>2, OpenAtOK
  <2>11. /\ HostOK(m1.h) /\ DOMAIN m1.h = DOMAIN c \ {1}
         /\ \A m \in DOMAIN m1.h : SameAt(m1.h, c, m)
      BY <1>1, <1>7, <2>6, <2>10, UniqueCloseOK, SMTT(30)
  <2>12. /\ HostOK(d) /\ DOMAIN d = DOMAIN m1.h \cup {1}
         /\ d[1].file = r /\ ~CloexecOn(d, 1)
         /\ \A m \in DOMAIN m1.h : m # 1 => SameAt(d, m1.h, m)
    <3>1. m1.h[0].file = r
        BY <1>1, <2>1, <2>3, <2>10, <2>11 DEF Piped, SameAt
    <3>2. d = OpenAt(m1.h, 1, r)
        BY <3>1 DEF Dup2, OpenAt, d
    <3>3. HostOK(m1.h) /\ 1 \in HostFd /\ r \in File
        BY <1>1, <1>7, <2>11
    <3> QED BY <3>2, <3>3, OpenAtOK
  <2>13. /\ HostOK(u.h) /\ DOMAIN u.h = DOMAIN d
         /\ \A m \in DOMAIN u.h : SameAt(u.h, d, m)
    <3>1. HostOK(d) /\ 0 \in HostFd /\ u.h = UniqueClose(d, 0)
        BY <1>1, <2>1, <2>9, <2>12
    <3> DEFINE y == UniqueClose(d, 0)
    <3>2. HostOK(y) /\ DOMAIN y = DOMAIN d /\ \A m \in DOMAIN y : SameAt(y, d, m)
        BY <3>1, UniqueCloseOK
    <3> HIDE DEF y
    <3> QED BY <3>1, <3>2 DEF y
  <2>14. /\ DOMAIN u.h = DOMAIN host \cup {0, 1, new}
         /\ u.h[1].file = r /\ ~CloexecOn(u.h, 1)
         /\ u.h[new].file = w /\ ~CloexecOn(u.h, new)
      BY <1>1, <1>7, <2>1, <2>3, <2>10, <2>11, <2>12, <2>13 DEF SameAt
  <2>15. \A n \in DOMAIN host : n # 1 => n \in DOMAIN u.h /\ SameAt(u.h, host, n)
    <3>1. ASSUME NEW n \in DOMAIN host, n # 1
          PROVE  n \in DOMAIN u.h /\ SameAt(u.h, host, n)
      <4>1. /\ n \in DOMAIN u.h /\ n \in DOMAIN d /\ n \in DOMAIN m1.h
            /\ n \in DOMAIN c /\ n \in DOMAIN s.h /\ n # new
          BY <1>1, <2>2, <2>10, <2>11, <2>12, <2>13, <3>1
      <4>2. /\ SameAt(u.h, d, n) /\ SameAt(d, m1.h, n)
            /\ SameAt(m1.h, c, n) /\ SameAt(c, s.h, n)
          BY <2>10, <2>11, <2>12, <2>13, <3>1, <4>1
      <4>3. SameAt(s.h, host, n)
          BY DEF Piped
      <4> QED BY <4>1, <4>2, <4>3 DEF SameAt
    <3> QED BY <3>1
  <2>16. out \notin u.keys
    <3>1. out # -1
        BY FdAssumption DEF Fd
    <3>2. u.keys \subseteq {-1}
        BY <1>1, <1>7, <2>1, <2>6, <2>9
    <3> QED BY <3>1, <3>2
  <2>17. HalfMoved(u, in, out, r, w)
      BY <1>1, <1>7, <2>2, <2>3, <2>9, <2>13, <2>14, <2>15, <2>16 DEF HalfMoved
  <2> QED BY <2>17
<1> QED BY <1>2, <1>3, <1>4, <1>5, <1>6, <1>7

(* What assign_fds leaves, in every case.                                  *)
LEMMA AssignFds ==
  ASSUME HostOK(host), NEW in \in Fd, NEW out \in Fd, in # out,
         NEW r \in File, NEW w \in File, Cardinality(Free(host)) >= 2
  PROVE  LET s == assign_fds(in, out, r, w)
         IN  \/ BothMoved(s, in, out, r, w)
             \/ GaveUp(s, in, out)
             \/ s.err = "undefined"
<1> DEFINE a == Min(Free(host))
           b == Min(Free(host) \ {a})
           h1 == OpenAt(host, a, r)
           h2 == OpenAt(h1, b, w)
           hf == [i \in {0, 1} |-> IF i = 0 THEN a ELSE b]
           s0 == [h |-> h2, hf |-> hf, keys |-> {a, b}, err |-> "none"]
           s1 == AssignRound(s0, 0, in)
           s2 == AssignRound(s1, 1, out)
<1>1. assign_fds(in, out, r, w) = s2
    BY DEF assign_fds, OpenAt
<1>2. Free(host) \subseteq Nat /\ Free(host) \subseteq HostFd
    BY FdAssumption DEF Free, HostFd
<1>3. Free(host) # {} /\ Free(host) \ {a} # {}
  <2>1. Free(host) # {}
      BY FS_EmptySet
  <2>2. ASSUME Free(host) = {a} PROVE FALSE
    <3>1. Cardinality({a}) = 1
        BY FS_Singleton
    <3> QED BY <2>2, <3>1
  <2> QED BY <2>1, <2>2
<1>4. a \in Free(host) /\ \A n \in Free(host) : a <= n
    BY <1>2, <1>3, MinFree
<1> HIDE DEF a
<1>5. b \in Free(host) \ {a}
  <2>1. Free(host) \ {a} \subseteq Nat
      BY <1>2
  <2> QED BY <1>3, <2>1, MinFree
<1> HIDE DEF b
<1>6. /\ a \in HostFd /\ b \in HostFd /\ a < b
      /\ a \notin DOMAIN host /\ b \notin DOMAIN host
  <2>1. a <= b /\ a # b /\ a \in Nat /\ b \in Nat
      BY <1>2, <1>4, <1>5
  <2> QED BY <1>4, <1>5, <2>1 DEF Free
<1>7. /\ HostOK(h1) /\ DOMAIN h1 = DOMAIN host \cup {a}
      /\ h1[a].file = r /\ ~CloexecOn(h1, a)
      /\ \A m \in DOMAIN host : m # a => SameAt(h1, host, m)
    BY <1>6, OpenAtOK
<1> HIDE DEF h1
<1>8. /\ HostOK(h2) /\ DOMAIN h2 = DOMAIN h1 \cup {b}
      /\ h2[b].file = w /\ ~CloexecOn(h2, b)
      /\ \A m \in DOMAIN h1 : m # b => SameAt(h2, h1, m)
    BY <1>6, <1>7, OpenAtOK
<1> HIDE DEF h2
<1>9. DOMAIN hf = {0, 1} /\ hf[0] = a /\ hf[1] = b
    OBVIOUS
<1> HIDE DEF hf
<1>10. Piped(s0, a, b, r, w)
  <2>1. /\ DOMAIN s0 = {"h", "hf", "keys", "err"} /\ s0.err = "none"
        /\ s0.h = h2 /\ s0.hf = hf /\ s0.keys = {a, b}
      OBVIOUS
  <2> HIDE DEF s0
  <2>2. h2[a].file = r /\ ~CloexecOn(h2, a)
    <3>1. a \in DOMAIN h1 /\ a # b
        BY <1>6, <1>7, FdAssumption DEF HostFd
    <3>2. SameAt(h2, h1, a)
        BY <1>8, <3>1
    <3> QED BY <1>7, <3>2 DEF SameAt
  <2>3. \A n \in DOMAIN host : SameAt(h2, host, n)
    <3>1. ASSUME NEW n \in DOMAIN host PROVE SameAt(h2, host, n)
      <4>1. n # a /\ n # b /\ n \in DOMAIN h1
          BY <1>6, <1>7
      <4>2. SameAt(h1, host, n) /\ SameAt(h2, h1, n)
          BY <1>7, <1>8, <4>1
      <4> QED BY <4>2 DEF SameAt
    <3> QED BY <3>1
  <2> QED BY <1>6, <1>7, <1>8, <1>9, <2>1, <2>2, <2>3 DEF Piped
<1> HIDE DEF s0
<1>11. \/ HalfMoved(s1, in, out, r, w)
       \/ GaveUp(s1, in, out)
       \/ s1.err = "undefined"
    BY <1>10, FirstRound
<1> HIDE DEF s1
<1>12. CASE HalfMoved(s1, in, out, r, w)
    BY <1>1, <1>12, SecondRound
<1>13. CASE GaveUp(s1, in, out) \/ s1.err = "undefined"
  <2>1. s1.err # "none"
      BY <1>13 DEF GaveUp
  <2>2. AssignRound(s1, 1, out) = s1
      BY <2>1 DEF AssignRound
  <2>3. s2 = s1
      BY <2>2
  <2> HIDE DEF s2
  <2> QED BY <1>1, <1>13, <2>3
<1> QED BY <1>11, <1>12, <1>13

-----------------------------------------------------------------------------
(* The inductive invariant, of the entries F and the descriptors h.        *)

GuestOK(F) == DOMAIN F \subseteq Fd /\ \A f \in DOMAIN F : F[f] \in QnxFd

(* FD f, if open, is backed by its own number, and close-on-exec agrees.   *)
Backed(F, h, f) ==
    F[f].open =>
        /\ F[f].host = f
        /\ f \in DOMAIN h
        /\ h[f].file = F[f].file
        /\ ~F[f].dir /\ F[f].flags # "other" =>
              (CloexecOn(h, f) <=> F[f].flags = "cloexec")

(* Host descriptor n is that of an open FD.                                *)
Owned(F, n) == n \in DOMAIN F /\ F[n].open

Good(F, h, stat) ==
    /\ GuestOK(F)
    /\ HostOK(h)
    /\ stat \in {"ok", "unruly", "clobbered", "redirected", "abort", "null",
                 "undefined"}
    /\ stat \in {"ok", "unruly"} => \A f \in DOMAIN F : Backed(F, h, f)
    /\ stat = "ok" => \A n \in DOMAIN h \ {0} : Owned(F, n)

IInv == Good(fds, host, status)

(* The invariant says what the properties say.                             *)
LEMMA InvImplies ==
  ASSUME IInv
  PROVE  TypeOK /\ HostBacksGuest /\ OnlyZeroLeaks /\ CloexecAgrees
<1>1. TypeOK
    BY DEF IInv, Good, GuestOK, HostOK, TypeOK
<1>2. HostBacksGuest
    BY DEF IInv, Good, Backed, HostBacksGuest, Alive
<1>3. OnlyZeroLeaks
    BY DEF IInv, Good, Owned, OnlyZeroLeaks
<1>4. CloexecAgrees
    BY DEF IInv, Good, Backed, CloexecOn, CloexecAgrees, Alive, is_close_on_exec
<1> QED BY <1>1, <1>2, <1>3, <1>4

(* What neither side touches stays backed.                                 *)
LEMMA BackedFrame ==
  ASSUME NEW F, NEW h, NEW G, NEW g, NEW f, Backed(F, h, f), G[f] = F[f],
         F[f].open /\ f \in DOMAIN h => f \in DOMAIN g /\ SameAt(g, h, f)
  PROVE  Backed(G, g, f)
BY DEF Backed, SameAt

(* An FD that has just been attached or closed.                            *)
LEMMA NotOpenBacked ==
  ASSUME NEW F, NEW h, NEW f, F[f].open = FALSE
  PROVE  Backed(F, h, f) /\ ~Owned(F, f)
BY DEF Backed, Owned

(* The entry of an FD that has just been opened.                           *)
LEMMA OpenedEntry ==
  ASSUME NEW f, fds[f] \in QnxFd, NEW n \in HostFd, NEW file \in File,
         NEW e, e = Opened(f, n, file)
  PROVE  /\ e \in QnxFd
         /\ e.open /\ e.host = n /\ e.file = file /\ e.flags = fds[f].flags
BY DEF Opened, QnxFd

(* The entry of an FD that has just been closed.                           *)
LEMMA ClosedEntry ==
  ASSUME NEW f, fds[f] \in QnxFd, NEW e, e = ClosedFd(f)
  PROVE  /\ e \in QnxFd
         /\ e.open = FALSE /\ e.flags = fds[f].flags
BY DEF ClosedFd, QnxFd

(* Steps that leave the descriptors alone.                                 *)
LEMMA AttachStep ==
  ASSUME IInv, NEW first \in Fd, NEW flags \in GuestFlags,
         proc_fd_attach(first, flags)
  PROVE  IInv'
<1>1. PICK f \in (first .. GuestMax - 1) \ DOMAIN fds :
          fds' = [g \in DOMAIN fds \cup {f} |->
                    IF g = f THEN Attached(flags) ELSE fds[g]]
    BY DEF proc_fd_attach
<1>2. f \in Fd /\ host' = host /\ status' = status
    BY FdAssumption DEF Fd, proc_fd_attach
<1>3. Attached(flags) \in QnxFd /\ Attached(flags).open = FALSE
    BY FdAssumption DEF Attached, QnxFd, HostFd, Flags
<1>4. /\ DOMAIN fds' = DOMAIN fds \cup {f} /\ fds'[f] = Attached(flags)
      /\ \A g \in DOMAIN fds : fds'[g] = fds[g]
    BY <1>1
<1>5. GuestOK(fds')
    BY <1>2, <1>3, <1>4 DEF IInv, Good, GuestOK
<1>6. ASSUME status \in {"ok", "unruly"}, NEW g \in DOMAIN fds'
      PROVE  Backed(fds', host', g)
  <2>1. CASE g = f
      BY <1>3, <1>4, <2>1, NotOpenBacked
  <2>2. CASE g # f
    <3>1. Backed(fds, host, g) /\ fds'[g] = fds[g]
        BY <1>4, <1>6, <2>2 DEF IInv, Good
    <3> QED BY <1>2, <3>1 DEF Backed
  <2> QED BY <2>1, <2>2
<1>7. ASSUME status = "ok", NEW n \in DOMAIN host' \ {0} PROVE Owned(fds', n)
    BY <1>2, <1>4, <1>7 DEF IInv, Good, Owned
<1> QED BY <1>2, <1>5, <1>6, <1>7 DEF IInv, Good

(* qnx_fd_detach: a guest that detaches an open FD is unruly.              *)
LEMMA DetachStep ==
  ASSUME IInv, NEW f \in Fd, proc_fd_detach(f)
  PROVE  IInv'
<1>1. /\ host' = host /\ DOMAIN fds' = DOMAIN fds \ {f}
      /\ \A g \in DOMAIN fds' : fds'[g] = fds[g]
      /\ status' = IF fds[f].open THEN "unruly" ELSE status
      /\ status \in {"ok", "unruly"} /\ f \in DOMAIN fds
    BY DEF proc_fd_detach, Restrict, Alive
<1>2. GuestOK(fds')
    BY <1>1 DEF IInv, Good, GuestOK
<1>3. ASSUME NEW g \in DOMAIN fds' PROVE Backed(fds', host', g)
  <2>1. Backed(fds, host, g) /\ fds'[g] = fds[g]
      BY <1>1 DEF IInv, Good
  <2> QED BY <1>1, <2>1 DEF Backed
<1>4. ASSUME status' = "ok", NEW n \in DOMAIN host' \ {0} PROVE Owned(fds', n)
  <2>1. status = "ok" /\ ~fds[f].open
      BY <1>1, <1>4
  <2>2. Owned(fds, n)
      BY <1>1, <2>1 DEF IInv, Good
  <2> QED BY <1>1, <2>1, <2>2 DEF Owned
<1>5. status' \in {"ok", "unruly"}
    BY <1>1
<1> QED BY <1>1, <1>2, <1>3, <1>4, <1>5 DEF IInv, Good

(* A step that changes the entry of one FD, f, keeps the invariant if the  *)
(* descriptors of other open FDs stay as they are, f is backed afterwards  *)
(* and no descriptor but 0 and f's is new.                                 *)
LEMMA OneFdStep ==
  ASSUME IInv, NEW f \in DOMAIN fds, status \in {"ok", "unruly"},
         status' = status, DOMAIN fds' = DOMAIN fds, fds'[f] \in QnxFd,
         \A x \in DOMAIN fds : x # f => fds'[x] = fds[x],
         HostOK(host'), Backed(fds', host', f),
         \A n \in DOMAIN host : n # f /\ Owned(fds, n) =>
            n \in DOMAIN host' /\ SameAt(host', host, n),
         \A n \in DOMAIN host' : n \in DOMAIN host \cup {0, f},
         f \in DOMAIN host' /\ f # 0 /\ status = "ok" => Owned(fds', f)
  PROVE  IInv'
<1>1. GuestOK(fds')
    BY DEF IInv, Good, GuestOK
<1>2. ASSUME NEW x \in DOMAIN fds' PROVE Backed(fds', host', x)
  <2>1. CASE x # f
    <3>1. Backed(fds, host, x) /\ fds'[x] = fds[x]
        BY <2>1 DEF IInv, Good
    <3>2. fds[x].open /\ x \in DOMAIN host =>
              x \in DOMAIN host' /\ SameAt(host', host, x)
        BY <2>1 DEF Owned
    <3> QED BY <3>1, <3>2, BackedFrame
  <2> QED BY <2>1
<1>3. ASSUME status = "ok", NEW n \in DOMAIN host' \ {0} PROVE Owned(fds', n)
  <2>1. CASE n # f
    <3>1. Owned(fds, n)
        BY <1>3, <2>1 DEF IInv, Good
    <3> QED BY <2>1, <3>1 DEF Owned
  <2> QED BY <1>3, <2>1
<1> QED BY <1>1, <1>2, <1>3 DEF IInv, Good

(* A step that changes only the status, to one in which nothing follows.   *)
LEMMA DeadStep ==
  ASSUME IInv, UNCHANGED <<fds, host>>,
         status' \in {"abort", "null", "undefined"}
  PROVE  IInv'
BY DEF IInv, Good

(* proc_fd_setfd.                                                          *)
LEMMA SetfdStep ==
  ASSUME IInv, NEW f \in Fd, NEW flags \in GuestFlags, proc_fd_setfd(f, flags)
  PROVE  IInv'
<1>1. /\ f \in DOMAIN fds /\ status \in {"ok", "unruly"} /\ status' = status
      /\ fds' = [fds EXCEPT ![f].flags = flags]
      /\ fds[f] \in QnxFd /\ HostOK(host) /\ Backed(fds, host, f)
    BY DEF proc_fd_setfd, Alive, IInv, Good, GuestOK
<1> DEFINE e == fds'[f]
           on == flags # "none"
<1>2. flags \in Flags
    BY FdAssumption DEF Flags
<1>3. e = [fds[f] EXCEPT !.flags = flags]
    BY <1>1
<1>4. /\ e \in QnxFd /\ e.flags = flags /\ e.host = fds[f].host
      /\ e.file = fds[f].file
    BY <1>1, <1>2, <1>3 DEF QnxFd
<1>5. e.open = fds[f].open
    BY <1>1, <1>3 DEF QnxFd
<1>6. /\ DOMAIN fds' = DOMAIN fds
      /\ \A x \in DOMAIN fds : x # f => fds'[x] = fds[x]
    BY <1>1
<1> HIDE DEF e
<1>7. CASE fds[f].open
  <2>1. fds[f].host = f /\ f \in DOMAIN host /\ host[f].file = fds[f].file
      BY <1>1, <1>7 DEF Backed
  <2>2. host' = SetCloexec(host, f, on)
      BY <1>7, <2>1 DEF proc_fd_setfd
  <2>3. on \in BOOLEAN
      OBVIOUS
  <2> HIDE DEF on
  <2>4. /\ HostOK(host') /\ DOMAIN host' = DOMAIN host
        /\ \A m \in DOMAIN host : host'[m].file = host[m].file
        /\ \A m \in DOMAIN host : m # f => SameAt(host', host, m)
        /\ f \in DOMAIN host => (CloexecOn(host', f) <=> on)
      BY <1>1, <2>2, <2>3, SetCloexecOK
  <2>5. flags # "other" => (on <=> flags = "cloexec")
      BY <1>2 DEF on, Flags
  <2>6. Backed(fds', host', f)
      BY <1>4, <2>1, <2>4, <2>5 DEF Backed, e
  <2>7. Owned(fds', f)
      BY <1>1, <1>5, <1>6, <1>7 DEF Owned, e
  <2>8. e = fds'[f]
      BY DEF e
  <2> QED BY <1>1, <1>4, <1>6, <2>4, <2>6, <2>7, <2>8, OneFdStep
<1>8. CASE ~fds[f].open
  <2>1. host' = host
      BY <1>8 DEF proc_fd_setfd
  <2>2. Backed(fds', host', f)
      BY <1>5, <1>8 DEF Backed, e
  <2>3. \A n \in DOMAIN host : n \in DOMAIN host' /\ SameAt(host', host, n)
      BY <2>1 DEF SameAt
  <2>4. f \in DOMAIN host /\ f # 0 /\ status = "ok" => FALSE
      BY <1>8 DEF IInv, Good, Owned
  <2>5. fds'[f] \in QnxFd
      BY <1>4 DEF e
  <2> QED BY <1>1, <1>6, <2>1, <2>2, <2>3, <2>4, <2>5, OneFdStep
<1> QED BY <1>7, <1>8

(* io_close.                                                               *)
LEMMA IoCloseStep ==
  ASSUME IInv, NEW f \in Fd, io_close(f)
  PROVE  IInv'
<1>1. /\ f \in DOMAIN fds /\ status \in {"ok", "unruly"} /\ status' = status
      /\ fds' = [fds EXCEPT ![f] = ClosedFd(f)] /\ fds[f].open
      /\ fds[f] \in QnxFd /\ HostOK(host) /\ Backed(fds, host, f)
    BY DEF io_close, Alive, IInv, Good, GuestOK
<1>2. host' = Close(host, f)
    BY <1>1 DEF io_close, Backed
<1>3. /\ HostOK(host') /\ DOMAIN host' = DOMAIN host \ {f}
      /\ \A m \in DOMAIN host' : SameAt(host', host, m)
    BY <1>1, <1>2, CloseOK
<1>4. /\ DOMAIN fds' = DOMAIN fds /\ fds'[f] = ClosedFd(f)
      /\ \A x \in DOMAIN fds : x # f => fds'[x] = fds[x]
    BY <1>1
<1>5. fds'[f] \in QnxFd /\ fds'[f].open = FALSE
    BY <1>1, <1>4, ClosedEntry
<1>6. Backed(fds', host', f)
    BY <1>5, NotOpenBacked
<1> QED BY <1>1, <1>3, <1>4, <1>5, <1>6, OneFdStep

(* fdopendir.                                                              *)
LEMMA PrepareDirStep ==
  ASSUME IInv, NEW f \in Fd, prepare_dir(f)
  PROVE  IInv'
<1>1. /\ f \in DOMAIN fds /\ status \in {"ok", "unruly"} /\ status' = status
      /\ fds' = [fds EXCEPT ![f].dir = TRUE] /\ fds[f].open
      /\ fds[f] \in QnxFd /\ HostOK(host) /\ Backed(fds, host, f)
    BY DEF prepare_dir, Alive, IInv, Good, GuestOK
<1>2. /\ host' = SetCloexec(host, f, TRUE) /\ fds[f].host = f
      /\ f \in DOMAIN host /\ host[f].file = fds[f].file
    BY <1>1 DEF prepare_dir, Backed
<1>3. /\ HostOK(host') /\ DOMAIN host' = DOMAIN host
      /\ \A m \in DOMAIN host : host'[m].file = host[m].file
      /\ \A m \in DOMAIN host : m # f => SameAt(host', host, m)
  <2>1. \A on \in BOOLEAN : LET u == SetCloexec(host, f, on)
                            IN  /\ HostOK(u) /\ DOMAIN u = DOMAIN host
                                /\ \A m \in DOMAIN host : u[m].file = host[m].file
                                /\ \A m \in DOMAIN host : m # f => SameAt(u, host, m)
      BY <1>1, SetCloexecOK
  <2> QED BY <1>2, <2>1
<1>4. /\ DOMAIN fds' = DOMAIN fds /\ fds'[f] = [fds[f] EXCEPT !.dir = TRUE]
      /\ \A x \in DOMAIN fds : x # f => fds'[x] = fds[x]
    BY <1>1
<1>5. fds'[f] \in QnxFd /\ fds'[f].host = f /\ fds'[f].file = fds[f].file
    BY <1>1, <1>2, <1>4 DEF QnxFd
<1>6. fds'[f].dir
    BY <1>1, <1>4 DEF QnxFd
<1>7. fds'[f].open
    BY <1>1, <1>4 DEF QnxFd
<1>8. Backed(fds', host', f) /\ Owned(fds', f)
    BY <1>1, <1>2, <1>3, <1>4, <1>5, <1>6, <1>7 DEF Backed, Owned
<1> QED BY <1>1, <1>3, <1>4, <1>5, <1>8, OneFdStep

(* The last step of every open: close-on-exec is set if the FD has it.     *)
LEMMA CloexecIfOK ==
  ASSUME NEW h, HostOK(h), NEW f, NEW n \in DOMAIN h, ~CloexecOn(h, n)
  PROVE  LET u == CloexecIf(h, f, n)
         IN  /\ HostOK(u)
             /\ DOMAIN u = DOMAIN h
             /\ u[n].file = h[n].file
             /\ \A m \in DOMAIN h : m # n => SameAt(u, h, m)
             /\ CloexecOn(u, n) <=> fds[f].flags = "cloexec"
<1> DEFINE u == CloexecIf(h, f, n)
<1>1. CASE fds[f].flags = "cloexec"
  <2>1. u = SetCloexec(h, n, TRUE)
      BY <1>1 DEF CloexecIf, is_close_on_exec
  <2>2. \A on \in BOOLEAN :
          LET v == SetCloexec(h, n, on)
          IN  /\ HostOK(v) /\ DOMAIN v = DOMAIN h /\ v[n].file = h[n].file
              /\ \A m \in DOMAIN h : m # n => SameAt(v, h, m)
              /\ CloexecOn(v, n) <=> on
      BY SetCloexecOK
  <2> QED BY <1>1, <2>1, <2>2
<1>2. CASE fds[f].flags # "cloexec"
  <2>1. u = h
      BY <1>2 DEF CloexecIf, is_close_on_exec
  <2>2. \A m \in DOMAIN h : SameAt(h, h, m)
      BY DEF SameAt
  <2> QED BY <1>2, <2>1, <2>2
<1> QED BY <1>1, <1>2

(* The host's lowest free descriptor.                                      *)
LEMMA LowestFree ==
  ASSUME NEW h, Free(h) # {}, NEW tmp, tmp = Min(Free(h))
  PROVE  tmp \in HostFd /\ tmp \notin DOMAIN h
<1>1. Free(h) \subseteq HostFd /\ Free(h) \subseteq Nat
    BY FdAssumption DEF Free, HostFd
<1>2. Min(Free(h)) \in Free(h)
    BY <1>1, MinFree
<1> QED BY <1>2 DEF Free

(* io_open: the file is at its FD's number and the temporary descriptor is *)
(* gone, unless it was 0.                                                  *)
LEMMA IoOpenStep ==
  ASSUME IInv, NEW f \in Fd, NEW file \in File, io_open(f, file)
  PROVE  IInv'
<1> DEFINE tmp == Min(Free(host))
           h1 == OpenAt(host, tmp, file)
           h3 == Dup2(h1, tmp, f)
           h2 == IF tmp = f THEN h1 ELSE UniqueClose(h3, tmp)
<1>1. /\ f \in DOMAIN fds /\ status \in {"ok", "unruly"} /\ status' = status
      /\ f \in HostFd /\ fds[f] \in QnxFd /\ HostOK(host)
    BY DEF io_open, Openable, Alive, IInv, Good, GuestOK
<1>2. tmp \in HostFd /\ tmp \notin DOMAIN host
    BY LowestFree DEF io_open, Openable
<1>3. /\ host' = CloexecIf(h2, f, f)
      /\ fds' = [fds EXCEPT ![f] = Opened(f, f, file)]
    BY DEF io_open, assign_fd, CloexecIf, OpenAt
<1> HIDE DEF tmp
<1>4. /\ HostOK(h1) /\ DOMAIN h1 = DOMAIN host \cup {tmp}
      /\ h1[tmp].file = file /\ ~CloexecOn(h1, tmp)
      /\ \A m \in DOMAIN host : m # tmp => SameAt(h1, host, m)
  <2>1. HostOK(host) /\ tmp \in HostFd /\ file \in File
      BY <1>1, <1>2
  <2> QED BY <2>1, OpenAtOK
<1> HIDE DEF h1
<1>5. /\ HostOK(h2) /\ f \in DOMAIN h2
      /\ h2[f].file = file /\ ~CloexecOn(h2, f)
      /\ \A n \in DOMAIN host : n # f => n \in DOMAIN h2 /\ SameAt(h2, host, n)
      /\ \A n \in DOMAIN h2 : n \in DOMAIN host \cup {0, f}
  <2>1. CASE tmp = f
    <3>1. h2 = h1
        BY <2>1
    <3> HIDE DEF h2
    <3> QED BY <1>2, <1>4, <2>1, <3>1
  <2>2. CASE tmp # f
    <3>1. h2 = UniqueClose(h3, tmp)
        BY <2>2
    <3>2. h3 = OpenAt(h1, f, file)
        BY <1>4 DEF Dup2, OpenAt
    <3> HIDE DEF h2, h3
    <3>3. /\ HostOK(h3) /\ DOMAIN h3 = DOMAIN h1 \cup {f}
          /\ h3[f].file = file /\ ~CloexecOn(h3, f)
          /\ \A m \in DOMAIN h1 : m # f => SameAt(h3, h1, m)
        BY <1>1, <1>4, <3>2, OpenAtOK
    <3> DEFINE x == UniqueClose(h3, tmp)
    <3>4. /\ HostOK(x)
          /\ DOMAIN x = IF tmp = 0 THEN DOMAIN h3 ELSE DOMAIN h3 \ {tmp}
          /\ \A m \in DOMAIN x : SameAt(x, h3, m)
        BY <1>2, <3>3, UniqueCloseOK
    <3>5. h2 = x
        BY <3>1
    <3> HIDE DEF x
    <3>6. f \in DOMAIN h2 /\ SameAt(h2, h3, f)
        BY <2>2, <3>3, <3>4, <3>5
    <3>7. h2[f].file = file /\ ~CloexecOn(h2, f)
        BY <3>3, <3>6 DEF SameAt
    <3>8. ASSUME NEW n \in DOMAIN host, n # f
          PROVE  n \in DOMAIN h2 /\ SameAt(h2, host, n)
      <4>1. n \in DOMAIN h1 /\ n \in DOMAIN h3 /\ n \in DOMAIN h2 /\ n # tmp
          BY <1>2, <1>4, <3>3, <3>4, <3>5
      <4>2. SameAt(h1, host, n) /\ SameAt(h3, h1, n) /\ SameAt(h2, h3, n)
          BY <1>4, <3>3, <3>4, <3>5, <3>8, <4>1
      <4> QED BY <4>1, <4>2 DEF SameAt
    <3>9. \A n \in DOMAIN h2 : n \in DOMAIN host \cup {0, f}
        BY <1>4, <3>3, <3>4, <3>5
    <3> QED BY <3>4, <3>5, <3>6, <3>7, <3>8, <3>9
  <2> QED BY <2>1, <2>2
<1> HIDE DEF h2
<1>6. /\ HostOK(host') /\ DOMAIN host' = DOMAIN h2 /\ host'[f].file = file
      /\ \A m \in DOMAIN h2 : m # f => SameAt(host', h2, m)
      /\ CloexecOn(host', f) <=> fds[f].flags = "cloexec"
  <2>1. HostOK(h2) /\ f \in DOMAIN h2 /\ ~CloexecOn(h2, f)
      BY <1>5
  <2> DEFINE y == CloexecIf(h2, f, f)
  <2>2. /\ HostOK(y) /\ DOMAIN y = DOMAIN h2 /\ y[f].file = h2[f].file
        /\ \A m \in DOMAIN h2 : m # f => SameAt(y, h2, m)
        /\ CloexecOn(y, f) <=> fds[f].flags = "cloexec"
      BY <2>1, CloexecIfOK
  <2> HIDE DEF y
  <2>3. host' = y
      BY <1>3 DEF y
  <2> QED BY <1>5, <2>2, <2>3
<1>7. /\ DOMAIN fds' = DOMAIN fds /\ fds'[f] = Opened(f, f, file)
      /\ \A x \in DOMAIN fds : x # f => fds'[x] = fds[x]
    BY <1>1, <1>3
<1>8. /\ fds'[f] \in QnxFd
      /\ fds'[f].open /\ fds'[f].host = f /\ fds'[f].file = file
      /\ fds'[f].flags = fds[f].flags
    BY <1>1, <1>7, OpenedEntry
<1>9. Backed(fds', host', f) /\ Owned(fds', f)
    BY <1>1, <1>5, <1>6, <1>7, <1>8 DEF Backed, Owned
<1>10. ASSUME NEW n \in DOMAIN host, n # f
       PROVE  n \in DOMAIN host' /\ SameAt(host', host, n)
  <2>1. n \in DOMAIN h2 /\ SameAt(h2, host, n) /\ SameAt(host', h2, n)
      BY <1>5, <1>6, <1>10
  <2> QED BY <1>6, <2>1 DEF SameAt
<1>11. \A n \in DOMAIN host' : n \in DOMAIN host \cup {0, f}
    BY <1>5, <1>6
<1> QED BY <1>1, <1>6, <1>7, <1>8, <1>9, <1>10, <1>11, OneFdStep

(* io_open, when the FD is beyond the host's limit: the temporary          *)
(* descriptor is closed again, unless it was 0.                            *)
LEMMA IoOpenFailsStep ==
  ASSUME IInv, NEW f \in Fd, NEW file \in File, io_open_fails(f, file)
  PROVE  IInv'
<1> DEFINE tmp == Min(Free(host))
           h1 == OpenAt(host, tmp, file)
           x == UniqueClose(h1, tmp)
<1>1. /\ f \in DOMAIN fds /\ status \in {"ok", "unruly"} /\ status' = status
      /\ ~fds[f].open /\ fds' = fds /\ fds[f] \in QnxFd /\ HostOK(host)
    BY DEF io_open_fails, Openable, Alive, IInv, Good, GuestOK
<1>2. tmp \in HostFd /\ tmp \notin DOMAIN host
    BY LowestFree DEF io_open_fails, Openable
<1>3. host' = x
    BY DEF io_open_fails, OpenAt
<1> HIDE DEF tmp
<1>4. /\ HostOK(h1) /\ DOMAIN h1 = DOMAIN host \cup {tmp}
      /\ h1[tmp].file = file /\ ~CloexecOn(h1, tmp)
      /\ \A m \in DOMAIN host : m # tmp => SameAt(h1, host, m)
  <2>1. HostOK(host) /\ tmp \in HostFd /\ file \in File
      BY <1>1, <1>2
  <2> QED BY <2>1, OpenAtOK
<1> HIDE DEF h1
<1>5. /\ HostOK(x)
      /\ DOMAIN x = IF tmp = 0 THEN DOMAIN h1 ELSE DOMAIN h1 \ {tmp}
      /\ \A m \in DOMAIN x : SameAt(x, h1, m)
    BY <1>2, <1>4, UniqueCloseOK
<1> HIDE DEF x
<1>6. ASSUME NEW n \in DOMAIN host
      PROVE  n \in DOMAIN host' /\ SameAt(host', host, n)
  <2>1. n \in DOMAIN x /\ SameAt(x, h1, n) /\ SameAt(h1, host, n)
      BY <1>2, <1>4, <1>5
  <2> QED BY <1>3, <2>1 DEF SameAt
<1>7. \A n \in DOMAIN host' : n \in DOMAIN host \cup {0}
    BY <1>3, <1>4, <1>5
<1>8. Backed(fds', host', f)
    BY <1>1 DEF Backed
<1>9. f \in DOMAIN host' /\ f # 0 /\ status = "ok" => Owned(fds', f)
    BY <1>1, <1>7 DEF IInv, Good
<1> QED BY <1>1, <1>3, <1>5, <1>6, <1>7, <1>8, <1>9, OneFdStep

(* CloseOpen closes the descriptor of f, if f is open, and no other.       *)
LEMMA CloseOpenOK ==
  ASSUME IInv, status \in {"ok", "unruly"}, NEW f \in DOMAIN fds
  PROVE  LET h == CloseOpen(f)
         IN  /\ HostOK(h)
             /\ DOMAIN h \subseteq DOMAIN host
             /\ fds[f].open => f \notin DOMAIN h
             /\ \A n \in DOMAIN host : n # f => n \in DOMAIN h
             /\ \A n \in DOMAIN h : SameAt(h, host, n)
<1>1. HostOK(host) /\ Backed(fds, host, f)
    BY DEF IInv, Good
<1> DEFINE h == CloseOpen(f)
<1>2. CASE fds[f].open
  <2>1. h = Close(host, f)
      BY <1>1, <1>2 DEF CloseOpen, Backed
  <2> DEFINE u == Close(host, f)
  <2>2. /\ HostOK(u) /\ DOMAIN u = DOMAIN host \ {f}
        /\ \A n \in DOMAIN u : SameAt(u, host, n)
      BY <1>1, CloseOK
  <2>3. h = u
      BY <2>1
  <2> SUFFICES /\ HostOK(h)
               /\ DOMAIN h \subseteq DOMAIN host
               /\ f \notin DOMAIN h
               /\ \A n \in DOMAIN host : n # f => n \in DOMAIN h
               /\ \A n \in DOMAIN h : SameAt(h, host, n)
      OBVIOUS
  <2> HIDE DEF h, u
  <2> QED BY <2>2, <2>3
<1>3. CASE ~fds[f].open
  <2>1. h = host
      BY <1>3 DEF CloseOpen
  <2>2. \A n \in DOMAIN host : SameAt(host, host, n)
      BY DEF SameAt
  <2> QED BY <1>1, <1>3, <2>1, <2>2
<1> QED BY <1>2, <1>3

(* io_dup: the destination, closed first, is the source's file.            *)
LEMMA IoDupStep ==
  ASSUME IInv, NEW src \in Fd, NEW dst \in Fd, io_dup(src, dst)
  PROVE  IInv'
<1> DEFINE h == CloseOpen(dst)
           d == OpenAt(h, dst, fds[src].file)
           e == [ClosedFd(dst) EXCEPT !.open = TRUE, !.host = dst,
                                      !.file = fds[src].file]
<1>1. /\ src \in DOMAIN fds /\ dst \in DOMAIN fds /\ src # dst /\ fds[src].open
      /\ status \in {"ok", "unruly"} /\ status' = status /\ dst \in HostFd
      /\ HostOK(host) /\ fds[dst] \in QnxFd
      /\ Backed(fds, host, src)
    BY DEF io_dup, Duppable, Alive, IInv, Good, GuestOK
<1>2. /\ HostOK(h) /\ DOMAIN h \subseteq DOMAIN host
      /\ \A n \in DOMAIN host : n # dst => n \in DOMAIN h
      /\ \A n \in DOMAIN h : SameAt(h, host, n)
    BY <1>1, CloseOpenOK
<1> HIDE DEF h
<1>3. /\ fds[src].host = src /\ src \in DOMAIN host
      /\ host[src].file = fds[src].file
    BY <1>1 DEF Backed
<1>4. src \in DOMAIN h /\ h[src].file = fds[src].file
    BY <1>1, <1>2, <1>3 DEF SameAt
<1>5. fds[src].file \in File
    BY <1>1, <1>3 DEF HostOK, Desc
<1>6. host' = CloexecIf(d, dst, dst) /\ fds' = [fds EXCEPT ![dst] = e]
  <2>1. Dup2(h, fds[src].host, dst) = d
      BY <1>3, <1>4 DEF Dup2, OpenAt
  <2> QED BY <2>1 DEF io_dup, CloexecIf, h
<1>7. /\ e \in QnxFd /\ e.host = dst /\ e.file = fds[src].file
      /\ e.flags = fds[dst].flags
    BY <1>1, <1>5 DEF ClosedFd, QnxFd
<1>8. e.open
    BY <1>1 DEF ClosedFd, QnxFd
<1> HIDE DEF e
<1>9. /\ HostOK(d) /\ DOMAIN d = DOMAIN h \cup {dst}
      /\ d[dst].file = fds[src].file /\ ~CloexecOn(d, dst)
      /\ \A m \in DOMAIN h : m # dst => SameAt(d, h, m)
  <2>1. HostOK(h) /\ dst \in HostFd /\ fds[src].file \in File
      BY <1>1, <1>2, <1>5
  <2> QED BY <2>1, OpenAtOK
<1> HIDE DEF d
<1> DEFINE y == CloexecIf(d, dst, dst)
<1>10. /\ HostOK(y) /\ DOMAIN y = DOMAIN d /\ y[dst].file = d[dst].file
       /\ \A m \in DOMAIN d : m # dst => SameAt(y, d, m)
       /\ CloexecOn(y, dst) <=> fds[dst].flags = "cloexec"
  <2>1. HostOK(d) /\ dst \in DOMAIN d /\ ~CloexecOn(d, dst)
      BY <1>9
  <2> QED BY <2>1, CloexecIfOK
<1>11. host' = y
    BY <1>6
<1> HIDE DEF y
<1>12. /\ DOMAIN fds' = DOMAIN fds /\ fds'[dst] = e
       /\ \A x \in DOMAIN fds : x # dst => fds'[x] = fds[x]
    BY <1>1, <1>6
<1>13. Backed(fds', host', dst) /\ Owned(fds', dst)
    BY <1>1, <1>7, <1>8, <1>9, <1>10, <1>11, <1>12 DEF Backed, Owned
<1>14. ASSUME NEW n \in DOMAIN host, n # dst
       PROVE  n \in DOMAIN host' /\ SameAt(host', host, n)
  <2>1. n \in DOMAIN h /\ n \in DOMAIN d /\ n \in DOMAIN y
      BY <1>2, <1>9, <1>10, <1>14
  <2>2. SameAt(h, host, n) /\ SameAt(d, h, n) /\ SameAt(y, d, n)
      BY <1>2, <1>9, <1>10, <1>14, <2>1
  <2> QED BY <1>11, <2>1, <2>2 DEF SameAt
<1>15. \A n \in DOMAIN host' : n \in DOMAIN host \cup {0, dst}
    BY <1>2, <1>9, <1>10, <1>11
<1> QED BY <1>1, <1>7, <1>10, <1>11, <1>12, <1>13, <1>14, <1>15, OneFdStep

(* io_dup, when dup2 fails: the destination is closed all the same.        *)
LEMMA IoDupFailsStep ==
  ASSUME IInv, NEW src \in Fd, NEW dst \in Fd, io_dup_fails(src, dst)
  PROVE  IInv'
<1> DEFINE h == CloseOpen(dst)
<1>1. /\ dst \in DOMAIN fds /\ status \in {"ok", "unruly"} /\ status' = status
      /\ fds[dst] \in QnxFd /\ host' = h
      /\ fds' = IF fds[dst].open THEN [fds EXCEPT ![dst] = ClosedFd(dst)]
                ELSE fds
    BY DEF io_dup_fails, Duppable, Alive, IInv, Good, GuestOK
<1>2. /\ HostOK(h) /\ DOMAIN h \subseteq DOMAIN host
      /\ fds[dst].open => dst \notin DOMAIN h
      /\ \A n \in DOMAIN host : n # dst => n \in DOMAIN h
      /\ \A n \in DOMAIN h : SameAt(h, host, n)
    BY <1>1, CloseOpenOK
<1> HIDE DEF h
<1>3. /\ DOMAIN fds' = DOMAIN fds
      /\ \A x \in DOMAIN fds : x # dst => fds'[x] = fds[x]
    BY <1>1
<1>4. fds'[dst] \in QnxFd /\ Backed(fds', host', dst)
  <2>1. CASE fds[dst].open
    <3>1. fds'[dst] = ClosedFd(dst)
        BY <1>1, <2>1
    <3>2. fds'[dst] \in QnxFd /\ fds'[dst].open = FALSE
        BY <1>1, <3>1, ClosedEntry
    <3> QED BY <3>2, NotOpenBacked
  <2>2. CASE ~fds[dst].open
      BY <1>1, <2>2 DEF Backed
  <2> QED BY <2>1, <2>2
<1>5. dst \in DOMAIN host' /\ dst # 0 /\ status = "ok" => Owned(fds', dst)
  <2>1. ASSUME dst \in DOMAIN host', dst # 0, status = "ok" PROVE FALSE
    <3>1. ~fds[dst].open /\ dst \in DOMAIN host
        BY <1>1, <1>2, <2>1
    <3> QED BY <2>1, <3>1 DEF IInv, Good, Owned
  <2> QED BY <2>1
<1> QED BY <1>1, <1>2, <1>3, <1>4, <1>5, OneFdStep

(* fsys_pipe: both ends are backed by their own numbers, or both are gone. *)
LEMMA PipeStep ==
  ASSUME IInv, NEW in \in Fd, NEW out \in Fd, NEW r \in File, NEW w \in File,
         fsys_pipe(in, out, r, w)
  PROVE  IInv'
<1> DEFINE s == assign_fds(in, out, r, w)
           taken == fds[in].open \/ fds[out].open
<1>1. /\ in \in DOMAIN fds /\ out \in DOMAIN fds /\ in # out
      /\ status \in {"ok", "unruly"} /\ HostOK(host)
      /\ fds[in] \in QnxFd /\ fds[out] \in QnxFd
      /\ Cardinality(Free(host)) >= 2
    BY DEF fsys_pipe, Alive, IInv, Good, GuestOK
<1>2. \/ BothMoved(s, in, out, r, w)
      \/ GaveUp(s, in, out)
      \/ s.err = "undefined"
    BY <1>1, AssignFds
<1>3. \/ /\ PipeOpened(in, out, r, w, s)
         /\ status' = IF taken THEN "unruly" ELSE status
      \/ /\ PipeFails(s)
         /\ status' = IF taken THEN "clobbered" ELSE status
      \/ PipeUndefined(s)
    BY DEF fsys_pipe
<1> HIDE DEF s
<1>4. CASE /\ PipeOpened(in, out, r, w, s)
           /\ status' = IF taken THEN "unruly" ELSE status
  <2>1. BothMoved(s, in, out, r, w)
      BY <1>2, <1>4 DEF PipeOpened, GaveUp
  <2>2. /\ in \in HostFd /\ out \in HostFd /\ HostOK(s.h)
        /\ in \in DOMAIN s.h /\ out \in DOMAIN s.h
        /\ s.h[in].file = r /\ ~CloexecOn(s.h, in)
        /\ s.h[out].file = w /\ ~CloexecOn(s.h, out)
      BY <2>1 DEF BothMoved
  <2> DEFINE x == CloexecIf(s.h, in, in)
             y == CloexecIf(x, out, out)
  <2>3. /\ host' = y
        /\ fds' = [fds EXCEPT ![in] = Opened(in, in, r),
                              ![out] = Opened(out, out, w)]
      BY <1>4, <2>1 DEF PipeOpened, BothMoved
  <2>4. /\ HostOK(x) /\ DOMAIN x = DOMAIN s.h /\ x[in].file = s.h[in].file
        /\ \A m \in DOMAIN s.h : m # in => SameAt(x, s.h, m)
        /\ CloexecOn(x, in) <=> fds[in].flags = "cloexec"
      BY <2>2, CloexecIfOK
  <2> HIDE DEF x
  <2>5. out \in DOMAIN x /\ x[out].file = w /\ ~CloexecOn(x, out)
    <3>1. SameAt(x, s.h, out)
        BY <1>1, <2>2, <2>4
    <3> QED BY <2>2, <2>4, <3>1 DEF SameAt
  <2>6. /\ HostOK(y) /\ DOMAIN y = DOMAIN x /\ y[out].file = x[out].file
        /\ \A m \in DOMAIN x : m # out => SameAt(y, x, m)
        /\ CloexecOn(y, out) <=> fds[out].flags = "cloexec"
      BY <2>4, <2>5, CloexecIfOK
  <2> HIDE DEF y
  <2>7. /\ in \in DOMAIN y /\ y[in].file = r
        /\ CloexecOn(y, in) <=> fds[in].flags = "cloexec"
    <3>1. SameAt(y, x, in)
        BY <1>1, <2>2, <2>4, <2>6
    <3> QED BY <2>2, <2>4, <2>6, <3>1 DEF SameAt
  <2>8. /\ DOMAIN fds' = DOMAIN fds
        /\ fds'[in] = Opened(in, in, r) /\ fds'[out] = Opened(out, out, w)
        /\ \A f \in DOMAIN fds : f # in /\ f # out => fds'[f] = fds[f]
      BY <1>1, <2>3
  <2>9. /\ fds'[in] \in QnxFd /\ fds'[in].open /\ fds'[in].host = in
        /\ fds'[in].file = r /\ fds'[in].flags = fds[in].flags
      BY <1>1, <2>2, <2>8, OpenedEntry
  <2>10. /\ fds'[out] \in QnxFd /\ fds'[out].open /\ fds'[out].host = out
         /\ fds'[out].file = w /\ fds'[out].flags = fds[out].flags
      BY <1>1, <2>2, <2>8, OpenedEntry
  <2>11. GuestOK(fds')
      BY <2>8, <2>9, <2>10 DEF IInv, Good, GuestOK
  <2>12. Backed(fds', host', in) /\ Backed(fds', host', out)
      BY <2>3, <2>5, <2>6, <2>7, <2>9, <2>10 DEF Backed
  <2>13. ASSUME NEW f \in DOMAIN fds', f # in, f # out
         PROVE  Backed(fds', host', f)
    <3>1. Backed(fds, host, f) /\ fds'[f] = fds[f]
        BY <1>1, <2>8, <2>13 DEF IInv, Good
    <3>2. ASSUME f \in DOMAIN host PROVE f \in DOMAIN host' /\ SameAt(host', host, f)
      <4>1. f \in DOMAIN s.h /\ SameAt(s.h, host, f)
          BY <2>1, <2>13, <3>2 DEF BothMoved
      <4>2. SameAt(x, s.h, f) /\ SameAt(y, x, f) /\ f \in DOMAIN y
          BY <2>4, <2>6, <2>13, <4>1
      <4> QED BY <2>3, <4>1, <4>2 DEF SameAt
    <3> QED BY <3>1, <3>2, BackedFrame
  <2>14. ASSUME status' = "ok", NEW n \in DOMAIN host' \ {0}
         PROVE  Owned(fds', n)
    <3>1. CASE n = in \/ n = out
        BY <1>1, <2>8, <2>9, <2>10, <3>1 DEF Owned
    <3>2. CASE n # in /\ n # out
      <4>1. n \in DOMAIN s.h /\ status = "ok"
          BY <1>1, <1>4, <2>3, <2>4, <2>6, <2>14
      <4>2. n \in DOMAIN host
          BY <2>1, <2>14, <3>2, <4>1 DEF BothMoved
      <4>3. Owned(fds, n)
          BY <2>14, <4>1, <4>2 DEF IInv, Good
      <4> QED BY <2>8, <3>2, <4>3 DEF Owned
    <3> QED BY <3>1, <3>2
  <2>15. status' \in {"ok", "unruly"}
      BY <1>1, <1>4
  <2> QED BY <2>3, <2>6, <2>11, <2>12, <2>13, <2>14, <2>15 DEF IInv, Good
<1>5. CASE /\ PipeFails(s)
           /\ status' = IF taken THEN "clobbered" ELSE status
  <2>1. GaveUp(s, in, out) /\ fds' = fds
        /\ host' = UniqueClose(UniqueClose(s.h, s.hf[0]), s.hf[1])
      BY <1>2, <1>5 DEF PipeFails, BothMoved
  <2>2. /\ HostOK(host')
        /\ \A n \in DOMAIN host :
              n # in /\ n # out => n \in DOMAIN host' /\ SameAt(host', host, n)
        /\ \A n \in DOMAIN host' : n \in DOMAIN host \cup {0}
      BY <2>1 DEF GaveUp
  <2>3. CASE taken
      BY <1>5, <2>1, <2>2, <2>3 DEF IInv, Good
  <2>4. CASE ~taken
    <3>1. ASSUME NEW f \in DOMAIN fds' PROVE Backed(fds', host', f)
      <4>1. Backed(fds, host, f)
          BY <1>1, <2>1 DEF IInv, Good
      <4>2. CASE f = in \/ f = out
          BY <2>1, <2>4, <4>2 DEF Backed
      <4>3. CASE f # in /\ f # out
          BY <2>1, <2>2, <4>1, <4>3, BackedFrame
      <4> QED BY <4>2, <4>3
    <3>2. ASSUME status' = "ok", NEW n \in DOMAIN host' \ {0}
          PROVE  Owned(fds', n)
        BY <1>5, <2>1, <2>2, <2>4, <3>2 DEF IInv, Good
    <3> QED BY <1>1, <1>5, <2>1, <2>2, <2>4, <3>1, <3>2 DEF IInv, Good
  <2> QED BY <2>3, <2>4
<1>6. CASE PipeUndefined(s)
    BY <1>6, DeadStep DEF PipeUndefined
<1> QED BY <1>3, <1>4, <1>5, <1>6

-----------------------------------------------------------------------------
(* The redirections of proc_exec.                                          *)

(* One redirection touches its own descriptor only, and its descriptor is  *)
(* the source's file, open over the exec.                                  *)
LEMMA RedirectOK ==
  ASSUME NEW h, HostOK(h), NEW n, NEW i \in HostFd
  PROVE  LET u == Redirect(h, n, i)
         IN  /\ HostOK(u)
             /\ \A m \in DOMAIN h : m # i => m \in DOMAIN u /\ SameAt(u, h, m)
             /\ n = Keep => u = h
             /\ n # Keep /\ n \in DOMAIN h =>
                   i \in DOMAIN u /\ u[i].file = h[n].file /\ ~CloexecOn(u, i)
<1> DEFINE u == Redirect(h, n, i)
           d == OpenAt(h, i, h[n].file)
           v == IF n # i /\ n \in DOMAIN h THEN d ELSE h
<1>1. CASE n = Keep
  <2>1. u = h
      BY <1>1 DEF Redirect
  <2>2. \A m \in DOMAIN h : SameAt(h, h, m)
      BY DEF SameAt
  <2> QED BY <1>1, <2>1, <2>2
<1>2. CASE n # Keep
  <2>1. u = SetCloexec(v, i, FALSE)
      BY <1>2 DEF Redirect, Dup2, OpenAt
  <2>2. /\ HostOK(v)
        /\ \A m \in DOMAIN h : m # i => m \in DOMAIN v /\ SameAt(v, h, m)
        /\ n \in DOMAIN h => i \in DOMAIN v /\ v[i].file = h[n].file
    <3>1. CASE n # i /\ n \in DOMAIN h
      <4>1. HostOK(h) /\ i \in HostFd /\ h[n].file \in File
          BY <3>1 DEF HostOK, Desc
      <4>2. /\ HostOK(d) /\ DOMAIN d = DOMAIN h \cup {i}
            /\ d[i].file = h[n].file
            /\ \A m \in DOMAIN h : m # i => SameAt(d, h, m)
          BY <4>1, OpenAtOK
      <4>3. v = d
          BY <3>1
      <4> HIDE DEF d, v
      <4> QED BY <4>2, <4>3
    <3>2. CASE ~(n # i /\ n \in DOMAIN h)
      <4>1. v = h
          BY <3>2
      <4> HIDE DEF v
      <4> QED BY <3>2, <4>1 DEF SameAt
    <3> QED BY <3>1, <3>2
  <2> HIDE DEF v
  <2>3. \A on \in BOOLEAN :
          LET x == SetCloexec(v, i, on)
          IN  /\ HostOK(x) /\ DOMAIN x = DOMAIN v
              /\ \A m \in DOMAIN v : x[m].file = v[m].file
              /\ \A m \in DOMAIN v : m # i => SameAt(x, v, m)
              /\ i \in DOMAIN v => (CloexecOn(x, i) <=> on)
      BY <2>2, SetCloexecOK
  <2>4. /\ HostOK(u) /\ DOMAIN u = DOMAIN v
        /\ \A m \in DOMAIN v : u[m].file = v[m].file
        /\ \A m \in DOMAIN v : m # i => SameAt(u, v, m)
        /\ i \in DOMAIN v => ~CloexecOn(u, i)
      BY <2>1, <2>3
  <2> SUFFICES
        /\ HostOK(u)
        /\ \A m \in DOMAIN h : m # i => m \in DOMAIN u /\ SameAt(u, h, m)
        /\ n \in DOMAIN h =>
              i \in DOMAIN u /\ u[i].file = h[n].file /\ ~CloexecOn(u, i)
      BY <1>2
  <2> HIDE DEF u
  <2>5. ASSUME NEW m \in DOMAIN h, m # i PROVE m \in DOMAIN u /\ SameAt(u, h, m)
    <3>1. m \in DOMAIN v /\ SameAt(v, h, m) /\ SameAt(u, v, m)
        BY <2>2, <2>4, <2>5
    <3> QED BY <2>4, <3>1 DEF SameAt
  <2> QED BY <2>2, <2>4, <2>5
<1> QED BY <1>1, <1>2

(* The descriptors before the first redirection, between two, and after    *)
(* the last: the recursive definition has a solution, for any number.      *)
IsAfter(after, std) ==
    after = [i \in 0 .. NStd |->
                IF i = 0 THEN host ELSE Redirect(after[i - 1], std[i - 1], i - 1)]

(* redirected is its last value.                                           *)
LEMMA AfterExists ==
  ASSUME NEW std
  PROVE  \E after : IsAfter(after, std) /\ redirected(std) = after[NStd]
<1> DEFINE Upto(g, n) ==
              g = [i \in 0 .. n |-> IF i = 0 THEN host
                                    ELSE Redirect(g[i - 1], std[i - 1], i - 1)]
           S == {n \in Nat : \E g : Upto(g, n)}
<1>1. 0 \in S
  <2> DEFINE g == [i \in 0 .. 0 |-> host]
  <2>1. Upto(g, 0)
      OBVIOUS
  <2> QED BY <2>1
<1>2. ASSUME NEW n \in Nat, n \in S PROVE n + 1 \in S
  <2>1. PICK g : Upto(g, n)
      BY <1>2
  <2> DEFINE k == [i \in 0 .. n + 1 |->
                      IF i = n + 1 THEN Redirect(g[n], std[n], n) ELSE g[i]]
  <2>2. \A i \in 0 .. n + 1 :
            k[i] = IF i = 0 THEN host
                   ELSE Redirect(k[i - 1], std[i - 1], i - 1)
      BY <2>1
  <2>3. k = [i \in 0 .. n + 1 |-> IF i = 0 THEN host
                                  ELSE Redirect(k[i - 1], std[i - 1], i - 1)]
      BY <2>2
  <2> HIDE DEF k
  <2>4. \E x : Upto(x, n + 1)
      BY <2>3
  <2> QED BY <2>4
<1> HIDE DEF S
<1>3. NStd \in S
    BY <1>1, <1>2, NatSetInduction, FdAssumption
<1>4. \E g : Upto(g, NStd)
    BY <1>3 DEF S
<1> DEFINE after == CHOOSE a : Upto(a, NStd)
<1>5. Upto(after, NStd)
    BY <1>4, Zenon
<1>6. redirected(std) = after[NStd]
    BY DEF redirected
<1>7. IsAfter(after, std)
    BY <1>5 DEF IsAfter
<1> QED BY <1>6, <1>7

(* Every stage is a table of host descriptors.                             *)
LEMMA AfterOK ==
  ASSUME HostOK(host), NEW std, NEW after, IsAfter(after, std)
  PROVE  /\ after[0] = host
         /\ \A i \in 0 .. NStd : HostOK(after[i])
         /\ \A i \in 0 .. NStd - 1 : after[i + 1] = Redirect(after[i], std[i], i)
<1>1. after[0] = host
    BY FdAssumption DEF IsAfter
<1>2. ASSUME NEW i \in 0 .. NStd - 1
      PROVE  after[i + 1] = Redirect(after[i], std[i], i)
  <2>1. i + 1 \in 0 .. NStd /\ i + 1 # 0 /\ (i + 1) - 1 = i
      BY FdAssumption
  <2> QED BY <2>1 DEF IsAfter
<1> DEFINE S == {i \in Nat : i <= NStd => HostOK(after[i])}
<1>3. 0 \in S
    BY <1>1
<1>4. ASSUME NEW n \in Nat, n \in S PROVE n + 1 \in S
  <2>1. CASE n + 1 <= NStd
    <3>1. n \in 0 .. NStd - 1 /\ n \in HostFd /\ HostOK(after[n])
        BY <1>4, <2>1, FdAssumption DEF HostFd
    <3>2. HostOK(Redirect(after[n], std[n], n))
        BY <3>1, RedirectOK
    <3> QED BY <1>2, <3>1, <3>2
  <2>2. CASE ~(n + 1 <= NStd)
      BY <2>2
  <2> QED BY <2>1, <2>2
<1> HIDE DEF S
<1>5. Nat \subseteq S
    BY <1>3, <1>4, NatSetInduction
<1>6. \A i \in 0 .. NStd : HostOK(after[i])
  <2>1. ASSUME NEW i \in 0 .. NStd PROVE HostOK(after[i])
    <3>1. i \in S /\ i <= NStd
        BY <1>5, FdAssumption
    <3> QED BY <3>1 DEF S
  <2> QED BY <2>1
<1> QED BY <1>1, <1>2, <1>6

(* All redirections leave a table of host descriptors.                     *)
LEMMA RedirectedOK ==
  ASSUME HostOK(host), NEW std
  PROVE  HostOK(redirected(std))
<1>1. PICK after : IsAfter(after, std) /\ redirected(std) = after[NStd]
    BY AfterExists
<1>2. NStd \in 0 .. NStd
    BY FdAssumption
<1> QED BY <1>1, <1>2, AfterOK

(* What execve leaves open.                                                *)
LEMMA KeptOK ==
  ASSUME NEW h, HostOK(h)
  PROVE  LET u == KeptOverExec(h)
         IN  /\ HostOK(u)
             /\ \A n \in DOMAIN h : ~CloexecOn(h, n) => n \in DOMAIN u
             /\ \A n \in DOMAIN u : n \in DOMAIN h /\ SameAt(u, h, n)
             /\ \A n \in DOMAIN u : ~CloexecOn(u, n)
<1> DEFINE u == KeptOverExec(h)
<1>1. /\ DOMAIN u = {n \in DOMAIN h : ~CloexecOn(h, n)}
      /\ \A n \in DOMAIN u : u[n] = h[n]
    BY DEF KeptOverExec, Restrict, CloexecOn
<1> HIDE DEF u
<1>2. HostOK(u)
    BY <1>1 DEF HostOK
<1>3. \A n \in DOMAIN u : SameAt(u, h, n)
    BY <1>1 DEF SameAt, CloexecOn
<1>4. \A n \in DOMAIN u : ~CloexecOn(u, n)
    BY <1>1, <1>3 DEF SameAt
<1> QED BY <1>1, <1>2, <1>3, <1>4 DEF u

(* A redirection whose source no earlier one has overwritten gives the     *)
(* source's file, whatever the later ones do.                              *)
LEMMA SourceKept ==
  ASSUME HostOK(host), NEW std \in StdFds, NEW j \in 0 .. NStd - 1,
         std[j] \in DOMAIN host,
         \A i \in 0 .. j - 1 : std[i] # Keep => i # std[j]
  PROVE  LET h == redirected(std)
         IN  j \in DOMAIN h /\ h[j].file = host[std[j]].file /\ ~CloexecOn(h, j)
<1> DEFINE src == std[j]
           file == host[src].file
<1>1. PICK after : IsAfter(after, std) /\ redirected(std) = after[NStd]
    BY AfterExists
<1>2. /\ after[0] = host
      /\ \A i \in 0 .. NStd : HostOK(after[i])
      /\ \A i \in 0 .. NStd - 1 : after[i + 1] = Redirect(after[i], std[i], i)
    BY <1>1, AfterOK
<1>3. \A i \in 0 .. NStd - 1 : i \in HostFd
    BY FdAssumption DEF HostFd
<1>4. ASSUME NEW i \in 0 .. NStd - 1
      PROVE  /\ \A m \in DOMAIN after[i] : m # i =>
                   m \in DOMAIN after[i + 1] /\ SameAt(after[i + 1], after[i], m)
             /\ std[i] = Keep => after[i + 1] = after[i]
             /\ std[i] # Keep /\ std[i] \in DOMAIN after[i] =>
                   /\ i \in DOMAIN after[i + 1]
                   /\ after[i + 1][i].file = after[i][std[i]].file
                   /\ ~CloexecOn(after[i + 1], i)
  <2>1. HostOK(after[i]) /\ i \in HostFd
      BY <1>2, <1>3, FdAssumption
  <2> DEFINE u == Redirect(after[i], std[i], i)
  <2>2. /\ \A m \in DOMAIN after[i] : m # i =>
               m \in DOMAIN u /\ SameAt(u, after[i], m)
        /\ std[i] = Keep => u = after[i]
        /\ std[i] # Keep /\ std[i] \in DOMAIN after[i] =>
               /\ i \in DOMAIN u
               /\ u[i].file = after[i][std[i]].file
               /\ ~CloexecOn(u, i)
      BY <2>1, RedirectOK
  <2>3. after[i + 1] = u
      BY <1>2
  <2> HIDE DEF u
  <2> QED BY <2>2, <2>3
<1> HIDE DEF src, file
<1> DEFINE S == {i \in Nat : i <= j => src \in DOMAIN after[i]
                                       /\ after[i][src].file = file}
<1>5. 0 \in S
    BY <1>2 DEF src, file
<1>6. ASSUME NEW n \in Nat, n \in S PROVE n + 1 \in S
  <2>1. CASE n + 1 <= j
    <3>1. /\ n \in 0 .. NStd - 1 /\ n \in 0 .. j - 1
          /\ src \in DOMAIN after[n] /\ after[n][src].file = file
        BY <1>6, <2>1, FdAssumption
    <3>2. CASE std[n] = Keep
        BY <1>4, <3>1, <3>2
    <3>3. CASE std[n] # Keep
      <4>1. n # src
          BY <3>1, <3>3 DEF src
      <4>2. src \in DOMAIN after[n + 1] /\ SameAt(after[n + 1], after[n], src)
          BY <1>4, <3>1, <4>1
      <4> QED BY <3>1, <4>2 DEF SameAt
    <3> QED BY <3>2, <3>3
  <2>2. CASE ~(n + 1 <= j)
      BY <2>2
  <2> QED BY <2>1, <2>2
<1> HIDE DEF S
<1>7. src \in DOMAIN after[j] /\ after[j][src].file = file
  <2>1. Nat \subseteq S
      BY <1>5, <1>6, NatSetInduction
  <2>2. j \in S /\ j <= j
      BY <2>1, FdAssumption
  <2> QED BY <2>2 DEF S
<1>8. src # Keep
  <2>1. src \in HostFd
      BY DEF HostOK, src
  <2> QED BY <2>1, FdAssumption DEF HostFd, Keep
<1> DEFINE Ok(h) == j \in DOMAIN h /\ h[j].file = file /\ ~CloexecOn(h, j)
           T == {i \in Nat : j + 1 + i <= NStd => Ok(after[j + 1 + i])}
<1>9. Ok(after[j + 1])
    BY <1>4, <1>7, <1>8 DEF src
<1>10. 0 \in T
  <2>1. j + 1 + 0 = j + 1
      BY FdAssumption
  <2> QED BY <1>9, <2>1
<1>11. ASSUME NEW n \in Nat, n \in T PROVE n + 1 \in T
  <2> DEFINE i == j + 1 + n
  <2>1. CASE i + 1 <= NStd
    <3>1. i \in 0 .. NStd - 1 /\ i # j /\ Ok(after[i]) /\ j + 1 + (n + 1) = i + 1
        BY <1>11, <2>1, FdAssumption
    <3> HIDE DEF i
    <3>2. j \in DOMAIN after[i + 1] /\ SameAt(after[i + 1], after[i], j)
        BY <1>4, <3>1
    <3>3. Ok(after[i + 1])
        BY <3>1, <3>2 DEF SameAt
    <3> QED BY <3>1, <3>3
  <2>2. CASE ~(i + 1 <= NStd)
    <3>1. ~(j + 1 + (n + 1) <= NStd)
        BY <2>2, FdAssumption
    <3> QED BY <3>1
  <2> QED BY <2>1, <2>2
<1> HIDE DEF T, Ok
<1>12. Ok(after[NStd])
  <2>1. Nat \subseteq T
      BY <1>10, <1>11, NatSetInduction
  <2> DEFINE k == NStd - (j + 1)
  <2>2. k \in T /\ j + 1 + k = NStd
      BY <2>1, FdAssumption
  <2> HIDE DEF k
  <2>3. Ok(after[j + 1 + k])
      BY <2>2, FdAssumption DEF T
  <2> QED BY <2>2, <2>3
<1> QED BY <1>1, <1>12 DEF Ok, file, src

(* What the guest would get from proc_exec, in every state.                *)
LEMMA ExecGives == ASSUME IInv PROVE ExecRedirects
<1>1. ASSUME Alive, NEW std \in StdFds, NEW j \in 0 .. NStd - 1,
             std[j] \in DOMAIN host,
             \A i \in 0 .. j - 1 : std[i] # Keep => i # std[j]
      PROVE  LET h == KeptOverExec(redirected(std))
             IN  /\ j \in DOMAIN h
                 /\ h[j].file = host[std[j]].file
                 /\ Free(h) # {} =>
                        \A exe \in File : load_executable(h, exe)[j] = h[j]
  <2> DEFINE g == redirected(std)
             h == KeptOverExec(g)
  <2>1. HostOK(host)
      BY DEF IInv, Good
  <2>2. j \in DOMAIN g /\ g[j].file = host[std[j]].file /\ ~CloexecOn(g, j)
      BY <1>1, <2>1, SourceKept
  <2>3. HostOK(g)
      BY <2>1, RedirectedOK
  <2> HIDE DEF g
  <2>4. /\ \A n \in DOMAIN g : ~CloexecOn(g, n) => n \in DOMAIN h
        /\ \A n \in DOMAIN h : n \in DOMAIN g /\ SameAt(h, g, n)
      BY <2>3, KeptOK
  <2> HIDE DEF h
  <2>5. j \in DOMAIN h /\ h[j].file = host[std[j]].file
      BY <2>2, <2>4 DEF SameAt
  <2>6. ASSUME NEW exe \in File PROVE load_executable(h, exe)[j] = h[j]
    <3>1. CASE 0 \in Free(h)
      <4>1. j # 0
          BY <2>5, <3>1 DEF Free
      <4> QED BY <2>5, <3>1, <4>1 DEF load_executable, Put
    <3>2. CASE 0 \notin Free(h)
        BY <3>2 DEF load_executable
    <3> QED BY <3>1, <3>2
  <2> QED BY <2>5, <2>6 DEF h, g
<1> QED BY <1>1 DEF ExecRedirects

(* qine starts with descriptors h, none of which is close-on-exec, all of  *)
(* them FDs: every one becomes an open FD, and the executable is loaded.   *)
LEMMA StartOK ==
  ASSUME NEW h, HostOK(h), DOMAIN h \subseteq Fd, Free(h) # {},
         \A n \in DOMAIN h : ~CloexecOn(h, n), NEW exe \in File,
         NEW stat \in {"ok", "unruly"}
  PROVE  Good(scan_host_fds(h), load_executable(h, exe), stat)
<1> DEFINE F == scan_host_fds(h)
           g == load_executable(h, exe)
           Entry(n) == [open |-> TRUE, host |-> n, flags |-> "none",
                        dir |-> FALSE, file |-> h[n].file]
<1>1. DOMAIN F = DOMAIN h /\ \A n \in DOMAIN h : F[n] = Entry(n)
    BY DEF scan_host_fds
<1>2. ASSUME NEW n \in DOMAIN h
      PROVE  /\ Entry(n) \in QnxFd /\ Entry(n).open /\ Entry(n).host = n
             /\ Entry(n).file = h[n].file /\ Entry(n).flags = "none"
    BY DEF HostOK, Desc, QnxFd, Flags
<1> HIDE DEF F, Entry
<1>3. /\ HostOK(g)
      /\ \A n \in DOMAIN h : n \in DOMAIN g /\ SameAt(g, h, n)
      /\ \A n \in DOMAIN g : n \in DOMAIN h \cup {0}
  <2>1. CASE 0 \in Free(h)
    <3> DEFINE d == OpenAt(h, 0, exe)
    <3>1. g = d
        BY <2>1 DEF load_executable, OpenAt
    <3>2. HostOK(h) /\ 0 \in HostFd /\ exe \in File /\ 0 \notin DOMAIN h
        BY <2>1 DEF Free
    <3>3. /\ HostOK(d) /\ DOMAIN d = DOMAIN h \cup {0}
          /\ d[0].file = exe /\ ~CloexecOn(d, 0)
          /\ \A m \in DOMAIN h : m # 0 => SameAt(d, h, m)
        BY <3>2, OpenAtOK
    <3> HIDE DEF d, g
    <3> QED BY <3>1, <3>2, <3>3
  <2>2. CASE 0 \notin Free(h)
    <3>1. g = h
        BY <2>2 DEF load_executable
    <3> HIDE DEF g
    <3> QED BY <3>1 DEF SameAt
  <2> QED BY <2>1, <2>2
<1> HIDE DEF g
<1>4. GuestOK(F)
    BY <1>1, <1>2 DEF GuestOK
<1>5. ASSUME NEW n \in DOMAIN F PROVE Backed(F, g, n)
  <2>1. /\ F[n].host = n /\ F[n].file = h[n].file /\ F[n].flags = "none"
        /\ n \in DOMAIN h /\ ~CloexecOn(h, n)
      BY <1>1, <1>2
  <2>2. n \in DOMAIN g /\ SameAt(g, h, n)
      BY <1>3, <2>1
  <2> QED BY <2>1, <2>2 DEF Backed, SameAt
<1>6. ASSUME NEW n \in DOMAIN g \ {0} PROVE Owned(F, n)
    BY <1>1, <1>2, <1>3 DEF Owned
<1>7. Good(F, g, stat)
    BY <1>3, <1>4, <1>5, <1>6 DEF Good
<1> QED BY <1>7 DEF F, g

(* The descriptors qine was started with by a shell.                       *)
LEMMA InvInit == Init => IInv
<1> SUFFICES ASSUME Init PROVE IInv
    OBVIOUS
<1>1. PICK N \in SUBSET (HostFd \cap Fd) : \E inherited \in [N -> File] :
        \E exe \in File \ {inherited[n] : n \in N} :
            LET h == [n \in N |-> [file |-> inherited[n], cloexec |-> FALSE]]
            IN  /\ Free(h) # {}
                /\ fds = scan_host_fds(h)
                /\ host = load_executable(h, exe)
                /\ status = "ok"
    BY DEF Init
<1>2. PICK inherited \in [N -> File] :
        \E exe \in File \ {inherited[n] : n \in N} :
            LET h == [n \in N |-> [file |-> inherited[n], cloexec |-> FALSE]]
            IN  /\ Free(h) # {}
                /\ fds = scan_host_fds(h)
                /\ host = load_executable(h, exe)
                /\ status = "ok"
    BY <1>1
<1> DEFINE d(n) == [file |-> inherited[n], cloexec |-> FALSE]
           h == [n \in N |-> d(n)]
<1>3. PICK exe \in File : /\ Free(h) # {}
                          /\ fds = scan_host_fds(h)
                          /\ host = load_executable(h, exe)
                          /\ status = "ok"
    BY <1>2
<1>4. ASSUME NEW n \in N PROVE d(n) \in Desc /\ ~d(n).cloexec
    BY DEF Desc
<1>5. DOMAIN h = N /\ \A n \in N : h[n] = d(n)
    OBVIOUS
<1> HIDE DEF h, d
<1>6. HostOK(h) /\ DOMAIN h \subseteq Fd
    BY <1>4, <1>5 DEF HostOK
<1>7. \A n \in DOMAIN h : ~CloexecOn(h, n)
    BY <1>4, <1>5 DEF CloexecOn
<1> QED BY <1>3, <1>6, <1>7, StartOK DEF IInv

(* proc_exec: the new program's FDs are backed too.                        *)
LEMMA ExecStep ==
  ASSUME IInv, NEW std \in StdFds, NEW exe \in File, proc_exec(std, exe)
  PROVE  IInv'
<1> DEFINE g == redirected(std)
           h == KeptOverExec(g)
<1>1. /\ DOMAIN h \subseteq Fd /\ Free(h) # {}
      /\ fds' = scan_host_fds(h) /\ host' = load_executable(h, exe)
      /\ status' = status /\ status \in {"ok", "unruly"} /\ HostOK(host)
    BY DEF proc_exec, Alive, IInv, Good
<1>2. HostOK(g)
    BY <1>1, RedirectedOK
<1> HIDE DEF g
<1>3. HostOK(h) /\ \A n \in DOMAIN h : ~CloexecOn(h, n)
    BY <1>2, KeptOK
<1> HIDE DEF h
<1> QED BY <1>1, <1>3, StartOK DEF IInv

(* proc_exec, when execve fails.                                           *)
LEMMA ExecFailsStep ==
  ASSUME IInv, NEW std \in StdFds, proc_exec_fails(std)
  PROVE  IInv'
<1>1. /\ host' = redirected(std) /\ status' = "redirected" /\ fds' = fds
      /\ HostOK(host) /\ GuestOK(fds)
    BY DEF proc_exec_fails, IInv, Good
<1>2. HostOK(host')
    BY <1>1, RedirectedOK
<1> QED BY <1>1, <1>2 DEF IInv, Good

(* Every operation keeps the invariant.                                    *)
LEMMA InvStep == IInv /\ [Next]_vars => IInv'
<1> SUFFICES ASSUME IInv, [Next]_vars PROVE IInv'
    OBVIOUS
<1>1. CASE \E f \in Fd, flags \in GuestFlags :
              proc_fd_attach(f, flags) \/ proc_fd_setfd(f, flags)
    BY <1>1, AttachStep, SetfdStep
<1>2. CASE proc_fd_attach_null(GuestMax)
    BY <1>2, DeadStep DEF proc_fd_attach_null
<1>3. CASE \E f \in Fd : proc_fd_detach(f) \/ io_close(f) \/ prepare_dir(f)
    BY <1>3, DetachStep, IoCloseStep, PrepareDirStep
<1>4. CASE \E f \in Fd : io_open_asserts(f)
    BY <1>4, DeadStep DEF io_open_asserts
<1>5. CASE \E f \in Fd, file \in File : io_open(f, file) \/ io_open_fails(f, file)
    BY <1>5, IoOpenStep, IoOpenFailsStep
<1>6. CASE \E f, g \in Fd : io_dup(f, g) \/ io_dup_fails(f, g)
    BY <1>6, IoDupStep, IoDupFailsStep
<1>7. CASE \E f, g \in Fd, r, w \in File : fsys_pipe(f, g, r, w)
    BY <1>7, PipeStep
<1>8. CASE \E std \in StdFds, exe \in File : proc_exec(std, exe)
    BY <1>8, ExecStep
<1>9. CASE \E std \in StdFds : proc_exec_fails(std)
    BY <1>9, ExecFailsStep
<1>10. CASE UNCHANGED vars
    BY <1>10 DEF vars, IInv
<1> QED BY <1>1, <1>2, <1>3, <1>4, <1>5, <1>6, <1>7, <1>8, <1>9, <1>10 DEF Next

-----------------------------------------------------------------------------
(* Theorems.                                                               *)

(* The entries and descriptors keep their types, in a dead state too.      *)
THEOREM TypeCorrect == Spec => []TypeOK
<1>1. IInv => TypeOK
    BY InvImplies
<1> QED BY <1>1, InvInit, InvStep, PTL DEF Spec

(* Guest FD = host FD: for any sequence of attaches, opens, dups, pipes    *)
(* and execs, and whatever descriptors the host gives on the way, an open  *)
(* FD is backed by the host descriptor of its number, open for the file    *)
(* the guest opened there.                                                 *)
THEOREM HostAlwaysBacksGuest == Spec => []HostBacksGuest
<1>1. IInv => HostBacksGuest
    BY InvImplies
<1> QED BY <1>1, InvInit, InvStep, PTL DEF Spec

(* No temporary descriptor survives an operation, failed ones included,    *)
(* but descriptor 0, which UniqueFd::close does not close.                 *)
THEOREM OnlyZeroEverLeaks == Spec => []OnlyZeroLeaks
<1>1. IInv => OnlyZeroLeaks
    BY InvImplies
<1> QED BY <1>1, InvInit, InvStep, PTL DEF Spec

(* The close-on-exec flag on the host is the guest's, through every dup2.  *)
THEOREM CloexecAlwaysAgrees == Spec => []CloexecAgrees
<1>1. IInv => CloexecAgrees
    BY InvImplies
<1> QED BY <1>1, InvInit, InvStep, PTL DEF Spec

(* In every state, for any number of redirections, one whose source no     *)
(* earlier one overwrites gives the new program the file the guest named.  *)
THEOREM ExecAlwaysRedirects == Spec => []ExecRedirects
<1>1. IInv => ExecRedirects
    BY ExecGives
<1> QED BY <1>1, InvInit, InvStep, PTL DEF Spec
=============================================================================
