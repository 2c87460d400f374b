-------------------------------- MODULE FdMap -------------------------------
(***************************************************************************)
(* The file descriptors of a guest (src/src/qnx_fd.cpp, idmap.h,           *)
(* unique_fd.h and the handlers of main_handler.cpp that use them).  A QNX *)
(* FD is attached first and opened later; an open one is backed by the     *)
(* host descriptor of the same number, which the code obtains by opening   *)
(* the file at whatever number the host gives and moving it with dup2.     *)
(* Handlers that use a file (read, write, lseek, fstat, ...) go straight   *)
(* to the host descriptor of the guest's number, whether or not the guest  *)
(* has opened it (MsgContext::map_fd).                                     *)
(***************************************************************************)
EXTENDS Integers, FiniteSetsExt, Functions

CONSTANTS
    File,           \* identities of open files
    NoFile,
    GuestMax,       \* the size of FdMap::m_fds, 16384
    HostMax,        \* the limit of host descriptors (RLIMIT_NOFILE)
    NStd,           \* the descriptors proc_exec may redirect, 10
    GuestFlags      \* the flags the guest attaches with and sets

ASSUME FdAssumption ==
    /\ NoFile \notin File
    /\ GuestMax \in Nat \ {0}
    /\ HostMax \in Nat \ {0}
    /\ NStd \in 0 .. HostMax
    /\ GuestFlags \subseteq {"none", "cloexec", "other"}

Fd == 0 .. GuestMax - 1
HostFd == 0 .. HostMax - 1

(* m_flags: empty, with the bit of is_close_on_exec, or with other bits.   *)
Flags == {"none", "cloexec", "other"}
Keep == -1          \* 0xFF in m_stdfds

QnxFd == [open : BOOLEAN, host : HostFd \cup {-1}, flags : Flags,
          dir : BOOLEAN, file : File \cup {NoFile}]
Desc == [file : File, cloexec : BOOLEAN]

VARIABLES
    fds,        \* FdMap::m_fds: attached FDs; m_open, m_host_fd, m_flags,
                \* m_host_dir, and file: what the guest opened here (ghost)
    host,       \* the host's descriptors
    status      \* "ok"; "unruly" once the guest has detached an open FD or
                \* piped onto one, which the QNX library does not do;
                \* "clobbered" after a pipe onto open FDs that failed half
                \* way, "redirected" after a failed proc_exec; "abort",
                \* "null" or "undefined" when qine itself has gone wrong.
                \* The model goes on in the first two

vars == <<fds, host, status>>

Alive == status \in {"ok", "unruly"}

-----------------------------------------------------------------------------
(* The host.                                                               *)

Free(h) == HostFd \ DOMAIN h

Put(h, n, file, cloexec) ==
    [m \in DOMAIN h \cup {n} |->
        IF m = n THEN [file |-> file, cloexec |-> cloexec] ELSE h[m]]

Close(h, n) == Restrict(h, DOMAIN h \ {n})

(* dup2 of the open descriptor n to another one.                           *)
Dup2(h, n, m) == Put(h, m, h[n].file, FALSE)

SetCloexec(h, n, on) ==
    IF n \in DOMAIN h THEN [h EXCEPT ![n].cloexec = on] ELSE h

Fresh(h) == File \ {h[n].file : n \in DOMAIN h}

(* UniqueFd::close: descriptor 0 is left open.                             *)
UniqueClose(h, n) == IF n > 0 THEN Close(h, n) ELSE h

-----------------------------------------------------------------------------
is_close_on_exec(f) == fds[f].flags = "cloexec"

Attached(flags) == [open |-> FALSE, host |-> 0, flags |-> flags,
                    dir |-> FALSE, file |-> NoFile]

(* The entry of f once it is open for the file.                            *)
Opened(f, n, file) ==
    [fds[f] EXCEPT !.open = TRUE, !.host = n, !.file = file]

(* QnxFd::close, on the entry.                                             *)
ClosedFd(f) ==
    [fds[f] EXCEPT !.open = FALSE, !.host = -1, !.dir = FALSE,
                   !.file = NoFile]

(* scan_host_fds: an entry for each descriptor qine was started with.      *)
scan_host_fds(h) ==
    [n \in DOMAIN h \cap Fd |->
        [open |-> TRUE, host |-> n, flags |-> "none", dir |-> FALSE,
         file |-> h[n].file]]

(* load_executable, afterwards: the program's file is opened through a     *)
(* UniqueFd, which stays open if the host gave it descriptor 0.            *)
load_executable(h, exe) ==
    IF 0 \in Free(h) THEN Put(h, 0, exe, FALSE) ELSE h

Init ==
    \E N \in SUBSET (HostFd \cap Fd) : \E inherited \in [N -> File] :
        \E exe \in File \ {inherited[n] : n \in N} :
            LET h == [n \in N |-> [file |-> inherited[n], cloexec |-> FALSE]]
            IN  /\ \A n, m \in N : inherited[n] = inherited[m] => n = m
                /\ Free(h) # {}
                /\ fds = scan_host_fds(h)
                /\ host = load_executable(h, exe)
                /\ status = "ok"

-----------------------------------------------------------------------------
(* Mutant: IdMap::search goes one too far.                                 *)
proc_fd_attach_beyond(first, flags) ==
    /\ Alive
    /\ \E f \in (first .. GuestMax) \ DOMAIN fds :
          /\ first .. f - 1 \subseteq DOMAIN fds
          /\ fds' = [g \in DOMAIN fds \cup {f} |->
                        IF g = f THEN Attached(flags) ELSE fds[g]]
    /\ UNCHANGED <<host, status>>

(* qnx_fd_attach: the first unattached FD from `first' on, if any.         *)
proc_fd_attach(first, flags) ==
    /\ Alive
    /\ \E f \in (first .. GuestMax - 1) \ DOMAIN fds :
          /\ first .. f - 1 \subseteq DOMAIN fds
          /\ fds' = [g \in DOMAIN fds \cup {f} |->
                        IF g = f THEN Attached(flags) ELSE fds[g]]
    /\ UNCHANGED <<host, status>>

(* alloc_starting_at returns a null pointer for a number out of range.     *)
proc_fd_attach_null(first) ==
    /\ Alive
    /\ first >= GuestMax
    /\ status' = "null"
    /\ UNCHANGED <<fds, host>>

(* qnx_fd_detach: IdMap::free releases the entry and does not destroy it,  *)
(* so that an open descriptor stays open.                                  *)
proc_fd_detach(f) ==
    /\ Alive
    /\ f \in DOMAIN fds
    /\ fds' = Restrict(fds, DOMAIN fds \ {f})
    /\ status' = IF fds[f].open THEN "unruly" ELSE status
    /\ UNCHANGED host

proc_fd_setfd(f, flags) ==
    /\ Alive
    /\ f \in DOMAIN fds
    /\ fds[f].open => fds[f].host \in DOMAIN host
    /\ host' = IF fds[f].open
               THEN SetCloexec(host, fds[f].host, flags # "none") ELSE host
    /\ fds' = [fds EXCEPT ![f].flags = flags]
    /\ UNCHANGED status

(* io_open: the file is opened at the host's lowest descriptor tmp and     *)
(* assign_fd moves it to f.                                                *)
Openable(f) ==
    /\ Alive
    /\ f \in DOMAIN fds
    /\ Free(host) # {}

(* Mutant: the descriptor is not moved.                                    *)
assign_fd_unmoved(f, tmp, file) ==
    /\ host' = Put(host, tmp, file, is_close_on_exec(f))
    /\ fds' = [fds EXCEPT ![f] = Opened(f, tmp, file)]

assign_fd(f, tmp, file) ==
    LET h1 == Put(host, tmp, file, FALSE)
        h2 == IF tmp = f THEN h1 ELSE UniqueClose(Dup2(h1, tmp, f), tmp)
    IN  /\ host' = IF is_close_on_exec(f) THEN SetCloexec(h2, f, TRUE) ELSE h2
        /\ fds' = [fds EXCEPT ![f] = Opened(f, f, file)]

io_open(f, file) ==
    /\ Openable(f)
    /\ ~fds[f].open
    /\ file \in Fresh(host)
    /\ f \in HostFd
    /\ assign_fd(f, Min(Free(host)), file)
    /\ UNCHANGED status

(* dup2 fails: f is beyond the host's limit.                               *)
io_open_fails(f, file) ==
    /\ Openable(f)
    /\ ~fds[f].open
    /\ file \in Fresh(host)
    /\ f \notin HostFd
    /\ LET tmp == Min(Free(host))
       IN  host' = UniqueClose(Put(host, tmp, file, FALSE), tmp)
    /\ UNCHANGED <<fds, status>>

(* assert(!m_open) in assign_fd.                                           *)
io_open_asserts(f) ==
    /\ Openable(f)
    /\ fds[f].open
    /\ status' = "abort"
    /\ UNCHANGED <<fds, host>>

io_close(f) ==
    /\ Alive
    /\ f \in DOMAIN fds
    /\ fds[f].open
    /\ host' = Close(host, fds[f].host)
    /\ fds' = [fds EXCEPT ![f] = ClosedFd(f)]
    /\ UNCHANGED status

(* io_dup closes the destination first.                                    *)
Duppable(src, dst) ==
    /\ Alive
    /\ {src, dst} \subseteq DOMAIN fds
    /\ fds[src].open

CloseOpen(f) == IF fds[f].open THEN Close(host, fds[f].host) ELSE host

(* Mutant: the flags of the destination are forgotten.                     *)
io_dup_flagless(src, dst) ==
    /\ Duppable(src, dst)
    /\ src # dst
    /\ dst \in HostFd
    /\ fds[src].host \in DOMAIN CloseOpen(dst)
    /\ host' = Dup2(CloseOpen(dst), fds[src].host, dst)
    /\ fds' = [fds EXCEPT ![dst] =
                  [ClosedFd(dst) EXCEPT !.open = TRUE, !.host = dst,
                                        !.file = fds[src].file]]
    /\ UNCHANGED status

io_dup(src, dst) ==
    /\ Duppable(src, dst)
    /\ src # dst
    /\ dst \in HostFd
    /\ fds[src].host \in DOMAIN CloseOpen(dst)
    /\ LET h == Dup2(CloseOpen(dst), fds[src].host, dst)
       IN  host' = IF is_close_on_exec(dst) THEN SetCloexec(h, dst, TRUE)
                   ELSE h
    /\ fds' = [fds EXCEPT ![dst] =
                  [ClosedFd(dst) EXCEPT !.open = TRUE, !.host = dst,
                                        !.file = fds[src].file]]
    /\ UNCHANGED status

(* dup2 fails: the source was the destination and is closed now, or the    *)
(* destination is beyond the host's limit.                                 *)
io_dup_fails(src, dst) ==
    /\ Duppable(src, dst)
    /\ \/ src = dst
       \/ dst \notin HostFd
       \/ fds[src].host \notin DOMAIN CloseOpen(dst)
    /\ host' = CloseOpen(dst)
    /\ fds' = IF fds[dst].open THEN [fds EXCEPT ![dst] = ClosedFd(dst)]
              ELSE fds
    /\ UNCHANGED status

(* io_readdir and io_rewinddir: fdopendir sets the close-on-exec flag.     *)
prepare_dir(f) ==
    /\ Alive
    /\ f \in DOMAIN fds
    /\ fds[f].open
    /\ fds[f].host \in DOMAIN host
    /\ ~fds[f].dir
    /\ fds' = [fds EXCEPT ![f].dir = TRUE]
    /\ host' = SetCloexec(host, fds[f].host, TRUE)
    /\ UNCHANGED status

-----------------------------------------------------------------------------
(* assign_fds, for the two ends of a pipe.  Its state: h, the host's       *)
(* descriptors; hf, the numbers in host_fds; keys, the keys of             *)
(* fd_to_index (its values are never used); err, what went wrong.          *)

(* host_fd_moved: `to' has been moved from when its key is entered, so     *)
(* the key is -1.                                                          *)
host_fd_moved(s, index, to) ==
    [s EXCEPT !.h = UniqueClose(@, s.hf[index]),
              !.hf[index] = to,
              !.keys = (@ \ {s.hf[index]}) \cup {-1}]

(* realloc_fd: the key is taken for the index, which is outside host_fds   *)
(* unless it is 0 or 1.                                                    *)
realloc_fd(s, n) ==
    IF n \notin s.keys THEN s
    ELSE IF Free(s.h) = {} THEN [s EXCEPT !.err = "dup"]
    ELSE IF n \notin {0, 1} THEN [s EXCEPT !.err = "undefined"]
    ELSE LET new == Min(Free(s.h))
         IN  host_fd_moved([s EXCEPT !.h = Dup2(@, n, new)], n, new)

(* One round of the first loop, for FD f and host_fds[i].                  *)
AssignRound(s, i, f) ==
    IF s.err # "none" THEN s
    ELSE IF f = s.hf[i] THEN [s EXCEPT !.keys = @ \ {fds[f].host}]
    ELSE LET r == realloc_fd(s, f)
         IN  IF r.err # "none" THEN r
             ELSE IF f \notin HostFd THEN [r EXCEPT !.err = "dup"]
             ELSE host_fd_moved([r EXCEPT !.h = Dup2(@, r.hf[i], f)], i, f)

(* The state after the first loop, with the pipe at the host's two lowest  *)
(* descriptors.                                                            *)
assign_fds(in, out, r, w) ==
    LET a == Min(Free(host))
        b == Min(Free(host) \ {a})
        s0 == [h |-> Put(Put(host, a, r, FALSE), b, w, FALSE),
               hf |-> [i \in {0, 1} |-> IF i = 0 THEN a ELSE b],
               keys |-> {a, b},
               err |-> "none"]
    IN  AssignRound(AssignRound(s0, 0, in), 1, out)

CloexecIf(h, f, n) == IF is_close_on_exec(f) THEN SetCloexec(h, n, TRUE) ELSE h

(* The second loop.                                                        *)
PipeOpened(in, out, r, w, s) ==
    /\ s.err = "none"
    /\ host' = CloexecIf(CloexecIf(s.h, in, s.hf[0]), out, s.hf[1])
    /\ fds' = [fds EXCEPT ![in] = Opened(in, s.hf[0], r),
                          ![out] = Opened(out, s.hf[1], w)]

(* Mutant: one end stays open.                                             *)
PipeFails_half(s) ==
    /\ s.err = "dup"
    /\ host' = UniqueClose(s.h, s.hf[0])
    /\ UNCHANGED fds

(* dup or dup2 failed: both descriptors are closed where they are.         *)
PipeFails(s) ==
    /\ s.err = "dup"
    /\ host' = UniqueClose(UniqueClose(s.h, s.hf[0]), s.hf[1])
    /\ UNCHANGED fds

PipeUndefined(s) ==
    /\ s.err = "undefined"
    /\ status' = "undefined"
    /\ UNCHANGED <<fds, host>>

fsys_pipe(in, out, r, w) ==
    /\ Alive
    /\ {in, out} \subseteq DOMAIN fds
    /\ in # out                         \* the guest names two FDs
    /\ Cardinality(Free(host)) >= 2
    /\ {r, w} \subseteq Fresh(host)
    /\ r # w
    /\ LET s == assign_fds(in, out, r, w)
           taken == fds[in].open \/ fds[out].open
       IN  \/ /\ PipeOpened(in, out, r, w, s)
              /\ status' = IF taken THEN "unruly" ELSE status
           \/ /\ PipeFails(s)
              /\ status' = IF taken THEN "clobbered" ELSE status
           \/ PipeUndefined(s)

-----------------------------------------------------------------------------
(* proc_exec_common: the redirections, one after the other, and what the   *)
(* host's execve leaves open.  std[i] is the FD to become descriptor i.    *)
StdFds == [0 .. NStd - 1 -> Fd \cup {Keep}]

(* Mutant: close-on-exec is not disabled.                                  *)
Redirect_cloexec(h, n, i) ==
    IF n # Keep /\ n # i /\ n \in DOMAIN h THEN Dup2(h, n, i) ELSE h

Redirect(h, n, i) ==
    IF n = Keep THEN h
    ELSE SetCloexec(IF n # i /\ n \in DOMAIN h THEN Dup2(h, n, i) ELSE h,
                    i, FALSE)

redirected(std) ==
    LET after[i \in 0 .. NStd] ==
            IF i = 0 THEN host ELSE Redirect(after[i - 1], std[i - 1], i - 1)
    IN  after[NStd]

KeptOverExec(h) == Restrict(h, {n \in DOMAIN h : ~h[n].cloexec})

(* qine starts again in the same process.                                  *)
proc_exec(std, exe) ==
    /\ Alive
    /\ LET h == KeptOverExec(redirected(std))
       IN  /\ DOMAIN h \subseteq Fd
           /\ Free(h) # {}
           /\ exe \in Fresh(h)
           /\ fds' = scan_host_fds(h)
           /\ host' = load_executable(h, exe)
    /\ UNCHANGED status

(* execve failed: the redirections stay.                                   *)
proc_exec_fails(std) ==
    /\ Alive
    /\ host' = redirected(std)
    /\ status' = "redirected"
    /\ UNCHANGED fds

-----------------------------------------------------------------------------
Next ==
    \/ \E f \in Fd, flags \in GuestFlags : \/ proc_fd_attach(f, flags)
                                           \/ proc_fd_setfd(f, flags)
    \/ proc_fd_attach_null(GuestMax)
    \/ \E f \in Fd : \/ proc_fd_detach(f)
                     \/ \E file \in File : \/ io_open(f, file)
                                           \/ io_open_fails(f, file)
                     \/ io_open_asserts(f)
                     \/ io_close(f)
                     \/ prepare_dir(f)
    \/ \E f, g \in Fd : \/ io_dup(f, g)
                        \/ io_dup_fails(f, g)
                        \/ \E r, w \in File : fsys_pipe(f, g, r, w)
    \/ \E std \in StdFds : \/ \E exe \in File : proc_exec(std, exe)
                           \/ proc_exec_fails(std)

Spec == Init /\ [][Next]_vars

-----------------------------------------------------------------------------
(* Properties.                                                             *)

TypeOK ==
    /\ DOMAIN fds \subseteq Fd
    /\ \A f \in DOMAIN fds : fds[f] \in QnxFd
    /\ DOMAIN host \subseteq HostFd
    /\ \A n \in DOMAIN host : host[n] \in Desc
    /\ status \in {"ok", "unruly", "clobbered", "redirected", "abort", "null", "undefined"}

(* "We use guest FD = host FD": whatever sequence of opens, dups, pipes    *)
(* and execs led here, and whatever numbers the host gave on the way, an   *)
(* open FD is backed by the host descriptor of its number, and that is the *)
(* file the guest opened here and no other.                                *)
HostBacksGuest ==
    Alive =>
        \A f \in DOMAIN fds :
            fds[f].open => /\ fds[f].host = f
                           /\ f \in DOMAIN host
                           /\ host[f].file = fds[f].file

(* A guest that closes before it detaches never reaches a file it did not  *)
(* open, and no temporary descriptor of io_open, io_dup or fsys_pipe stays *)
(* open, error paths included: every host descriptor but 0 belongs to an   *)
(* open FD.                                                                *)
OnlyZeroLeaks ==
    status = "ok" =>
        \A n \in DOMAIN host \ {0} : n \in DOMAIN fds /\ fds[n].open

(* The host's close-on-exec flag is the guest's, although it is lost in    *)
(* every dup2 and kept in two places; FDs used for readdir, which          *)
(* fdopendir changes, and flags only setfd takes for close-on-exec aside.  *)
CloexecAgrees ==
    Alive =>
        \A f \in DOMAIN fds :
            fds[f].open /\ ~fds[f].dir /\ fds[f].flags # "other" =>
                (host[f].cloexec <=> is_close_on_exec(f))

(* Whenever the guest may exec: a redirection of proc_exec whose source    *)
(* was not overwritten by an earlier one would give the new program the    *)
(* file the guest named, open over the exec even if the source was         *)
(* close-on-exec, and loading the executable would not take its place.     *)
ExecRedirects ==
    Alive => \A std \in StdFds :
        LET h == KeptOverExec(redirected(std))
        IN  \A j \in 0 .. NStd - 1 :
              /\ std[j] \in DOMAIN host
              /\ \A i \in 0 .. j - 1 : std[i] # Keep => i # std[j]
              => /\ j \in DOMAIN h
                 /\ h[j].file = host[std[j]].file
                 /\ Free(h) # {} =>
                        \A exe \in File : load_executable(h, exe)[j] = h[j]

(* What the source says and the code does not do; refuted by a run of its  *)
(* own.                                                                    *)

(* assign_fds: "If the FD number is already taken, we dup it somewhere     *)
(* else temporarily".                                                      *)
PipeMovesTaken == status # "undefined"

=============================================================================
