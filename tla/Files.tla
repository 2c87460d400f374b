-------------------------------- MODULE Files -------------------------------
(***************************************************************************)
(* File I/O of the guests: the io_* and fsys_* handlers of                 *)
(* src/src/main_handler.cpp that read, write, seek, lock and truncate,     *)
(* with the messages they are carried in (Messages) and the host's files   *)
(* below.  Guests related by fork share the host's open file descriptions, *)
(* and with them the offset; record locks belong to a process and a file,  *)
(* and the host drops them when the process closes any descriptor of that  *)
(* file.  Two handlers are not atomic: fsys_trunc makes four host calls,   *)
(* and io_lock may block.  A directory is read through a stream that each  *)
(* process keeps in its own memory.                                        *)
(*                                                                         *)
(* A lock covers the whole file; a request may ask for a range that ends   *)
(* at or beyond the largest 32 bit offset.                                 *)
(***************************************************************************)
EXTENDS Messages, Integers, Functions

CONSTANTS
    Proc, Root,     \* guest processes, and the one that is there first
    Ino,            \* files
    Fd,             \* descriptor numbers
    MaxLen,         \* the largest offset the file system allows
    Budgets,        \* bound: how many requests of each kind there may be,
                    \* and which FDs and which files they open
    Sent,           \* the message areas the guests write from
    Opens,          \* open requests: file, access mode, append, truncate
    Reads,          \* read requests: the area of the reply, and the count
    Dir, Entries,   \* a directory, and the names in it in the host's order
    DirBuf,         \* how many names the host's readdir reads ahead
    Readdirs,       \* readdir requests: the area of the reply, and the count
    Spawns,         \* spawn requests: the area of the message, and the path,
                    \* arguments and environment the guest put into it
    Offsets         \* offsets of seek requests

ASSUME FilesAssumption ==
    /\ Root \in Proc
    /\ Fd \subseteq Nat
    /\ MaxLen \in Nat
    /\ Dir \notin Ino
    /\ DirBuf \in Nat \ {0}
    /\ Budgets \subseteq [open : Nat, io : Nat, lock : Nat, spawn : Nat,
                          fd : SUBSET Fd, ino : SUBSET (Ino \cup {Dir})]

(* Requests and replies have a header of two units: FD and count in a      *)
(* request, status and count in a reply.                                   *)
Hdr == 2

NUL == "0"

(* Strings as they are in a message, each with a NUL at its end.           *)
Terminated(ss) == FlattenSeq([k \in DOMAIN ss |-> Append(ss[k], NUL)])

IsString(s) == IsTuple(s) /\ \A k \in DOMAIN s : s[k] # NUL

(* The areas are sequences of parts, and counts are numbers, also the one  *)
(* that a message too short for its header is read to have.  A spawn       *)
(* message holds what the guest's library puts there: the path, the        *)
(* arguments and the environment, the last two with a NUL behind them.     *)
ASSUME RequestsAssumption ==
    /\ \A area \in Sent :
          /\ IsArea(area)
          /\ (FlattenSeq(area) \o Fill(Hdr, NoByte))[Hdr] \in Nat
    /\ \A req \in Reads : IsArea(req.area) /\ req.nbytes \in Nat
    /\ \A req \in Readdirs : IsArea(req.area) /\ req.ndirs \in Nat
    /\ IsTuple(Entries)
    /\ Offsets \subseteq Int
    /\ \A s \in Spawns :
          /\ IsArea(s.area) /\ IsString(s.path)
          /\ IsTuple(s.argv) /\ \A k \in DOMAIN s.argv : IsString(s.argv[k])
          /\ IsTuple(s.envp) /\ \A k \in DOMAIN s.envp : IsString(s.envp[k])
          /\ FlattenSeq(s.area) =
               <<"spawn", "spawn">>
                 \o Terminated(<<s.path>> \o s.argv \o << <<>> >>
                                 \o s.envp \o << <<>> >>)

VARIABLES
    data,       \* the contents of each file
    ofd,        \* the host's open file descriptions
    fds,        \* per process: the description of each FD, if it is open
    dirs,       \* QnxFd::m_host_dir per process and FD: the names that were
                \* read ahead, once there is a stream
    locks,      \* the host's record locks, per file and process
    pc,         \* per process: where it is in a request that takes time
    left,       \* the rest of the budget
    last        \* the outcome of the last request

vars == <<data, ofd, fds, dirs, locks, pc, left, last>>

Lock == {"un", "rd", "wr"}
Whence == {"set", "cur", "end"}
User == [at |-> "user"]
Gone == [at |-> "gone"]
None == [op |-> "none"]

NotOpen == 0        \* an FD that is at most attached
Closed == [n \in Fd |-> NotOpen]
NoStream == <<>>
NoStreams == [n \in Fd |-> NoStream]

Init ==
    /\ data = [i \in Ino |-> <<>>]
    /\ ofd = <<>>
    /\ fds = [p \in Proc |-> Closed]
    /\ dirs = [p \in Proc |-> NoStreams]
    /\ locks = [i \in Ino |-> [p \in Proc |-> "un"]]
    /\ pc = [p \in Proc |-> IF p = Root THEN User ELSE Gone]
    /\ left \in Budgets
    /\ last = None

-----------------------------------------------------------------------------
(* The host.                                                               *)

(* One request of the kind less to come.                                   *)
Spend(kind) ==
    /\ left[kind] > 0
    /\ left' = [left EXCEPT ![kind] = @ - 1]

InUser(p) == pc[p].at = "user"
OfdOf(p, n) == ofd[fds[p][n]]
IsUsed(p, n) == n \in Fd /\ fds[p][n] # NotOpen
IsDir(p, n) == IsUsed(p, n) /\ OfdOf(p, n).ino = Dir
IsOpen(p, n) == IsUsed(p, n) /\ OfdOf(p, n).ino # Dir

(* Open file descriptions that some process still refers to.               *)
Referenced(f) == UNION {Range(f[p]) \ {NotOpen} : p \in Proc}
Kept(o, f) == Restrict(o, DOMAIN o \cap Referenced(f))

(* The locks of p on a file after it closed a descriptor of it.            *)
Dropped(l, p, i) == IF i = Dir THEN l ELSE [l EXCEPT ![i][p] = "un"]

(* An open file description.  Of a directory's it is kept how many names   *)
(* the guest was given, and whether it may expect the next ones in order   *)
(* (ghosts).                                                               *)
Description(i, flags) ==
    IF i = Dir THEN [ino |-> i, off |-> 0, given |-> 0, inorder |-> TRUE]
    ELSE [ino |-> i, off |-> 0, acc |-> flags.acc, app |-> flags.app]

(* Directories among the open file descriptions `set' are shared from now  *)
(* on: two streams use one offset.                                         *)
Shared(o, set) ==
    [k \in DOMAIN o |-> IF k \in set /\ o[k].ino = Dir
                       THEN [o[k] EXCEPT !.inorder = FALSE] ELSE o[k]]

(* lseek: the new offset, or -1 (EINVAL) outside of what the file system   *)
(* can address.                                                            *)
Seek(o, offset, whence) ==
    LET to == offset + CASE whence = "set" -> 0
                         [] whence = "cur" -> o.off
                         [] whence = "end" -> Len(data[o.ino])
    IN  IF to \in 0 .. MaxLen THEN to ELSE -1

(* The garbage that pads a vector: an 'X' and zeros.                       *)
GarbageBytes(n) == [k \in 1 .. n |-> IF k = 1 THEN "X" ELSE "0"]

Total(iov) ==
    LET sum[k \in 0 .. Len(iov)] == IF k = 0 THEN 0 ELSE sum[k - 1] + iov[k].len
    IN  sum[Len(iov)]

(* Vectors that the host may store to: up to the first of garbage, which   *)
(* is in read-only memory.                                                 *)
Writable(iov) ==
    LET garbage == {k \in DOMAIN iov : iov[k].part = 0}
    IN  SubSeq(iov, 1, Min({Len(iov) + 1} \cup garbage) - 1)

(* readv: the bytes read, or a fault when none can be stored.              *)
readv(o, iov) ==
    LET got == Portion(data[o.ino], o.off + 1, o.off + Total(iov))
        room == Total(Writable(iov))
    IN  IF o.acc = "wr" THEN [err |-> "EBADF", bytes |-> <<>>]
        ELSE IF got # <<>> /\ room = 0 THEN [err |-> "EFAULT", bytes |-> <<>>]
        ELSE [err |-> "EOK", bytes |-> Portion(got, 1, room)]

(* What writev finds in the vectors.                                       *)
Gather(area, iov) ==
    FlattenSeq([k \in DOMAIN iov |->
        IF iov[k].part = 0 THEN GarbageBytes(iov[k].len)
                           ELSE Bytes(area, iov[k])])

(* A file with bytes stored at an offset; a gap reads as zeros.            *)
Overwritten(c, off, bytes) ==
    [k \in 1 .. IF bytes = <<>> THEN Len(c) ELSE Max({Len(c), off + Len(bytes)}) |->
        IF k \in off + 1 .. off + Len(bytes) THEN bytes[k - off]
        ELSE IF k <= Len(c) THEN c[k] ELSE "0"]

Cut(c, len) == [k \in 1 .. len |-> IF k <= Len(c) THEN c[k] ELSE "0"]

(* Whether p may have the lock: no other process has one in its way.       *)
Grantable(l, i, p, type) ==
    \A q \in Proc \ {p} : \/ type = "un" \/ l[i][q] = "un"
                          \/ type = "rd" /\ l[i][q] = "rd"

-----------------------------------------------------------------------------
(* Opening, closing, processes.                                            *)

(* map_file_flags_to_host: QNX leaves O_TRUNC out for a reader.            *)
map_file_flags_to_host(acc, app, trunc) ==
    [acc |-> acc, app |-> app, trunc |-> trunc /\ acc # "rd"]

(* Whether the host opens the file at another number than n, so that       *)
(* QnxFd::assign_fd moves it with dup2 and closes the first descriptor.    *)
Moved(p, n) == \E m \in Fd : m < n /\ ~ IsUsed(p, m)

io_open(p, n, req) ==
    LET flags == map_file_flags_to_host(req.acc, req.app, req.trunc)
        i == req.ino
        o == 1 + Max({0} \cup DOMAIN ofd)
    IN  /\ InUser(p)
        /\ ~ IsUsed(p, n)
        /\ n \in left.fd /\ i \in left.ino /\ Spend("open")
        /\ data' = IF flags.trunc THEN [data EXCEPT ![i] = <<>>] ELSE data
        /\ ofd' = [k \in DOMAIN ofd \cup {o} |->
                     IF k = o THEN Description(i, flags) ELSE ofd[k]]
        /\ fds' = [fds EXCEPT ![p][n] = o]
        /\ locks' = IF Moved(p, n) THEN Dropped(locks, p, i) ELSE locks
        /\ last' = None
        /\ UNCHANGED <<pc, dirs>>

(* QnxFd::close, with the stream if there is one.                          *)
io_close(p, n) ==
    LET i == OfdOf(p, n).ino
    IN  /\ InUser(p)
        /\ IsUsed(p, n)
        /\ fds' = [fds EXCEPT ![p][n] = NotOpen]
        /\ dirs' = [dirs EXCEPT ![p][n] = NoStream]
        /\ ofd' = Kept(ofd, fds')
        /\ locks' = Dropped(locks, p, i)
        /\ last' = None
        /\ UNCHANGED <<data, pc, left>>

(* Mutant: the FD that is closed keeps its stream.                         *)
io_dup_keeps(p, n, m) ==
    /\ InUser(p)
    /\ IsUsed(p, n)
    /\ m # n
    /\ m \in left.fd /\ Spend("open")
    /\ fds' = [fds EXCEPT ![p][m] = fds[p][n]]
    /\ ofd' = Kept(Shared(ofd, {fds[p][n]}), fds')
    /\ locks' = IF IsUsed(p, m) THEN Dropped(locks, p, OfdOf(p, m).ino)
                                ELSE locks
    /\ last' = None
    /\ UNCHANGED <<data, dirs, pc>>

(* io_dup: an FD that is open is closed first.                             *)
io_dup(p, n, m) ==
    /\ InUser(p)
    /\ IsUsed(p, n)
    /\ m # n
    /\ m \in left.fd /\ Spend("open")
    /\ fds' = [fds EXCEPT ![p][m] = fds[p][n]]
    /\ dirs' = [dirs EXCEPT ![p][m] = NoStream]
    /\ ofd' = Kept(Shared(ofd, {fds[p][n]}), fds')
    /\ locks' = IF IsUsed(p, m) THEN Dropped(locks, p, OfdOf(p, m).ino)
                                ELSE locks
    /\ last' = None
    /\ UNCHANGED <<data, pc>>

(* A child shares the open file descriptions, has streams of its own with  *)
(* the same names read ahead, and has no locks.                            *)
proc_fork(p, c) ==
    /\ InUser(p)
    /\ pc[c] = Gone /\ c # Root
    /\ fds' = [fds EXCEPT ![c] = fds[p]]
    /\ dirs' = [dirs EXCEPT ![c] = dirs[p]]
    /\ ofd' = Shared(ofd, Range(fds[p]))
    /\ pc' = [pc EXCEPT ![c] = User]
    /\ last' = None
    /\ UNCHANGED <<data, locks, left>>

(* The strings of a spawn message, proc_exec_common's read_string: each    *)
(* ends with a NUL, and so does the message.                               *)
ReadStrings(area, n) ==
    LET bytes == Stream(area, Hdr, Len(FlattenSeq(area)) + n, NUL)
        ends[k \in 0 .. n] ==
            IF k = 0 THEN 0
            ELSE Min({j \in ends[k - 1] + 1 .. Len(bytes) : bytes[j] = NUL})
    IN  [k \in 1 .. n |-> SubSeq(bytes, ends[k - 1] + 1, ends[k] - 1)]

(* The host marks an FD with a stream close-on-exec (fdopendir).           *)
Inherited(p) ==
    [n \in Fd |-> IF dirs[p][n] = NoStream THEN fds[p][n] ELSE NotOpen]

(* proc_spawn: the child's program, arguments and environment.             *)
proc_spawn(p, c, s) ==
    LET argc == Len(s.argv)
        envc == Len(s.envp)
        str == ReadStrings(s.area, argc + envc + 3)
    IN  /\ InUser(p)
        /\ pc[c] = Gone /\ c # Root
        /\ Spend("spawn")
        /\ fds' = [fds EXCEPT ![c] = Inherited(p)]
        /\ ofd' = Shared(ofd, Range(Inherited(p)))
        /\ pc' = [pc EXCEPT ![c] = User]
        /\ last' = [op |-> "spawn", req |-> s,
                    path |-> str[1],
                    argv |-> SubSeq(str, 2, argc + 1),
                    envp |-> SubSeq(str, argc + 3, argc + 2 + envc)]
        /\ UNCHANGED <<data, dirs, locks>>

(* The host closes everything, also when the process is killed inside a    *)
(* request.                                                                *)
exit(p) ==
    /\ pc[p] # Gone /\ p # Root
    /\ fds' = [fds EXCEPT ![p] = Closed]
    /\ dirs' = [dirs EXCEPT ![p] = NoStreams]
    /\ ofd' = Kept(ofd, fds')
    /\ locks' = [i \in Ino |-> [locks[i] EXCEPT ![p] = "un"]]
    /\ pc' = [pc EXCEPT ![p] = Gone]
    /\ last' = None
    /\ UNCHANGED <<data, left>>

-----------------------------------------------------------------------------
(* Reading, writing, seeking.                                              *)

(* io_read: the host stores right into the parts of the reply behind its   *)
(* header, which is written afterwards.                                    *)
io_read(p, n, area, nbytes) ==
    LET o == OfdOf(p, n)
        iov == common_iovec(area, Hdr, nbytes)
        r == readv(o, iov)
        filled == Scatter(area, Writable(iov), r.bytes)
        got == Len(r.bytes)
    IN  /\ InUser(p)
        /\ IsOpen(p, n)
        /\ Spend("io")
        /\ ofd' = [ofd EXCEPT ![fds[p][n]].off = @ + got]
        /\ last' = [op |-> "read", want |-> nbytes, area |-> area,
                    file |-> SubSeq(data[o.ino], o.off + 1, Len(data[o.ino])),
                    readable |-> o.acc # "wr",
                    reply |-> write(filled, 0, <<r.err, got>>),
                    moved |-> ofd'[fds[p][n]].off - o.off]
        /\ UNCHANGED <<data, fds, dirs, locks, pc>>

(* io_write: FD and count are read from the header of the request.         *)
io_write(p, area) ==
    LET msg == read(area, 0, Hdr)
        n == msg[1]
        nbytes == msg[2]
        o == OfdOf(p, n)
        bytes == Gather(area, common_iovec(area, Hdr, nbytes))
        at == IF o.app THEN Len(data[o.ino]) ELSE o.off
        ok == o.acc # "rd"
    IN  /\ InUser(p)
        /\ IsOpen(p, n)
        /\ Spend("io") /\ at + nbytes <= MaxLen
        /\ data' = IF ok THEN [data EXCEPT ![o.ino] = Overwritten(@, at, bytes)]
                         ELSE data
        /\ ofd' = IF ok /\ bytes # <<>>
                  THEN [ofd EXCEPT ![fds[p][n]].off = at + Len(bytes)] ELSE ofd
        /\ last' = [op |-> "write", area |-> area, at |-> at, ok |-> ok,
                    before |-> data[o.ino], after |-> data'[o.ino],
                    count |-> IF ok THEN Len(bytes) ELSE 0]
        /\ UNCHANGED <<fds, dirs, locks, pc>>

io_lseek(p, n, offset, whence) ==
    LET to == Seek(OfdOf(p, n), offset, whence)
    IN  /\ InUser(p)
        /\ IsOpen(p, n)
        /\ Spend("io")
        /\ ofd' = IF to < 0 THEN ofd ELSE [ofd EXCEPT ![fds[p][n]].off = to]
        /\ last' = None
        /\ UNCHANGED <<data, fds, dirs, locks, pc>>

(* io_fcntl_flags: F_SETFL is called without its argument, so the host     *)
(* takes whatever is in the register, whatever bits the guest asked for.   *)
(* O_APPEND is the only one of the model's flags that it may change.       *)
io_fcntl_flags(p, n) ==
    /\ InUser(p)
    /\ IsOpen(p, n)
    /\ Spend("io")
    /\ \E app \in BOOLEAN : ofd' = [ofd EXCEPT ![fds[p][n]].app = app]
    /\ last' = None
    /\ UNCHANGED <<data, fds, dirs, locks, pc>>

-----------------------------------------------------------------------------
(* Directories.  The host's stream reads ahead and moves the offset.       *)

(* Mutant: each request opens a stream of its own and drops it.            *)
Taken_afresh(buf, off, count) ==
    LET out == Portion(Entries, off + 1, off + count)
    IN  [buf |-> <<>>, off |-> Min({off + DirBuf, Len(Entries)}), out |-> out]

(* readdir of the host, count times or until there are no more names.      *)
Taken(buf, off, count) ==
    LET go[k \in 0 .. count] ==
            IF k = 0 THEN [buf |-> buf, off |-> off, out |-> <<>>]
            ELSE LET s == go[k - 1]
                     more == Portion(Entries, s.off + 1, s.off + DirBuf)
                     b == IF s.buf = <<>> THEN more ELSE s.buf
                 IN  IF b = <<>> THEN s
                     ELSE [buf |-> Tail(b),
                           off |-> IF s.buf = <<>> THEN s.off + Len(more)
                                                   ELSE s.off,
                           out |-> Append(s.out, Head(b))]
    IN  go[count]

(* prepare_dir opens the stream the first time.                            *)
Ahead(p, n) == IF dirs[p][n] = NoStream THEN <<>> ELSE dirs[p][n][1]

(* Entry k of a reply, a stat with the mark "unused" and a name of fixed   *)
(* size, is written wherever its place in the message is.                  *)
WithEntries(area, names) ==
    LET put[k \in 0 .. Len(names)] ==
            IF k = 0 THEN area
            ELSE LET a == put[k - 1]
                     at == Hdr + 2 * (k - 1)
                 IN  write(a, at, <<"unused", names[k]>>)
    IN  put[Len(names)]

io_readdir(p, n, area, ndirs) ==
    LET o == OfdOf(p, n)
        t == Taken(Ahead(p, n), o.off, ndirs)
        got == Len(t.out)
    IN  /\ InUser(p)
        /\ IsDir(p, n)
        /\ Spend("io")
        /\ dirs' = [dirs EXCEPT ![p][n] = <<t.buf>>]
        /\ ofd' = [ofd EXCEPT ![fds[p][n]].off = t.off,
                              ![fds[p][n]].given = @ + got]
        /\ last' = [op |-> "readdir", area |-> area, want |-> ndirs,
                    given |-> o.given, inorder |-> o.inorder,
                    reply |-> write(WithEntries(area, t.out), 0,
                                    <<"EOK", got>>)]
        /\ UNCHANGED <<data, fds, locks, pc>>

(* The host fails to read on: the reply is not sent, the names taken so    *)
(* far are lost with it.                                                   *)
io_readdir_fails(p, n, ndirs) ==
    /\ InUser(p)
    /\ IsDir(p, n)
    /\ Len(Ahead(p, n)) < ndirs
    /\ Spend("io")
    /\ dirs' = [dirs EXCEPT ![p][n] = << <<>> >>]
    /\ ofd' = [ofd EXCEPT ![fds[p][n]].inorder = @ /\ Ahead(p, n) = <<>>]
    /\ last' = None
    /\ UNCHANGED <<data, fds, locks, pc>>

io_rewinddir(p, n) ==
    /\ InUser(p)
    /\ IsDir(p, n)
    /\ Spend("io")
    /\ dirs' = [dirs EXCEPT ![p][n] = << <<>> >>]
    /\ ofd' = [ofd EXCEPT ![fds[p][n]].off = 0, ![fds[p][n]].given = 0]
    /\ last' = None
    /\ UNCHANGED <<data, fds, locks, pc>>

-----------------------------------------------------------------------------
(* fsys_trunc: where the file is to be cut is asked of the host by seeking *)
(* there and back.                                                         *)

Alone(p, n) == \A q \in Proc \ {p} : fds[p][n] \notin Range(fds[q])

fsys_trunc(p, n, offset, whence) ==
    /\ InUser(p)
    /\ IsOpen(p, n)
    /\ Spend("io")
    /\ pc' = [pc EXCEPT ![p] =
                [at |-> "trunc_seek", n |-> n, prev |-> OfdOf(p, n).off,
                 offset |-> offset, whence |-> whence, alone |-> Alone(p, n)]]
    /\ last' = None
    /\ UNCHANGED <<data, ofd, fds, dirs, locks>>

(* The end of the request, with what the guest finds.                      *)
TruncReply(p, ok, to) ==
    LET now == ofd'[fds[p][pc[p].n]]
    IN  /\ pc' = [pc EXCEPT ![p] = User]
        /\ last' = [op |-> "trunc", alone |-> pc[p].alone, ok |-> ok,
                    prev |-> pc[p].prev, now |-> now.off, to |-> to,
                    asked |-> IF pc[p].whence = "cur"
                              THEN pc[p].offset + pc[p].prev ELSE to,
                    len |-> Len(data'[now.ino])]

TruncSeek(p) ==
    LET n == pc[p].n
        to == Seek(OfdOf(p, n), pc[p].offset, pc[p].whence)
    IN  /\ pc[p].at = "trunc_seek"
        /\ IF to = -1
           THEN UNCHANGED ofd /\ UNCHANGED data /\ TruncReply(p, FALSE, -1)
           ELSE /\ ofd' = [ofd EXCEPT ![fds[p][n]].off = to]
                /\ pc' = [pc EXCEPT ![p] =
                             [at |-> "trunc_back", n |-> n, prev |-> @.prev,
                              offset |-> @.offset, whence |-> @.whence,
                              alone |-> @.alone, to |-> to]]
                /\ last' = None
                /\ UNCHANGED data
        /\ UNCHANGED <<fds, dirs, locks, left>>

(* Mutant: the offset is left where the file is cut.                       *)
TruncBack_stays(p) ==
    /\ pc[p].at = "trunc_back"
    /\ pc' = [pc EXCEPT ![p].at = "trunc_cut"]
    /\ last' = None
    /\ UNCHANGED <<data, ofd, fds, dirs, locks, left>>

TruncBack(p) ==
    /\ pc[p].at = "trunc_back"
    /\ ofd' = [ofd EXCEPT ![fds[p][pc[p].n]].off = pc[p].prev]
    /\ pc' = [pc EXCEPT ![p].at = "trunc_cut"]
    /\ last' = None
    /\ UNCHANGED <<data, fds, dirs, locks, left>>

TruncCut(p) ==
    LET o == OfdOf(p, pc[p].n)
        ok == o.acc # "rd"
    IN  /\ pc[p].at = "trunc_cut"
        /\ data' = IF ok THEN [data EXCEPT ![o.ino] = Cut(@, pc[p].to)] ELSE data
        /\ UNCHANGED ofd
        /\ TruncReply(p, ok, pc[p].to)
        /\ UNCHANGED <<fds, dirs, locks, left>>

-----------------------------------------------------------------------------
(* io_lock.  F_GETLK changes nothing and is left out, and so are the       *)
(* replies: a range that ends beyond 32 bits is answered with ERANGE       *)
(* although the lock is there.                                             *)

(* p would wait for a process that waits for p: the host finds that out.   *)
Deadlock(p, i, type) ==
    \E q \in Proc \ {p} :
        /\ pc[q].at = "lock"
        /\ ~ Grantable(locks, pc[q].ino, q, pc[q].type)
        /\ locks[pc[q].ino][p] # "un"
        /\ locks[i][q] # "un"

(* F_SETLK and F_SETLKW.  The host wants the descriptor open for reading   *)
(* to lock for reading, and for writing to lock for writing.               *)
io_lock(p, n, type, wait) ==
    LET i == OfdOf(p, n).ino
    IN  /\ InUser(p)
        /\ IsOpen(p, n)
        /\ Spend("lock")
        /\ OfdOf(p, n).acc \in {"rdwr", type} \/ type = "un"
        /\ last' = None
        /\ IF Grantable(locks, i, p, type)
           THEN locks' = [locks EXCEPT ![i][p] = type] /\ UNCHANGED pc
           ELSE /\ wait /\ ~ Deadlock(p, i, type)   \* else EAGAIN, EDEADLK
                /\ pc' = [pc EXCEPT ![p] = [at |-> "lock", ino |-> i,
                                            type |-> type]]
                /\ UNCHANGED locks
        /\ UNCHANGED <<data, ofd, fds, dirs>>

LockGranted(p) ==
    /\ pc[p].at = "lock"
    /\ Grantable(locks, pc[p].ino, p, pc[p].type)
    /\ locks' = [locks EXCEPT ![pc[p].ino][p] = pc[p].type]
    /\ pc' = [pc EXCEPT ![p] = User]
    /\ last' = None
    /\ UNCHANGED <<data, ofd, fds, dirs, left>>

(* A signal ends the wait: EINTR.                                          *)
LockInterrupted(p) ==
    /\ pc[p].at = "lock"
    /\ pc' = [pc EXCEPT ![p] = User]
    /\ last' = None
    /\ UNCHANGED <<data, ofd, fds, dirs, locks, left>>

-----------------------------------------------------------------------------
Next ==
    \E p \in Proc :
        \/ exit(p)
        \/ TruncSeek(p) \/ TruncBack(p) \/ TruncCut(p)
        \/ LockGranted(p) \/ LockInterrupted(p)
        \/ \E c \in Proc : proc_fork(p, c)
        \/ \E c \in Proc, s \in Spawns : proc_spawn(p, c, s)
        \/ \E area \in Sent : io_write(p, area)
        \/ \E n \in Fd :
              \/ io_close(p, n) \/ io_fcntl_flags(p, n)
              \/ \E m \in Fd : io_dup(p, n, m)
              \/ io_rewinddir(p, n)
              \/ \E req \in Readdirs :
                    \/ io_readdir(p, n, req.area, req.ndirs)
                    \/ io_readdir_fails(p, n, req.ndirs)
              \/ \E req \in Opens : io_open(p, n, req)
              \/ \E req \in Reads : io_read(p, n, req.area, req.nbytes)
              \/ \E offset \in Offsets, whence \in Whence :
                    \/ io_lseek(p, n, offset, whence)
                    \/ fsys_trunc(p, n, offset, whence)
              \/ \E type \in Lock, wait \in BOOLEAN : io_lock(p, n, type, wait)

Spec == Init /\ [][Next]_vars

-----------------------------------------------------------------------------
(* io_read, through Msg::write_iovec: however the reply is scattered, the  *)
(* guest finds the header and then the file's bytes in order, no byte of   *)
(* the message beyond them is touched, and the count and the offset say    *)
(* how many there are.  A message with no room at all faults instead.      *)
ReadDelivers ==
    last.op = "read" =>
        LET flat == FlattenSeq(last.area)
            room == IF Len(flat) > Hdr THEN Len(flat) - Hdr ELSE 0
            avail == Min({last.want, Len(last.file)})
            n == IF last.readable THEN Min({avail, room}) ELSE 0
            status == IF ~ last.readable THEN "EBADF"
                      ELSE IF avail > 0 /\ room = 0 THEN "EFAULT" ELSE "EOK"
            all == <<status, n>> \o Portion(last.file, 1, n)
                     \o SubSeq(flat, Hdr + n + 1, Len(flat))
        IN  /\ FlattenSeq(last.reply) = Portion(all, 1, Len(flat))
            /\ last.moved = n

(* io_write, through Msg::read_iovec: the file holds the bytes of the      *)
(* message in order, whatever its parts; if the message is shorter than    *)
(* its header says, garbage follows them up to the count.  The rest of the *)
(* file is as before.                                                      *)
WriteStores ==
    last.op = "write" =>
        LET flat == FlattenSeq(last.area)
            sent == Portion(flat, Hdr + 1, Hdr + last.count)
            at == last.at
        IN  IF last.count = 0 THEN last.after = last.before
            ELSE /\ last.count = (flat \o Fill(Hdr, NoByte))[2]
                 /\ Len(last.after) = Max({Len(last.before), at + last.count})
                 /\ \A k \in DOMAIN last.after :
                      last.after[k] \in
                        IF k \in at + 1 .. at + Len(sent) THEN {sent[k - at]}
                        ELSE IF k \in at + 1 .. at + last.count THEN {"X", "0"}
                        ELSE IF k <= Len(last.before) THEN {last.before[k]}
                        ELSE {"0"}

(* io_readdir: a guest that shares the directory's offset with nobody gets *)
(* the names in order, each once, whatever the host reads ahead, and after *)
(* io_rewinddir from the start.  Each is at its place in the message       *)
(* however that is cut into parts; the ones it has no room for are counted *)
(* nevertheless, and gone.                                                 *)
ReaddirLists ==
    last.op = "readdir" /\ last.inorder =>
        LET flat == FlattenSeq(last.area)
            n == Min({last.want, Len(Entries) - last.given})
            all == <<"EOK", n>>
                     \o FlattenSeq([k \in 1 .. n |->
                            <<"unused", Entries[last.given + k]>>])
        IN  FlattenSeq(last.reply) =
                Portion(all, 1, Len(flat)) \o SubSeq(flat, Len(all) + 1, Len(flat))

(* proc_exec_common, through MsgStreamReader: however the spawn message is *)
(* cut into parts, the path, arguments and environment that a program is   *)
(* started with are the strings that the guest wrote.  What is done to     *)
(* them then is not looked at: qine gets its own arguments in front, a     *)
(* host program loses __CWD from the environment.                          *)
SpawnArguments ==
    last.op = "spawn" =>
        /\ last.path = last.req.path
        /\ last.argv = last.req.argv
        /\ last.envp = last.req.envp

(* A stream (QnxFd::m_host_dir) is one of the directory that is open at    *)
(* its FD now, whatever was closed, duplicated over, forked, spawned,      *)
(* killed or opened at that number since; and while nobody shares the      *)
(* offset it holds the names from the last one given to the host's offset, *)
(* after a rewind and a failed request too.  A stale one would list names  *)
(* of another directory, or the same ones again (prepare_dir).             *)
StreamsCurrent ==
    \A p \in Proc, n \in Fd :
        dirs[p][n] # NoStream =>
            /\ IsDir(p, n)
            /\ LET o == OfdOf(p, n)
               IN  o.inorder => Ahead(p, n) = SubSeq(Entries, o.given + 1, o.off)

(* fsys_trunc: a guest that shares the open file description with nobody   *)
(* finds the offset where it was, on the error path too, and the file cut  *)
(* where it asked.                                                         *)
TruncRestores ==
    last.op = "trunc" /\ last.alone =>
        /\ last.now = last.prev
        /\ last.ok => last.to = last.asked /\ last.len = last.to
=============================================================================
