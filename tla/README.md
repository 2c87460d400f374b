# A verification model of qine

qine runs 16-bit and 32-bit QNX 4 programs on a Linux host. The guest's code
runs natively, in segments of the local descriptor table; every guest system
call is an `int 0xF2` that faults, and the SIGSEGV handler of `Emu`
(`src/src/emu.cpp`) carries it out. Most QNX system calls are messages to the
process manager or to the file system, which qine plays itself in
`MainHandler` (`src/src/main_handler.cpp`). Each guest process is one host
process with one thread, so what is hard about it is not threads: it is host
signals that arrive inside the signal handler which is the whole emulator,
tables that parent and child keep separately after a fork, host descriptors
that have to be moved to the numbers the guest expects, and long sequences of
legal calls that leave two copies of the same fact in disagreement.

The modules below are translated from the C++ sources. Every definition that
stands for code is listed, with its lines, under `map` in `PROJECT.json`.

## Inventory

| Component | State it keeps | Operations | Interacts with | What is hard | What makes it correct |
|---|---|---|---|---|---|
| `Emu`: signals and entry (`emu.cpp`, `qnx_sigset.*`) | `m_sigpend`, `m_sigmask`, host mask and dispositions, the guest's `Sigtab`, contexts saved on the guest stack | `handler_segv`, `handler_generic`, `signal_tail`, `signal_raise`, `signal_sigact`, `signal_mask`, `syscall_sigreturn`, `syscall_receivmx` | every system call enters and leaves through it; timers, `kill` and the terminal send signals to it | a handler runs on top of another between any two instructions; uninitialised and unsynchronised state; a wait that races the event | no posted signal is lost or raised while masked; the host mask follows the guest's; a signal taken finds its handler; what is pending is raised in the end |
| `PidMap` (`qnx_pid.*`) | `m_qnx_map`, `m_reverse_map` | `alloc_child_pid`, `alloc_related_pid`, `alloc_permanent_pid`, `free_pid`, lookups | `Process::initialize_pids`, fork, wait, kill, setpgid, tcsetpgrp | 16-bit PIDs for larger host PIDs, collisions, wrap-around, entries that outlive processes | the two maps are inverse to each other |
| Process tree (`main_handler.cpp`, `process.cpp`) | one table per process, own and parent PID | `proc_fork`, `proc_spawn`, `proc_exec`, `proc_wait`, `proc_terminate`, `proc_setpgid` | `PidMap`, the host's fork, execve and waitpid | parent and child update their copies independently; the host reuses PIDs | parent and child agree on the child's PID; a process knows itself and its children |
| `FdMap`, `QnxFd`, `IdMap`, `UniqueFd` (`qnx_fd.*`, `idmap.h`, `unique_fd.h`) | attached FDs with open flag, host number, flags, directory stream | attach, detach, setfd, open, close, dup, pipe, readdir, exec redirection | the host's descriptor table, which it must mirror number by number | guest and host numbers drift apart and are moved over each other with `dup2`, which can fail half way | guest FD = host FD; no temporary descriptor stays open; close-on-exec agrees |
| `MainHandler`: file I/O | directory streams; the rest is the host's: open file descriptions, record locks, files | open, read, write, lseek, readdir, rewinddir, fcntl, lock, trunc, link, rename, ... | host descriptors through `MsgContext::map_fd`, paths through `PathMapper`, bytes through `Msg` | offsets shared by fork, handlers of several host calls, locks the host drops, streams that read ahead | the guest gets and stores exactly the bytes and names its message has room for; a stream is never stale |
| Segments and LDT (`segment*.cpp`, `process.cpp`) | `m_segments`, `m_segment_descriptors`, the host LDT, reservations | allocate, grow, realloc, share, free, `proc_segment_*` | loader, guest contexts, time and magic segments | one segment under several descriptors; limits kept twice | descriptors never reach past their segment, and reach what the guest was promised |
| `TerminalFilter` (`fd_filter.*`) | `m_buffer`, `m_ready`, `m_buttons`, the start of an escape | `read`, `dev_read`, `common_read`, `process`, `parse_esc` | the terminal, signals through `should_preempt` | split input, two kinds of deadline, pre-emption | bytes in order, none lost; a read returns with its minimum or at its deadline, and never sleeps on data |
| `TermHandler`, `TermiosSettings` | the host's `termios` and `winsize`; the settings a read puts back | `tcgetattr`, `tcsetattr`, `dev_mode`, `dev_term_size`, `dev_read` | the terminal, which all guests share | two encodings of one state; get and set are two host calls; a guest killed in between | attributes a guest saved can be restored; the terminal is as the requests asked |
| `Msg`, `Msg::Iterator`, `MsgContext` | position in scattered parts | read, write, skip, clear, iterate over I/O vectors | every handler | boundaries of parts, zero-length parts, errors half way | agrees with the concatenation of the parts |
| `PathMapper`, `Fsutil` | prefix table | map to host, map to QNX, cwd | every handler with a path | prefixes compared as strings, that overlap or share host paths; paths kept by FDs and the environment | what guests make stays below the configured directories; a name told to the guest leads back |
| Loader, startup context (`loader.cpp`, `process.cpp`) | `LoadInfo`, the segments it makes | `loader_load`, `load_library`, `setup_startup_context` | segments and descriptors | layout of stack, heap and startup data in one segment; caps and reservations | stack, heap and startup data apart and backed |
| Timers, semaphores | host timers; counters in guest memory | `proc_timer_*`, `syscall_sem*` | `Emu` (a timer is a sender of signals) | - | - |
| Command line, log, generated message layouts | options | - | - | - | - |

## Modules

| Module | Role |
|---|---|
| `SignalSpec` | What the signal emulation promises: a set of posted signals, a mask, and when a handler may be entered |
| `Signals` | `Emu`'s signal handling, one action per step another signal can interrupt |
| `MCSignals` | Instances of it |
| `SignalsProofs` | Its theorems |
| `PidMap` | The PID table as operators on a record of its two maps |
| `Processes` | The tree of processes that own such tables |
| `MCProcesses` | Instances of it |
| `ProcessesProofs` | Its theorems, and those about the PID table |
| `FdMap` | FDs of a guest and the host descriptors behind them |
| `MCFdMap` | Instances of it |
| `FdMapProofs` | Its theorems |
| `TerminalFilter` | The filter between a terminal and the guest's reads |
| `MCTerminalFilter` | Instances of it |
| `Segments` | Loader, segments, descriptors and the LDT |
| `MCSegments` | Instances of it |
| `SegmentsProofs` | Its theorems |
| `Messages` | Messages cut into parts: `Msg::Iterator`, read, write, I/O vectors, the stream reader, as operators |
| `Files` | File I/O of related guests, on top of `Messages`: offsets, locks, directories, truncation, spawn arguments |
| `MCFiles` | Instances of it |
| `FilesProofs` | Lemmas about `Messages`, theorems about `Files` |
| `Paths` | `PathMapper` and `Fsutil` over strings, with the handlers that use paths |
| `MCPaths` | Instances of it |
| `PathsProofs` | Its theorems |
| `TerminalModes` | The attributes and the size of the terminal guests share |
| `MCTerminalModes` | Instances of it |
| `TerminalProofs` | Theorems about `TerminalFilter` and `TerminalModes` |
| `Induction` | Lemmas the proofs share: induction over numbers and sequences, largest and smallest elements, concatenations and prefixes of sequences, functions defined by a loop |

`Files` composes `Messages` with the host's files, `Processes` composes
`PidMap` with the host's process tree, and `Signals` is shown to implement
`SignalSpec`.

### Signals

The thread's position is `pc`: guest code, a system call inside
`handler_segv`, the instructions of `signal_raise` and `signal_tail`. The host
is `hmask`, `kpend` and `hdisp`. Any signal not in `hmask` can be delivered at
any position: on guest code `handler_generic` blocks everything
(`sigfillset` in `signal_sigact`) and goes on to `signal_tail`; on host code it
sets a bit of `m_sigpend` and returns, because `signal_tail` sees the host code
selector. SIGSEGV keeps its own path, with `si_code <= 0` for one that was sent
and `handle_guest_segv` for a real fault; a fault while SIGSEGV is blocked
kills the process. `m_sigpend |= x` and `&= ~x` are a load and a store; with
`AtomicRMW` the store uses the current value, as one `or`/`and` instruction on
memory does. The project's CMake files choose no optimisation, so the default
build has `AtomicRMW = FALSE`; an optimised x86 build usually has `TRUE`.
`m_sigpend` is never initialised: `InitPend` holds the values it may start
with. A saved guest context is abstracted to the mask it carries (`frames`);
`GuestLongjmp` is the guest's way to leave a handler without `sigreturn`.

The handlers are in guest memory: `tables` are the `Sigtab`s a guest has, and
`sigtab` is the one `m_sigtab` points at. `proc_sigtab` points it at any table,
again and again; the host's dispositions and what is pending stay those of the
table before, and an entry of the new one may have no function. `signal_tail`
then throws "handler not registered -- should not happen". `HandlerFound` says
when it does not: the ghost `amiss` has the signals that the guest itself left
without a function (raised without one, given SIG_DFL or SIG_IGN while pending,
missing in a table registered later, or in the uninitialised `m_sigpend`), and
for all others the function is there, whatever handlers, refused calls and
failures came between the post and the moment. A guest that writes into its
table without a system call is not modelled.

The mutants in the modules are the definitions named after an original with a
suffix (`Leave_unsynced`); nothing uses them unless they are put in its place.

### PidMap and Processes

`alloc_empty` is a relation between a table, a host PID and the QNX PID the
code returns; it keeps the search exactly as written, including the jump on
wrap-around to `m_qnx_map.begin()`, which is the entry of PID 1. The ghost
field `bad` marks tables in which that jump has overwritten an entry in use, or
in which `free_pid` has erased an entry that is not a `CHILD` and so kept its
reverse entry; the properties speak of the other tables. `fork` is the host's
fork; `fork_parent` and `fork_child` are what each side does with its own copy
afterwards, in any order, and each may die first. `execve` rebuilds the table
by the six calls of `initialize_pids`. Exits, orphans and zombies follow the
host; PIDs are reused. `proc_spawn` is a fork whose child goes to `execve`
directly. One session is modelled (its leader is `Leader`); process groups
change by `proc_setpgid`.

### FdMap

`fds` is `m_fds` with the file each FD was opened for as a ghost; `host` is the
host's descriptor table with a file identity and the close-on-exec flag.
`io_open` takes the host's lowest free number and moves it (`assign_fd`);
`fsys_pipe` runs the loop of `FdMap::assign_fds` over both ends, with its
map of keys, as written; `proc_exec` performs the redirections in order, lets
the host close what is close-on-exec, and rescans (`scan_host_fds`).
`UniqueFd` never closes descriptor 0. `fdopendir` sets close-on-exec on the
host. Where the code itself has gone wrong (an assertion, a null pointer, an
index out of bounds) or an exec has failed half way, `status` says so and the
behaviour ends. Fork duplicates the whole state and is a stutter. Reads and
writes go to the host descriptor of the guest's number and change nothing here.

The guest is any guest: it may open, and pipe onto, FDs that are open, and
detach them, which the QNX library does not do (`doc/fs.txt`).

### TerminalFilter

`pc` is the position in the loop of `common_read`; `process` is one action per
iteration. `typed` is all the user will type, `nread` how much of it the host
has given so far, in reads of any length; `out` is everything that ever entered
`m_ready` and `taken` the part the guest has got, so that loss and order can be
stated over the whole history. Payload bytes of a report are reduced to two
buttons going down, the release and motion; a QNX report is `ReportLen` bytes,
of which the first carries its meaning. Times are what is left of them. The
clock is read once per iteration, so time stands still between the head of the
loop and the poll. `HostRead` is the poll and the read after it: input that
another process takes between the two, so that a timed read blocks, is not
modelled. The fields of a `dev_read` are 16 bits wide and c_cc has bytes: `cc`
cuts them, and `rc` remembers what was asked for and whether it was cut. `deadline` keeps what `Deadline::operator|=` really does.
`Signal` may come anywhere between two looks at `m_sigpend`; asleep it ends the
call with EINTR. The host may also return nothing (end of file, hang-up) or
fail.

### Segments

`segs` are the `Segment` objects (none is ever destroyed, because `IdMap::free`
leaks the descriptor that holds it), `sds` is `m_segment_descriptors`, `ldt` the
host's copy of each descriptor as it was when last written, `granted` what the
guest was told. A behaviour loads one executable (flat, 16-bit or 32-bit
segmented), any libraries, sets up the startup context and then serves the
guest's requests. An exception is not caught and ends the process. Page
protection, contents and relocations are left out. Sizes are scaled: a page is
4, the 64 KiB limit two pages, and the two kinds of limit, the cap and every
reservation can be hit from below, exactly and from above.

### Messages and Files

An area of a message is a sequence of parts, a part the sequence of its bytes.
`normalize`, `next` and `skip_to` are `Msg::Iterator`'s; `read`, `write`,
`common_iovec` and `Stream` are the users of it, with the over-read filler and
the garbage vectors that pad a message shorter than its header says. A loop is
a recursive function over its rounds. The `Files` run checks them where they
are used: each property flattens the area and says what the result must be
without any notion of parts.

In `Files`, `ofd`, `data` and `locks` are the host's open file descriptions,
files and record locks, `fds` and `dirs` what each guest process has. A handler
is one action, except `fsys_trunc`, which seeks there, back and then cuts (a
sibling that shares the description sees the offset in between), and `io_lock`,
which waits. `locks` follow the host's rule (closing any descriptor of the file
drops them all), qine's own `dup2`s and closes included; there is no property
of them, because beyond that rule the code promises nothing. A directory's
stream is the names read ahead; `prepare_dir` makes it, fork copies it, close
and dup drop it and exec closes it. `StreamsCurrent` says that a stream never
outlives the directory it was made for and is where its guest expects it. Of
a spawn the strings of the message are looked at (`SpawnArguments`); that
`__CWD` is then taken out of a host program's environment, and that qine gets
its own options in front of the arguments, is left out. The header
of a request or reply is two units, a name or a stat one.

### Paths

A path is a sequence of characters, because prefixes are compared as strings.
`add_map` is option `-m`, `start` the beginning of the first guest; then the
guest makes, renames, links and opens files and changes its directory, and
`proc_exec` starts a QNX program (qine again, with the same options) or a host
program, which may start qine again (`RunQine`). `fs` has the files and links
guests made by their host path. `Char` has the characters ("unmapped" stands
for the eight of that word). `NamesAssumption` asks what the code takes for
granted: prefixes are absolute (`change_prefix` asserts it), paths are made
absolute by the QNX library, handlers that do not normalise get canonical ones,
and no link has an empty target. Loops of links and what the host does with a
relative target are not looked at, and `io_open` opens no link: `WithinTrees`
is about the paths qine hands to the host, not about where the host goes from
there.

### TerminalModes

One terminal, shared by all guests. A request that changes it asks the host for
the settings, computes, and sets them: two actions (`dev_tcsetattr` or
`dev_mode`, then `SetTerm`; `dev_term_size`, then `SetSize`;
`dev_read_unfiltered`, `ReadWaits`, `ReadEnds`; a `dev_read` through a filter
is in `TerminalFilter`). A guest may be killed between any two (`Killed`).
`asked` is the result of the requests as if each were atomic and no read ever
changed anything; `orderly` says whether requests have got in each other's way.
Flags of one field that are treated alike are represented by one of them, the
characters with the same number in both systems by index 0.

## Runs

| Run | Checks | Instance and why it is enough |
|---|---|---|
| `Signals` | `TypeOK`, `MaskSynced`, `HandlerFound`, `PoppedIsActive`, `GenericLeavesNothing`, `RaisedEventually`, `ImplementsSignalSpec` | SIGUSR1, SIGSEGV, an ordinary signal and a QNX signal without host counterpart, two tables, two posts, three calls that register a table or a handler, masks of the ordinary and the unmapped signal, three masks to start with, updates of `m_sigpend` by single instructions. Two posts are what it takes for one handler to interrupt the handling of another, three calls for a table, a handler in it and another table |
| `SignalsLostUpdate` | refutes `ImplementsSignalSpec` | three host signals of which one is ignored by default, load and store apart |
| `SignalsPause` | refutes `PauseSleepsIdle` | the same with atomic updates: atomicity does not help |
| `Processes` | `TypeOK`, `TablesConsistent`, `FamilyKnown`, `ForkAgrees` | PIDs 3..5 for host PIDs 4, 6 and 7, of which 4 and 7 collide, and the session leader 5; four forks, so that grandchildren, reuse of a PID, a collision, a full table and the wrap-around of the search can meet in one behaviour |
| `ProcessesPgid` | refutes `NeverDangling` | PIDs 3..8, so that there is always a free one |
| `FdMap` | `TypeOK`, `HostBacksGuest`, `OnlyZeroLeaks`, `CloexecAgrees`, `ExecRedirects` | four FDs over three host descriptors: every way two FDs can stand in each other's place, and an FD `dup2` cannot reach; two redirections, both flags, any guest |
| `FdMapPipe` | refutes `PipeMovesTaken` | four FDs and four host descriptors |
| `TerminalFilter` | `TypeOK`, `NothingLost`, `ButtonsReported`, `NoSleepOnData`, `NoShortRead`, `TimedReadReturns`, `EscapeReleased` | four inputs (keys and a click, a lone escape before a function key, a drag, an escape in front of a report), cut anywhere; VMIN 0 and 2, VTIME 0 and 2 ticks, a byte of c_cc with four values and requests for a minimum or time of 0, 2 and 4 (which becomes 0), sizes below and above VMIN, one signal. Two ticks of escape time-out let every order of the two deadlines happen |
| `Segments` | `TypeOK`, `EntriesBacked`, `DescriptorsInstalled`, `GrantedReachable`, `BoundsExact`, `StartupApart` | eight executables and three libraries, of which some fail at each place the code can, seven IDs with the magic one in reach of a library's, sizes 0, just above 64 KiB and above 1 MiB |
| `Files` | `ReadDelivers`, `WriteStores`, `ReaddirLists`, `SpawnArguments`, `StreamsCurrent`, `TruncRestores` | two related guests, two files and a directory of four names; messages in one part, with a cut header, with empty parts and too short; seven mixes of requests (`Budgets`), each with enough of one kind for its property: seeks, writes and a truncation by two guests, three or four lock requests over two descriptors of one file or over two files (so that a deadlock can be found), three directory requests with fork, dup and failure between, and a file and a directory that are duplicated over each other |
| `Paths` | `WithinTrees`, `LeadsBack`, `LinkSizes` | all pairs of five `-m` options: the root moved, a prefix below another, one that only looks like it, a shared host path; a path that goes on with dots where a prefix ends; three link targets, two files or links at a time |
| `TerminalModes` | `AttributesRestored`, `TerminalAsAsked` | two guests, five requests: save, set, a read around another read and a restore |

Bounds: `MaxPosts` (signals sent, raised and faults), `MaxActs` (tables
registered and handlers set), `Acts`, `ActMasks` and `Held` (handlers and masks
the guest gives), `InitMasks`, `CcMod` (256), `MaxForks` (processes
created), `GuestMax` and `HostMax` (table sizes), `NStd` (redirections; ten in
the code), `File` (identities, recycled when closed, symmetric), the PID range,
`Inputs`, `ReadMax` (128), `ReportLen`, `MaxSigs`, `MaxSegs` and `MaxIds` (1024),
`HashMod` (2^32 in the code; TLC's integers are narrower and the small
ranges make the same collisions), `Budgets` (requests of each kind that open,
move bytes, lock or spawn), `MaxLen` (the largest offset), `DirBuf` (names the
host reads ahead), `MaxMaps` (options), `MaxNodes` (files and links at a time),
`MaxCwd` (each restart through a host program may lengthen the directory),
`PathMax` (4096) and `MaxRequests`. Each model is finite otherwise. Deadlock is
checked in `TerminalFilter`, where it would mean a read that can never go on,
and in `TerminalModes`: elsewhere a process that has ended, or a bound that is
used up, stops the model.

Fairness (`FairSpec`, used for `RaisedEventually`): `WF(HandlerStep)`, the
thread runs its own handler to the end; `WF(Deliver)`, the host delivers what
it may; `WF(Trap)`, the guest keeps making system calls - without the last a
signal that just missed `signal_tail` stays pending for as long as the guest
only computes, which is what the code does. A guest asleep in `pause` is
excluded from the property and is the subject of `SignalsPause`.
`TerminalFilter!FairSpec`: `WF(common_read)`, the process runs and a poll whose
time is over returns; `SF(Tick)`, time passes. `Tick` is disabled during the
filter's own steps, so weak fairness would not say that the clock goes on while
the loop turns; a real clock does. Nothing is assumed about input or signals.

## Proofs

Eight modules hold theorems; `theorems` in `PROJECT.json` lists those a reader
should know of. Each is stated for every value of the constants that satisfies
the `ASSUME`s of the component's module, which TLC evaluates on every run.
Each proof has the same shape: an inductive invariant, one lemma per action,
and for each property that the invariant implies it. TLC checked the invariants
on the runs' instances before they were proved, except for those of the data
transfers in `Files` and of `Paths`, which quantify over all sequences.

**`SignalsProofs`**, for every set of signals, any mapping, any number of posts,
any initial `m_sigpend` and both kinds of build: `TypeCorrect`,
`MaskAlwaysSynced`, `HandlerAlwaysFound`, `PopsOnlyActive`,
`GenericComplete` and, with `AtomicRMW`, `Implements`: `Spec => Promise!Spec`,
the refinement of `SignalSpec`. The mapping takes the store in `PopStore` as the
moment a handler is entered, so the abstract mask already contains the handler's
mask while `pc` is `"raise"`. The invariant `Inv` is the conjunction of `TypeOK`,
the other safety invariants and, for `HandlerFound`, the stronger `AllServed`.
With the types each is inductive as it stands, because each is stated over the
program counter and so carries its own history: `GenericLeavesNothing` mentions that every host signal is blocked, which is why
nothing can be added to `m_sigpend` between the look and the return;
`PoppedIsActive` needs that `cur` is not in the mask from the moment it is chosen and that only
`PopStore` removes a bit. `HandlerFound` is about the moment a handler is
entered; `AllServed` says of every signal that is pending, about to be raised or
handled by `handler_generic` on the host, that it has a function in the table
registered last or is one of `amiss`, and that what an unoptimised build has
loaded of `m_sigpend` is still pending when it is stored.

**`ProcessesProofs`**, for any set of host PIDs, PID range and number of forks:
`TypeCorrect`, `TablesAlwaysConsistent`, `FamilyAlwaysKnown`,
`ForkAlwaysAgrees`. A first group of lemmas is about `PidMap` alone: each
allocation and `free_pid` takes a consistent table to a consistent one in which
the entries it did not touch are the same, or marks it `bad`. `ForkAgrees` is
not inductive: between the fork and the second of the two allocations the side
that is late must still have the table the other one allocated in, which is
`SameTable`; and that table must not have lost the entry, which needs that a
child the guest knows of is neither reaped nor its PID reused before the guest
waits for it (`KidsKept`), and that a process that does not run has no children
to wait for (`IdleKidless`).

**`FdMapProofs`**, for any table sizes, files and number of redirections:
`TypeCorrect`, `HostAlwaysBacksGuest`, `OnlyZeroEverLeaks`,
`CloexecAlwaysAgrees`, `ExecAlwaysRedirects`. The invariant `Good` says of each
open FD that its host descriptor has its number, file and close-on-exec flag,
and of each host descriptor but 0 that an open FD owns it; what it may say
depends on `status`, because a guest that opens over an open FD, or code that
has thrown half way, gives up ownership but not the backing. `fsys_pipe` and
`proc_exec` are loops: the lemma for each says what holds after any number of
rounds. `ExecRedirects` is by induction over the redirections: after `n` of
them the targets below `n` have the file they were given at the start and the
sources from `n` on are untouched, which is what "no target is a later source"
is for.

**`FilesProofs`**, for any number of guests, files and descriptors, any
directory and any requests: `TruncAlwaysRestores`, `ReadAlwaysDelivers`,
`WriteAlwaysStores`, `ReaddirAlwaysLists`, `StreamsAlwaysCurrent`,
`SpawnAlwaysPasses`.

`IInv` is about descriptors, waits and truncation. `TruncRestores` speaks of
the end of a call of four steps: `TruncOK` says at each of them where the
offset is, that a description which was not shared is not shared now, and that
its descriptor is still open, for which descriptors must refer to open
descriptions and new numbers be fresh (`HandlesOK`).

Four of the others compare what a handler did, through `Msg::Iterator`, with the
message put together. A first part of the module is about `Messages` alone. A
`Layout` says where each part starts; an iterator stands at a place of the
whole message (`ItOK`, `msg_offset`), `normalize` and `skip_to` keep it, also
over empty parts, and `next` moves it by the length of the slice. From that
follows what the loops do: `read` gives the bytes from its offset on and filler
behind the end, `write` replaces just the bytes from its offset on (`Patched`),
`common_iovec` cuts exactly the range into slices and pads it with garbage, and
the stream reader gives the strings between the NULs. A loop is a recursive
function; for each, one lemma shows that it is defined and another what holds
after any number of rounds, by induction over them. The second part carries
this through the handlers. Beyond `IInv` it needs `StateOK`: `FileState`
(contents are sequences and offsets numbers) and `StreamState`. For
`ReaddirLists` this is where the work is: for a description used in order, what
was given so far, what is read ahead in the one process that has a stream for
it, and the host's offset fit together, and fork, dup, close, exec and rewind
either keep that or end the order. `StreamsCurrent` needs besides that an FD
with a stream is that of a directory, and so that a stream goes from process to
process only together with the description it is of (`Handed`). `RequestsAssumption` says that areas are
sequences of parts, that counts are numbers, and that a spawn message holds the
strings the guest's library puts there.

**`PathsProofs`**, for any characters, `-m` options, paths and number of files:
`AlwaysWithinTrees`, `AlwaysLeadsBack`, `AlwaysLinkSizes`. A path is looked at
as the names between its slashes: `Split` and `Join` are shown to be inverse to
each other on such paths, `normalize_path` to leave names that are neither
empty nor dots, and `change_prefix` to put what follows a prefix below the
other one. The invariant `PathState` says of the maps that `add_map` has
normalised both sides (`MapsOK`), of every file, link and FD that one of the
guest's names leads there (`Named`), of the host's directory and of the targets
of links that a normalised QNX path leads there (`Placed`), which does not make
them normalised when a prefix cuts a name before its dots, and of the program
that it has no empty names, and is `Placed` when no prefix does so. `LeadsBack`
had to be sharpened on the way. For options that are apart it holds of links
and directories whatever the names; of a program it takes that no prefix cuts a
name before its dots, since `proc_exec` normalises the host path that the
prefix made.

**`TerminalProofs`** about `TerminalModes`, for any number of guests and
requests: `AttributesAlwaysRestored`, a fact about the two translations with
the well-formedness of what is saved, and `TerminalAlwaysAsAsked`. For the
latter the readers form a queue: the settings to go back to are those kept by
the *first* of the guests in `dev_read`, whatever the later ones found
(`ReadersOK`, `TermKept`).

**`TerminalProofs`** about `TerminalFilter`, for any input, VMIN, VTIME, sizes,
deadlines and number of signals: `TypeCorrect`, `NeverSleepsOnData`,
`NothingEverLost`, `ButtonsAlwaysReported`, and `NeverShort`, which is an
action property, for any width of c_cc too. The invariant of the loop (`LoopInv`) adds that only an escape
at the head of the buffer is waited for, and that when `process` returns the
buffer is empty or holds an unfinished sequence that still has time.
`NothingLost` and `ButtonsReported` relate the whole history to the state; they
need what the bytes behind a concatenation of items are, and are proved with
the lemmas about `FlattenSeq` of `Induction`.

**`SegmentsProofs`**, for any page size, limits, reservations, headers and
requests: `TypeCorrect`, `EntriesAlwaysBacked`, `AlwaysInstalled`,
`GrantedAlwaysReachable`, `BoundsAlwaysExact`, `StartupAlwaysApart`. Of
`check_bounds` the lemma `BoundsAgree` shows more than the run can try: it is
exact for every non-empty range, not only the three lengths. The invariant
`Sound` says that each segment has exactly the pages its limit needs, so that
64 KiB by limit is 64 KiB by pages and the two kinds of LDT limit agree where
they meet; that two descriptors share a segment only if it is flat (`Alone`),
so that a request that grows one descriptor's segment leaves no other stale;
and that the entry of every other descriptor is what `update_descriptors`
would write now (`UpToDate`). The loader's descriptors and the sum of the
image's sizes are recursive functions, for which a lemma each shows that the
recursion defines a function and that every step keeps `Sound`.
`SegmentAssumption` asks that no reservation exceeds what a limit in pages can
say (4 GiB in the code), `HeaderAssumption` that headers name segments they
have, which the loader checks for segmented programs.

**`Induction`** has the induction principles as facts about *sets* (a subset of
`Nat` that contains 0 and successors is `Nat`), because the provers can
instantiate a set and not a predicate. What a loop over a sequence computes is
stated there once (`IsLoop`): such a function exists, two that agree on the
start and the step agree, and one more element is one more round.

Left to TLC: `RaisedEventually`, `TimedReadReturns` and `EscapeReleased`, which
are liveness under fairness, and `ENABLED` with it. Every invariant and every
action property of a passing run is stated by a theorem, the refinement of
`SignalSpec` too.

## Where code and comments disagree

Four runs refute a statement of the sources; `findings` in `PROJECT.json`
quotes each. The models contain, and no run refutes, the following as well:

* a signal handled between the copy of `m_sigpend` in `signal_tail` and the
  return to the guest waits for the next system call (`emu.cpp:223`, against
  "we must raise the simulated signal always when leaving", `emu.h:77`);
* "handler not registered -- should not happen" (`emu.cpp:247`) is reached by
  raising a signal without a function, by setting a pending one to SIG_DFL, or
  by registering a table without it (`RaiseThrows`; `HandlerFound` excepts
  these);
* a fault with QSIGSEGV masked returns to the faulting instruction
  (`emu.cpp:59`, `GuestFault`);
* the wrap-around of `alloc_empty` overwrites `m_start_pid` (`qnx_pid.cpp:65`,
  field `bad`);
* the assertion of `alloc_child_pid` fails when the host reuses the PID of a
  dead relative (`qnx_pid.cpp:90`, `fork_parent_aborts`);
* a PID the table does not have is a null pointer in `qnx_valid_host`
  (`qnx_pid.cpp:111`);
* descriptor 0 is never closed by `UniqueFd` (`unique_fd.h:47`), against
  `doc/fs.txt:78`; `OnlyZeroLeaks` excepts it;
* an attach from a number beyond the table dereferences a null pointer
  (`idmap.h:80`, `proc_fd_attach_null`);
* dup of an FD onto itself closes it and fails (`main_handler.cpp:1804`,
  `io_dup_fails`);
* redirections of exec whose target is a later one's source
  (`main_handler.cpp:1008`; `ExecRedirects` excepts them), and redirections
  that stay after a failed execve (`main_handler.cpp:1014`);
* `Deadline::operator|=` compares the deadlines as Booleans, and so keeps the
  read's own where the comment says "preserve the strictes (nearest) one"
  (`timespec.h:58`): a timed read holds an escape back past its 200 ms;
* a mouse report cut after its third byte is passed on raw (`fd_filter.cpp:252`),
  against "until we can transform them" (`fd_filter.h:64`);
* `dev_read` overwrites the error of a pre-empted read with an `errno` no call
  has set (`fd_filter.cpp:81`);
* a blocking read on a terminal at its end of file turns in the loop
  (`fd_filter.cpp:167`), and a signal between `should_preempt` and the sleep
  waits for input;
* `proc_segment_realloc` updates one descriptor, and of a flat program's
  several the others keep their limit (`main_handler.cpp:583` has a TODO): the
  reply may name more than the selector reaches. `GrantedReachable` excepts
  flat segments;
* a small segment's limit is the end of its last page and not its size
  (`segment_descriptor.cpp:26`, against "a precise size reporting via LSL is
  important and supported", `segment.h:18`), and an empty one's wraps around;
* the 64 KiB cap shortens the stack but not `stack_size` (`loader.cpp:204`), and
  `StartupSbrk` uses the stack's segment with the heap's start
  (`process.cpp:442`): `StartupApart` excepts both cases;
* a library whose descriptors reach the magic ID makes the start fail
  (`IdAlreadyTaken`); a flat heap that is empty or not a whole number of pages
  aborts; a program with entry 0 is refused;
* a name of a prefix matches what only begins alike: `/ab` is below the prefix
  `/a` (`path_mapper.cpp:155`), and of a host path the most general prefix is
  taken, whose QNX name a more specific one may shadow. `LeadsBack` says where
  names come back; the names made up for an unmapped path never do;
* for the same reason a normalised QNX path may become one that is not: with a
  map from `/a` to `/b`, `/a..` becomes `/b/..` (`change_prefix`, `Cut`).
  `WithinTrees` says "in a canonical place" only for names without this
  (`Clean`);
* a directory handed through a host program to another qine is translated twice
  and may grow by a prefix each time (`RunQine`);
* `fsys_link` finds the file by the path its FD was opened with, whatever is
  there by then (`fsys_link` in `Paths`);
* moving a freshly opened descriptor closes one of the same file, and the host
  drops the locks the guest holds on it (`qnx_fd.cpp:151`, `Moved`); `io_lock`
  answers ERANGE for a range beyond 32 bits although the lock is set;
* a failing `readdir` loses the names taken so far, and a reply too small for
  its entries loses those it has no room for (`io_readdir_fails`,
  `ReaddirLists`); two guests that share a directory by fork share the host's
  offset but not what was read ahead;
* F_SETFL is called without its argument (`io_fcntl_flags`), so the flags
  become whatever is in the register;
* minimum, time and time-out of a `dev_read` are 16 bits wide and become bytes
  of `c_cc` (`termios_settings.cpp:25`): a minimum of 256 is 0, and the read
  returns at once with nothing. `NoShortRead` promises such a request only what
  is left in `c_cc`;
* `handle_tcsetattr` exchanges the indices of `c_cc`, so VEOL, VMIN and VTIME
  do not survive saving and restoring (`term_handler.cpp:163`;
  `AttributesRestored` excepts them); 6 and 7 bits become 8;
* `dev_mode` clears the modes whatever the mask, and puts DEV_ISIG and
  DEV_OPOST into `c_lflag` as they are (`Mode`);
* a `tcsetattr` during another guest's `dev_read` is undone when that read
  ends, and a read that is killed leaves the terminal in its temporary settings
  (`TerminalAsAsked` excepts both);
* `setup_magic16` does not mark its segment shared, `setup_magic` does; a freed
  descriptor stays in the LDT (`idmap.h:100`).

## Plan

What could follow; each step keeps what is there.

1. An abstract specification of descriptors (a guest's files, without numbers)
   that `FdMap` implements, and one of a terminal (a stream of keys and
   reports) for `TerminalFilter`.
2. Sessions in `Processes` (`setsid`), and the nearest deadline of
   `timespec.h:58` as a refuted property if it earns a run.

## Not modelled, and why

The loader's parsing of records and interpreter lines (its layout is in
`Segments`); timers (host timers; `Send` is their effect); semaphores (counters
in guest memory used by one thread); guest registers and memory
(`GuestContext`); the dispatch of messages, which is a table without state; the
command line but for `-m`; sessions, `getid`, process information and names,
which only report; logging, the generated message layouts and their dump.

File requests that go straight through to the host and leave no state in qine:
stat (but for the size of a link), chmod, chown, utime, pathconf, sync, disk
and device information, F_GETLK, and the mount table. Of the terminal:
`dev_insert_chars`, `tcgetpgrp` and `tcsetpgrp`, `tcflush`, `tcdrain`, and the
ioctls, which are compiled out. The removal of a `//node` prefix in exec is
left out; a guest's paths are local.
