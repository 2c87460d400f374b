------------------------------ MODULE Segments ------------------------------
(***************************************************************************)
(* The guest's memory: segments of host pages (src/src/segment.cpp), the   *)
(* descriptors of the local descriptor table that give the guest access to *)
(* them (segment_descriptor.cpp), the loader that makes the first ones     *)
(* (loader.cpp), what Process::setup_startup_context adds, and the guest's *)
(* own requests (MainHandler::proc_segment_alloc and its siblings).        *)
(*                                                                         *)
(* Every fact about a segment is kept twice, in the Segment and in the LDT *)
(* entries of its descriptors, which the host copies when they are         *)
(* written: an entry shows the segment as it was at that moment.           *)
(*                                                                         *)
(* A failure (bad_alloc, an assertion, a refused header) is not caught and *)
(* ends the process.                                                       *)
(***************************************************************************)
EXTENDS Integers, Sequences, FiniteSetsExt, SequencesExt

CONSTANTS
    Page, Align,        \* 4096 and 16
    Kilo64, Mega1,      \* the limits of the two kinds of descriptor
    FlatReserve, SlibReserve, SegReserve,
    PtrSize, TimeSize,  \* contents of the magic and time segments
    MaxIds,             \* size of m_segment_descriptors
    MagicId,            \* the descriptor of MAGIC_PTR_SELECTOR
    Execs, Libs,        \* headers of executables and libraries
    Startups,           \* sizes of what startup puts in the data segment
    Sizes, Accesses,    \* what the guest asks for
    MaxSegs             \* bound: segments made

Access == {"rw", "ro", "xr", "xo"}

(* A header that the loader accepts: finalize_segments refuses indices     *)
(* without a segment, before anything is installed; the indices of a flat  *)
(* program, which nothing checks, are taken to be right as well.           *)
HeaderOK(h) ==
    /\ h.flat \in BOOLEAN /\ h.b32 \in BOOLEAN
    /\ h.sizes \in Seq(Nat) /\ h.types \in Seq(Access)
    /\ Len(h.types) = Len(h.sizes)
    /\ {h.base, h.stack, h.heap, h.entry} \subseteq Nat
    /\ {h.stackIx, h.heapIx} \subseteq 1 .. Len(h.sizes)

ASSUME HeaderAssumption ==
    /\ \A h \in Execs \cup Libs : HeaderOK(h)
    /\ \A u \in Startups : {u.magic, u.data, u.env} \subseteq Nat
    /\ Accesses \subseteq Access

ASSUME SegmentAssumption ==
    /\ Page \in Nat \ {0} /\ Align \in Nat \ {0}
    /\ Kilo64 \in Nat \ {0} /\ Mega1 \in Nat
    /\ Kilo64 % Page = 0 /\ Mega1 % Page = 0 /\ Kilo64 < Mega1
    /\ {FlatReserve, SlibReserve, SegReserve} \subseteq 0 .. Mega1 * Page
    /\ PtrSize \in 1 .. Page /\ TimeSize \in 1 .. Page
    /\ MaxIds \in Nat /\ MagicId \in 0 .. MaxIds - 1
    /\ Sizes \subseteq Nat
    /\ MaxSegs \in Nat

VARIABLES
    segs,       \* the segments made so far; none is ever destroyed
    sds,        \* m_segment_descriptors
    ldt,        \* the host's table
    info,       \* m_load_exec and m_bits; the data segment and its break
    phase,      \* "exec", "libs", "run" or "ended"
    granted     \* bytes the guest was told it has, by descriptor (ghost)

vars == <<segs, sds, ldt, info, phase, granted>>

Ids == 0 .. MaxIds - 1
NoSd == [seg |-> 0, access |-> "rw"]
NoEntry == [seg |-> 0, access |-> "rw", limit |-> 0, pages |-> FALSE]

align_up(n, a) == ((n + a - 1) \div a) * a
PageUp(n) == align_up(n, Page)

-----------------------------------------------------------------------------
(* Segment.  A segment that is not ok stands for an exception.             *)

NewSegment(reservation) ==
    [paged |-> 0, limit |-> 0, reserved |-> PageUp(reservation),
     shared |-> FALSE, bitmap |-> <<>>, flat |-> FALSE, ok |-> TRUE]

Pages(n, valid) == [i \in 1 .. n \div Page |-> valid]

(* mmap of nothing fails, too.                                             *)
grow_paged_internal(s, n) ==
    IF n % Page # 0 \/ n = 0 \/ n + s.paged > s.reserved
    THEN [s EXCEPT !.ok = FALSE]
    ELSE [s EXCEPT !.paged = @ + n, !.bitmap = @ \o Pages(n, TRUE)]

grow_paged(s, n) ==
    LET g == grow_paged_internal(s, n) IN [g EXCEPT !.limit = g.paged]

skip_paged(s, n) ==
    IF n % Page # 0 \/ n + s.paged > s.reserved
    THEN [s EXCEPT !.ok = FALSE]
    ELSE [s EXCEPT !.paged = @ + n, !.bitmap = @ \o Pages(n, FALSE)]

(* Mutant: only the new bytes are compared with the pages there are.       *)
grow_bytes_new(s, n) ==
    IF n + s.limit > s.reserved THEN [s EXCEPT !.ok = FALSE]
    ELSE LET g == IF n > s.paged
                  THEN grow_paged_internal(s, PageUp(n + s.limit) - s.paged)
                  ELSE s
         IN  [g EXCEPT !.limit = @ + n]

grow_bytes(s, n) ==
    IF n + s.limit > s.reserved THEN [s EXCEPT !.ok = FALSE]
    ELSE LET g == IF n + s.limit > s.paged
                  THEN grow_paged_internal(s, PageUp(n + s.limit) - s.paged)
                  ELSE s
         IN  [g EXCEPT !.limit = @ + n]

GrowTo(s, size) == IF size > s.limit THEN grow_bytes(s, size - s.limit) ELSE s

grow_bytes_64capped(s, n) == GrowTo(s, Min({s.limit + n, Kilo64}))

(* Mutant: the page the range ends in is not looked at.                    *)
check_bounds_down(s, offset, n) ==
    /\ offset < s.paged
    /\ n <= s.paged - offset
    /\ \A p \in offset \div Page .. (offset + n) \div Page - 1 : s.bitmap[p + 1]

check_bounds(s, offset, n) ==
    /\ offset < s.paged
    /\ n <= s.paged - offset
    /\ \A p \in offset \div Page .. PageUp(offset + n) \div Page - 1 :
          s.bitmap[p + 1]

-----------------------------------------------------------------------------
(* SegmentDescriptor and IdMap, on the pair of tables and the IDs a load   *)
(* has been given.                                                         *)

(* Mutant: the limit of a small segment is its size and not its last byte. *)
update_descriptors_size(sd, s) ==
    IF s.limit > Kilo64
    THEN [seg |-> sd.seg, access |-> sd.access,
          limit |-> PageUp(s.limit) \div Page - 1, pages |-> TRUE]
    ELSE [seg |-> sd.seg, access |-> sd.access,
          limit |-> s.paged, pages |-> FALSE]

(* The entry the host is given.                                            *)
update_descriptors(sd, s) ==
    IF s.limit > Kilo64
    THEN [seg |-> sd.seg, access |-> sd.access,
          limit |-> PageUp(s.limit) \div Page - 1, pages |-> TRUE]
    ELSE [seg |-> sd.seg, access |-> sd.access,
          limit |-> s.paged - 1, pages |-> FALSE]

(* The bytes an entry gives access to.  A limit has 20 bits, of which a    *)
(* segment without pages sets all.                                         *)
Reach(e) == IF e.pages THEN (e.limit + 1) * Page ELSE (e.limit % Mega1) + 1

Tables == [sds |-> sds, ldt |-> ldt, ids |-> <<>>, ok |-> TRUE]

emplace(t, i, sd, ss) ==
    [t EXCEPT !.sds[i] = sd,
              !.ldt[i] = update_descriptors(sd, ss[sd.seg]),
              !.ids = Append(@, i)]

alloc_any(t, sd, ss) ==
    LET free == {i \in Ids : t.sds[i] = NoSd}
    IN  IF free = {} THEN [t EXCEPT !.ok = FALSE]
        ELSE emplace(t, Min(free), sd, ss)

(* Mutant: a descriptor in the way is replaced; its destructor, which runs *)
(* last, clears the entry.                                                 *)
alloc_exactly_at_replace(t, i, sd, ss) ==
    IF t.sds[i] = NoSd THEN emplace(t, i, sd, ss)
    ELSE [emplace(t, i, sd, ss) EXCEPT !.ldt[i] = NoEntry]

alloc_exactly_at(t, i, sd, ss) ==
    IF t.sds[i] # NoSd THEN [t EXCEPT !.ok = FALSE]     \* IdAlreadyTaken
    ELSE emplace(t, i, sd, ss)

-----------------------------------------------------------------------------
(* The loader.  A header has the sizes and types of its segments, the      *)
(* indices of the ones for code, heap (ds) and stack (ss), and the sizes   *)
(* of heap and stack.                                                      *)

(* What alloc_segment adds to m_segment_pos.                               *)
ImageSize(sizes) ==
    LET size[i \in 0 .. Len(sizes)] ==
            IF i = 0 THEN 0 ELSE size[i - 1] + PageUp(sizes[i])
    IN  size[Len(sizes)]

(* FlatLoader: one segment, in which the header's follow each other after  *)
(* guard pages and the stack.                                              *)
FlatImage(h) ==
    LET base  == PageUp(h.base)
        stack == PageUp(h.stack)
        guard == skip_paged([NewSegment(FlatReserve) EXCEPT !.flat = TRUE],
                            base - stack)
        data  == grow_paged(grow_paged(guard, stack), ImageSize(h.sizes))
    IN  IF stack + Page > base
        THEN [segs |-> <<>>, ok |-> FALSE]                       \* panic
        ELSE [segs |-> <<grow_paged(data, h.heap)>>,
              of |-> [i \in DOMAIN h.sizes |-> 1],
              stack_low |-> base - stack, stack_size |-> stack,
              heap_start |-> data.limit, entry |-> base + h.entry,
              ok |-> TRUE]

(* Mutant: the heap starts where the stack does.                           *)
SegmentImage_overlap(h, slib) ==
    LET reservation == IF ~h.b32 THEN Kilo64
                       ELSE IF slib THEN SlibReserve ELSE SegReserve
        plain(i) == grow_bytes(NewSegment(reservation), h.sizes[i])
        stacked(i) == IF i # h.stackIx THEN plain(i)
                      ELSE grow_bytes_64capped(plain(i), h.stack)
        heaped(i) == IF i # h.heapIx THEN stacked(i)
                     ELSE grow_bytes_64capped(stacked(i), h.heap)
    IN  [segs |-> [i \in DOMAIN h.sizes |-> heaped(i)],
         of |-> [i \in DOMAIN h.sizes |-> i],
         stack_low |-> plain(h.stackIx).limit, stack_size |-> h.stack,
         heap_start |-> plain(h.heapIx).limit, entry |-> h.entry,
         ok |-> TRUE]

(* SegmentLoader: a segment each; the stack, then the heap, are put at the *)
(* ends of theirs.                                                         *)
SegmentImage(h, slib) ==
    LET reservation == IF ~h.b32 THEN Kilo64
                       ELSE IF slib THEN SlibReserve ELSE SegReserve
        plain(i) == grow_bytes(NewSegment(reservation), h.sizes[i])
        stacked(i) == IF i # h.stackIx THEN plain(i)
                      ELSE grow_bytes_64capped(plain(i), h.stack)
        heaped(i) == IF i # h.heapIx THEN stacked(i)
                     ELSE grow_bytes_64capped(stacked(i), h.heap)
    IN  [segs |-> [i \in DOMAIN h.sizes |-> heaped(i)],
         of |-> [i \in DOMAIN h.sizes |-> i],
         stack_low |-> plain(h.stackIx).limit, stack_size |-> h.stack,
         heap_start |-> stacked(h.heapIx).limit, entry |-> h.entry,
         ok |-> TRUE]

Image(h, slib) == IF h.flat THEN FlatImage(h) ELSE SegmentImage(h, slib)

Loaded(image) == image.ok /\ \A i \in DOMAIN image.segs : image.segs[i].ok

(* A descriptor for each of the header's segments.                         *)
Described(h, image) ==
    LET all == segs \o image.segs
        sd(i) == [seg |-> Len(segs) + image.of[i], access |-> h.types[i]]
        tables[i \in 0 .. Len(h.sizes)] ==
            IF i = 0 THEN Tables
            ELSE LET t == tables[i - 1]
                 IN  IF t.ok THEN alloc_any(t, sd(i), all) ELSE t
    IN  tables[Len(h.sizes)]

NoInfo == [b32 |-> FALSE, flat |-> FALSE, ss |-> 0, ds |-> 0, entry |-> 0,
           stack_low |-> 0, stack_size |-> 0, heap_start |-> 0, data |-> 0, brk |-> 0]

Init ==
    /\ segs = <<>>
    /\ sds = [i \in Ids |-> NoSd]
    /\ ldt = [i \in Ids |-> NoEntry]
    /\ info = NoInfo
    /\ phase = "exec"
    /\ granted = [i \in Ids |-> 0]

Abort ==
    /\ phase' = "ended"
    /\ UNCHANGED <<segs, sds, ldt, info, granted>>

(* loader_load up to its descriptors; relocations change contents only.    *)
loader_load(h, slib) ==
    LET image == Image(h, slib)
    IN  /\ Loaded(image)
        /\ Described(h, image).ok
        /\ segs' = segs \o image.segs
        /\ sds' = Described(h, image).sds
        /\ ldt' = Described(h, image).ldt
        /\ UNCHANGED granted

loader_fails(h, slib) ==
    /\ Loaded(Image(h, slib)) => ~Described(h, Image(h, slib)).ok
    /\ Abort

load_executable(h) ==
    /\ phase = "exec"
    /\ \/ /\ loader_load(h, FALSE)
          /\ LET i == Image(h, FALSE)
                 ids == Described(h, i).ids
             IN  info' = [NoInfo EXCEPT
                    !.b32 = h.b32, !.flat = h.flat, !.entry = i.entry,
                    !.ss = ids[h.stackIx], !.ds = ids[h.heapIx],
                    !.stack_low = i.stack_low, !.stack_size = i.stack_size,
                    !.heap_start = i.heap_start]
          /\ phase' = "libs"
       \/ loader_fails(h, FALSE)

(* The system library for programs of the other width is passed over,      *)
(* which changes nothing; every other library is loaded.                   *)
load_library(h) ==
    /\ phase = "libs"
    /\ Len(segs) + Len(h.sizes) <= MaxSegs
    /\ \/ loader_load(h, TRUE) /\ UNCHANGED <<info, phase>>
       \/ loader_fails(h, TRUE)

-----------------------------------------------------------------------------
(* setup_startup_context: StartupSbrk takes the guest's magic, and then    *)
(* the spawn message with its strings, from the heap's start on; the magic *)
(* pointer and the time get segments of their own; a 32-bit program finds  *)
(* its arguments on the stack.                                             *)

Break(u) ==
    align_up(align_up(align_up(info.heap_start, Align) + u.magic, Align) + u.data,
             Align)

SmallSegment(size, shared) ==
    [grow_bytes(NewSegment(Page), size) EXCEPT !.shared = shared]

StartupSegs(u) ==
    LET k == sds[info.ss].seg
    IN  [segs EXCEPT ![k] = GrowTo(@, Break(u))]
        \o <<SmallSegment(PtrSize, info.b32), SmallSegment(TimeSize, FALSE)>>

StartupTables(u) ==
    LET ss == StartupSegs(u)
        n == Len(segs)
        magic == alloc_exactly_at(Tables, MagicId, [seg |-> n + 1, access |-> "ro"], ss)
        time == alloc_any(magic, [seg |-> n + 2, access |-> "ro"], ss)
    IN  IF magic.ok /\ time.ok
        THEN [time EXCEPT !.ldt[info.ss] =
                 update_descriptors(sds[info.ss], ss[sds[info.ss].seg])]
        ELSE [magic EXCEPT !.ok = FALSE]

(* push_stack goes through check_bounds.                                   *)
StackHolds(u) ==
    LET esp == info.stack_low + info.stack_size - u.env
    IN  info.b32 => /\ esp >= 0
                    /\ check_bounds(StartupSegs(u)[sds[info.ss].seg], esp, u.env)

CanStart(u) ==
    /\ info.entry # 0
    /\ StartupSegs(u)[sds[info.ss].seg].ok
    /\ StartupTables(u).ok
    /\ StackHolds(u)

setup_startup_context(u) ==
    /\ phase = "libs"
    /\ CanStart(u)
    /\ segs' = StartupSegs(u)
    /\ sds' = StartupTables(u).sds
    /\ ldt' = StartupTables(u).ldt
    /\ info' = [info EXCEPT !.data = sds[info.ss].seg,           \* data_seg
                            !.brk = Break(u)]                    \* ebx
    /\ granted' = [granted EXCEPT                                \* ebx + ecx
                      ![info.ss] = segs'[sds[info.ss].seg].limit]
    /\ phase' = "run"

setup_fails(u) ==
    /\ phase = "libs"
    /\ ~CanStart(u)
    /\ Abort

-----------------------------------------------------------------------------
(* The guest's requests.                                                   *)

proc_segment_alloc(n) ==
    LET nbytes == IF info.b32 THEN n ELSE n % (2 * Kilo64)
        s == grow_bytes(NewSegment(Mega1), nbytes)
        t == alloc_any(Tables, [seg |-> Len(segs) + 1, access |-> "rw"],
                       Append(segs, s))
    IN  /\ phase = "run"
        /\ Len(segs) < MaxSegs
        /\ \/ /\ s.ok /\ t.ok
              /\ segs' = Append(segs, s)
              /\ sds' = t.sds /\ ldt' = t.ldt
              /\ granted' = [granted EXCEPT ![t.ids[1]] = s.limit]
              /\ UNCHANGED <<info, phase>>
           \/ ~(s.ok /\ t.ok) /\ Abort

Live(i) == sds[i] # NoSd

(* Mutant: the descriptor is not brought up to date.                       *)
proc_segment_realloc_stale(i, n) ==
    LET k == sds[i].seg
        s == GrowTo(segs[k], n)
    IN  /\ phase = "run"
        /\ Live(i)                                               \* QEINVAL
        /\ ~segs[k].shared                                       \* QEBUSY
        /\ \/ /\ s.ok
              /\ segs' = [segs EXCEPT ![k] = s]
              /\ granted' = [granted EXCEPT ![i] = s.limit]
              /\ UNCHANGED <<sds, ldt, info, phase>>
           \/ ~s.ok /\ Abort

proc_segment_realloc(i, n) ==
    LET k == sds[i].seg
        s == GrowTo(segs[k], n)
    IN  /\ phase = "run"
        /\ Live(i)                                               \* QEINVAL
        /\ ~segs[k].shared                                       \* QEBUSY
        /\ \/ /\ s.ok
              /\ segs' = [segs EXCEPT ![k] = s]
              /\ ldt' = IF n > segs[k].limit
                        THEN [ldt EXCEPT ![i] = update_descriptors(sds[i], s)]
                        ELSE ldt
              /\ granted' = [granted EXCEPT ![i] = s.limit]
              /\ UNCHANGED <<sds, info, phase>>
           \/ ~s.ok /\ Abort

(* IdMap::free releases the descriptor without destroying it.              *)
proc_segment_free(i) ==
    /\ phase = "run"
    /\ Live(i)
    /\ sds' = [sds EXCEPT ![i] = NoSd]
    /\ granted' = [granted EXCEPT ![i] = 0]
    /\ UNCHANGED <<segs, ldt, info, phase>>

proc_segment_flags(i, access) ==
    /\ phase = "run"
    /\ Live(i)
    /\ sds' = [sds EXCEPT ![i].access = access]
    /\ ldt' = [ldt EXCEPT ![i] = update_descriptors(sds'[i], segs[sds[i].seg])]
    /\ UNCHANGED <<segs, info, phase, granted>>

Next ==
    \/ \E h \in Execs : load_executable(h)
    \/ \E h \in Libs : load_library(h)
    \/ \E u \in Startups : setup_startup_context(u) \/ setup_fails(u)
    \/ \E n \in Sizes : proc_segment_alloc(n)
    \/ \E i \in Ids :
          \/ \E n \in Sizes : proc_segment_realloc(i, n)
          \/ proc_segment_free(i)
          \/ \E access \in Accesses : proc_segment_flags(i, access)

Spec == Init /\ [][Next]_vars

-----------------------------------------------------------------------------
(* A segment's limit lies within its pages, they within its reservation,   *)
(* and m_bitmap has a bit for each.                                        *)
SegmentOK(s) ==
    /\ s.limit \in 0 .. s.paged
    /\ s.paged \in 0 .. s.reserved
    /\ Len(s.bitmap) * Page = s.paged
    /\ s.shared \in BOOLEAN /\ s.flat \in BOOLEAN
    /\ s.ok

TypeOK ==
    /\ \A k \in DOMAIN segs : SegmentOK(segs[k])
    /\ sds \in [Ids -> [seg : 0 .. Len(segs), access : Access]]
    /\ ldt \in [Ids -> [seg : 0 .. Len(segs), access : Access,
                        limit : -1 .. Mega1 - 1, pages : BOOLEAN]]
    /\ info.ss \in Ids /\ info.ds \in Ids
    /\ phase \in {"exec", "libs", "run", "ended"}
    /\ granted \in [Ids -> Nat]

(* Whatever is grown, reallocated, freed and allocated again, no entry of  *)
(* the host's table, stale or leaked, lets the guest past the pages of its *)
(* segment - unless the segment had no pages when the entry was written    *)
(* (SegmentDescriptor::update_descriptors, with every path to it).         *)
EntriesBacked ==
    \A i \in Ids : ldt[i].seg # 0 /\ ldt[i].limit >= 0 =>
        Reach(ldt[i]) <= segs[ldt[i].seg].paged

(* A descriptor the emulator knows is the one the guest has: the same      *)
(* segment with the same access, although IDs are reused and MagicId is    *)
(* claimed among IDs given out in order (IdMap, create_segment_            *)
(* descriptor_at).                                                         *)
DescriptorsInstalled ==
    \A i \in Ids : Live(i) =>
        /\ ldt[i].seg = sds[i].seg
        /\ ldt[i].access = sds[i].access

(* A guest can use every byte it was told it has, through the selector it  *)
(* asked for, whichever kind of limit the size needs.  The descriptors of  *)
(* a flat program share a segment and are excepted (proc_segment_realloc   *)
(* replies with the segment's size and updates one of them at most).       *)
GrantedReachable ==
    \A i \in Ids : Live(i) /\ ~segs[sds[i].seg].flat =>
        granted[i] <= Reach(ldt[i])

(* check_bounds, which works on pages, agrees with looking at each byte:   *)
(* a pointer the guest passes is accepted exactly when it is backed.       *)
(* A byte, a page and one byte more are tried, in every position.          *)
BoundsExact ==
    \A k \in DOMAIN segs : \A offset \in 0 .. segs[k].paged :
        \A n \in {1, Page, Page + 1} :
            check_bounds(segs[k], offset, n) <=>
                \A b \in offset .. offset + n - 1 :
                    b < segs[k].paged /\ segs[k].bitmap[b \div Page + 1]

(* What startup puts in the data segment is above the stack and within the *)
(* segment, for programs whose heap and stack share a segment and, unless  *)
(* they are flat, fit in the 64 KiB their growth is capped at              *)
(* (finalize_segments, StartupSbrk).                                       *)
StartupApart ==
    phase = "run" /\ info.ss = info.ds
    /\ (info.flat \/ info.stack_low + info.stack_size <= Kilo64) =>
        /\ info.stack_low + info.stack_size <= info.heap_start
        /\ info.brk <= segs[info.data].limit
=============================================================================
