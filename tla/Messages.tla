------------------------------ MODULE Messages ------------------------------
(***************************************************************************)
(* Messages between the guest and the emulator (src/src/msg.h, msg.cpp).   *)
(* A message area is scattered over the guest's memory in parts, some of   *)
(* them possibly empty; Msg::Iterator walks over the parts, and the        *)
(* handlers read, write or map a range of the message as if it were        *)
(* contiguous.  An area is a sequence of parts and a part is the sequence  *)
(* of its bytes.  A position in the walk, Msg::Iterator, is a record of    *)
(* the part (m_i), the offset of the part within the message               *)
(* (m_offset_of_chunk) and the offset within the part (m_offset).          *)
(*                                                                         *)
(* The loops of the code are recursive functions over the number of        *)
(* rounds; a walk over n parts is over after n + 1 of them.                *)
(***************************************************************************)
EXTENDS Naturals, FiniteSetsExt, SequencesExt

CONSTANTS
    GarbageSize,    \* sizeof(garbage_read) = sizeof(garbage_write), 256
    NoByte          \* the filler of an over-read, 0xCC

ASSUME MessageAssumption == GarbageSize \in Nat \ {0}

(* A message area is a sequence of parts, and each is a sequence.          *)
IsTuple(s) == Len(s) \in Nat /\ s = [k \in 1 .. Len(s) |-> s[k]]
IsArea(area) == IsTuple(area) /\ \A k \in DOMAIN area : IsTuple(area[k])

-----------------------------------------------------------------------------
(* The length of each part: the entries of mxfer_entry, which              *)
(* translate_mxfer_entries copies from the 16 bit ones.                    *)
Chunks(area) == [k \in DOMAIN area |-> Len(area[k])]

Iterator == [i |-> 1, base |-> 0, off |-> 0]

(* Past the parts that are empty or used up.                               *)
normalize(c, it) ==
    LET AtPart(i) == IF i = it.i THEN it
                     ELSE [i |-> i, base |-> it.base + it.off, off |-> 0]
    IN  AtPart(Min({Len(c) + 1} \cup
                   {k \in it.i .. Len(c) :
                        (IF k = it.i THEN it.off ELSE 0) < c[k]}))

msg_offset(it) == it.base + it.off

Slice(i, at, len) == [part |-> i, at |-> at, len |-> len]

(* Part 0 stands for no part of the message.                               *)
NoSlice == Slice(0, 0, 0)

(* The slice that follows, of at most `size' bytes, and the new position.  *)
next(c, it, size) ==
    LET Advanced(n, len) == [it |-> [n EXCEPT !.off = @ + len],
                             slice |-> Slice(n.i, n.off, len)]
        From(n) == IF n.i > Len(c) THEN [it |-> n, slice |-> NoSlice]
                   ELSE Advanced(n, Min({c[n.i] - n.off, size}))
    IN  From(normalize(c, it))

(* Mutant: no further than the first part.                                 *)
skip_to_once(c, offset) == next(c, Iterator, offset).it

(* To the given offset of the message, or to its end.                      *)
skip_to(c, offset) ==
    LET Onward(it) == next(c, it, offset - msg_offset(it)).it
        walk[k \in 0 .. Len(c) + 1] ==
            IF k = 0 THEN Iterator ELSE Onward(walk[k - 1])
    IN  walk[Len(c) + 1]

(* The slices of `size' bytes from the offset on, and what the message is  *)
(* short of: the loop that read, read_written, write and common_iovec      *)
(* have in common.                                                         *)
Slices(c, offset, size) ==
    LET With(w, n) == IF w.left = 0 \/ n.slice.len = 0 THEN w
                      ELSE [it |-> n.it,
                            left |-> w.left - n.slice.len,
                            out |-> Append(w.out, n.slice)]
        Onward(w) == With(w, next(c, w.it, w.left))
        walk[k \in 0 .. Len(c) + 1] ==
            IF k = 0
            THEN [it |-> skip_to(c, offset), left |-> size, out |-> <<>>]
            ELSE Onward(walk[k - 1])
    IN  walk[Len(c) + 1]

-----------------------------------------------------------------------------
(* A sequence from index m to n, as far as it goes.                        *)
Portion(s, m, n) == SubSeq(s, m, Min({n, Len(s)}))

(* The bytes a slice addresses.                                            *)
Bytes(area, s) == SubSeq(area[s.part], s.at + 1, s.at + s.len)

Fill(n, byte) == [k \in 1 .. n |-> byte]

(* Msg::read, and read_written on the area of the reply: what the message  *)
(* is short of is filled up.                                               *)
read(area, offset, size) ==
    LET Filled(w) ==
            FlattenSeq([k \in DOMAIN w.out |-> Bytes(area, w.out[k])])
              \o Fill(w.left, NoByte)
    IN  Filled(Slices(Chunks(area), offset, size))

(* The bytes of a slice replaced by those of data from `at' on, as far as  *)
(* they go.                                                                *)
Stored(area, s, data, at) ==
    [area EXCEPT ![s.part] =
        [k \in DOMAIN @ |->
            IF k \in s.at + 1 .. s.at + Min({s.len, Len(data) - at})
            THEN data[at + (k - s.at)] ELSE @[k]]]

(* Data stored slice by slice: memcpy in Msg::write, or the host's readv.  *)
Scatter(area, slices, data) ==
    LET Onward(p, s) == [area |-> Stored(p.area, s, data, p.at),
                         at |-> Min({p.at + s.len, Len(data)})]
        put[k \in 0 .. Len(slices)] ==
            IF k = 0 THEN [area |-> area, at |-> 0]
            ELSE Onward(put[k - 1], slices[k])
    IN  put[Len(slices)].area

(* Msg::write: what has no room in the message is left out.                *)
write(area, offset, data) ==
    Scatter(area, Slices(Chunks(area), offset, Len(data)).out, data)

(* Mutant: what the message is short of is left out.                       *)
common_iovec_unpadded(area, offset, size) ==
    Slices(Chunks(area), offset, size).out

(* Msg::common_iovec: a host vector for each slice, then vectors of        *)
(* garbage for what the message is short of.                               *)
common_iovec(area, offset, size) ==
    LET Padded(w, rest) ==
            w.out \o Fill(w.left \div GarbageSize, Slice(0, 0, GarbageSize))
              \o (IF rest = 0 THEN <<>> ELSE <<Slice(0, 0, rest)>>)
        Garbled(w) == Padded(w, w.left % GarbageSize)
    IN  Garbled(Slices(Chunks(area), offset, size))

-----------------------------------------------------------------------------
(* MsgStreamReader: a byte at a time, part by part.  `ready' bytes of the  *)
(* slice are still to be handed out.                                       *)
StreamReader(area, skip) ==
    [it |-> skip_to(Chunks(area), skip), slice |-> NoSlice, ready |-> 0]

(* Mutant: the part is taken from its start.                               *)
get_more_whole(area, r) ==
    LET n == normalize(Chunks(area), r.it)
        len == Len(area[n.i])
    IN  IF n.i > Len(area) THEN [r EXCEPT !.it = n]
        ELSE [it |-> [n EXCEPT !.off = len], slice |-> Slice(n.i, 0, len),
              ready |-> len]

(* A slice as long as the part, get_more; at the end the old one is kept.  *)
get_more(area, r) ==
    LET longest == 1 + Max({0} \cup Range(Chunks(area)))
        After(n) == IF n.slice.len = 0 THEN [r EXCEPT !.it = n.it]
                    ELSE [it |-> n.it, slice |-> n.slice,
                          ready |-> n.slice.len]
    IN  After(next(Chunks(area), r.it, longest))

get(area, r, fallback) ==
    LET Taken(m) ==
            IF m.ready = 0 THEN [reader |-> m, byte |-> fallback]
            ELSE [reader |-> [m EXCEPT !.ready = @ - 1],
                  byte |-> area[m.slice.part][m.slice.at + m.slice.len
                                                - m.ready + 1]]
    IN  Taken(IF r.ready = 0 THEN get_more(area, r) ELSE r)

(* The first n bytes a reader hands out.                                   *)
Stream(area, skip, n, fallback) ==
    LET With(s, g) == [r |-> g.reader, out |-> Append(s.out, g.byte)]
        Onward(s) == With(s, get(area, s.r, fallback))
        go[k \in 0 .. n] ==
            IF k = 0 THEN [r |-> StreamReader(area, skip), out |-> <<>>]
            ELSE Onward(go[k - 1])
    IN  go[n].out
=============================================================================
