---------------------------- MODULE FilesProofs -----------------------------
(***************************************************************************)
(* Proofs about Messages and Files, for any number of guests, files and    *)
(* descriptors and any requests.                                           *)
(*                                                                         *)
(* The first part is about messages: what an iterator over the parts of a  *)
(* message, the stream reader and the scatter lists that a transfer is cut *)
(* into amount to, as the message put together.                            *)
(*                                                                         *)
(* The second part proves the invariants of Files.  IInv is about          *)
(* descriptors, waits and fsys_trunc, which puts the offset back.  StateOK *)
(* adds what the data transfers need: FileState (contents, offsets and     *)
(* entries are what the host can have), StreamState (which directory each  *)
(* stream is of and where it is) and Replied (what the last request gave). *)
(* From it, io_read delivers, io_write stores and readdir lists what it    *)
(* should whatever the parts of the message, streams are never stale, and  *)
(* proc_spawn passes its arguments.                                        *)
(***************************************************************************)
EXTENDS Files, Induction

(* n, but at most `most'.                                                  *)
Clip(n, most) == IF n <= most THEN n ELSE most

(* Where each part of a message with parts of the lengths c starts, and at *)
(* the end the length of the message.                                      *)
Layout(c, st) ==
    /\ c \in Seq(Nat)
    /\ st \in [1 .. Len(c) + 1 -> Nat]
    /\ st[1] = 0
    /\ \A k \in 1 .. Len(c) : st[k + 1] = st[k] + c[k]

(* What it is made of.                                                     *)
LEMMA LayoutFacts ==
    ASSUME NEW c, NEW st, Layout(c, st)
    PROVE  /\ Len(c) \in Nat /\ st[1] = 0
           /\ DOMAIN c = 1 .. Len(c)
           /\ \A k \in 1 .. Len(c) + 1 : st[k] \in Nat
           /\ \A k \in 1 .. Len(c) : /\ c[k] \in Nat
                                     /\ k + 1 \in 1 .. Len(c) + 1
                                     /\ k \in 1 .. Len(c) + 1
                                     /\ st[k + 1] = st[k] + c[k]
<1>1. Len(c) \in Nat /\ DOMAIN c = 1 .. Len(c) /\ \A k \in 1 .. Len(c) : c[k] \in Nat
  BY DEF Layout
<1>2. \A k \in 1 .. Len(c) : k + 1 \in 1 .. Len(c) + 1 /\ k \in 1 .. Len(c) + 1
  BY <1>1
<1> QED BY <1>1, <1>2 DEF Layout

(* Parts start in their order.                                             *)
LEMMA StartsInOrder ==
    ASSUME NEW c, NEW st, Layout(c, st),
           NEW i \in 1 .. Len(c) + 1, NEW j \in 1 .. Len(c) + 1, i <= j
    PROVE  st[i] <= st[j]
<1> DEFINE N == {d \in Nat : i + d <= Len(c) + 1 => st[i] <= st[i + d]}
<1>0. Len(c) \in Nat
  BY DEF Layout
<1>1. 0 \in N
  BY <1>0 DEF Layout
<1>2. ASSUME NEW d \in Nat, d \in N PROVE d + 1 \in N
  <2> SUFFICES ASSUME i + (d + 1) <= Len(c) + 1 PROVE st[i] <= st[i + (d + 1)]
    OBVIOUS
  <2>1. i + d \in 1 .. Len(c) /\ i + d <= Len(c) + 1 /\ (i + d) + 1 = i + (d + 1)
    BY <1>0
  <2>2. st[(i + d) + 1] = st[i + d] + c[i + d]
    BY <2>1 DEF Layout
  <2>3. c[i + d] \in Nat /\ st[i + d] \in Nat /\ st[i] \in Nat
    BY <2>1, LayoutFacts
  <2>4. st[i] <= st[i + d]
    BY <1>2, <2>1
  <2> QED BY <2>1, <2>2, <2>3, <2>4
<1> HIDE DEF N
<1>3. j - i \in N
  <2>1. Nat \subseteq N
    BY <1>1, <1>2, NatSetInduction
  <2> QED BY <1>0, <2>1
<1>4. i + (j - i) = j
  BY <1>0
<1> QED BY <1>0, <1>3, <1>4 DEF N

(* Parts with nothing in them start all at one place.                      *)
LEMMA EmptyPartsNoRoom ==
    ASSUME NEW c, NEW st, Layout(c, st),
           NEW i \in 1 .. Len(c) + 1, NEW j \in 1 .. Len(c) + 1, i <= j,
           \A k \in i .. j - 1 : c[k] = 0
    PROVE  st[j] = st[i]
<1> DEFINE N == {d \in Nat : i + d <= j => st[i + d] = st[i]}
<1>0. Len(c) \in Nat
  BY DEF Layout
<1>1. 0 \in N
  BY <1>0 DEF Layout
<1>2. ASSUME NEW d \in Nat, d \in N PROVE d + 1 \in N
  <2> SUFFICES ASSUME i + (d + 1) <= j PROVE st[i + (d + 1)] = st[i]
    OBVIOUS
  <2>1. i + d \in 1 .. Len(c) /\ i + d \in i .. j - 1 /\ (i + d) + 1 = i + (d + 1)
    BY <1>0
  <2>2. st[(i + d) + 1] = st[i + d] + c[i + d]
    BY <2>1 DEF Layout
  <2>3. c[i + d] = 0 /\ st[i + d] \in Nat /\ st[i] \in Nat
    BY <2>1, LayoutFacts
  <2>4. st[i] = st[i + d]
    BY <1>0, <1>2, <2>1
  <2> QED BY <2>1, <2>2, <2>3, <2>4
<1> HIDE DEF N
<1>3. j - i \in N
  <2>1. Nat \subseteq N
    BY <1>1, <1>2, NatSetInduction
  <2> QED BY <1>0, <2>1
<1>4. i + (j - i) = j
  BY <1>0
<1> QED BY <1>0, <1>3, <1>4 DEF N

InPart(c, st, k, m) == \E j \in 1 .. c[k] : m = st[k] + j

(* Every byte of a message lies in a part.                                 *)
LEMMA PartOfByte ==
    ASSUME NEW c, NEW st, Layout(c, st), NEW m \in 1 .. st[Len(c) + 1]
    PROVE  \E k \in 1 .. Len(c) : InPart(c, st, k, m)
<1> DEFINE K == {k \in 1 .. Len(c) + 1 : m <= st[k]}
<1>0. Len(c) \in Nat /\ m \in Nat /\ st[1] = 0 /\ m > 0
      /\ \A k \in 1 .. Len(c) + 1 : st[k] \in Nat
  BY DEF Layout
<1>1. Len(c) + 1 \in K /\ K \subseteq Nat
  BY <1>0
<1>2. PICK h \in K : \A k \in K : h <= k
  BY <1>1, LeastNat
<1>3. h # 1 /\ h - 1 \in 1 .. Len(c) /\ h - 1 \notin K
  BY <1>0, <1>2
<1>4. st[(h - 1) + 1] = st[h - 1] + c[h - 1] /\ (h - 1) + 1 = h
  BY <1>0, <1>3 DEF Layout
<1>5. c[h - 1] \in Nat
  BY <1>3 DEF Layout
<1>6. m > st[h - 1] /\ m <= st[h]
  BY <1>0, <1>2, <1>3
<1>7. m - st[h - 1] \in 1 .. c[h - 1] /\ m = st[h - 1] + (m - st[h - 1])
  BY <1>0, <1>3, <1>4, <1>5, <1>6
<1> QED BY <1>3, <1>7 DEF InPart

(* Every message has a layout.                                             *)
LEMMA LayoutExists ==
    ASSUME NEW S, NEW area \in Seq(Seq(S))
    PROVE  \E st : Layout(Chunks(area), st)
<1> DEFINE c == Chunks(area)
           st == [k \in 1 .. Len(area) + 1 |-> Len(FlattenSeq(SubSeq(area, 1, k - 1)))]
<1>1. /\ Len(area) \in Nat /\ DOMAIN area = 1 .. Len(area)
      /\ \A k \in 1 .. Len(area) : area[k] \in Seq(S)
  OBVIOUS
<1>2. c \in Seq(Nat) /\ Len(c) = Len(area) /\ \A k \in 1 .. Len(area) : c[k] = Len(area[k])
  <2>1. \A k \in 1 .. Len(area) : Len(area[k]) \in Nat
    BY <1>1
  <2> QED BY <1>1, <2>1 DEF Chunks
<1>3. \A k \in 0 .. Len(area) : SubSeq(area, 1, k) \in Seq(Seq(S))
  BY <1>1
<1>4. \A k \in 0 .. Len(area) : FlattenSeq(SubSeq(area, 1, k)) \in Seq(S)
  BY <1>3, FlattenType
<1>5. st \in [1 .. Len(area) + 1 -> Nat]
  <2> SUFFICES ASSUME NEW k \in 1 .. Len(area) + 1
               PROVE  Len(FlattenSeq(SubSeq(area, 1, k - 1))) \in Nat
    OBVIOUS
  <2>1. k - 1 \in 0 .. Len(area)
    BY <1>1
  <2> QED BY <1>4, <2>1 DEF Rounds
<1>6. st[1] = 0
  <2>1. SubSeq(area, 1, 1 - 1) = <<>>
    BY SubSeqEmpty
  <2>2. 1 \in 1 .. Len(area) + 1
    BY <1>1
  <2>3. st[1] = Len(<<>>)
    BY <2>1, <2>2, FlattenEmpty, Zenon
  <2> QED BY <2>3
<1>7. ASSUME NEW k \in 1 .. Len(area) PROVE st[k + 1] = st[k] + Len(area[k])
  <2> DEFINE pre == SubSeq(area, 1, k - 1)
  <2>1. pre \in Seq(Seq(S)) /\ area[k] \in Seq(S)
    BY <1>1
  <2>2. SubSeq(area, 1, k) = Append(pre, area[k])
    BY <1>1
  <2> HIDE DEF pre
  <2>3. FlattenSeq(SubSeq(area, 1, k)) = FlattenSeq(pre) \o area[k]
    BY <2>1, <2>2, FlattenAppend
  <2>4. FlattenSeq(pre) \in Seq(S)
    BY <2>1, FlattenType
  <2>5. Len(FlattenSeq(pre) \o area[k]) = Len(FlattenSeq(pre)) + Len(area[k])
    BY <2>1, <2>4
  <2>6. k \in 1 .. Len(area) + 1 /\ k + 1 \in 1 .. Len(area) + 1 /\ (k + 1) - 1 = k
    BY <1>1
  <2>7. st[k + 1] = Len(FlattenSeq(SubSeq(area, 1, k))) /\ st[k] = Len(FlattenSeq(pre))
    BY <2>6 DEF pre
  <2> QED BY <2>3, <2>5, <2>7
<1> HIDE DEF c, st
<1>8. Layout(c, st)
  BY <1>1, <1>2, <1>5, <1>6, <1>7 DEF Layout
<1> QED BY <1>8 DEF c

(* The lengths of the parts.                                               *)
LEMMA ChunksFacts ==
    ASSUME NEW S, NEW area \in Seq(Seq(S))
    PROVE  /\ Len(area) \in Nat /\ DOMAIN area = 1 .. Len(area)
           /\ Chunks(area) \in Seq(Nat) /\ Len(Chunks(area)) = Len(area)
           /\ \A k \in 1 .. Len(area) :
                 /\ area[k] \in Seq(S) /\ Len(area[k]) \in Nat
                 /\ Chunks(area)[k] = Len(area[k])
<1>1. /\ Len(area) \in Nat /\ DOMAIN area = 1 .. Len(area)
      /\ \A k \in 1 .. Len(area) : area[k] \in Seq(S)
  OBVIOUS
<1>2. \A k \in 1 .. Len(area) : Len(area[k]) \in Nat
  BY <1>1
<1> QED BY <1>1, <1>2 DEF Chunks

(* The bytes of the message are those of its parts, at their places.       *)
FlatIs(S, area, st) ==
    /\ FlattenSeq(area) \in Seq(S)
    /\ Len(FlattenSeq(area)) = st[Len(area) + 1]
    /\ \A k \in 1 .. Len(area) : \A j \in 1 .. Len(area[k]) :
          /\ st[k] + j \in 1 .. Len(FlattenSeq(area))
          /\ FlattenSeq(area)[st[k] + j] = area[k][j]

(* That holds of every message.                                            *)
LEMMA FlatBytes ==
    ASSUME NEW S, NEW area \in Seq(Seq(S)), NEW st, Layout(Chunks(area), st)
    PROVE  FlatIs(S, area, st)
<1> DEFINE n == Len(area)
           c == Chunks(area)
           Pre(m) == FlattenSeq(SubSeq(area, 1, m))
           F(m) == /\ Len(Pre(m)) = st[m + 1]
                   /\ \A k \in 1 .. m : \A j \in 1 .. Len(area[k]) :
                         Pre(m)[st[k] + j] = area[k][j]
           N == {m \in Nat : m <= n => F(m)}
<1>1. /\ n \in Nat /\ Len(c) = n
      /\ \A k \in 1 .. n : area[k] \in Seq(S) /\ Len(area[k]) \in Nat /\ c[k] = Len(area[k])
  BY ChunksFacts
<1>2. /\ st[1] = 0 /\ \A k \in 1 .. n + 1 : st[k] \in Nat
      /\ \A k \in 1 .. n : st[k + 1] = st[k] + Len(area[k])
  BY <1>1, LayoutFacts
<1>3. \A i, j \in 1 .. n + 1 : i <= j => st[i] <= st[j]
  BY <1>1, StartsInOrder
<1>4. \A m \in 0 .. n : Pre(m) \in Seq(S)
  <2>1. \A m \in 0 .. n : SubSeq(area, 1, m) \in Seq(Seq(S))
    BY <1>1
  <2> QED BY <2>1, FlattenType
<1>5. 0 \in N
  <2>1. SubSeq(area, 1, 0) = <<>>
    BY SubSeqEmpty
  <2>2. Pre(0) = <<>>
    BY <2>1, FlattenEmpty, Zenon
  <2>3. Len(Pre(0)) = st[0 + 1]
    BY <1>2, <2>2
  <2> QED BY <2>3
<1>6. ASSUME NEW m \in Nat, m \in N PROVE m + 1 \in N
  <2> SUFFICES ASSUME m + 1 <= n PROVE F(m + 1)
    <3> HIDE DEF F
    <3> QED OBVIOUS
  <2>1. m + 1 \in 1 .. n /\ m \in 0 .. n /\ m <= n
    BY <1>1
  <2>2. Pre(m + 1) = Pre(m) \o area[m + 1]
    <3>1. SubSeq(area, 1, m + 1) = Append(SubSeq(area, 1, m), area[m + 1])
      BY <1>1, <2>1
    <3>2. SubSeq(area, 1, m) \in Seq(Seq(S)) /\ area[m + 1] \in Seq(S)
      BY <1>1, <2>1
    <3> QED BY <3>1, <3>2, FlattenAppend
  <2>3. /\ Len(Pre(m)) = st[m + 1]
        /\ \A k \in 1 .. m : \A j \in 1 .. Len(area[k]) : Pre(m)[st[k] + j] = area[k][j]
    BY <1>6, <2>1
  <2> DEFINE a == Pre(m)
             b == area[m + 1]
  <2>4. a \in Seq(S) /\ b \in Seq(S) /\ Len(b) \in Nat /\ Len(a) = st[m + 1]
    BY <1>1, <1>4, <2>1, <2>3
  <2>5. /\ \A k \in 1 .. m : \A j \in 1 .. Len(area[k]) : a[st[k] + j] = area[k][j]
        /\ Pre(m + 1) = a \o b
    BY <2>2, <2>3
  <2> HIDE DEF Pre, a
  <2>6. /\ Len(a \o b) = Len(a) + Len(b)
        /\ \A i \in 1 .. Len(a) + Len(b) :
              (a \o b)[i] = IF i <= Len(a) THEN a[i] ELSE b[i - Len(a)]
    BY <2>4, ConcatProperties
  <2>7. st[(m + 1) + 1] = st[m + 1] + Len(b)
    BY <1>2, <2>1
  <2>8. ASSUME NEW k \in 1 .. m + 1, NEW j \in 1 .. Len(area[k])
        PROVE  (a \o b)[st[k] + j] = area[k][j]
    <3>1. CASE k = m + 1
      <4>1. st[k] \in Nat /\ st[k] = Len(a) /\ j \in 1 .. Len(b) /\ j \in Nat
        BY <1>2, <2>1, <2>4, <3>1
      <4>2. st[k] + j \in 1 .. Len(a) + Len(b) /\ ~ (st[k] + j <= Len(a))
            /\ (st[k] + j) - Len(a) = j
        BY <2>4, <4>1
      <4> QED BY <2>6, <3>1, <4>2
    <3>2. CASE k \in 1 .. m
      <4>1. k \in 1 .. n /\ k + 1 \in 1 .. n + 1 /\ m + 1 \in 1 .. n + 1 /\ k + 1 <= m + 1
        BY <1>1, <2>1, <3>2
      <4>2. st[k + 1] = st[k] + Len(area[k]) /\ st[k + 1] <= st[m + 1]
        BY <1>2, <1>3, <4>1
      <4>3. st[k] \in Nat /\ Len(area[k]) \in Nat /\ k \in 1 .. n + 1
        BY <1>1, <1>2, <4>1
      <4>4. st[k] + j \in 1 .. Len(a)
        BY <2>4, <4>2, <4>3
      <4>5. (a \o b)[st[k] + j] = a[st[k] + j]
        BY <2>4, <2>6, <4>4
      <4> QED BY <2>5, <3>2, <4>5
    <3>3. k = m + 1 \/ k \in 1 .. m
      BY <2>1
    <3> QED BY <3>1, <3>2, <3>3
  <2> QED BY <2>4, <2>5, <2>6, <2>7, <2>8
<1> HIDE DEF N
<1>7. n \in N
  <2>1. Nat \subseteq N
    BY <1>5, <1>6, NatSetInduction
  <2> QED BY <1>1, <2>1
<1>8. /\ Len(Pre(n)) = st[n + 1]
      /\ \A k \in 1 .. n : \A j \in 1 .. Len(area[k]) : Pre(n)[st[k] + j] = area[k][j]
  BY <1>1, <1>7 DEF N
<1>9. Pre(n) = FlattenSeq(area)
  <2>1. SubSeq(area, 1, n) = area
    BY SubSeqFull
  <2> QED BY <2>1
<1>10. ASSUME NEW k \in 1 .. n, NEW j \in 1 .. Len(area[k])
       PROVE  st[k] + j \in 1 .. st[n + 1]
  <2>1. /\ k + 1 \in 1 .. n + 1 /\ n + 1 \in 1 .. n + 1 /\ k + 1 <= n + 1
        /\ k \in 1 .. n + 1
    BY <1>1
  <2>2. st[k + 1] = st[k] + Len(area[k]) /\ st[k + 1] <= st[n + 1]
    BY <1>2, <1>3, <2>1
  <2>3. st[k] \in Nat /\ Len(area[k]) \in Nat /\ st[n + 1] \in Nat
    BY <1>1, <1>2, <2>1
  <2> QED BY <2>2, <2>3
<1>11. FlattenSeq(area) \in Seq(S)
  BY FlattenType
<1> QED BY <1>8, <1>9, <1>10, <1>11 DEF FlatIs

-----------------------------------------------------------------------------
(* A position that Msg::Iterator may have.                                 *)
ItOK(c, st, it) ==
    /\ it \in [i : Nat, base : Nat, off : Nat]
    /\ it.i \in 1 .. Len(c) + 1
    /\ it.base = st[it.i]
    /\ it.i <= Len(c) => it.off <= c[it.i]
    /\ it.i = Len(c) + 1 => it.off = 0

(* normalize stays at the same byte, and finds one if there is one.        *)
LEMMA NormalizeFacts ==
    ASSUME NEW c, NEW st, Layout(c, st), NEW it, ItOK(c, st, it)
    PROVE  LET n == normalize(c, it)
           IN  /\ ItOK(c, st, n)
               /\ msg_offset(n) = msg_offset(it)
               /\ n.i >= it.i
               /\ n.i <= Len(c) => n.off < c[n.i]
               /\ n.i > Len(c) => msg_offset(n) = st[Len(c) + 1]
               /\ it.i <= Len(c) /\ it.off = c[it.i] => n.i > it.i
<1> DEFINE Room(k) == IF k = it.i THEN it.off ELSE 0
           K == {Len(c) + 1} \cup {k \in it.i .. Len(c) : Room(k) < c[k]}
           m == Min(K)
           AtPart(i) == IF i = it.i THEN it
                        ELSE [i |-> i, base |-> it.base + it.off, off |-> 0]
           n == AtPart(m)
<1>0. normalize(c, it) = n
  BY DEF normalize
<1>1. /\ Len(c) \in Nat /\ st[1] = 0
      /\ \A k \in 1 .. Len(c) + 1 : st[k] \in Nat
      /\ \A k \in 1 .. Len(c) : c[k] \in Nat /\ st[k + 1] = st[k] + c[k]
  BY LayoutFacts
<1>2. /\ it \in [i : Nat, base : Nat, off : Nat] /\ it.i \in 1 .. Len(c) + 1
      /\ it.base = st[it.i] /\ it.i \in Nat /\ it.off \in Nat /\ it.base \in Nat
      /\ it.i <= Len(c) => it.off <= c[it.i]
      /\ it.i = Len(c) + 1 => it.off = 0
  BY DEF ItOK
<1>3. K \in SUBSET Nat /\ K # {}
  BY <1>1, <1>2
<1>4. m \in K /\ \A k \in K : m <= k
  <2> HIDE DEF K
  <2> QED BY <1>3, MinOfNats
<1>5. m \in it.i .. Len(c) + 1 /\ m \in Nat
  BY <1>1, <1>2, <1>4
<1>6. m <= Len(c) => Room(m) < c[m]
  <2> HIDE DEF m
  <2>1. m = Len(c) + 1 \/ Room(m) < c[m]
    BY <1>4
  <2> QED BY <1>1, <1>5, <2>1
<1>7. \A k \in it.i .. m - 1 : k \in 1 .. Len(c) /\ Room(k) >= c[k]
  <2> SUFFICES ASSUME NEW k \in it.i .. m - 1
               PROVE  k \in 1 .. Len(c) /\ Room(k) >= c[k]
    OBVIOUS
  <2>1. k \in 1 .. Len(c) /\ k < m /\ k \in it.i .. Len(c)
    BY <1>1, <1>2, <1>5
  <2>2. k \notin K
    BY <1>4, <1>5, <2>1
  <2>3. c[k] \in Nat /\ Room(k) \in Nat
    BY <1>1, <1>2, <2>1
  <2> QED BY <2>1, <2>2, <2>3
<1> HIDE DEF m, K
<1>8. CASE m = it.i
  <2>1. n = it
    BY <1>8
  <2>2. it.i <= Len(c) => it.off < c[it.i]
    BY <1>6, <1>8
  <2>3. it.i > Len(c) => msg_offset(it) = st[Len(c) + 1]
    BY <1>1, <1>2 DEF msg_offset
  <2>4. it.i <= Len(c) /\ it.off = c[it.i] => FALSE
    BY <1>1, <1>2, <2>2
  <2> HIDE DEF n
  <2> QED BY <1>0, <1>2, <2>1, <2>2, <2>3, <2>4
<1>9. CASE m # it.i
  <2>1. /\ n = [i |-> m, base |-> it.base + it.off, off |-> 0]
        /\ m > it.i /\ it.i \in 1 .. Len(c) /\ it.i + 1 \in 1 .. Len(c) + 1
        /\ m \in 1 .. Len(c) + 1 /\ it.i + 1 <= m
    BY <1>1, <1>2, <1>5, <1>9
  <2>2. it.off = c[it.i]
    <3>1. it.i \in it.i .. m - 1
      BY <1>2, <1>5, <2>1
    <3>2. Room(it.i) >= c[it.i]
      BY <1>7, <3>1
    <3>3. c[it.i] \in Nat
      BY <1>1, <2>1
    <3> QED BY <1>2, <2>1, <3>2, <3>3
  <2>3. \A k \in it.i + 1 .. m - 1 : c[k] = 0
    <3> SUFFICES ASSUME NEW k \in it.i + 1 .. m - 1 PROVE c[k] = 0
      OBVIOUS
    <3>1. k \in it.i .. m - 1 /\ k # it.i
      BY <1>2, <1>5
    <3>2. k \in 1 .. Len(c) /\ 0 >= c[k]
      BY <1>7, <3>1
    <3> QED BY <1>1, <3>2
  <2>4. st[m] = st[it.i + 1]
    BY <2>1, <2>3, EmptyPartsNoRoom
  <2>5. st[m] = it.base + it.off /\ it.base + it.off \in Nat
    BY <1>1, <1>2, <2>1, <2>2, <2>4
  <2>6. n.i = m /\ n.base = st[m] /\ n.off = 0 /\ n \in [i : Nat, base : Nat, off : Nat]
    BY <1>5, <2>1, <2>5
  <2> HIDE DEF n
  <2>7. ItOK(c, st, n)
    BY <1>1, <2>1, <2>6 DEF ItOK
  <2>8. msg_offset(n) = msg_offset(it)
    BY <1>2, <2>5, <2>6 DEF msg_offset
  <2>9. n.i <= Len(c) => n.off < c[n.i]
    BY <1>6, <1>9, <2>6
  <2>10. n.i > Len(c) => msg_offset(n) = st[Len(c) + 1]
    <3>1. n.i > Len(c) => m = Len(c) + 1
      BY <1>1, <2>1, <2>6
    <3>2. msg_offset(n) = st[m]
      BY <1>1, <2>1, <2>6 DEF msg_offset
    <3> QED BY <3>1, <3>2
  <2> QED BY <1>0, <1>2, <2>1, <2>6, <2>7, <2>8, <2>9, <2>10
<1> QED BY <1>8, <1>9

(* Msg::Iterator::next hands out what is at the position, up to the end of *)
(* a part or of what was asked for, and moves on by as much; it hands out  *)
(* nothing only at the end of the message.                                 *)
NextOK(c, st, it, size, r, s) ==
    /\ ItOK(c, st, r)
    /\ s \in [part : Nat, at : Nat, len : Nat]
    /\ s.len <= size
    /\ msg_offset(r) = msg_offset(it) + s.len
    /\ r.i >= it.i
    /\ s.len = 0 /\ size # 0 => msg_offset(it) = st[Len(c) + 1]
    /\ s.part = 0 => s = NoSlice /\ msg_offset(it) = st[Len(c) + 1]
    /\ s.part # 0 => /\ s.part \in 1 .. Len(c)
                     /\ s.at + s.len <= c[s.part]
                     /\ st[s.part] + s.at = msg_offset(it)
                     /\ r.i = s.part
                     /\ s.len = size \/ r.off = c[s.part]
    /\ it.i <= Len(c) /\ it.off = c[it.i] => r.i > it.i

(* It does so for every position and every size.                           *)
LEMMA NextFacts ==
    ASSUME NEW c, NEW st, Layout(c, st), NEW it, ItOK(c, st, it), NEW size \in Nat
    PROVE  NextOK(c, st, it, size, next(c, it, size).it, next(c, it, size).slice)
<1> DEFINE n == normalize(c, it)
           len == Min({c[n.i] - n.off, size})
           Adv == [it |-> [n EXCEPT !.off = @ + len], slice |-> Slice(n.i, n.off, len)]
           r == next(c, it, size)
<1> SUFFICES NextOK(c, st, it, size, r.it, r.slice)
  OBVIOUS
<1>0. r = IF n.i > Len(c) THEN [it |-> n, slice |-> NoSlice] ELSE Adv
  BY DEF next
<1>1. /\ Len(c) \in Nat
      /\ \A k \in 1 .. Len(c) + 1 : st[k] \in Nat
      /\ \A k \in 1 .. Len(c) : c[k] \in Nat
  BY LayoutFacts
<1>2. /\ ItOK(c, st, n)
      /\ msg_offset(n) = msg_offset(it)
      /\ n.i >= it.i
      /\ n.i <= Len(c) => n.off < c[n.i]
      /\ n.i > Len(c) => msg_offset(n) = st[Len(c) + 1]
      /\ it.i <= Len(c) /\ it.off = c[it.i] => n.i > it.i
  BY NormalizeFacts
<1>3. msg_offset(it) \in Nat
  BY DEF ItOK, msg_offset
<1> HIDE DEF n
<1>4. CASE n.i > Len(c)
  <2>1. r.it = n /\ r.slice = NoSlice
    BY <1>0, <1>4
  <2>2. /\ NoSlice \in [part : Nat, at : Nat, len : Nat]
        /\ NoSlice.part = 0 /\ NoSlice.len = 0
    BY DEF NoSlice, Slice
  <2> HIDE DEF r
  <2> QED BY <1>2, <1>3, <1>4, <2>1, <2>2 DEF NextOK
<1>5. CASE ~ (n.i > Len(c))
  <2>1. /\ n \in [i : Nat, base : Nat, off : Nat] /\ n.i \in 1 .. Len(c)
        /\ n.i \in Nat /\ n.base \in Nat /\ n.off \in Nat
        /\ n.base = st[n.i] /\ n.off < c[n.i] /\ c[n.i] \in Nat
    BY <1>1, <1>2, <1>5 DEF ItOK
  <2>2. len = IF c[n.i] - n.off <= size THEN c[n.i] - n.off ELSE size
    BY <2>1, MinOfTwo
  <2>3. /\ len \in Nat /\ len <= size /\ n.off + len <= c[n.i]
        /\ len = size \/ n.off + len = c[n.i]
        /\ size # 0 => len # 0
    BY <2>1, <2>2
  <2> HIDE DEF len
  <2>4. /\ r.it = [n EXCEPT !.off = @ + len] /\ r.slice = [part |-> n.i, at |-> n.off, len |-> len]
    BY <1>0, <1>5 DEF Slice
  <2>5. /\ r.it \in [i : Nat, base : Nat, off : Nat]
        /\ r.it.i = n.i /\ r.it.base = n.base /\ r.it.off = n.off + len
    BY <2>1, <2>3, <2>4
  <2>6. /\ r.slice \in [part : Nat, at : Nat, len : Nat]
        /\ r.slice.part = n.i /\ r.slice.at = n.off /\ r.slice.len = len
    BY <2>1, <2>3, <2>4
  <2> HIDE DEF r
  <2>7. ItOK(c, st, r.it)
    BY <1>1, <2>1, <2>3, <2>5 DEF ItOK
  <2>8. msg_offset(r.it) = msg_offset(it) + len /\ st[n.i] + n.off = msg_offset(it)
    BY <1>2, <2>1, <2>3, <2>5 DEF msg_offset
  <2>9. n.i # 0
    BY <2>1
  <2> QED BY <1>2, <2>1, <2>3, <2>5, <2>6, <2>7, <2>8, <2>9 DEF NextOK
<1> QED BY <1>4, <1>5

(* A position is within the message.                                       *)
LEMMA ItWithin ==
    ASSUME NEW c, NEW st, Layout(c, st), NEW it, ItOK(c, st, it)
    PROVE  /\ msg_offset(it) \in Nat
           /\ msg_offset(it) <= st[Len(c) + 1] /\ st[Len(c) + 1] \in Nat
<1>1. /\ Len(c) \in Nat /\ st[1] = 0
      /\ \A k \in 1 .. Len(c) + 1 : st[k] \in Nat
      /\ \A k \in 1 .. Len(c) : c[k] \in Nat /\ st[k + 1] = st[k] + c[k]
  BY LayoutFacts
<1>2. /\ it.i \in 1 .. Len(c) + 1 /\ it.base = st[it.i] /\ it.off \in Nat
      /\ it.i <= Len(c) => it.off <= c[it.i]
      /\ it.i = Len(c) + 1 => it.off = 0
      /\ it.i \in Nat /\ Len(c) + 1 \in 1 .. Len(c) + 1
  BY <1>1 DEF ItOK
<1>3. CASE it.i = Len(c) + 1
  BY <1>1, <1>2, <1>3 DEF msg_offset
<1>4. CASE it.i # Len(c) + 1
  <2>1. it.i \in 1 .. Len(c) /\ it.i + 1 \in 1 .. Len(c) + 1 /\ it.i + 1 <= Len(c) + 1
    BY <1>1, <1>2, <1>4
  <2>2. st[it.i + 1] <= st[Len(c) + 1]
    BY <1>2, <2>1, StartsInOrder
  <2>3. st[it.i + 1] = st[it.i] + c[it.i] /\ c[it.i] \in Nat /\ st[it.i] \in Nat
    BY <1>1, <1>2, <2>1
  <2>4. st[Len(c) + 1] \in Nat
    BY <1>1, <1>2
  <2> QED BY <1>2, <2>1, <2>2, <2>3, <2>4 DEF msg_offset
<1> QED BY <1>3, <1>4

(* The walk begins at the start of the message.                            *)
LEMMA IteratorStart ==
    ASSUME NEW c, NEW st, Layout(c, st)
    PROVE  ItOK(c, st, Iterator) /\ msg_offset(Iterator) = 0
<1>1. Iterator \in [i : Nat, base : Nat, off : Nat] /\ Iterator.i = 1 /\ Iterator.base = 0 /\ Iterator.off = 0
  BY DEF Iterator
<1>2. Len(c) \in Nat /\ st[1] = 0 /\ \A k \in 1 .. Len(c) : c[k] \in Nat
  BY LayoutFacts
<1> QED BY <1>1, <1>2 DEF ItOK, msg_offset

(* In round k of a walk towards byte `to' of the message: it is there, or  *)
(* at the end of the message, or has used up part k or one behind it.      *)
Progress(c, st, it, to, k) ==
    \/ msg_offset(it) = to
    \/ msg_offset(it) = st[Len(c) + 1]
    \/ /\ it.i >= k
       /\ k > 0 => it.i <= Len(c) /\ it.off = c[it.i]

(* A round of next makes progress.                                         *)
LEMMA NextProgress ==
    ASSUME NEW c, NEW st, Layout(c, st), NEW it, ItOK(c, st, it),
           NEW to \in Nat, msg_offset(it) <= to, NEW k \in Nat, Progress(c, st, it, to, k),
           NEW r, NEW s, NextOK(c, st, it, to - msg_offset(it), r, s)
    PROVE  Progress(c, st, r, to, k + 1) /\ msg_offset(r) <= to
<1>1. /\ msg_offset(it) \in Nat /\ msg_offset(it) <= st[Len(c) + 1] /\ st[Len(c) + 1] \in Nat
      /\ msg_offset(r) \in Nat /\ msg_offset(r) <= st[Len(c) + 1]
  BY ItWithin DEF NextOK
<1>2. /\ s \in [part : Nat, at : Nat, len : Nat] /\ s.len \in Nat
      /\ s.len <= to - msg_offset(it)
      /\ msg_offset(r) = msg_offset(it) + s.len
  BY DEF NextOK
<1>3. CASE msg_offset(it) = to
  BY <1>1, <1>2, <1>3 DEF Progress
<1>4. CASE msg_offset(it) = st[Len(c) + 1]
  BY <1>1, <1>2, <1>4 DEF Progress
<1>5. CASE /\ it.i >= k
           /\ k > 0 => it.i <= Len(c) /\ it.off = c[it.i]
  <2>1. CASE s.part = 0
    <3>1. msg_offset(it) = st[Len(c) + 1]
      BY <2>1 DEF NextOK
    <3> QED BY <1>4, <3>1
  <2>2. CASE s.part # 0
    <3>1. /\ s.part \in 1 .. Len(c) /\ r.i = s.part
          /\ s.len = to - msg_offset(it) \/ r.off = c[s.part]
      BY <2>2 DEF NextOK
    <3>2. r.i >= k + 1
      <4>1. it.i \in Nat /\ r.i \in Nat /\ r.i >= it.i /\ it.i >= 1
        BY DEF NextOK, ItOK
      <4>2. k > 0 => r.i > it.i
        BY <1>5 DEF NextOK
      <4> QED BY <1>5, <4>1, <4>2
    <3>3. Len(c) \in Nat
      BY LayoutFacts
    <3> QED BY <1>1, <1>2, <3>1, <3>2, <3>3 DEF Progress
  <2> QED BY <2>1, <2>2
<1> QED BY <1>3, <1>4, <1>5 DEF Progress

(* After as many rounds as there are parts, and one, it has arrived.       *)
LEMMA ProgressEnds ==
    ASSUME NEW c, NEW st, Layout(c, st), NEW it, ItOK(c, st, it),
           NEW to \in Nat, msg_offset(it) <= to, Progress(c, st, it, to, Len(c) + 1)
    PROVE  msg_offset(it) = Clip(to, st[Len(c) + 1])
<1>1. msg_offset(it) \in Nat /\ msg_offset(it) <= st[Len(c) + 1] /\ st[Len(c) + 1] \in Nat
  BY ItWithin
<1>2. Len(c) \in Nat
  BY LayoutFacts
<1>3. it.i \in Nat
  BY DEF ItOK
<1> QED BY <1>1, <1>2, <1>3 DEF Progress, Clip

(* skip_to: at the offset, or at the end of the message.                   *)
LEMMA SkipToFacts ==
    ASSUME NEW c, NEW st, Layout(c, st), NEW offset \in Nat
    PROVE  /\ ItOK(c, st, skip_to(c, offset))
           /\ msg_offset(skip_to(c, offset)) = Clip(offset, st[Len(c) + 1])
<1> DEFINE n == Len(c) + 1
           I == {it \in [i : Nat, base : Nat, off : Nat] :
                    ItOK(c, st, it) /\ msg_offset(it) <= offset}
           Onward(it) == next(c, it, offset - msg_offset(it)).it
           g == [k \in Nat |-> [it \in I |-> Onward(it)]]
           Walk(f) == f = [k \in 0 .. n |-> IF k = 0 THEN Iterator ELSE Onward(f[k - 1])]
           walk == CHOOSE f : Walk(f)
<1>0. n \in Nat
  BY LayoutFacts
<1>1. ASSUME NEW it \in I
      PROVE  /\ Onward(it) \in I
             /\ \A k \in Nat : Progress(c, st, it, offset, k) =>
                                   Progress(c, st, Onward(it), offset, k + 1)
  <2>1. ItOK(c, st, it) /\ msg_offset(it) <= offset /\ msg_offset(it) \in Nat
    BY ItWithin
  <2>2. offset - msg_offset(it) \in Nat
    BY <2>1
  <2> DEFINE r == next(c, it, offset - msg_offset(it)).it
             s == next(c, it, offset - msg_offset(it)).slice
  <2>3. NextOK(c, st, it, offset - msg_offset(it), r, s)
    BY <2>1, <2>2, NextFacts
  <2> HIDE DEF r, s
  <2>4. \A k \in Nat : Progress(c, st, it, offset, k) =>
            Progress(c, st, r, offset, k + 1) /\ msg_offset(r) <= offset
    BY <2>1, <2>3, NextProgress
  <2>5. msg_offset(r) <= offset
    <3>1. s.len \in Nat /\ s.len <= offset - msg_offset(it)
          /\ msg_offset(r) = msg_offset(it) + s.len
      BY <2>3 DEF NextOK
    <3> QED BY <2>1, <3>1
  <2>6. ItOK(c, st, r) /\ r \in [i : Nat, base : Nat, off : Nat]
    BY <2>3 DEF NextOK, ItOK
  <2>7. Onward(it) = r
    BY DEF r
  <2> HIDE DEF Onward
  <2> QED BY <2>4, <2>5, <2>6, <2>7
<1>2. Iterator \in I
  <2>1. ItOK(c, st, Iterator) /\ msg_offset(Iterator) = 0
    BY IteratorStart
  <2> QED BY <2>1 DEF ItOK
<1> HIDE DEF I, Onward
<1>3. g \in [Nat -> [I -> I]]
  BY <1>1
<1>4. PICK f : Rounds(f, I, Iterator, g, n)
  <2> HIDE DEF g, n
  <2> QED BY <1>0, <1>2, <1>3, RoundsExist
<1>5. Walk(f)
  <2>1. ASSUME NEW k \in 0 .. n PROVE f[k] = IF k = 0 THEN Iterator ELSE Onward(f[k - 1])
    <3>1. CASE k = 0
      BY <1>4, <3>1 DEF Rounds
    <3>2. CASE k # 0
      <4>1. k \in 1 .. n /\ k - 1 \in 0 .. n /\ k \in Nat
        BY <1>0, <3>2
      <4>2. f[k - 1] \in I /\ f[k] = g[k][f[k - 1]]
        BY <1>4, <4>1 DEF Rounds
      <4> QED BY <3>2, <4>1, <4>2
    <3> QED BY <3>1, <3>2
  <2> QED BY <1>4, <2>1 DEF Rounds
<1>6. Walk(walk)
  BY <1>5, Zenon
<1>7. skip_to(c, offset) = walk[n]
  BY DEF skip_to, Onward
<1> HIDE DEF walk
<1>8. \A k \in 0 .. n : walk[k] = IF k = 0 THEN Iterator ELSE Onward(walk[k - 1])
  BY <1>6
<1> DEFINE N == {k \in Nat : k <= n => walk[k] \in I /\ Progress(c, st, walk[k], offset, k)}
<1> HIDE DEF n
<1>9. 0 \in N
  <2>1. walk[0] = Iterator
    BY <1>0, <1>8
  <2>2. Iterator.i = 1
    BY DEF Iterator
  <2>3. Progress(c, st, Iterator, offset, 0)
    BY <2>2 DEF Progress
  <2> QED BY <1>2, <2>1, <2>3
<1>10. ASSUME NEW k \in Nat, k \in N PROVE k + 1 \in N
  <2> SUFFICES ASSUME k + 1 <= n
               PROVE  walk[k + 1] \in I /\ Progress(c, st, walk[k + 1], offset, k + 1)
    OBVIOUS
  <2>1. k + 1 \in 0 .. n /\ k + 1 # 0 /\ (k + 1) - 1 = k /\ k <= n
    BY <1>0
  <2>2. walk[k + 1] = Onward(walk[k])
    BY <1>8, <2>1
  <2>3. walk[k] \in I /\ Progress(c, st, walk[k], offset, k)
    BY <1>10, <2>1
  <2> QED BY <1>1, <2>2, <2>3
<1> HIDE DEF N
<1>11. n \in N
  BY <1>0, <1>9, <1>10, NatSetInduction
<1>12. walk[n] \in I /\ Progress(c, st, walk[n], offset, n)
  BY <1>0, <1>11 DEF N
<1>13. ItOK(c, st, walk[n]) /\ msg_offset(walk[n]) <= offset
  BY <1>12 DEF I
<1> QED BY <1>7, <1>12, <1>13, ProgressEnds DEF n

-----------------------------------------------------------------------------
(* Slices.                                                                 *)

SliceRec == [part : Nat, at : Nat, len : Nat]

(* Where the k-th of the slices that end at `to' starts in the message.    *)
Place(st, out, to, k) ==
    IF k <= Len(out) THEN st[out[k].part] + out[k].at ELSE to

(* Slices that follow each other, from byte `from' of the message to `to'. *)
Run(c, st, out, from, to) ==
    /\ out \in Seq(SliceRec)
    /\ \A k \in 1 .. Len(out) : /\ out[k].part \in 1 .. Len(c)
                                /\ out[k].at + out[k].len <= c[out[k].part]
                                /\ Place(st, out, to, k + 1) =
                                     Place(st, out, to, k) + out[k].len
    /\ Place(st, out, to, 1) = from

(* One more.                                                               *)
LEMMA RunAppend ==
    ASSUME NEW c, NEW st, Layout(c, st), NEW out, NEW from, NEW to \in Nat,
           Run(c, st, out, from, to), NEW s \in SliceRec,
           s.part \in 1 .. Len(c), s.at + s.len <= c[s.part], st[s.part] + s.at = to
    PROVE  Run(c, st, Append(out, s), from, to + s.len)
<1> DEFINE o == Append(out, s)
           n == Len(out)
<1>1. /\ o \in Seq(SliceRec) /\ Len(o) = n + 1 /\ n \in Nat
      /\ \A k \in 1 .. n : o[k] = out[k]
      /\ o[n + 1] = s
  BY DEF Run
<1> HIDE DEF o, n
<1>2. \A k \in 1 .. n : Place(st, o, to + s.len, k) = Place(st, out, to, k)
  BY <1>1 DEF Place, n
<1>3. Place(st, o, to + s.len, n + 1) = to /\ Place(st, out, to, n + 1) = to
  BY <1>1 DEF Place, n
<1>4. Place(st, o, to + s.len, (n + 1) + 1) = to + s.len
  BY <1>1 DEF Place, n
<1>5. \A k \in 1 .. n + 1 : Place(st, o, to + s.len, k) = Place(st, out, to, k)
  <2>1. \A k \in 1 .. n + 1 : k \in 1 .. n \/ k = n + 1
    BY <1>1
  <2> QED BY <1>2, <1>3, <2>1
<1>6. ASSUME NEW k \in 1 .. n
      PROVE  /\ o[k].part \in 1 .. Len(c) /\ o[k].at + o[k].len <= c[o[k].part]
             /\ Place(st, o, to + s.len, k + 1) = Place(st, o, to + s.len, k) + o[k].len
  <2>1. k \in 1 .. n + 1 /\ k + 1 \in 1 .. n + 1
    BY <1>1
  <2> QED BY <1>1, <1>5, <2>1 DEF Run, n
<1>7. /\ o[n + 1].part \in 1 .. Len(c) /\ o[n + 1].at + o[n + 1].len <= c[o[n + 1].part]
      /\ Place(st, o, to + s.len, (n + 1) + 1) =
           Place(st, o, to + s.len, n + 1) + o[n + 1].len
  BY <1>1, <1>3, <1>4
<1>8. \A k \in 1 .. n + 1 : k \in 1 .. n \/ k = n + 1
  BY <1>1
<1>9. Place(st, o, to + s.len, 1) = from
  <2>1. 1 \in 1 .. n + 1
    BY <1>1
  <2> QED BY <1>5, <2>1 DEF Run
<1>10. Run(c, st, o, from, to + s.len)
  BY <1>1, <1>6, <1>7, <1>8, <1>9 DEF Run
<1> QED BY <1>10 DEF o

(* The slices are the bytes from the offset on, as far as the message      *)
(* goes, and what that is short of is known.                               *)
SlicesOK(c, st, offset, size, w) ==
    LET total == st[Len(c) + 1]
        from == Clip(offset, total)
        to == Clip(from + size, total)
    IN  Run(c, st, w.out, from, to) /\ w.left = size - (to - from)

(* That is what the loop ends with.                                        *)
LEMMA SlicesFacts ==
    ASSUME NEW c, NEW st, Layout(c, st), NEW offset \in Nat, NEW size \in Nat
    PROVE  SlicesOK(c, st, offset, size, Slices(c, offset, size))
<1> DEFINE n == Len(c) + 1
           from == Clip(offset, st[n])
           to == Clip(from + size, st[n])
           first == [it |-> skip_to(c, offset), left |-> size, out |-> <<>>]
           goal == from + size
           W == [it : [i : Nat, base : Nat, off : Nat], left : Nat, out : Seq(SliceRec)]
           I == {w \in W : /\ ItOK(c, st, w.it)
                           /\ msg_offset(w.it) = goal - w.left
                           /\ Run(c, st, w.out, from, msg_offset(w.it))}
           With(w, x) == IF w.left = 0 \/ x.slice.len = 0 THEN w
                         ELSE [it |-> x.it, left |-> w.left - x.slice.len,
                               out |-> Append(w.out, x.slice)]
           Onward(w) == With(w, next(c, w.it, w.left))
           g == [k \in Nat |-> [w \in I |-> Onward(w)]]
           Walk(f) == f = [k \in 0 .. n |-> IF k = 0 THEN first ELSE Onward(f[k - 1])]
           walk == CHOOSE f : Walk(f)
<1>0. n \in Nat /\ st[n] \in Nat /\ from \in Nat /\ goal \in Nat
  BY LayoutFacts DEF Clip
<1> HIDE DEF from, to
<1>1. ASSUME NEW w \in I
      PROVE  /\ Onward(w) \in I
             /\ \A k \in Nat : Progress(c, st, w.it, goal, k) =>
                                   Progress(c, st, Onward(w).it, goal, k + 1)
  <2>1. /\ w \in W /\ w.left \in Nat /\ w.out \in Seq(SliceRec)
        /\ ItOK(c, st, w.it) /\ msg_offset(w.it) = goal - w.left
        /\ Run(c, st, w.out, from, msg_offset(w.it))
        /\ msg_offset(w.it) \in Nat
    BY ItWithin
  <2> HIDE DEF goal
  <2> DEFINE x == next(c, w.it, w.left)
             r == x.it
             s == x.slice
  <2>2. NextOK(c, st, w.it, w.left, r, s)
    BY <2>1, NextFacts
  <2>3. w.left = goal - msg_offset(w.it) /\ msg_offset(w.it) <= goal
    BY <1>0, <2>1
  <2>4. Onward(w) = IF w.left = 0 \/ s.len = 0 THEN w
                    ELSE [it |-> r, left |-> w.left - s.len, out |-> Append(w.out, s)]
    OBVIOUS
  <2> HIDE DEF x, r, s, Onward
  <2>5. CASE w.left = 0 \/ s.len = 0
    <3>1. Onward(w) = w
      BY <2>4, <2>5
    <3>2. msg_offset(w.it) = goal \/ msg_offset(w.it) = st[n]
      <4>1. CASE w.left = 0
        BY <1>0, <2>1, <4>1
      <4>2. CASE s.len = 0 /\ w.left # 0
        BY <2>2, <4>2 DEF NextOK
      <4> QED BY <2>5, <4>1, <4>2
    <3> QED BY <3>1, <3>2 DEF Progress
  <2>6. CASE ~ (w.left = 0 \/ s.len = 0)
    <3> DEFINE v == [it |-> r, left |-> w.left - s.len, out |-> Append(w.out, s)]
    <3>1. Onward(w) = v
      BY <2>4, <2>6
    <3>2. /\ s \in SliceRec /\ s.len \in Nat /\ s.len <= w.left
          /\ msg_offset(r) = msg_offset(w.it) + s.len
          /\ ItOK(c, st, r) /\ r \in [i : Nat, base : Nat, off : Nat]
      BY <2>2 DEF NextOK, SliceRec, ItOK
    <3>3. s.part # 0
      BY <2>2, <2>6 DEF NextOK, NoSlice, Slice
    <3>4. /\ s.part \in 1 .. Len(c) /\ s.at + s.len <= c[s.part]
          /\ st[s.part] + s.at = msg_offset(w.it)
      BY <2>2, <3>3 DEF NextOK
    <3>5. Run(c, st, Append(w.out, s), from, msg_offset(w.it) + s.len)
      BY <2>1, <3>2, <3>4, RunAppend
    <3>6. v.it = r /\ v.left = w.left - s.len /\ v.out = Append(w.out, s)
      OBVIOUS
    <3>7. v \in W
      <4>1. Append(w.out, s) \in Seq(SliceRec)
        BY <2>1, <3>2
      <4>2. w.left - s.len \in Nat
        BY <2>1, <3>2
      <4> QED BY <3>2, <4>1, <4>2
    <3>8. msg_offset(r) = goal - (w.left - s.len)
      BY <1>0, <2>1, <3>2
    <3>9. \A k \in Nat : Progress(c, st, w.it, goal, k) =>
              Progress(c, st, r, goal, k + 1)
      <4>1. NextOK(c, st, w.it, goal - msg_offset(w.it), r, s)
        BY <2>2, <2>3
      <4> HIDE DEF goal
      <4> QED BY <1>0, <2>1, <2>3, <4>1, NextProgress
    <3> HIDE DEF v
    <3>10. v \in I
      BY <3>2, <3>5, <3>6, <3>7, <3>8
    <3> QED BY <3>1, <3>6, <3>9, <3>10
  <2> QED BY <2>5, <2>6
<1>2. first \in I
  <2>1. ItOK(c, st, first.it) /\ msg_offset(first.it) = from
    BY SkipToFacts DEF from
  <2>2. first.left = size /\ first.out = <<>>
    OBVIOUS
  <2>3. first.it \in [i : Nat, base : Nat, off : Nat]
    BY <2>1 DEF ItOK
  <2>4. <<>> \in Seq(SliceRec) /\ Len(<<>>) = 0
    BY EmptySeq
  <2>5. first \in W
    BY <2>3, <2>4
  <2>6. Run(c, st, <<>>, from, from)
    BY <2>4 DEF Run, Place
  <2>7. from = goal - size
    BY <1>0
  <2> HIDE DEF first, W, goal
  <2> QED BY <2>1, <2>2, <2>5, <2>6, <2>7
<1> HIDE DEF I, Onward, first, goal, W
<1>3. g \in [Nat -> [I -> I]]
  BY <1>1
<1>4. PICK f : Rounds(f, I, first, g, n)
  <2>1. n \in Nat
    BY <1>0
  <2> HIDE DEF g, n
  <2> QED BY <2>1, <1>2, <1>3, RoundsExist
<1>5. Walk(f)
  <2>1. ASSUME NEW k \in 0 .. n PROVE f[k] = IF k = 0 THEN first ELSE Onward(f[k - 1])
    <3>1. CASE k = 0
      BY <1>4, <3>1 DEF Rounds
    <3>2. CASE k # 0
      <4>1. k \in 1 .. n /\ k - 1 \in 0 .. n /\ k \in Nat
        BY <1>0, <3>2
      <4>2. f[k - 1] \in I /\ f[k] = g[k][f[k - 1]]
        BY <1>4, <4>1 DEF Rounds
      <4> QED BY <3>2, <4>1, <4>2
    <3> QED BY <3>1, <3>2
  <2> QED BY <1>4, <2>1 DEF Rounds
<1>6. Walk(walk)
  BY <1>5, Zenon
<1>7. Slices(c, offset, size) = walk[n]
  BY DEF Slices, Onward, first
<1> HIDE DEF walk
<1>8. \A k \in 0 .. n : walk[k] = IF k = 0 THEN first ELSE Onward(walk[k - 1])
  BY <1>6
<1> DEFINE N == {k \in Nat : k <= n => walk[k] \in I /\ Progress(c, st, walk[k].it, goal, k)}
<1> HIDE DEF n, goal
<1>9. 0 \in N
  <2>1. walk[0] = first
    BY <1>0, <1>8
  <2>2. first.it.i \in Nat
    BY <1>2 DEF I, ItOK
  <2>3. Progress(c, st, first.it, goal, 0)
    BY <2>2 DEF Progress
  <2> QED BY <1>2, <2>1, <2>3
<1>10. ASSUME NEW k \in Nat, k \in N PROVE k + 1 \in N
  <2> SUFFICES ASSUME k + 1 <= n
               PROVE  walk[k + 1] \in I /\ Progress(c, st, walk[k + 1].it, goal, k + 1)
    OBVIOUS
  <2>1. k + 1 \in 0 .. n /\ k + 1 # 0 /\ (k + 1) - 1 = k /\ k <= n
    BY <1>0
  <2>2. walk[k + 1] = Onward(walk[k])
    BY <1>8, <2>1
  <2>3. walk[k] \in I /\ Progress(c, st, walk[k].it, goal, k)
    BY <1>10, <2>1
  <2> QED BY <1>1, <2>2, <2>3
<1> HIDE DEF N
<1>11. n \in N
  BY <1>0, <1>9, <1>10, NatSetInduction
<1> DEFINE e == walk[n]
<1>12. e \in I /\ Progress(c, st, e.it, goal, n)
  BY <1>0, <1>11 DEF N
<1> HIDE DEF e
<1>13. /\ ItOK(c, st, e.it) /\ msg_offset(e.it) = goal - e.left /\ e.left \in Nat
       /\ Run(c, st, e.out, from, msg_offset(e.it))
  BY <1>12 DEF I, W
<1>14. msg_offset(e.it) <= goal
  BY <1>0, <1>13
<1>15. msg_offset(e.it) = to
  <2>1. msg_offset(e.it) = Clip(goal, st[n])
    BY <1>0, <1>12, <1>13, <1>14, ProgressEnds DEF n
  <2> QED BY <2>1 DEF goal, n, to
<1>16. e.left = size - (to - from)
  <2>1. to \in Nat /\ goal = from + size
    BY <1>0 DEF goal, n, Clip, to
  <2>2. to = goal - e.left /\ e.left \in Nat
    BY <1>13, <1>15
  <2> QED BY <1>0, <2>1, <2>2
<1>17. Slices(c, offset, size) = e
  BY <1>7 DEF e
<1> QED BY <1>13, <1>15, <1>16, <1>17 DEF SlicesOK, from, to, n

(* A piece of a piece of a sequence.                                       *)
LEMMA PieceOfPiece ==
    ASSUME NEW S, NEW p \in Seq(S), NEW flat \in Seq(S),
           NEW a \in Nat, NEW b \in Nat, NEW l \in Nat,
           a + l <= Len(p), b + Len(p) <= Len(flat),
           \A j \in 1 .. Len(p) : flat[b + j] = p[j]
    PROVE  /\ SubSeq(p, a + 1, a + l) \in Seq(S)
           /\ SubSeq(p, a + 1, a + l) = SubSeq(flat, (b + a) + 1, (b + a) + l)
           /\ b + a \in Nat /\ (b + a) + l <= Len(flat)
<1> DEFINE x == SubSeq(p, a + 1, a + l)
           y == SubSeq(flat, (b + a) + 1, (b + a) + l)
<1>1. Len(p) \in Nat /\ Len(flat) \in Nat
  OBVIOUS
<1>2. \A i \in a + 1 .. a + l : i \in 1 .. Len(p) /\ p[i] \in S
  BY <1>1
<1>3. \A i \in (b + a) + 1 .. (b + a) + l : i \in 1 .. Len(flat) /\ flat[i] \in S
  BY <1>1
<1>4. x \in Seq(S) /\ Len(x) = l /\ \A i \in 1 .. l : x[i] = p[a + i]
  BY <1>1, <1>2
<1>5. y \in Seq(S) /\ Len(y) = l /\ \A i \in 1 .. l : y[i] = flat[(b + a) + i]
  BY <1>1, <1>3
<1>6. ASSUME NEW i \in 1 .. l PROVE p[a + i] = flat[(b + a) + i]
  <2>1. a + i \in 1 .. Len(p) /\ b + (a + i) = (b + a) + i
    BY <1>1
  <2> QED BY <2>1
<1> HIDE DEF x, y
<1>7. x = y
  <2>1. x \in Seq(S) /\ y \in Seq(S) /\ Len(x) = Len(y)
    BY <1>4, <1>5
  <2>2. \A i \in 1 .. Len(x) : x[i] = y[i]
    BY <1>4, <1>5, <1>6
  <2> QED BY <2>1, <2>2, SeqEqual
<1>8. b + a \in Nat /\ (b + a) + l <= Len(flat)
  BY <1>1
<1> QED BY <1>4, <1>7, <1>8 DEF x, y

(* The bytes of a slice are those at its place in the message.             *)
SliceIs(S, area, st, part, at, len) ==
    /\ st[part] + at \in Nat
    /\ (st[part] + at) + len <= Len(FlattenSeq(area))
    /\ SubSeq(area[part], at + 1, at + len) \in Seq(S)
    /\ SubSeq(area[part], at + 1, at + len) =
         SubSeq(FlattenSeq(area), (st[part] + at) + 1, (st[part] + at) + len)

(* That holds of every slice of a part.                                    *)
LEMMA SliceBytes ==
    ASSUME NEW S, NEW area \in Seq(Seq(S)), NEW st, Layout(Chunks(area), st),
           NEW part \in 1 .. Len(area), NEW at \in Nat, NEW len \in Nat,
           at + len <= Len(area[part])
    PROVE  SliceIs(S, area, st, part, at, len)
<1> DEFINE flat == FlattenSeq(area)
           p == area[part]
           b == st[part]
<1>1. /\ Len(area) \in Nat /\ p \in Seq(S) /\ Len(p) \in Nat
      /\ Len(Chunks(area)) = Len(area) /\ Chunks(area)[part] = Len(p)
  BY ChunksFacts
<1>2. /\ flat \in Seq(S) /\ Len(flat) = st[Len(area) + 1]
      /\ \A j \in 1 .. Len(p) : flat[b + j] = p[j]
  BY FlatBytes DEF FlatIs
<1>3. b \in Nat /\ b + Len(p) <= Len(flat)
  <2>1. b \in Nat /\ st[part + 1] = b + Len(p)
    BY <1>1, LayoutFacts
  <2>2. part + 1 \in 1 .. Len(area) + 1 /\ Len(area) + 1 \in 1 .. Len(area) + 1
        /\ part + 1 <= Len(area) + 1
    BY <1>1
  <2>3. st[part + 1] <= st[Len(area) + 1]
    BY <1>1, <2>2, StartsInOrder
  <2> QED BY <1>2, <2>1, <2>3
<1> HIDE DEF flat, p, b
<1>4. /\ SubSeq(p, at + 1, at + len) \in Seq(S)
      /\ SubSeq(p, at + 1, at + len) = SubSeq(flat, (b + at) + 1, (b + at) + len)
      /\ b + at \in Nat /\ (b + at) + len <= Len(flat)
  BY <1>1, <1>2, <1>3, PieceOfPiece DEF p
<1> QED BY <1>4 DEF flat, p, b, SliceIs

(* What the slices of a run hold, taken together.                          *)
RunIs(S, area, out, from, to) ==
    /\ [k \in 1 .. Len(out) |-> Bytes(area, out[k])] \in Seq(Seq(S))
    /\ to \in from .. Len(FlattenSeq(area))
    /\ FlattenSeq([k \in 1 .. Len(out) |-> Bytes(area, out[k])]) =
         SubSeq(FlattenSeq(area), from + 1, to)

(* That is the bytes of the message between their ends.                    *)
LEMMA RunBytes ==
    ASSUME NEW S, NEW area \in Seq(Seq(S)), NEW st, Layout(Chunks(area), st),
           NEW out, NEW from \in Nat, NEW to \in Nat,
           Run(Chunks(area), st, out, from, to), from <= Len(FlattenSeq(area))
    PROVE  RunIs(S, area, out, from, to)
<1> DEFINE flat == FlattenSeq(area)
           n == Len(out)
           ps == [k \in 1 .. n |-> Bytes(area, out[k])]
           P(k) == Place(st, out, to, k + 1)
           Pre(k) == FlattenSeq(SubSeq(ps, 1, k))
           F(k) == P(k) \in from .. Len(flat) /\ Pre(k) = SubSeq(flat, from + 1, P(k))
           N == {k \in Nat : k <= n => F(k)}
<1>1. /\ n \in Nat /\ \A k \in 1 .. n : out[k] \in SliceRec
      /\ \A k \in 1 .. n : /\ out[k].part \in 1 .. Len(Chunks(area))
                           /\ out[k].at + out[k].len <= Chunks(area)[out[k].part]
                           /\ Place(st, out, to, k + 1) = Place(st, out, to, k) + out[k].len
      /\ Place(st, out, to, 1) = from
  BY DEF Run
<1>2. flat \in Seq(S) /\ Len(flat) \in Nat
  BY FlattenType
<1>3. ASSUME NEW k \in 1 .. n
      PROVE  /\ Place(st, out, to, k) \in Nat /\ out[k].len \in Nat
             /\ Place(st, out, to, k) + out[k].len <= Len(flat)
             /\ Bytes(area, out[k]) \in Seq(S)
             /\ Bytes(area, out[k]) = SubSeq(flat, Place(st, out, to, k) + 1,
                                             Place(st, out, to, k) + out[k].len)
  <2>1. /\ out[k] \in SliceRec /\ out[k].part \in 1 .. Len(area)
        /\ out[k].at + out[k].len <= Len(area[out[k].part])
    <3>1. /\ out[k] \in SliceRec /\ out[k].part \in 1 .. Len(Chunks(area))
          /\ out[k].at + out[k].len <= Chunks(area)[out[k].part]
      BY <1>1
    <3>2. /\ Len(Chunks(area)) = Len(area)
          /\ \A j \in 1 .. Len(area) : Chunks(area)[j] = Len(area[j])
      BY ChunksFacts
    <3> QED BY <3>1, <3>2
  <2>2. Place(st, out, to, k) = st[out[k].part] + out[k].at
    BY <1>1 DEF Place
  <2>3. out[k].len \in Nat
    BY <2>1 DEF SliceRec
  <2> DEFINE part == out[k].part
             at == out[k].at
             len == out[k].len
  <2>4. /\ part \in 1 .. Len(area) /\ at \in Nat /\ len \in Nat
        /\ at + len <= Len(area[part])
    BY <2>1 DEF SliceRec
  <2>5. Bytes(area, out[k]) = SubSeq(area[part], at + 1, at + len)
    BY DEF Bytes
  <2>6. Place(st, out, to, k) = st[part] + at
    BY <2>2
  <2> HIDE DEF part, at, len
  <2>7. SliceIs(S, area, st, part, at, len)
    BY <2>4, SliceBytes
  <2>8. out[k].len = len
    BY DEF len
  <2> QED BY <2>4, <2>5, <2>6, <2>7, <2>8 DEF SliceIs
<1>4. ps \in Seq(Seq(S)) /\ Len(ps) = n
  BY <1>1, <1>3
<1> HIDE DEF flat, n
<1>5. 0 \in N
  <2>1. SubSeq(ps, 1, 0) = <<>> /\ SubSeq(flat, from + 1, from) = <<>>
    BY SubSeqEmpty
  <2>2. Pre(0) = <<>>
    BY <2>1, FlattenEmpty, Zenon
  <2>3. P(0) = from /\ P(0) \in from .. Len(flat)
    BY <1>1, <1>2 DEF flat
  <2> HIDE DEF P, Pre
  <2> QED BY <2>1, <2>2, <2>3
<1>6. ASSUME NEW k \in Nat, k \in N PROVE k + 1 \in N
  <2> SUFFICES ASSUME k + 1 <= n PROVE F(k + 1)
    <3> HIDE DEF F
    <3> QED OBVIOUS
  <2>1. k + 1 \in 1 .. n /\ k <= n
    BY <1>1
  <2>2. F(k)
    <3> HIDE DEF F
    <3> QED BY <1>6, <2>1
  <2> DEFINE b == ps[k + 1]
             l == out[k + 1].len
  <2>3. Pre(k + 1) = Pre(k) \o b
    <3>1. SubSeq(ps, 1, k + 1) = Append(SubSeq(ps, 1, k), b)
      <4> HIDE DEF ps
      <4> QED BY <1>4, <2>1
    <3>2. SubSeq(ps, 1, k) \in Seq(Seq(S)) /\ b \in Seq(S)
      <4> HIDE DEF ps
      <4> QED BY <1>4, <2>1
    <3> HIDE DEF ps, b
    <3> QED BY <3>1, <3>2, FlattenAppend
  <2>4. /\ P(k) \in Nat /\ l \in Nat /\ P(k) + l <= Len(flat)
        /\ b = SubSeq(flat, P(k) + 1, P(k) + l) /\ P(k + 1) = P(k) + l
    BY <1>1, <1>3, <2>1
  <2>5. P(k) \in from .. Len(flat) /\ Pre(k) = SubSeq(flat, from + 1, P(k))
    BY <2>2
  <2> HIDE DEF P, Pre, ps, b, l
  <2>6. /\ from + 1 \in 1 .. Len(flat) + 1 /\ P(k) \in (from + 1) - 1 .. Len(flat)
        /\ P(k) + l \in P(k) .. Len(flat)
    BY <1>2, <2>4, <2>5
  <2>7. SubSeq(flat, from + 1, P(k)) \o SubSeq(flat, P(k) + 1, P(k) + l) =
            SubSeq(flat, from + 1, P(k) + l)
    BY <1>2, <2>6, ConcatAdjacentSubSeq
  <2>8. P(k + 1) \in from .. Len(flat)
    BY <1>2, <2>4, <2>5
  <2> QED BY <2>3, <2>4, <2>5, <2>7, <2>8
<1> HIDE DEF N
<1>7. n \in N
  BY <1>1, <1>5, <1>6, NatSetInduction
<1>8. F(n)
  BY <1>1, <1>7 DEF N
<1>9. P(n) = to
  BY <1>1 DEF Place, n
<1>10. Pre(n) = FlattenSeq(ps)
  BY <1>4, SubSeqFull
<1> QED BY <1>4, <1>8, <1>9, <1>10 DEF n, flat, RunIs

(* A message with data from byte `from' on, `len' bytes of it.             *)
Patched(flat, from, len, d) ==
    [m \in 1 .. Len(flat) |-> IF m \in from + 1 .. from + len THEN d[m - from]
                              ELSE flat[m]]

(* What storing does to the message: the bytes of the slice are replaced   *)
(* by those of the data from index `at' on, `n' of them.                   *)
StoresAt(S, area, new, st, pos, d, at, n) ==
    /\ new \in Seq(Seq(S)) /\ Chunks(new) = Chunks(area)
    /\ FlattenSeq(new) \in Seq(S) /\ Len(FlattenSeq(new)) = Len(FlattenSeq(area))
    /\ \A m \in 1 .. Len(FlattenSeq(area)) :
          FlattenSeq(new)[m] = IF m \in pos + 1 .. pos + n THEN d[at + (m - pos)]
                               ELSE FlattenSeq(area)[m]

(* A message with n bytes of a part replaced.                              *)
Replaced(area, new, part, off, d, at, n) ==
    /\ at + n <= Len(d) /\ off + n <= Len(area[part])
    /\ new = [k \in DOMAIN area |-> new[k]]
    /\ \A k \in DOMAIN area : k # part => new[k] = area[k]
    /\ new[part] = [j \in DOMAIN area[part] |->
                       IF j \in off + 1 .. off + n THEN d[at + (j - off)]
                       ELSE area[part][j]]

(* Bytes that replace those of one part replace them in the message.       *)
LEMMA PartReplaced ==
    ASSUME NEW S, NEW area \in Seq(Seq(S)), NEW st, Layout(Chunks(area), st),
           NEW d \in Seq(S), NEW at \in Nat, NEW n \in Nat,
           NEW part \in 1 .. Len(area), NEW off \in Nat,
           NEW new, Replaced(area, new, part, off, d, at, n)
    PROVE  StoresAt(S, area, new, st, st[part] + off, d, at, n)
<1> DEFINE c == Chunks(area)
           L == Len(area)
           old == area[part]
           pos == st[part] + off
           flat == FlattenSeq(area)
           nflat == FlattenSeq(new)
<1>0. at + n <= Len(d) /\ off + n <= Len(old) /\ Len(d) \in Nat
  BY DEF Replaced
<1>1. /\ L \in Nat /\ DOMAIN area = 1 .. L /\ c \in Seq(Nat) /\ Len(c) = L
      /\ \A k \in 1 .. L : area[k] \in Seq(S) /\ Len(area[k]) \in Nat /\ c[k] = Len(area[k])
  BY ChunksFacts
<1>2. /\ old \in Seq(S) /\ Len(old) \in Nat /\ DOMAIN old = 1 .. Len(old)
      /\ \A j \in 1 .. Len(old) : old[j] \in S
  BY <1>1
<1>3. new[part] \in Seq(S) /\ Len(new[part]) = Len(old)
  <2>1. ASSUME NEW j \in 1 .. Len(old)
        PROVE  (IF j \in off + 1 .. off + n THEN d[at + (j - off)] ELSE old[j]) \in S
    <3>1. CASE j \in off + 1 .. off + n
      <4>1. at + (j - off) \in 1 .. Len(d)
        BY <3>1, <1>0
      <4> QED BY <3>1, <4>1
    <3>2. CASE ~ (j \in off + 1 .. off + n)
      BY <1>2, <3>2
    <3> QED BY <3>1, <3>2
  <2>2. new[part] = [j \in 1 .. Len(old) |->
                        IF j \in off + 1 .. off + n THEN d[at + (j - off)] ELSE old[j]]
    BY <1>2 DEF Replaced
  <2> QED BY <1>2, <2>1, <2>2
<1>4. \A k \in 1 .. L : new[k] \in Seq(S) /\ Len(new[k]) = Len(area[k])
  BY <1>1, <1>3 DEF Replaced
<1>5. new \in Seq(Seq(S)) /\ Len(new) = L
  <2>1. new = [k \in 1 .. L |-> new[k]]
    BY <1>1 DEF Replaced
  <2> QED BY <1>1, <1>4, <2>1
<1>6. Chunks(new) = c
  BY <1>1, <1>4, <1>5 DEF Chunks
<1>7. /\ flat \in Seq(S) /\ Len(flat) = st[L + 1]
      /\ \A k \in 1 .. L : \A j \in 1 .. Len(area[k]) : flat[st[k] + j] = area[k][j]
  BY FlatBytes DEF FlatIs
<1>8. /\ nflat \in Seq(S) /\ Len(nflat) = st[L + 1]
      /\ \A k \in 1 .. L : \A j \in 1 .. Len(area[k]) : nflat[st[k] + j] = new[k][j]
  <2>1. Layout(Chunks(new), st)
    BY <1>6
  <2>2. /\ nflat \in Seq(S) /\ Len(nflat) = st[Len(new) + 1]
        /\ \A k \in 1 .. Len(new) : \A j \in 1 .. Len(new[k]) : nflat[st[k] + j] = new[k][j]
    <3>1. FlatIs(S, new, st)
      BY <1>5, <2>1, FlatBytes
    <3> QED BY <3>1 DEF FlatIs
  <2> QED BY <1>4, <1>5, <2>2
<1>9. /\ \A k \in 1 .. L + 1 : st[k] \in Nat
      /\ \A k \in 1 .. L : st[k + 1] = st[k] + Len(area[k])
  <2>1. Layout(c, st)
    OBVIOUS
  <2> HIDE DEF c, L
  <2>2. /\ \A k \in 1 .. Len(c) + 1 : st[k] \in Nat
        /\ \A k \in 1 .. Len(c) : st[k + 1] = st[k] + c[k]
    BY <2>1, LayoutFacts
  <2> QED BY <1>1, <2>2 DEF L
<1>10. \A i, j \in 1 .. L + 1 : i <= j => st[i] <= st[j]
  BY <1>1, StartsInOrder
<1>11. part \in 1 .. L + 1 /\ part + 1 \in 1 .. L + 1 /\ st[part] \in Nat /\ pos \in Nat
  BY <1>1, <1>9, SMTT(30)
<1> HIDE DEF flat, nflat, c, L, pos, old
<1>12. ASSUME NEW m \in 1 .. Len(flat)
       PROVE  nflat[m] = IF m \in pos + 1 .. pos + n THEN d[at + (m - pos)] ELSE flat[m]
  <2>1. PICK k \in 1 .. L : InPart(c, st, k, m)
    <3>1. m \in 1 .. st[Len(c) + 1]
      BY <1>1, <1>7
    <3>2. Layout(c, st)
      BY DEF c
    <3>3. \E k \in 1 .. Len(c) : InPart(c, st, k, m)
      BY <3>1, <3>2, PartOfByte
    <3> QED BY <1>1, <3>3
  <2>2. PICK j \in 1 .. Len(area[k]) : m = st[k] + j
    BY <1>1, <2>1 DEF InPart
  <2> DEFINE b == st[k]
             e == st[part]
             l == Len(area[k])
             lo == Len(old)
  <2>3. /\ nflat[m] = new[k][j] /\ flat[m] = area[k][j]
        /\ st[k] \in Nat /\ j \in Nat /\ k \in 1 .. L + 1 /\ k + 1 \in 1 .. L + 1
        /\ k \in Nat /\ Len(area[k]) \in Nat
    <3>1. nflat[m] = new[k][j] /\ flat[m] = area[k][j]
      BY <1>7, <1>8, <2>2
    <3>2. L \in Nat /\ k \in Nat /\ k \in 1 .. L + 1 /\ k + 1 \in 1 .. L + 1
      BY <1>1
    <3>3. st[k] \in Nat
      BY <1>9, <3>2
    <3>4. Len(area[k]) \in Nat /\ j \in Nat
      BY <1>1, <2>2
    <3> QED BY <3>1, <3>2, <3>3, <3>4
  <2>a. /\ b \in Nat /\ e \in Nat /\ m = b + j /\ pos = e + off /\ m \in Nat
        /\ l \in Nat /\ j \in Nat /\ j >= 1 /\ j <= l
        /\ lo \in Nat /\ off + n <= lo
    <3>1. lo \in Nat /\ off + n <= lo
      BY <1>0, <1>2
    <3>2. b \in Nat /\ m = b + j /\ l \in Nat /\ j \in Nat
      BY <2>2, <2>3
    <3>3. j >= 1 /\ j <= l
      BY <2>2, <2>3
    <3>4. e \in Nat /\ pos = e + off
      BY <1>11 DEF pos
    <3>5. m \in Nat
      BY <3>2
    <3> QED BY <3>1, <3>2, <3>3, <3>4, <3>5
  <2>4. CASE k = part
    <3>1. j \in 1 .. Len(old) /\ pos = b + off /\ old = area[k]
      BY <2>2, <2>4 DEF pos, old
    <3>2. new[k][j] = IF j \in off + 1 .. off + n THEN d[at + (j - off)] ELSE old[j]
      BY <1>2, <2>4, <3>1 DEF Replaced
    <3> HIDE DEF b, e, l, lo
    <3>3. (j \in off + 1 .. off + n) <=> (m \in pos + 1 .. pos + n)
      BY <2>a, <3>1
    <3>4. at + (j - off) = at + (m - pos)
      BY <2>a, <3>1
    <3>5. CASE m \in pos + 1 .. pos + n
      BY <2>3, <3>2, <3>3, <3>4, <3>5
    <3>6. CASE m \notin pos + 1 .. pos + n
      BY <2>3, <3>1, <3>2, <3>3, <3>6
    <3> QED BY <3>5, <3>6
  <2>5. CASE k # part
    <3>1. nflat[m] = flat[m]
      BY <1>1, <2>3, <2>5 DEF Replaced
    <3>2. m \notin pos + 1 .. pos + n
      <4>1. CASE k < part
        <5>1. k + 1 <= part
          BY <2>3, <4>1
        <5>2. st[k + 1] <= st[part]
          BY <1>10, <1>11, <2>3, <5>1
        <5>3. st[k + 1] = st[k] + Len(area[k])
          BY <1>9
        <5>4. b + l <= e
          BY <5>2, <5>3
        <5> HIDE DEF b, e, l, lo
        <5> QED BY <2>a, <5>4
      <4>2. CASE k > part
        <5>1. part + 1 <= k
          BY <2>3, <4>2
        <5>2. st[part + 1] <= st[k]
          BY <1>10, <1>11, <2>3, <5>1
        <5>3. st[part + 1] = st[part] + Len(old)
          BY <1>9 DEF L, old
        <5>4. e + lo <= b
          BY <5>2, <5>3
        <5> HIDE DEF b, e, l, lo
        <5> QED BY <2>a, <5>4
      <4>3. k < part \/ k > part
        BY <2>3, <2>5
      <4> QED BY <4>1, <4>2, <4>3
    <3> QED BY <3>1, <3>2
  <2> QED BY <2>4, <2>5
<1> QED BY <1>5, <1>6, <1>7, <1>8, <1>12 DEF StoresAt, flat, nflat, c, pos

(* A slice is stored to.                                                   *)
LEMMA StoredFacts ==
    ASSUME NEW S, NEW area \in Seq(Seq(S)), NEW st, Layout(Chunks(area), st),
           NEW d \in Seq(S), NEW at \in Nat, at <= Len(d),
           NEW s \in SliceRec, s.part \in 1 .. Len(area),
           s.at + s.len <= Len(area[s.part])
    PROVE  StoresAt(S, area, Stored(area, s, d, at), st, st[s.part] + s.at, d, at,
                    Clip(s.len, Len(d) - at))
<1> DEFINE part == s.part
           off == s.at
           len == s.len
           n == Clip(len, Len(d) - at)
           new == Stored(area, s, d, at)
<1>1. /\ part \in 1 .. Len(area) /\ off \in Nat /\ len \in Nat
      /\ off + len <= Len(area[part])
  BY DEF SliceRec
<1>2. Len(d) \in Nat /\ Len(area[part]) \in Nat /\ DOMAIN area = 1 .. Len(area)
  BY ChunksFacts
<1>3. new = [area EXCEPT ![part] =
                [k \in DOMAIN area[part] |->
                    IF k \in off + 1 .. off + Min({len, Len(d) - at})
                    THEN d[at + (k - off)] ELSE area[part][k]]]
  BY DEF Stored
<1> HIDE DEF part, off, len, new
<1>4. Min({len, Len(d) - at}) = n
  <2>1. len \in Int /\ Len(d) - at \in Int
    BY <1>1, <1>2
  <2> QED BY <2>1, MinOfTwo DEF Clip
<1>5. n \in Nat /\ at + n <= Len(d) /\ n <= len
  BY <1>1, <1>2 DEF Clip
<1> HIDE DEF n
<1>6. off + n <= Len(area[part])
  BY <1>1, <1>2, <1>5
<1>7. Replaced(area, new, part, off, d, at, n)
  <2>1. new = [area EXCEPT ![part] = [k \in DOMAIN area[part] |->
                    IF k \in off + 1 .. off + n THEN d[at + (k - off)] ELSE area[part][k]]]
    BY <1>3, <1>4
  <2>2. part \in DOMAIN area
    BY <1>1, <1>2
  <2>3. new[part] = [k \in DOMAIN area[part] |->
                    IF k \in off + 1 .. off + n THEN d[at + (k - off)] ELSE area[part][k]]
    BY <2>1, <2>2
  <2>4. new = [k \in DOMAIN area |-> new[k]] /\ \A k \in DOMAIN area : k # part => new[k] = area[k]
    BY <2>1
  <2> QED BY <1>5, <1>6, <2>3, <2>4 DEF Replaced
<1>8. StoresAt(S, area, new, st, st[part] + off, d, at, n)
  BY <1>1, <1>5, <1>7, PartReplaced
<1> QED BY <1>8 DEF part, off, len, n, new

(* A step from a message with data patched in to one with more of it.      *)
PatchStep(flat, new, old, d, from, pos, len, a, n) ==
    /\ from <= pos /\ Len(new) = Len(flat)
    /\ a = Clip(pos - from, Len(d)) /\ n = Clip(len, Len(d) - a)
    /\ old = Patched(flat, from, a, d)
    /\ \A m \in 1 .. Len(flat) :
          new[m] = IF m \in pos + 1 .. pos + n THEN d[a + (m - pos)] ELSE old[m]

(* The data that is patched in grows by a slice.                           *)
LEMMA PatchGrows ==
    ASSUME NEW S, NEW flat \in Seq(S), NEW new \in Seq(S), NEW old, NEW d \in Seq(S),
           NEW from \in Nat, NEW pos \in Nat, NEW len \in Nat,
           NEW a \in Nat, NEW n \in Nat, PatchStep(flat, new, old, d, from, pos, len, a, n)
    PROVE  new = Patched(flat, from, Clip((pos + len) - from, Len(d)), d)
<1> DEFINE b == Clip((pos + len) - from, Len(d))
<1>1. Len(flat) \in Nat /\ Len(d) \in Nat
  OBVIOUS
<1>2. b \in Nat /\ b = a + n /\ (n > 0 => a = pos - from)
  <2> DEFINE D == Len(d)
  <2>1. D \in Nat /\ from <= pos /\ a = Clip(pos - from, D) /\ n = Clip(len, D - a)
    BY DEF PatchStep
  <2> HIDE DEF D
  <2>2. Clip((pos + len) - from, D) \in Nat /\ Clip((pos + len) - from, D) = a + n
        /\ (n > 0 => a = pos - from)
    BY <2>1 DEF Clip
  <2> QED BY <2>2 DEF D
<1> HIDE DEF b
<1>3. ASSUME NEW m \in 1 .. Len(flat)
      PROVE  new[m] = IF m \in from + 1 .. from + b THEN d[m - from] ELSE flat[m]
  <2>0. m \in Nat
    BY <1>1
  <2>1. old[m] = IF m \in from + 1 .. from + a THEN d[m - from] ELSE flat[m]
    BY DEF Patched, PatchStep
  <2>2. CASE m \in pos + 1 .. pos + n
    <3>1. n > 0
      BY <2>0, <2>2
    <3>2. a + (m - pos) = m - from /\ m \in from + 1 .. from + b
      BY <1>2, <2>0, <2>2, <3>1
    <3> QED BY <2>2, <3>2 DEF PatchStep
  <2>3. CASE m \notin pos + 1 .. pos + n
    <3>1. (m \in from + 1 .. from + a) <=> (m \in from + 1 .. from + b)
      BY <1>2, <2>0, <2>3
    <3> QED BY <2>1, <2>3, <3>1 DEF PatchStep
  <2> QED BY <2>2, <2>3
<1>4. new = [m \in 1 .. Len(flat) |-> IF m \in from + 1 .. from + b THEN d[m - from] ELSE flat[m]]
  <2>1. new = [m \in 1 .. Len(flat) |-> new[m]]
    BY DEF PatchStep
  <2> QED BY <1>3, <2>1
<1> QED BY <1>4 DEF Patched, b

(* Data scattered over a run of slices: the parts keep their lengths, and  *)
(* the message has the data from byte `from' on, as far as it or the run   *)
(* goes.                                                                   *)
ScatterIs(S, area, new, from, to, d) ==
    /\ new \in Seq(Seq(S)) /\ Chunks(new) = Chunks(area)
    /\ FlattenSeq(new) = Patched(FlattenSeq(area), from, Clip(to - from, Len(d)), d)

(* A message with nothing patched in is what it was.                       *)
LEMMA NothingPatched ==
    ASSUME NEW S, NEW flat \in Seq(S), NEW from \in Nat, NEW d
    PROVE  Patched(flat, from, 0, d) = flat
<1>1. \A m \in 1 .. Len(flat) : ~ (m \in from + 1 .. from + 0)
  OBVIOUS
<1>2. flat = [m \in 1 .. Len(flat) |-> flat[m]]
  OBVIOUS
<1> QED BY <1>1, <1>2 DEF Patched

(* That is what Msg::write and the host's readv do.                        *)
LEMMA ScatterFacts ==
    ASSUME NEW S, NEW area \in Seq(Seq(S)), NEW st, Layout(Chunks(area), st),
           NEW out, NEW from \in Nat, NEW to \in Nat,
           Run(Chunks(area), st, out, from, to), from <= Len(FlattenSeq(area)),
           NEW d \in Seq(S)
    PROVE  ScatterIs(S, area, Scatter(area, out, d), from, to, d)
<1> DEFINE c == Chunks(area)
           n == Len(out)
           flat == FlattenSeq(area)
           I == {p \in [area : Seq(Seq(S)), at : Nat] : Chunks(p.area) = c /\ p.at <= Len(d)}
           first == [area |-> area, at |-> 0]
           Onward(p, s) == [area |-> Stored(p.area, s, d, p.at),
                            at |-> Min({p.at + s.len, Len(d)})]
           g == [k \in Nat |-> [p \in I |-> IF k \in 1 .. n THEN Onward(p, out[k]) ELSE p]]
           Walk(f) == f = [k \in 0 .. n |-> IF k = 0 THEN first ELSE Onward(f[k - 1], out[k])]
           put == CHOOSE f : Walk(f)
           P(k) == Place(st, out, to, k + 1)
           F(k) == /\ put[k] \in I
                   /\ P(k) \in Nat /\ P(k) >= from
                   /\ put[k].at = Clip(P(k) - from, Len(d))
                   /\ FlattenSeq(put[k].area) = Patched(flat, from, put[k].at, d)
<1>0. /\ n \in Nat /\ Layout(c, st) /\ Len(d) \in Nat
      /\ \A k \in 1 .. n : /\ out[k] \in SliceRec
                           /\ out[k].part \in 1 .. Len(c)
                           /\ out[k].at + out[k].len <= c[out[k].part]
                           /\ Place(st, out, to, k + 1) = Place(st, out, to, k) + out[k].len
      /\ Place(st, out, to, 1) = from
  BY DEF Run
<1>n. n \in Nat
  BY <1>0
<1>1. ASSUME NEW k \in 1 .. n, NEW p \in I
      PROVE  /\ StoresAt(S, p.area, Onward(p, out[k]).area, st,
                         st[out[k].part] + out[k].at, d, p.at,
                         Clip(out[k].len, Len(d) - p.at))
             /\ Onward(p, out[k]).at = Clip(p.at + out[k].len, Len(d))
             /\ Onward(p, out[k]) \in I
  <2> DEFINE s == out[k]
             A == p.area
             q == Onward(p, s)
  <2>1. A \in Seq(Seq(S)) /\ Chunks(A) = c /\ p.at \in Nat /\ p.at <= Len(d) /\ Layout(Chunks(A), st)
    BY <1>0
  <2>2. Len(A) = Len(c) /\ \A i \in 1 .. Len(A) : c[i] = Len(A[i])
    BY <2>1, ChunksFacts, SMTT(30)
  <2>3. s \in SliceRec /\ s.part \in 1 .. Len(A) /\ s.at + s.len <= Len(A[s.part])
    BY <1>0, <2>2
  <2>4. StoresAt(S, A, Stored(A, s, d, p.at), st, st[s.part] + s.at, d, p.at,
                 Clip(s.len, Len(d) - p.at))
    BY <2>1, <2>3, StoredFacts
  <2>5. q.area = Stored(A, s, d, p.at) /\ q.at = Min({p.at + s.len, Len(d)})
    OBVIOUS
  <2>6. Min({p.at + s.len, Len(d)}) = Clip(p.at + s.len, Len(d)) /\ s.len \in Nat
    <3>1. s.len \in Nat
      BY <2>3 DEF SliceRec
    <3>2. p.at + s.len \in Int /\ Len(d) \in Int
      BY <1>0, <2>1, <3>1
    <3> QED BY <3>1, <3>2, MinOfTwo DEF Clip
  <2>7. Clip(p.at + s.len, Len(d)) \in Nat /\ Clip(p.at + s.len, Len(d)) <= Len(d)
    BY <1>0, <2>1, <2>6 DEF Clip
  <2>8. Stored(A, s, d, p.at) \in Seq(Seq(S)) /\ Chunks(Stored(A, s, d, p.at)) = c
    BY <2>1, <2>4 DEF StoresAt
  <2>9. q \in [area : Seq(Seq(S)), at : Nat]
    BY <2>6, <2>7, <2>8
  <2> HIDE DEF q, s, A, c
  <2>10. q \in I
    BY <2>5, <2>6, <2>7, <2>8, <2>9
  <2> QED BY <2>4, <2>5, <2>6, <2>10 DEF q, s, A
<1>2. first \in I
  BY <1>0
<1> HIDE DEF I, Onward, first, c, n
<1>3. g \in [Nat -> [I -> I]]
  <2>1. \A k \in Nat, p \in I : (IF k \in 1 .. n THEN Onward(p, out[k]) ELSE p) \in I
    BY <1>1
  <2> QED BY <2>1
<1>4. PICK f : Rounds(f, I, first, g, n)
  <2>1. n \in Nat
    BY <1>0
  <2> HIDE DEF g
  <2> QED BY <1>2, <1>3, <2>1, RoundsExist
<1>5. Walk(f)
  <2>1. ASSUME NEW k \in 0 .. n PROVE f[k] = IF k = 0 THEN first ELSE Onward(f[k - 1], out[k])
    <3>1. CASE k = 0
      BY <1>4, <3>1 DEF Rounds
    <3>2. CASE k # 0
      <4>1. k \in 1 .. n /\ k - 1 \in 0 .. n /\ k \in Nat
        BY <1>0, <3>2
      <4>2. f[k - 1] \in I /\ f[k] = g[k][f[k - 1]]
        BY <1>4, <4>1 DEF Rounds
      <4> QED BY <3>2, <4>1, <4>2
    <3> QED BY <3>1, <3>2
  <2> QED BY <1>4, <2>1 DEF Rounds
<1>6. Walk(put)
  BY <1>5, Zenon
<1>7. Scatter(area, out, d) = put[n].area
  BY DEF Scatter, Onward, first, n
<1> HIDE DEF put
<1>8. \A k \in 0 .. n : put[k] = IF k = 0 THEN first ELSE Onward(put[k - 1], out[k])
  BY <1>6
<1>9. flat \in Seq(S) /\ Len(flat) \in Nat
  BY FlattenType
<1> DEFINE N == {k \in Nat : k <= n => F(k)}
<1>10. 0 \in N
  <2>1. put[0] = first
    BY <1>0, <1>8
  <2>2. first.area = area /\ first.at = 0
    BY DEF first
  <2>3. P(0) = from
    BY <1>0
  <2>4. Clip(from - from, Len(d)) = 0
    BY <1>0 DEF Clip
  <2>5. Patched(flat, from, 0, d) = flat
    BY <1>9, NothingPatched
  <2> HIDE DEF P
  <2> QED BY <1>2, <2>1, <2>2, <2>3, <2>4, <2>5
<1>11. ASSUME NEW k \in Nat, k \in N PROVE k + 1 \in N
  <2> SUFFICES ASSUME k + 1 <= n PROVE F(k + 1)
    <3> HIDE DEF F
    <3> QED OBVIOUS
  <2>1. k + 1 \in 1 .. n /\ k + 1 \in 0 .. n /\ k <= n /\ (k + 1) - 1 = k /\ k + 1 # 0
    BY <1>n
  <2>2. F(k)
    <3> HIDE DEF F
    <3> QED BY <1>11, <2>1
  <2> DEFINE p == put[k]
             s == out[k + 1]
             q == put[k + 1]
             len == s.len
             a == p.at
             pos == P(k)
             m == Clip(len, Len(d) - a)
  <2>3. q = Onward(p, s)
    BY <1>8, <2>1
  <2>4. /\ p \in I /\ pos \in Nat /\ pos >= from /\ a = Clip(pos - from, Len(d))
        /\ FlattenSeq(p.area) = Patched(flat, from, a, d)
    BY <2>2
  <2>5. /\ StoresAt(S, p.area, q.area, st, st[s.part] + s.at, d, a, m)
        /\ q.at = Clip(a + len, Len(d)) /\ q \in I
    BY <1>1, <2>1, <2>3, <2>4
  <2>6. len \in Nat /\ P(k + 1) = pos + len /\ pos = st[s.part] + s.at
    <3>1. s \in SliceRec
      BY <1>0, <2>1
    <3>2. Place(st, out, to, k + 1) = st[s.part] + s.at
      BY <2>1 DEF Place, n
    <3> QED BY <1>0, <2>1, <3>1, <3>2 DEF SliceRec
  <2>7. a \in Nat /\ a <= Len(d) /\ m \in Nat
    <3>1. a \in Nat /\ a <= Len(d) /\ Len(d) \in Nat /\ len \in Nat
      BY <1>0, <2>4, <2>6 DEF I
    <3> HIDE DEF a, len
    <3> QED BY <3>1 DEF Clip
  <2> HIDE DEF p, s, q, len, a, pos, m, P, flat
  <2>8. FlattenSeq(q.area) \in Seq(S)
    BY <2>5 DEF StoresAt
  <2>9. PatchStep(flat, FlattenSeq(q.area), FlattenSeq(p.area), d, from, pos, len, a, m)
    <3>1. Len(FlattenSeq(p.area)) = Len(flat)
      <4>1. Len(Patched(flat, from, a, d)) = Len(flat)
        BY <1>9 DEF Patched
      <4> QED BY <2>4, <4>1
    <3>2. /\ Len(FlattenSeq(q.area)) = Len(flat)
          /\ \A i \in 1 .. Len(flat) : FlattenSeq(q.area)[i] =
                IF i \in pos + 1 .. pos + m THEN d[a + (i - pos)] ELSE FlattenSeq(p.area)[i]
      BY <2>5, <2>6, <3>1 DEF StoresAt
    <3>3. m = Clip(len, Len(d) - a)
      BY DEF m
    <3> QED BY <2>4, <3>2, <3>3 DEF PatchStep
  <2>10. FlattenSeq(q.area) = Patched(flat, from, Clip((pos + len) - from, Len(d)), d)
    BY <1>9, <2>4, <2>6, <2>7, <2>8, <2>9, PatchGrows, SMTT(30)
  <2>11. Clip((pos + len) - from, Len(d)) = Clip(a + len, Len(d))
    <3> DEFINE D == Len(d)
    <3>1. /\ D \in Nat /\ pos \in Nat /\ pos >= from /\ len \in Nat
          /\ a = Clip(pos - from, D)
      BY <1>0, <2>4, <2>6
    <3> HIDE DEF D
    <3>2. Clip((pos + len) - from, D) = Clip(a + len, D)
      BY <3>1 DEF Clip
    <3> QED BY <3>2 DEF D
  <2>12. pos + len \in Nat /\ pos + len >= from
    BY <2>4, <2>6
  <2> QED BY <2>5, <2>6, <2>10, <2>11, <2>12 DEF q
<1> HIDE DEF N
<1>12. n \in N
  BY <1>0, <1>10, <1>11, NatSetInduction
<1>13. F(n)
  BY <1>0, <1>12 DEF N
<1>14. P(n) = to
  BY <1>0 DEF Place, n
<1>15. put[n].area \in Seq(Seq(S)) /\ Chunks(put[n].area) = c
  BY <1>13 DEF I
<1>16. FlattenSeq(put[n].area) = Patched(flat, from, Clip(to - from, Len(d)), d)
  BY <1>13, <1>14
<1> QED BY <1>7, <1>15, <1>16 DEF ScatterIs, c

-----------------------------------------------------------------------------
(* Msg::read, Msg::write and common_iovec.                                 *)

(* An area is a sequence of sequences.                                     *)
LEMMA AreaTyped ==
    ASSUME NEW area, IsArea(area)
    PROVE  \E S : area \in Seq(Seq(S))
<1> DEFINE S == UNION {{area[k][j] : j \in DOMAIN area[k]} : k \in DOMAIN area}
<1>1. Len(area) \in Nat /\ area = [k \in 1 .. Len(area) |-> area[k]]
  BY DEF IsArea, IsTuple
<1>2. DOMAIN area = 1 .. Len(area)
  BY <1>1
<1>3. ASSUME NEW k \in 1 .. Len(area) PROVE area[k] \in Seq(S)
  <2> DEFINE a == area[k]
  <2>1. Len(a) \in Nat /\ a = [j \in 1 .. Len(a) |-> a[j]]
    BY <1>2 DEF IsArea, IsTuple
  <2>2. DOMAIN a = 1 .. Len(a)
    BY <2>1
  <2>3. \A j \in 1 .. Len(a) : a[j] \in S
    BY <1>2, <2>2
  <2> HIDE DEF S, a
  <2>4. a \in [1 .. Len(a) -> S]
    BY <2>1, <2>3
  <2>5. a \in Seq(S)
    BY <2>1, <2>4
  <2> QED BY <2>5 DEF a
<1> HIDE DEF S
<1>4. area \in [1 .. Len(area) -> Seq(S)]
  BY <1>1, <1>3
<1>5. area \in Seq(Seq(S))
  BY <1>1, <1>4
<1> QED BY <1>5

(* What the slices from an offset on are, with the length of the message   *)
(* for the end of the layout.                                              *)
SlicesAt(c, st, total, offset, from, to, size, w) ==
    /\ from = Clip(offset, total) /\ to = Clip(from + size, total)
    /\ total \in Nat /\ from \in Nat /\ to \in Nat /\ from <= to /\ to <= total
    /\ Run(c, st, w.out, from, to) /\ w.left = size - (to - from) /\ w.left \in Nat

(* They exist for every message.                                           *)
LEMMA SlicesOfArea ==
    ASSUME NEW S, NEW area \in Seq(Seq(S)), NEW offset \in Nat, NEW size \in Nat
    PROVE  \E st, from, to :
              /\ Layout(Chunks(area), st)
              /\ SlicesAt(Chunks(area), st, Len(FlattenSeq(area)), offset, from, to, size,
                          Slices(Chunks(area), offset, size))
<1> DEFINE c == Chunks(area)
           w == Slices(c, offset, size)
           total == Len(FlattenSeq(area))
           from == Clip(offset, total)
           to == Clip(from + size, total)
<1>1. PICK st : Layout(c, st)
  BY LayoutExists
<1>2. total = st[Len(c) + 1] /\ total \in Nat
  <2>1. FlatIs(S, area, st) /\ Len(c) = Len(area)
    BY <1>1, FlatBytes, ChunksFacts
  <2> QED BY <2>1 DEF FlatIs
<1>3. SlicesOK(c, st, offset, size, w)
  BY <1>1, SlicesFacts
<1>4. Run(c, st, w.out, from, to) /\ w.left = size - (to - from)
  BY <1>2, <1>3 DEF SlicesOK
<1> HIDE DEF w, c, total
<1>5. from \in Nat /\ to \in Nat /\ from <= to /\ to <= total /\ size - (to - from) \in Nat
  BY <1>2 DEF Clip
<1>6. w.left \in Nat
  BY <1>4, <1>5
<1>7. SlicesAt(c, st, total, offset, from, to, size, w)
  BY <1>2, <1>4, <1>5, <1>6 DEF SlicesAt
<1> QED BY <1>1, <1>7 DEF c, w, total

(* Msg::write: the message has the data from the offset on, as far as it   *)
(* has room, in parts that are as long as before.                          *)
LEMMA WriteFacts ==
    ASSUME NEW S, NEW area \in Seq(Seq(S)), NEW offset \in Nat, NEW d \in Seq(S)
    PROVE  /\ write(area, offset, d) \in Seq(Seq(S))
           /\ Chunks(write(area, offset, d)) = Chunks(area)
           /\ FlattenSeq(write(area, offset, d)) =
                Patched(FlattenSeq(area), offset, Len(d), d)
<1> DEFINE c == Chunks(area)
           flat == FlattenSeq(area)
           total == Len(flat)
           size == Len(d)
           w == Slices(c, offset, size)
<1>0. size \in Nat
  OBVIOUS
<1>1. PICK st, from, to : Layout(c, st) /\ SlicesAt(c, st, total, offset, from, to, size, w)
  BY <1>0, SlicesOfArea
<1>2. /\ from = Clip(offset, total) /\ to = Clip(from + size, total)
      /\ total \in Nat /\ from \in Nat /\ to \in Nat /\ from <= total
      /\ Run(c, st, w.out, from, to)
  BY <1>1 DEF SlicesAt
<1>3. ScatterIs(S, area, Scatter(area, w.out, d), from, to, d)
  BY <1>1, <1>2, ScatterFacts
<1>4. write(area, offset, d) = Scatter(area, w.out, d)
  BY DEF write
<1> HIDE DEF w, c, total, size
<1>5. Patched(flat, from, Clip(to - from, size), d) = Patched(flat, offset, size, d)
  <2>1. ASSUME NEW m \in 1 .. total
        PROVE  /\ m \in from + 1 .. from + Clip(to - from, size) <=>
                    m \in offset + 1 .. offset + size
               /\ m \in offset + 1 .. offset + size => m - from = m - offset
    BY <1>0, <1>2 DEF Clip
  <2>2. ASSUME NEW m \in 1 .. total
        PROVE  (IF m \in from + 1 .. from + Clip(to - from, size) THEN d[m - from] ELSE flat[m])
                 = (IF m \in offset + 1 .. offset + size THEN d[m - offset] ELSE flat[m])
    BY <2>1, Zenon
  <2> QED BY <2>2 DEF Patched, total
<1> QED BY <1>3, <1>4, <1>5 DEF ScatterIs, c, size

(* Msg::read: the bytes from the offset on, and the filler for what the    *)
(* message is short of.                                                    *)
LEMMA ReadFacts ==
    ASSUME NEW S, NEW area \in Seq(Seq(S)), NEW offset \in Nat, NEW size \in Nat,
           NEW i \in 1 .. size
    PROVE  read(area, offset, size)[i] =
              IF offset + i <= Len(FlattenSeq(area)) THEN FlattenSeq(area)[offset + i]
              ELSE NoByte
<1> DEFINE c == Chunks(area)
           flat == FlattenSeq(area)
           total == Len(flat)
           w == Slices(c, offset, size)
           n == w.left
           T == S \cup {NoByte}
<1>1. PICK st, from, to : Layout(c, st) /\ SlicesAt(c, st, total, offset, from, to, size, w)
  BY SlicesOfArea
<1>2. from = Clip(offset, total) /\ to = Clip(from + size, total) /\ n = size - (to - from)
  BY <1>1 DEF SlicesAt
<1>t. total \in Nat /\ from \in Nat /\ to \in Nat /\ from <= to /\ to <= total /\ n \in Nat
  BY <1>1 DEF SlicesAt
<1>r. Run(c, st, w.out, from, to)
  BY <1>1 DEF SlicesAt
<1> HIDE DEF w, c
<1>3. FlattenSeq([k \in 1 .. Len(w.out) |-> Bytes(area, w.out[k])]) = SubSeq(flat, from + 1, to)
  <2> DEFINE out == w.out
  <2>1. /\ Layout(Chunks(area), st) /\ Run(Chunks(area), st, out, from, to)
        /\ from \in Nat /\ to \in Nat /\ from <= Len(FlattenSeq(area))
    BY <1>1, <1>r, <1>t DEF c
  <2> HIDE DEF out
  <2>2. RunIs(S, area, out, from, to)
    BY <2>1, RunBytes
  <2> QED BY <2>2 DEF out, RunIs
<1>4. DOMAIN w.out = 1 .. Len(w.out)
  BY <1>r DEF Run
<1>5. read(area, offset, size) = SubSeq(flat, from + 1, to) \o Fill(n, NoByte)
  BY <1>3, <1>4 DEF read, w, c
<1>6. flat \in Seq(S)
  BY FlattenType
<1> HIDE DEF n, flat
<1> DEFINE x == SubSeq(flat, from + 1, to)
           y == Fill(n, NoByte)
<1>7. x \in Seq(S) /\ Len(x) = to - from /\ \A k \in 1 .. to - from : x[k] = flat[from + k]
  BY <1>6, <1>t
<1>8. y \in Seq({NoByte}) /\ Len(y) = n /\ \A k \in 1 .. n : y[k] = NoByte
  BY <1>t DEF Fill
<1> HIDE DEF x, y, flat, total
<1>9. x \in Seq(T) /\ y \in Seq(T)
  <2>1. S \subseteq T /\ {NoByte} \subseteq T
    OBVIOUS
  <2> HIDE DEF T
  <2> QED BY <1>7, <1>8, <2>1, SeqLarger
<1> HIDE DEF T
<1>10. (x \o y)[i] = IF i <= Len(x) THEN x[i] ELSE y[i - Len(x)]
  <2>1. Len(x) \in Nat /\ Len(y) \in Nat /\ i \in 1 .. Len(x) + Len(y)
    <3>1. Len(x) = to - from /\ Len(y) = size - (to - from)
      BY <1>2, <1>7, <1>8
    <3>2. from \in Nat /\ to \in Nat /\ from <= to /\ size - (to - from) \in Nat
      BY <1>2, <1>t
    <3> QED BY <3>1, <3>2
  <2> QED BY <1>9, <2>1
<1>11. CASE offset + i <= total
  <2>1. from = offset /\ i <= to - from
    BY <1>2, <1>11, <1>t DEF Clip
  <2> QED BY <1>5, <1>7, <1>10, <1>11, <1>t, <2>1 DEF x, y, flat, total
<1>12. CASE ~ (offset + i <= total)
  <2>1. ~ (i <= to - from) /\ i - (to - from) \in 1 .. n
    BY <1>2, <1>12, <1>t DEF Clip
  <2> QED BY <1>5, <1>7, <1>8, <1>10, <1>12, <1>t, <2>1 DEF x, y, flat, total
<1> QED BY <1>11, <1>12

(* Vectors of garbage, a multiple of the size of the emulator's buffer     *)
(* and a rest.                                                             *)
Padding(pad, q, rest) ==
    /\ pad \in Seq(SliceRec)
    /\ \A k \in 1 .. Len(pad) : pad[k].part = 0
    /\ Len(pad) = IF rest = 0 THEN q ELSE q + 1
    /\ \A k \in 1 .. Len(pad) : pad[k].len = IF k <= q THEN GarbageSize ELSE rest

(* common_iovec: the slices, and garbage for the rest.                     *)
LEMMA IovecFacts ==
    ASSUME NEW area, NEW offset, NEW size,
           Slices(Chunks(area), offset, size).out \in Seq(SliceRec),
           Slices(Chunks(area), offset, size).left \in Nat
    PROVE  \E pad : \E q, rest \in Nat :
              /\ common_iovec(area, offset, size) =
                   Slices(Chunks(area), offset, size).out \o pad
              /\ Padding(pad, q, rest)
              /\ q * GarbageSize + rest = Slices(Chunks(area), offset, size).left
<1> DEFINE w == Slices(Chunks(area), offset, size)
           out == w.out
           n == w.left
           q == n \div GarbageSize
           rest == n % GarbageSize
           a == Fill(q, Slice(0, 0, GarbageSize))
           b == IF rest = 0 THEN <<>> ELSE <<Slice(0, 0, rest)>>
           pad == a \o b
<1>0. out \in Seq(SliceRec) /\ n \in Nat
  OBVIOUS
<1>1. q \in Nat /\ rest \in Nat /\ q * GarbageSize + rest = n
  <2>1. n \in Nat /\ GarbageSize \in Nat /\ GarbageSize > 0
    BY <1>0, MessageAssumption
  <2> HIDE DEF n
  <2>2. n \div GarbageSize \in Nat /\ n % GarbageSize \in Nat
    BY <2>1
  <2>3. n = GarbageSize * (n \div GarbageSize) + (n % GarbageSize)
    BY <2>1
  <2>4. (n \div GarbageSize) * GarbageSize = GarbageSize * (n \div GarbageSize)
    BY <2>1, <2>2
  <2> QED BY <2>2, <2>3, <2>4
<1>2. common_iovec(area, offset, size) = (out \o a) \o b
  BY DEF common_iovec
<1> HIDE DEF q, rest, n, out, w
<1>3. GarbageSize \in Nat
  BY MessageAssumption
<1>4. /\ a \in Seq(SliceRec) /\ Len(a) = q
      /\ \A k \in 1 .. q : a[k].part = 0 /\ a[k].len = GarbageSize
  BY <1>1, <1>3 DEF Fill, Slice, SliceRec
<1>5. /\ b \in Seq(SliceRec) /\ Len(b) = (IF rest = 0 THEN 0 ELSE 1)
      /\ rest # 0 => b[1].part = 0 /\ b[1].len = rest
  <2>1. rest # 0 => <<Slice(0, 0, rest)>> \in Seq(SliceRec)
    BY <1>1 DEF Slice, SliceRec
  <2>2. <<>> \in Seq(SliceRec) /\ Len(<<>>) = 0
    BY EmptySeq
  <2>3. CASE rest = 0
    BY <2>2, <2>3
  <2>4. CASE rest # 0
    BY <2>1, <2>4 DEF Slice
  <2> QED BY <2>3, <2>4
<1> HIDE DEF a, b
<1>6. (out \o a) \o b = out \o pad /\ pad \in Seq(SliceRec)
  BY <1>0, <1>4, <1>5, ConcatAssociative, ConcatProperties, SMTT(30)
<1>7. /\ Len(pad) = Len(a) + Len(b)
      /\ \A k \in 1 .. Len(a) : pad[k] = a[k]
      /\ \A k \in Len(a) + 1 .. Len(a) + Len(b) : pad[k] = b[k - Len(a)]
  <2>1. a \in Seq(SliceRec) /\ b \in Seq(SliceRec)
    BY <1>4, <1>5
  <2> QED BY <2>1, ConcatProperties
<1> HIDE DEF pad
<1>8. Len(pad) = (IF rest = 0 THEN q ELSE q + 1)
  BY <1>1, <1>4, <1>5, <1>7
<1>9. ASSUME NEW k \in 1 .. Len(pad)
      PROVE  pad[k].part = 0 /\ pad[k].len = IF k <= q THEN GarbageSize ELSE rest
  <2>1. CASE k <= q
    <3>1. k \in 1 .. Len(a) /\ k \in 1 .. q
      BY <1>1, <1>4, <2>1
    <3> QED BY <1>4, <1>7, <2>1, <3>1
  <2>2. CASE ~ (k <= q)
    <3>1. rest # 0 /\ k = q + 1 /\ k - Len(a) = 1 /\ k \in Len(a) + 1 .. Len(a) + Len(b)
      BY <1>1, <1>4, <1>5, <1>8, <2>2
    <3>2. pad[k] = b[1]
      BY <1>7, <3>1
    <3> QED BY <1>5, <2>2, <3>1, <3>2
  <2> QED BY <2>1, <2>2
<1>10. Padding(pad, q, rest)
  BY <1>6, <1>8, <1>9 DEF Padding
<1>11. common_iovec(area, offset, size) = out \o pad /\ q * GarbageSize + rest = n
  BY <1>1, <1>2, <1>6
<1> QED BY <1>1, <1>10, <1>11, Zenon DEF out, n, w

-----------------------------------------------------------------------------
(* MsgStreamReader.                                                        *)

(* A reader that has handed out the first `pos' bytes of the message: the  *)
(* bytes that are ready are the last of its slice, which ends where the    *)
(* iterator is.                                                            *)
ReaderAt(c, st, r, pos) ==
    /\ r \in [it : [i : Nat, base : Nat, off : Nat], slice : SliceRec, ready : Nat]
    /\ ItOK(c, st, r.it)
    /\ r.ready <= r.slice.len
    /\ r.ready # 0 => /\ r.slice.part \in 1 .. Len(c)
                      /\ r.slice.at + r.slice.len <= c[r.slice.part]
                      /\ st[r.slice.part] + (r.slice.at + r.slice.len) = msg_offset(r.it)
    /\ msg_offset(r.it) = pos + r.ready

(* A part is no longer than the message.                                   *)
LEMMA PartWithin ==
    ASSUME NEW c, NEW st, Layout(c, st), NEW k \in 1 .. Len(c)
    PROVE  c[k] \in 0 .. st[Len(c) + 1]
<1>1. /\ Len(c) \in Nat /\ \A j \in 1 .. Len(c) + 1 : st[j] \in Nat
      /\ c[k] \in Nat /\ k + 1 \in 1 .. Len(c) + 1 /\ k \in 1 .. Len(c) + 1
      /\ st[k + 1] = st[k] + c[k]
  BY LayoutFacts
<1>2. Len(c) + 1 \in 1 .. Len(c) + 1 /\ k + 1 <= Len(c) + 1
  BY <1>1
<1>3. st[k + 1] <= st[Len(c) + 1]
  BY <1>1, <1>2, StartsInOrder
<1>4. st[k] \in Nat /\ st[k + 1] \in Nat /\ st[Len(c) + 1] \in Nat
  BY <1>1, <1>2
<1> QED BY <1>1, <1>3, <1>4

(* get_more finds bytes unless the reader is at the end of the message.    *)
LEMMA GetMoreFacts ==
    ASSUME NEW S, NEW area \in Seq(Seq(S)), NEW st, Layout(Chunks(area), st),
           NEW r, NEW pos \in Nat, ReaderAt(Chunks(area), st, r, pos), r.ready = 0
    PROVE  /\ ReaderAt(Chunks(area), st, get_more(area, r), pos)
           /\ get_more(area, r).ready = 0 => pos = st[Len(area) + 1]
<1> DEFINE c == Chunks(area)
           longest == 1 + Max({0} \cup Range(c))
           n == next(c, r.it, longest)
           m == get_more(area, r)
<1>0. Len(c) = Len(area) /\ c \in Seq(Nat) /\ Layout(c, st) /\ ReaderAt(c, st, r, pos)
  BY ChunksFacts
<1> HIDE DEF c
<1>1. longest \in Nat /\ longest # 0
  <2>1. st[Len(c) + 1] \in Nat
    BY <1>0, LayoutFacts
  <2>2. \A x \in {0} \cup Range(c) : x \in 0 .. st[Len(c) + 1]
    <3>1. ASSUME NEW x \in Range(c) PROVE x \in 0 .. st[Len(c) + 1]
      <4>1. PICK k \in DOMAIN c : x = c[k]
        BY DEF Range
      <4>2. k \in 1 .. Len(c)
        BY <1>0, <4>1
      <4> QED BY <1>0, <4>1, <4>2, PartWithin
    <3> QED BY <2>1, <3>1
  <2> DEFINE X == {0} \cup Range(c)
  <2>3. X \in SUBSET Nat /\ X # {} /\ X \subseteq 0 .. st[Len(c) + 1]
    <3> DEFINE top == st[Len(c) + 1]
    <3>1. \A x \in X : x \in 0 .. top
      BY <2>2
    <3>2. 0 \in X
      OBVIOUS
    <3>3. 0 .. top \subseteq Nat
      BY <2>1
    <3> HIDE DEF X, top
    <3>4. X \subseteq 0 .. top /\ X \subseteq Nat
      BY <3>1, <3>3
    <3> QED BY <3>2, <3>4 DEF top
  <2> HIDE DEF X
  <2>4. Max(X) \in X
    BY <2>1, <2>3, MaxOfBounded
  <2>5. Max(X) \in Nat
    BY <2>3, <2>4
  <2> QED BY <2>5 DEF X
<1> HIDE DEF longest
<1>2. /\ r \in [it : [i : Nat, base : Nat, off : Nat], slice : SliceRec, ready : Nat]
      /\ ItOK(c, st, r.it) /\ msg_offset(r.it) = pos
  BY <1>0 DEF ReaderAt
<1>3. NextOK(c, st, r.it, longest, n.it, n.slice)
  BY <1>0, <1>1, <1>2, NextFacts
<1>4. m = IF n.slice.len = 0 THEN [r EXCEPT !.it = n.it]
          ELSE [it |-> n.it, slice |-> n.slice, ready |-> n.slice.len]
  BY DEF get_more, c, longest, n
<1> HIDE DEF n, m
<1>5. /\ ItOK(c, st, n.it) /\ n.it \in [i : Nat, base : Nat, off : Nat]
      /\ n.slice \in SliceRec /\ n.slice.len \in Nat /\ n.slice.at \in Nat
      /\ msg_offset(n.it) = pos + n.slice.len
  BY <1>2, <1>3 DEF NextOK, SliceRec, ItOK
<1>6. CASE n.slice.len = 0
  <2>1. m.it = n.it /\ m.slice = r.slice /\ m.ready = 0
        /\ m \in [it : [i : Nat, base : Nat, off : Nat], slice : SliceRec, ready : Nat]
    BY <1>2, <1>4, <1>5, <1>6
  <2>2. msg_offset(n.it) = pos /\ r.slice.len \in Nat
    BY <1>2, <1>5, <1>6 DEF SliceRec
  <2>3. pos = st[Len(c) + 1]
    BY <1>1, <1>2, <1>3, <1>6 DEF NextOK
  <2>4. ReaderAt(c, st, m, pos)
    BY <1>5, <2>1, <2>2 DEF ReaderAt
  <2> QED BY <1>0, <2>3, <2>4 DEF m, c
<1>7. CASE n.slice.len # 0
  <2>1. m.it = n.it /\ m.slice = n.slice /\ m.ready = n.slice.len
        /\ m \in [it : [i : Nat, base : Nat, off : Nat], slice : SliceRec, ready : Nat]
    BY <1>4, <1>5, <1>7
  <2>2. n.slice.part # 0
    <3>1. NoSlice.len = 0
      BY DEF NoSlice, Slice
    <3> QED BY <1>3, <1>7, <3>1 DEF NextOK
  <2>3. /\ n.slice.part \in 1 .. Len(c) /\ n.slice.at + n.slice.len <= c[n.slice.part]
        /\ st[n.slice.part] + n.slice.at = pos
    BY <1>2, <1>3, <2>2 DEF NextOK
  <2>4. st[n.slice.part] \in Nat
    BY <1>0, <2>3, LayoutFacts
  <2>5. st[n.slice.part] + (n.slice.at + n.slice.len) = msg_offset(n.it)
    <3> DEFINE b == st[n.slice.part]
               a == n.slice.at
               l == n.slice.len
    <3>1. b \in Nat /\ a \in Nat /\ l \in Nat /\ b + a = pos /\ msg_offset(n.it) = pos + l
      BY <1>5, <2>3, <2>4
    <3> HIDE DEF b, a, l
    <3>2. b + (a + l) = msg_offset(n.it)
      BY <3>1
    <3> QED BY <3>2 DEF b, a, l
  <2>6. ReaderAt(c, st, m, pos)
    BY <1>5, <2>1, <2>3, <2>5 DEF ReaderAt
  <2> QED BY <1>7, <2>1, <2>6 DEF m, c
<1> QED BY <1>6, <1>7

(* The byte a reader hands out, and how far it is then.                    *)
GetIs(c, st, flat, pos, fallback, reader, byte) ==
    IF pos < Len(flat)
    THEN ReaderAt(c, st, reader, pos + 1) /\ byte = flat[pos + 1]
    ELSE ReaderAt(c, st, reader, pos) /\ byte = fallback

(* get hands out the next byte of the message, and at its end the other.   *)
LEMMA GetFacts ==
    ASSUME NEW S, NEW area \in Seq(Seq(S)), NEW st, Layout(Chunks(area), st),
           NEW r, NEW pos \in Nat, ReaderAt(Chunks(area), st, r, pos), NEW fallback
    PROVE  GetIs(Chunks(area), st, FlattenSeq(area), pos, fallback,
                 get(area, r, fallback).reader, get(area, r, fallback).byte)
<1> DEFINE c == Chunks(area)
           flat == FlattenSeq(area)
           m == IF r.ready = 0 THEN get_more(area, r) ELSE r
           g == get(area, r, fallback)
<1>0. /\ Len(c) = Len(area) /\ c \in Seq(Nat) /\ Len(area) \in Nat
      /\ \A k \in 1 .. Len(area) : c[k] = Len(area[k]) /\ Len(area[k]) \in Nat
  BY ChunksFacts
<1>1. /\ flat \in Seq(S) /\ Len(flat) = st[Len(area) + 1] /\ Len(flat) \in Nat
      /\ \A k \in 1 .. Len(area) : \A j \in 1 .. Len(area[k]) :
            flat[st[k] + j] = area[k][j]
  BY FlatBytes DEF FlatIs
<1>2. ReaderAt(c, st, m, pos) /\ (m.ready = 0 => pos = st[Len(area) + 1])
  <2>1. CASE r.ready = 0
    BY <2>1, GetMoreFacts
  <2>2. CASE r.ready # 0
    BY <2>2
  <2> QED BY <2>1, <2>2
<1>3. g = IF m.ready = 0 THEN [reader |-> m, byte |-> fallback]
          ELSE [reader |-> [m EXCEPT !.ready = @ - 1],
                byte |-> area[m.slice.part][m.slice.at + m.slice.len - m.ready + 1]]
  BY DEF get
<1>4. Layout(c, st)
  OBVIOUS
<1> HIDE DEF c, flat, m, g
<1>5. /\ m \in [it : [i : Nat, base : Nat, off : Nat], slice : SliceRec, ready : Nat]
      /\ ItOK(c, st, m.it) /\ m.ready \in Nat /\ m.ready <= m.slice.len
      /\ m.slice.len \in Nat /\ m.slice.at \in Nat
      /\ msg_offset(m.it) = pos + m.ready
  BY <1>2 DEF ReaderAt, SliceRec
<1>6. CASE m.ready = 0
  <2>1. g.reader = m /\ g.byte = fallback
    BY <1>3, <1>6
  <2>2. ~ (pos < Len(flat))
    BY <1>1, <1>2, <1>6
  <2>3. GetIs(c, st, flat, pos, fallback, g.reader, g.byte)
    BY <1>2, <2>1, <2>2 DEF GetIs
  <2> QED BY <2>3 DEF c, flat, g
<1>7. CASE m.ready # 0
  <2> DEFINE part == m.slice.part
             j == m.slice.at + m.slice.len - m.ready + 1
             h == [m EXCEPT !.ready = @ - 1]
  <2>1. /\ part \in 1 .. Len(c) /\ m.slice.at + m.slice.len <= c[part]
        /\ st[part] + (m.slice.at + m.slice.len) = pos + m.ready
    BY <1>2, <1>7 DEF ReaderAt
  <2>2. st[part] \in Nat /\ c[part] = Len(area[part]) /\ Len(area[part]) \in Nat
        /\ part \in 1 .. Len(area)
    BY <1>0, <1>4, <2>1, LayoutFacts
  <2>3. j \in 1 .. Len(area[part]) /\ st[part] + j = pos + 1
    <3> DEFINE b == st[part]
               a == m.slice.at
               l == m.slice.len
               d == m.ready
               top == Len(area[part])
    <3>1. /\ b \in Nat /\ a \in Nat /\ l \in Nat /\ d \in Nat /\ d # 0 /\ d <= l
          /\ top \in Nat /\ a + l <= top /\ b + (a + l) = pos + d /\ j = a + l - d + 1
      BY <1>5, <1>7, <2>1, <2>2
    <3> HIDE DEF b, a, l, d, top, j
    <3>2. j \in 1 .. top /\ b + j = pos + 1
      BY <3>1
    <3> QED BY <3>2 DEF b, top
  <2>4. flat[pos + 1] = area[part][j]
    BY <1>1, <2>2, <2>3, SMTT(30)
  <2>5. pos < Len(flat)
    <3>1. msg_offset(m.it) <= st[Len(c) + 1]
      BY <1>4, <1>5, ItWithin
    <3> QED BY <1>0, <1>1, <1>5, <1>7, <3>1
  <2>6. g.reader = h /\ g.byte = area[part][j]
    BY <1>3, <1>7
  <2>7. /\ h.it = m.it /\ h.slice = m.slice /\ h.ready = m.ready - 1
        /\ h.ready \in Nat /\ h.ready <= m.slice.len /\ pos + m.ready = (pos + 1) + h.ready
        /\ h \in [it : [i : Nat, base : Nat, off : Nat], slice : SliceRec, ready : Nat]
    <3> DEFINE d == m.ready
               l == m.slice.len
    <3>1. d \in Nat /\ l \in Nat /\ d # 0 /\ d <= l
      BY <1>5, <1>7
    <3> HIDE DEF d, l
    <3>2. d - 1 \in Nat /\ d - 1 <= l /\ pos + d = (pos + 1) + (d - 1)
      BY <3>1
    <3>3. m.ready - 1 \in Nat
      BY <3>2 DEF d
    <3>4. /\ h.it = m.it /\ h.slice = m.slice /\ h.ready = m.ready - 1
          /\ h \in [it : [i : Nat, base : Nat, off : Nat], slice : SliceRec, ready : Nat]
      BY <1>5, <3>3
    <3> HIDE DEF h
    <3> QED BY <3>2, <3>4 DEF d, l
  <2> HIDE DEF h, j
  <2>8. ReaderAt(c, st, h, pos + 1)
    BY <1>5, <2>1, <2>7 DEF ReaderAt
  <2>9. GetIs(c, st, flat, pos, fallback, g.reader, g.byte)
    BY <2>4, <2>5, <2>6, <2>8 DEF GetIs
  <2> QED BY <2>9 DEF c, flat, g
<1> QED BY <1>6, <1>7

(* What a reader that starts at `skip' hands out.                          *)
ByteFrom(flat, skip, k, fallback) ==
    IF skip + k <= Len(flat) THEN flat[skip + k] ELSE fallback

StreamIs(S, flat, skip, n, fallback, out) ==
    /\ out \in Seq(S) /\ Len(out) = n
    /\ \A k \in 1 .. n : out[k] = ByteFrom(flat, skip, k, fallback)

(* One byte more.                                                          *)
LEMMA StreamGrows ==
    ASSUME NEW S, NEW flat \in Seq(S), NEW skip \in Nat, skip <= Len(flat),
           NEW n \in Nat, NEW fallback \in S, NEW out,
           StreamIs(S, flat, skip, n, fallback, out),
           NEW c, NEW st, NEW reader, NEW byte,
           GetIs(c, st, flat, Clip(skip + n, Len(flat)), fallback, reader, byte)
    PROVE  /\ byte \in S
           /\ StreamIs(S, flat, skip, n + 1, fallback, Append(out, byte))
           /\ ReaderAt(c, st, reader, Clip(skip + (n + 1), Len(flat)))
<1> DEFINE len == Len(flat)
           pos == Clip(skip + n, len)
<1>1. len \in Nat /\ skip <= len
  OBVIOUS
<1>2. CASE skip + n < len
  <2>1. pos = skip + n /\ Clip(skip + (n + 1), len) = pos + 1 /\ pos < len
        /\ skip + (n + 1) <= len /\ skip + (n + 1) = pos + 1
    BY <1>1, <1>2 DEF Clip
  <2>2. ReaderAt(c, st, reader, pos + 1) /\ byte = flat[pos + 1]
    BY <2>1 DEF GetIs
  <2>3. pos + 1 \in 1 .. len
    BY <1>1, <2>1
  <2> HIDE DEF pos
  <2>4. byte \in S /\ byte = ByteFrom(flat, skip, n + 1, fallback)
    BY <2>1, <2>2, <2>3 DEF ByteFrom
  <2>5. StreamIs(S, flat, skip, n + 1, fallback, Append(out, byte))
    BY <2>4 DEF StreamIs
  <2> QED BY <2>1, <2>2, <2>4, <2>5
<1>3. CASE ~ (skip + n < len)
  <2>1. pos = len /\ Clip(skip + (n + 1), len) = len /\ ~ (pos < len)
        /\ ~ (skip + (n + 1) <= len)
    BY <1>1, <1>3 DEF Clip
  <2>2. ReaderAt(c, st, reader, pos) /\ byte = fallback
    BY <2>1 DEF GetIs
  <2> HIDE DEF pos
  <2>4. byte \in S /\ byte = ByteFrom(flat, skip, n + 1, fallback)
    BY <2>1, <2>2 DEF ByteFrom
  <2>5. StreamIs(S, flat, skip, n + 1, fallback, Append(out, byte))
    BY <2>4 DEF StreamIs
  <2> QED BY <2>1, <2>2, <2>4, <2>5
<1> QED BY <1>2, <1>3

(* A reader hands out the message from `skip' on, and then the other byte. *)
LEMMA StreamFacts ==
    ASSUME NEW S, NEW area \in Seq(Seq(S)), NEW skip \in Nat,
           skip <= Len(FlattenSeq(area)), NEW n \in Nat, NEW fallback \in S
    PROVE  StreamIs(S, FlattenSeq(area), skip, n, fallback,
                    Stream(area, skip, n, fallback))
<1> DEFINE c == Chunks(area)
           flat == FlattenSeq(area)
<1>0. PICK st : Layout(c, st)
  BY LayoutExists
<1>1. flat \in Seq(S) /\ Len(flat) = st[Len(area) + 1] /\ Len(flat) \in Nat /\ skip <= Len(flat)
  BY <1>0, FlatBytes DEF FlatIs
<1>2. Len(c) = Len(area)
  BY ChunksFacts
<1>3. ASSUME NEW r, NEW pos \in Nat, ReaderAt(c, st, r, pos)
      PROVE  GetIs(c, st, flat, pos, fallback, get(area, r, fallback).reader,
                   get(area, r, fallback).byte)
  BY <1>0, <1>3, GetFacts
<1> DEFINE ReaderRec == [it : [i : Nat, base : Nat, off : Nat], slice : SliceRec, ready : Nat]
           first == StreamReader(area, skip)
<1>4. first \in ReaderRec /\ ReaderAt(c, st, first, skip)
  <2>1. ItOK(c, st, skip_to(c, skip)) /\ msg_offset(skip_to(c, skip)) = Clip(skip, st[Len(c) + 1])
    BY <1>0, SkipToFacts
  <2>2. Clip(skip, st[Len(c) + 1]) = skip
    BY <1>1, <1>2 DEF Clip
  <2>3. NoSlice \in SliceRec /\ NoSlice.len = 0
    BY DEF NoSlice, Slice, SliceRec
  <2> DEFINE it == skip_to(c, skip)
  <2>4. first = [it |-> it, slice |-> NoSlice, ready |-> 0]
    BY DEF StreamReader
  <2> HIDE DEF it, first, c
  <2>5. it \in [i : Nat, base : Nat, off : Nat] /\ ItOK(c, st, it) /\ msg_offset(it) = skip
    BY <2>1, <2>2 DEF ItOK, it
  <2>6. first \in ReaderRec /\ first.it = it /\ first.slice = NoSlice /\ first.ready = 0
    BY <2>3, <2>4, <2>5
  <2>7. skip = skip + 0
    OBVIOUS
  <2> QED BY <2>3, <2>5, <2>6, <2>7 DEF ReaderAt
<1> DEFINE OnwardS(s) == [r |-> get(area, s.r, fallback).reader,
                          out |-> Append(s.out, get(area, s.r, fallback).byte)]
           At(s, k) == /\ ReaderAt(c, st, s.r, Clip(skip + k, Len(flat)))
                       /\ StreamIs(S, flat, skip, k, fallback, s.out)
           I == {s \in [r : ReaderRec, out : Seq(S)] : \E k \in Nat : At(s, k)}
           start == [r |-> first, out |-> <<>>]
           g == [k \in Nat |-> [s \in I |-> OnwardS(s)]]
           Walk(f) == f = [k \in 0 .. n |-> IF k = 0 THEN start ELSE OnwardS(f[k - 1])]
           go == CHOOSE f : Walk(f)
<1>5. start \in I /\ At(start, 0)
  <2>1. Clip(skip + 0, Len(flat)) = skip
    BY <1>1 DEF Clip
  <2>2. StreamIs(S, flat, skip, 0, fallback, <<>>)
    BY DEF StreamIs
  <2>3. start \in [r : ReaderRec, out : Seq(S)] /\ start.r = first /\ start.out = <<>>
    BY <1>4
  <2> HIDE DEF start, first
  <2> QED BY <1>4, <2>1, <2>2, <2>3
<1>6. ASSUME NEW s \in I, NEW k \in Nat, At(s, k)
      PROVE  OnwardS(s) \in I /\ At(OnwardS(s), k + 1)
  <2> DEFINE pos == Clip(skip + k, Len(flat))
             rr == get(area, s.r, fallback).reader
             bb == get(area, s.r, fallback).byte
             w == OnwardS(s)
  <2>1. pos \in Nat
    BY <1>1 DEF Clip
  <2>2. GetIs(c, st, flat, pos, fallback, rr, bb)
    BY <1>3, <1>6, <2>1
  <2>3. w = [r |-> rr, out |-> Append(s.out, bb)]
    OBVIOUS
  <2> HIDE DEF rr, bb, w, c, flat
  <2>4. bb \in S /\ StreamIs(S, flat, skip, k + 1, fallback, Append(s.out, bb))
        /\ ReaderAt(c, st, rr, Clip(skip + (k + 1), Len(flat)))
    BY <1>1, <1>6, <2>2, StreamGrows
  <2>5. rr \in ReaderRec /\ Append(s.out, bb) \in Seq(S)
    BY <2>4 DEF ReaderAt, StreamIs
  <2>6. w \in [r : ReaderRec, out : Seq(S)] /\ w.r = rr /\ w.out = Append(s.out, bb)
    BY <2>3, <2>5
  <2>7. At(w, k + 1)
    BY <2>4, <2>6
  <2>8. w \in I
    <3>1. k + 1 \in Nat
      OBVIOUS
    <3> HIDE DEF At, ReaderRec
    <3> QED BY <2>6, <2>7, <3>1
  <2> QED BY <2>7, <2>8 DEF w
<1>7. ASSUME NEW s \in I PROVE OnwardS(s) \in I
  <2>1. PICK k \in Nat : At(s, k)
    OBVIOUS
  <2> HIDE DEF I, OnwardS
  <2> QED BY <1>6, <2>1
<1>8. Stream(area, skip, n, fallback) = go[n].out
  BY DEF Stream
<1> HIDE DEF I, OnwardS, start, first, c, flat
<1>9. g \in [Nat -> [I -> I]]
  BY <1>7
<1>10. PICK f : Rounds(f, I, start, g, n)
  <2> HIDE DEF g
  <2> QED BY <1>5, <1>9, RoundsExist
<1>11. Walk(f)
  <2>1. ASSUME NEW k \in 0 .. n PROVE f[k] = IF k = 0 THEN start ELSE OnwardS(f[k - 1])
    <3>1. CASE k = 0
      BY <1>10, <3>1 DEF Rounds
    <3>2. CASE k # 0
      <4>1. k \in 1 .. n /\ k - 1 \in 0 .. n /\ k \in Nat
        BY <3>2
      <4>2. f[k - 1] \in I /\ f[k] = g[k][f[k - 1]]
        BY <1>10, <4>1 DEF Rounds
      <4> QED BY <3>2, <4>1, <4>2
    <3> QED BY <3>1, <3>2
  <2> QED BY <1>10, <2>1 DEF Rounds
<1>12. Walk(go)
  BY <1>11, Zenon
<1> HIDE DEF go
<1>13. \A k \in 0 .. n : go[k] = IF k = 0 THEN start ELSE OnwardS(go[k - 1])
  BY <1>12
<1> DEFINE N == {k \in Nat : k <= n => go[k] \in I /\ At(go[k], k)}
<1> HIDE DEF At
<1>14. 0 \in N
  <2>1. go[0] = start
    BY <1>13
  <2> QED BY <1>5, <2>1
<1>15. ASSUME NEW k \in Nat, k \in N PROVE k + 1 \in N
  <2> SUFFICES ASSUME k + 1 <= n PROVE go[k + 1] \in I /\ At(go[k + 1], k + 1)
    OBVIOUS
  <2>1. k + 1 \in 0 .. n /\ k + 1 # 0 /\ (k + 1) - 1 = k /\ k <= n
    OBVIOUS
  <2>2. go[k + 1] = OnwardS(go[k])
    BY <1>13, <2>1
  <2>3. go[k] \in I /\ At(go[k], k)
    BY <1>15, <2>1
  <2> QED BY <1>6, <2>2, <2>3
<1> HIDE DEF N
<1>16. n \in N
  BY <1>14, <1>15, NatSetInduction
<1>17. At(go[n], n)
  BY <1>16 DEF N
<1>18. StreamIs(S, flat, skip, n, fallback, go[n].out)
  BY <1>17 DEF At
<1> QED BY <1>8, <1>18 DEF flat

-----------------------------------------------------------------------------
(* Files: the inductive invariant.                                         *)

(* Descriptors refer to open file descriptions that are there, and the     *)
(* numbers of these are bounded, so that there is always a fresh one.      *)
HandlesOK ==
    /\ fds \in [Proc -> [Fd -> Nat]]
    /\ \E top \in Nat : DOMAIN ofd \subseteq 1 .. top
    /\ \A p \in Proc, n \in Fd : fds[p][n] # NotOpen => fds[p][n] \in DOMAIN ofd
    /\ \A k \in DOMAIN ofd :
          {"ino", "off"} \subseteq DOMAIN ofd[k] /\ ofd[k].ino \in Ino \cup {Dir}

(* What is left of the budget names files and descriptors there are.       *)
BudgetOK ==
    left \in [open : Int, io : Int, lock : Int, spawn : Int,
              fd : SUBSET Fd, ino : SUBSET (Ino \cup {Dir})]

(* A process that waits for a lock knows for which.                        *)
WaitOK(r) ==
    r.at = "lock" => r.ino \in Ino /\ r.type \in Lock

(* There are locks on files and waits for them, not on the directory.      *)
LockState ==
    /\ locks \in [Ino -> [Proc -> Lock]]
    /\ \A p \in Proc : WaitOK(pc[p])

Truncating == {"trunc_seek", "trunc_back", "trunc_cut"}

(* A guest in the middle of fsys_trunc: the descriptor is still open, and  *)
(* if nobody else had the description, nobody else has it now, it is where *)
(* it was except between the two seeks, and the cut will be where it was   *)
(* asked for.                                                              *)
TruncOK(p) ==
    LET r == pc[p]
    IN  r.at \in Truncating =>
        /\ {"at", "n", "prev", "offset", "whence", "alone"} \subseteq DOMAIN r
        /\ r.n \in Fd
        /\ fds[p][r.n] # NotOpen /\ OfdOf(p, r.n).ino \in Ino
        /\ r.at # "trunc_seek" => "to" \in DOMAIN r /\ r.to \in 0 .. MaxLen
        /\ r.alone =>
              /\ Alone(p, r.n)
              /\ r.at # "trunc_back" => OfdOf(p, r.n).off = r.prev
              /\ r.at # "trunc_seek" /\ r.whence = "cur" =>
                    r.to = r.offset + r.prev

TruncState ==
    /\ DOMAIN data = Ino
    /\ DOMAIN pc = Proc
    /\ \A p \in Proc : "at" \in DOMAIN pc[p] /\ TruncOK(p)
    /\ TruncRestores

IInv == HandlesOK /\ BudgetOK /\ LockState /\ TruncState

-----------------------------------------------------------------------------
(* Helpers.                                                                *)

(* The number of a new open file description is not in use, and numbers    *)
(* stay bounded.                                                           *)
LEMMA FreshNumber ==
    ASSUME HandlesOK, NEW o, o = 1 + Max({0} \cup DOMAIN ofd)
    PROVE  /\ o \in Nat \ {0}
           /\ o \notin DOMAIN ofd
           /\ \E top \in Nat : DOMAIN ofd \cup {o} \subseteq 1 .. top
<1>1. PICK top \in Nat : DOMAIN ofd \subseteq 1 .. top
  BY DEF HandlesOK
<1> DEFINE S == {0} \cup DOMAIN ofd
<1>2. S \in SUBSET Nat /\ S # {} /\ S \subseteq 0 .. top
  BY <1>1
<1> HIDE DEF S
<1>3. Max(S) \in S /\ \A x \in S : x <= Max(S)
  BY <1>2, MaxOfBounded
<1> DEFINE m == Max(S)
<1>4. m \in Nat /\ (\A x \in S : x <= m) /\ o = 1 + m
  BY <1>2, <1>3 DEF S
<1> HIDE DEF m
<1>5. o \in Nat \ {0} /\ o \notin S /\ o > 0
  BY <1>4
<1>6. DOMAIN ofd \cup {o} \subseteq 1 .. o
  BY <1>1, <1>4 DEF S
<1> QED BY <1>5, <1>6 DEF S

(* Spending keeps the budget what it is.                                   *)
LEMMA SpendKeeps ==
    ASSUME BudgetOK, NEW kind \in {"open", "io", "lock", "spawn"}, Spend(kind)
    PROVE  BudgetOK'
BY DEF BudgetOK, Spend

(* Which descriptions are kept when some are not referred to any more.     *)
LEMMA KeptDescriptions ==
    ASSUME NEW o, NEW f \in [Proc -> [Fd -> Nat]]
    PROVE  /\ DOMAIN Kept(o, f) \subseteq DOMAIN o
           /\ \A k \in DOMAIN Kept(o, f) : Kept(o, f)[k] = o[k]
           /\ \A p \in Proc, n \in Fd :
                f[p][n] # NotOpen /\ f[p][n] \in DOMAIN o =>
                    f[p][n] \in DOMAIN Kept(o, f)
<1>1. \A p \in Proc, n \in Fd : f[p][n] # NotOpen => f[p][n] \in Referenced(f)
  BY DEF Referenced, Range
<1> QED BY <1>1 DEF Kept, Restrict

(* A truncating guest is not disturbed by a step of another that leaves    *)
(* its descriptors alone and does not get at a description of its own.     *)
LEMMA Undisturbed ==
    ASSUME IInv, NEW q \in Proc,
           pc'[q] = pc[q], fds'[q] = fds[q],
           \A n \in Fd : fds[q][n] # NotOpen =>
               /\ ofd'[fds[q][n]].ino = ofd[fds[q][n]].ino
               /\ Alone(q, n) =>
                    Alone(q, n)' /\ ofd'[fds[q][n]].off = ofd[fds[q][n]].off
    PROVE  TruncOK(q)'
BY DEF IInv, TruncState, TruncOK, OfdOf, Truncating

(* Locks are of files after those of one process on one file are dropped.  *)
LEMMA DroppedKeeps ==
    ASSUME LockState, NEW p \in Proc, NEW i \in Ino \cup {Dir},
           locks' = Dropped(locks, p, i),
           \A q \in Proc : WaitOK(pc'[q])
    PROVE  LockState'
<1>1. locks' \in [Ino -> [Proc -> Lock]]
  BY DEF LockState, Dropped, Lock
<1> QED BY <1>1 DEF LockState

(* So they are after one is set.                                           *)
LEMMA SetKeeps ==
    ASSUME LockState, NEW p \in Proc, NEW i \in Ino, NEW type \in Lock,
           locks' = [locks EXCEPT ![i][p] = type],
           \A q \in Proc : WaitOK(pc'[q])
    PROVE  LockState'
<1>1. locks' \in [Ino -> [Proc -> Lock]]
  BY DEF LockState
<1> QED BY <1>1 DEF LockState

-----------------------------------------------------------------------------
(* Requests that change the offset or the flags of an open file            *)
(* description, and nothing that the invariant is about besides.           *)

(* At most the description of p's FD n changes, and not its file.          *)
OnlyOf(p, n) ==
    /\ n \in Fd /\ fds[p][n] # NotOpen
    /\ DOMAIN ofd' = DOMAIN ofd
    /\ \A k \in DOMAIN ofd : k # fds[p][n] => ofd'[k] = ofd[k]
    /\ \A k \in DOMAIN ofd : DOMAIN ofd'[k] = DOMAIN ofd[k] /\ ofd'[k].ino = ofd[k].ino
    /\ UNCHANGED fds

(* Then the descriptors are in order, and other guests are not disturbed.  *)
LEMMA OnlyOfKeeps ==
    ASSUME IInv, NEW p \in Proc, NEW n, OnlyOf(p, n),
           \A q \in Proc \ {p} : pc'[q] = pc[q]
    PROVE  HandlesOK' /\ \A q \in Proc \ {p} : TruncOK(q)'
<1>1. HandlesOK'
  BY DEF IInv, HandlesOK, OnlyOf
<1>2. ASSUME NEW q \in Proc \ {p}
      PROVE  TruncOK(q)'
  <2>1. pc'[q] = pc[q] /\ fds'[q] = fds[q]
    BY DEF OnlyOf
  <2>2. ASSUME NEW m \in Fd, fds[q][m] # NotOpen
        PROVE  /\ ofd'[fds[q][m]].ino = ofd[fds[q][m]].ino
               /\ Alone(q, m) =>
                   Alone(q, m)' /\ ofd'[fds[q][m]].off = ofd[fds[q][m]].off
    <3>1. fds[q][m] \in DOMAIN ofd
      BY <2>2 DEF IInv, HandlesOK
    <3>2. Alone(q, m) => fds[q][m] # fds[p][n]
      BY DEF Alone, Range, OnlyOf, IInv, HandlesOK
    <3>3. Alone(q, m) => Alone(q, m)'
      BY DEF Alone, OnlyOf
    <3> QED BY <3>1, <3>2, <3>3 DEF OnlyOf
  <2> QED BY <2>1, <2>2, Undisturbed
<1> QED BY <1>1, <1>2

(* The same when no description changes.                                   *)
LEMMA SameFilesKeep ==
    ASSUME IInv, NEW p \in Proc, UNCHANGED <<ofd, fds>>,
           \A q \in Proc \ {p} : pc'[q] = pc[q]
    PROVE  HandlesOK' /\ \A q \in Proc \ {p} : TruncOK(q)'
<1>1. HandlesOK'
  BY DEF IInv, HandlesOK
<1>2. ASSUME NEW q \in Proc \ {p}
      PROVE  TruncOK(q)'
  BY DEF IInv, TruncState, TruncOK, OfdOf, Alone
<1> QED BY <1>1, <1>2

Touched(p, n) ==
    /\ InUser(p)
    /\ OnlyOf(p, n)
    /\ DOMAIN data' = DOMAIN data
    /\ UNCHANGED <<locks, pc>>
    /\ last'.op # "trunc"
    /\ BudgetOK'

(* Such a request keeps the invariant.                                     *)
LEMMA TouchedKeeps ==
    ASSUME IInv, NEW p \in Proc, NEW n, Touched(p, n)
    PROVE  IInv'
<1>1. HandlesOK' /\ \A q \in Proc \ {p} : TruncOK(q)'
  BY OnlyOfKeeps DEF Touched
<1>2. LockState'
  BY DEF IInv, LockState, Touched
<1>3. TruncOK(p)'
  BY DEF TruncOK, Touched, InUser, Truncating
<1>4. TruncState'
  BY <1>1, <1>3 DEF IInv, TruncState, Touched, TruncRestores
<1> QED BY <1>1, <1>2, <1>4 DEF IInv, Touched

(* One field of a description changes, not the file.                       *)
LEMMA FieldSet ==
    ASSUME IInv, NEW p \in Proc, NEW n \in Fd, fds[p][n] # NotOpen,
           NEW x, NEW o,
           o \in {[ofd EXCEPT ![fds[p][n]].off = x],
                  [ofd EXCEPT ![fds[p][n]].app = x],
                  [ofd EXCEPT ![fds[p][n]].inorder = x]}
    PROVE  /\ DOMAIN o = DOMAIN ofd
           /\ \A k \in DOMAIN ofd : k # fds[p][n] => o[k] = ofd[k]
           /\ \A k \in DOMAIN ofd : DOMAIN o[k] = DOMAIN ofd[k] /\ o[k].ino = ofd[k].ino
<1>1. \A k \in DOMAIN ofd : "ino" \in DOMAIN ofd[k]
  BY DEF IInv, HandlesOK
<1> QED BY <1>1

(* io_read moves the offset.                                               *)
LEMMA ReadTouches ==
    ASSUME IInv, NEW p \in Proc, NEW n \in Fd, NEW area, NEW nbytes,
           io_read(p, n, area, nbytes)
    PROVE  Touched(p, n)
<1>1. PICK x : ofd' = [ofd EXCEPT ![fds[p][n]].off = x]
  BY DEF io_read
<1>2. BudgetOK'
  BY SpendKeeps DEF io_read, IInv
<1>3. InUser(p) /\ fds[p][n] # NotOpen /\ last'.op # "trunc"
      /\ UNCHANGED <<data, fds, locks, pc>>
  BY DEF io_read, IsOpen, IsUsed
<1> QED BY <1>1, <1>2, <1>3, FieldSet DEF Touched, OnlyOf

(* io_write stores into a file and moves the offset.                       *)
LEMMA WriteTouches ==
    ASSUME IInv, NEW p \in Proc, NEW area, io_write(p, area)
    PROVE  Touched(p, read(area, 0, Hdr)[1])
<1> DEFINE n == read(area, 0, Hdr)[1]
<1>1. ofd' = ofd \/ \E x : ofd' = [ofd EXCEPT ![fds[p][n]].off = x]
  BY DEF io_write
<1>2. BudgetOK'
  BY SpendKeeps DEF io_write, IInv
<1>3. n \in Fd /\ InUser(p) /\ fds[p][n] # NotOpen
  BY DEF io_write, IsOpen, IsUsed
<1>4. last'.op # "trunc" /\ UNCHANGED <<fds, locks, pc>>
  BY DEF io_write
<1>5. DOMAIN data' = DOMAIN data
  BY DEF io_write
<1> SUFFICES Touched(p, n)
  OBVIOUS
<1> HIDE DEF n
<1>6. CASE ofd' = ofd
  BY <1>6, <1>2, <1>3, <1>4, <1>5 DEF Touched, OnlyOf
<1>7. CASE \E x : ofd' = [ofd EXCEPT ![fds[p][n]].off = x]
  BY <1>7, <1>2, <1>3, <1>4, <1>5, FieldSet DEF Touched, OnlyOf
<1> QED BY <1>1, <1>6, <1>7

(* io_lseek sets the offset, or fails.                                     *)
LEMMA LseekTouches ==
    ASSUME IInv, NEW p \in Proc, NEW n \in Fd, NEW offset, NEW whence,
           io_lseek(p, n, offset, whence)
    PROVE  Touched(p, n)
<1>1. ofd' = ofd \/ \E x : ofd' = [ofd EXCEPT ![fds[p][n]].off = x]
  BY DEF io_lseek
<1>2. BudgetOK'
  BY SpendKeeps DEF io_lseek, IInv
<1>3. InUser(p) /\ fds[p][n] # NotOpen /\ last'.op # "trunc"
      /\ UNCHANGED <<data, fds, locks, pc>>
  BY DEF io_lseek, IsOpen, IsUsed, None
<1>4. CASE ofd' = ofd
  BY <1>4, <1>2, <1>3 DEF Touched, OnlyOf
<1>5. CASE \E x : ofd' = [ofd EXCEPT ![fds[p][n]].off = x]
  BY <1>5, <1>2, <1>3, FieldSet DEF Touched, OnlyOf
<1> QED BY <1>1, <1>4, <1>5

(* io_fcntl_flags sets the flags.                                          *)
LEMMA FlagsTouches ==
    ASSUME IInv, NEW p \in Proc, NEW n \in Fd, io_fcntl_flags(p, n)
    PROVE  Touched(p, n)
<1>1. \E x : ofd' = [ofd EXCEPT ![fds[p][n]].app = x]
  BY DEF io_fcntl_flags
<1>2. BudgetOK'
  BY SpendKeeps DEF io_fcntl_flags, IInv
<1>3. InUser(p) /\ fds[p][n] # NotOpen /\ last'.op # "trunc"
      /\ UNCHANGED <<data, fds, locks, pc>>
  BY DEF io_fcntl_flags, IsOpen, IsUsed, None
<1> QED BY <1>1, <1>2, <1>3, FieldSet DEF Touched, OnlyOf

(* io_readdir moves the offset of a directory.                             *)
LEMMA ReaddirTouches ==
    ASSUME IInv, NEW p \in Proc, NEW n \in Fd, NEW area, NEW ndirs,
           io_readdir(p, n, area, ndirs)
    PROVE  Touched(p, n)
<1>1. \E x, y : ofd' = [ofd EXCEPT ![fds[p][n]].off = x, ![fds[p][n]].given = y]
  BY DEF io_readdir
<1>2. BudgetOK'
  BY SpendKeeps DEF io_readdir, IInv
<1>3. InUser(p) /\ fds[p][n] # NotOpen /\ last'.op # "trunc"
      /\ UNCHANGED <<data, fds, locks, pc>>
  BY DEF io_readdir, IsDir, IsUsed
<1>4. \A k \in DOMAIN ofd : "ino" \in DOMAIN ofd[k]
  BY DEF IInv, HandlesOK
<1>5. /\ DOMAIN ofd' = DOMAIN ofd
      /\ \A k \in DOMAIN ofd : k # fds[p][n] => ofd'[k] = ofd[k]
      /\ \A k \in DOMAIN ofd : DOMAIN ofd'[k] = DOMAIN ofd[k]
                               /\ ofd'[k].ino = ofd[k].ino
  BY <1>1, <1>4
<1> QED BY <1>5, <1>2, <1>3 DEF Touched, OnlyOf

(* io_readdir that fails.                                                  *)
LEMMA ReaddirFailsTouches ==
    ASSUME IInv, NEW p \in Proc, NEW n \in Fd, NEW ndirs,
           io_readdir_fails(p, n, ndirs)
    PROVE  Touched(p, n)
<1>1. \E x : ofd' = [ofd EXCEPT ![fds[p][n]].inorder = x]
  BY DEF io_readdir_fails
<1>2. BudgetOK'
  BY SpendKeeps DEF io_readdir_fails, IInv
<1>3. InUser(p) /\ fds[p][n] # NotOpen /\ last'.op # "trunc"
      /\ UNCHANGED <<data, fds, locks, pc>>
  BY DEF io_readdir_fails, IsDir, IsUsed, None
<1> QED BY <1>1, <1>2, <1>3, FieldSet DEF Touched, OnlyOf

(* io_rewinddir sets the offset of a directory.                            *)
LEMMA RewinddirTouches ==
    ASSUME IInv, NEW p \in Proc, NEW n \in Fd, io_rewinddir(p, n)
    PROVE  Touched(p, n)
<1>1. \E x, y : ofd' = [ofd EXCEPT ![fds[p][n]].off = x, ![fds[p][n]].given = y]
  BY DEF io_rewinddir
<1>2. BudgetOK'
  BY SpendKeeps DEF io_rewinddir, IInv
<1>3. InUser(p) /\ fds[p][n] # NotOpen /\ last'.op # "trunc"
      /\ UNCHANGED <<data, fds, locks, pc>>
  BY DEF io_rewinddir, IsDir, IsUsed, None
<1>4. \A k \in DOMAIN ofd : "ino" \in DOMAIN ofd[k]
  BY DEF IInv, HandlesOK
<1>5. /\ DOMAIN ofd' = DOMAIN ofd
      /\ \A k \in DOMAIN ofd : k # fds[p][n] => ofd'[k] = ofd[k]
      /\ \A k \in DOMAIN ofd : DOMAIN ofd'[k] = DOMAIN ofd[k]
                               /\ ofd'[k].ino = ofd[k].ino
  BY <1>1, <1>4
<1> QED BY <1>5, <1>2, <1>3 DEF Touched, OnlyOf

-----------------------------------------------------------------------------
(* Opening, closing, processes.                                            *)

(* io_open makes a description with a number that nobody uses.             *)
LEMMA OpenKeeps ==
    ASSUME IInv, NEW p \in Proc, NEW n \in Fd, NEW req, io_open(p, n, req)
    PROVE  IInv'
<1> DEFINE o == 1 + Max({0} \cup DOMAIN ofd)
           i == req.ino
           d == Description(i, map_file_flags_to_host(req.acc, req.app, req.trunc))
<1>1. /\ o \in Nat \ {0}
      /\ o \notin DOMAIN ofd
      /\ \E top \in Nat : DOMAIN ofd \cup {o} \subseteq 1 .. top
  BY FreshNumber DEF IInv
<1>2. BudgetOK'
  BY SpendKeeps DEF io_open, IInv
<1>3. i \in Ino \cup {Dir}
  BY DEF io_open, IInv, BudgetOK
<1>4. {"ino", "off"} \subseteq DOMAIN d /\ d.ino = i
  BY DEF Description
<1>5. /\ ofd' = [k \in DOMAIN ofd \cup {o} |-> IF k = o THEN d ELSE ofd[k]]
      /\ fds' = [fds EXCEPT ![p][n] = o]
      /\ InUser(p) /\ UNCHANGED pc /\ last' = None
  BY DEF io_open
<1>6. DOMAIN data' = DOMAIN data
  BY DEF io_open
<1>7. LockState'
  <2>1. \A q \in Proc : WaitOK(pc'[q])
    BY <1>5 DEF IInv, LockState
  <2>2. locks' = Dropped(locks, p, i) \/ UNCHANGED locks
    BY DEF io_open
  <2>3. CASE UNCHANGED locks
    BY <2>1, <2>3 DEF IInv, LockState
  <2> QED BY <1>3, <2>1, <2>2, <2>3, DroppedKeeps DEF IInv
<1> HIDE DEF o, d, i
<1>8. /\ DOMAIN ofd' = DOMAIN ofd \cup {o}
      /\ ofd'[o] = d
      /\ \A k \in DOMAIN ofd : ofd'[k] = ofd[k]
  BY <1>1, <1>5
<1>9. /\ fds' \in [Proc -> [Fd -> Nat]]
      /\ \A q \in Proc, m \in Fd :
            fds'[q][m] = IF q = p /\ m = n THEN o ELSE fds[q][m]
  BY <1>1, <1>5 DEF IInv, HandlesOK
<1>10. HandlesOK'
  BY <1>1, <1>3, <1>4, <1>8, <1>9 DEF IInv, HandlesOK
<1>11. ASSUME NEW q \in Proc
       PROVE  TruncOK(q)'
  <2>1. CASE q = p
    BY <2>1, <1>5 DEF TruncOK, InUser, Truncating
  <2>2. CASE q # p
    <3>1. pc'[q] = pc[q] /\ fds'[q] = fds[q]
      BY <1>5, <2>2 DEF IInv, HandlesOK
    <3>2. ASSUME NEW m \in Fd, fds[q][m] # NotOpen
          PROVE  /\ ofd'[fds[q][m]].ino = ofd[fds[q][m]].ino
                 /\ Alone(q, m) =>
                     Alone(q, m)' /\ ofd'[fds[q][m]].off = ofd[fds[q][m]].off
      <4>1. fds[q][m] \in DOMAIN ofd /\ fds[q][m] # o
        BY <1>1, <3>2 DEF IInv, HandlesOK
      <4>2. Alone(q, m) => Alone(q, m)'
        <5>1. SUFFICES ASSUME Alone(q, m), NEW r \in Proc \ {q}, NEW x \in Fd
                       PROVE  fds'[r][x] # fds[q][m]
          BY <3>1, <1>9 DEF Alone, Range
        <5>2. fds[r][x] # fds[q][m]
          BY <5>1 DEF Alone, Range, IInv, HandlesOK
        <5> QED BY <1>9, <4>1, <5>2
      <4> QED BY <1>8, <4>1, <4>2
    <3> QED BY <3>1, <3>2, Undisturbed
  <2> QED BY <2>1, <2>2
<1>12. TruncState'
  BY <1>5, <1>6, <1>11 DEF IInv, TruncState, TruncRestores, None
<1> QED BY <1>2, <1>7, <1>10, <1>12 DEF IInv

(* p, which is not truncating any more, has fewer descriptors or more of   *)
(* its own; descriptions that nobody refers to are gone.                   *)
Recounted(p, o) ==
    /\ fds' \in [Proc -> [Fd -> Nat]]
    /\ \A q \in Proc \ {p} : fds'[q] = fds[q]
    /\ \A m \in Fd : fds'[p][m] # NotOpen => \E n \in Fd : fds'[p][m] = fds[p][n]
    /\ DOMAIN o = DOMAIN ofd
    /\ \A k \in DOMAIN ofd : /\ {"ino", "off"} \subseteq DOMAIN o[k]
                             /\ o[k].ino = ofd[k].ino /\ o[k].off = ofd[k].off
    /\ ofd' = Kept(o, fds')
    /\ \A q \in Proc \ {p} : pc'[q] = pc[q]

(* Then the descriptors are in order, and other guests are not disturbed.  *)
LEMMA RecountedKeeps ==
    ASSUME IInv, NEW p \in Proc, NEW o, Recounted(p, o)
    PROVE  HandlesOK' /\ \A q \in Proc \ {p} : TruncOK(q)'
<1>1. /\ DOMAIN ofd' \subseteq DOMAIN o
      /\ \A k \in DOMAIN ofd' : ofd'[k] = o[k]
      /\ \A q \in Proc, m \in Fd :
            fds'[q][m] # NotOpen /\ fds'[q][m] \in DOMAIN o =>
                fds'[q][m] \in DOMAIN ofd'
  BY KeptDescriptions DEF Recounted
<1>2. \A q \in Proc, m \in Fd : fds'[q][m] # NotOpen => fds'[q][m] \in DOMAIN ofd
  BY DEF Recounted, IInv, HandlesOK
<1>3. HandlesOK'
  BY <1>1, <1>2 DEF IInv, HandlesOK, Recounted
<1>4. ASSUME NEW q \in Proc \ {p}
      PROVE  TruncOK(q)'
  <2>1. pc'[q] = pc[q] /\ fds'[q] = fds[q]
    BY DEF Recounted
  <2>2. ASSUME NEW m \in Fd, fds[q][m] # NotOpen
        PROVE  /\ ofd'[fds[q][m]].ino = ofd[fds[q][m]].ino
               /\ Alone(q, m) =>
                   Alone(q, m)' /\ ofd'[fds[q][m]].off = ofd[fds[q][m]].off
    <3>1. fds[q][m] \in DOMAIN ofd /\ fds[q][m] \in DOMAIN ofd'
      BY <1>1, <1>2, <2>1, <2>2 DEF Recounted
    <3>2. Alone(q, m) => Alone(q, m)'
      <4>1. SUFFICES ASSUME Alone(q, m), NEW r \in Proc \ {q}, NEW x \in Fd
                     PROVE  fds'[r][x] # fds[q][m]
        BY <2>1 DEF Alone, Range, Recounted
      <4>2. \A y \in Fd : fds[r][y] # fds[q][m]
        BY <4>1 DEF Alone, Range, IInv, HandlesOK
      <4>3. CASE r = p
        BY <4>2, <4>3, <2>2 DEF Recounted
      <4>4. CASE r # p
        BY <4>2, <4>4 DEF Recounted
      <4> QED BY <4>3, <4>4
    <3> QED BY <1>1, <3>1, <3>2 DEF Recounted
  <2> QED BY <2>1, <2>2, Undisturbed
<1> QED BY <1>3, <1>4

(* io_close.                                                               *)
LEMMA CloseKeeps ==
    ASSUME IInv, NEW p \in Proc, NEW n \in Fd, io_close(p, n)
    PROVE  IInv'
<1> DEFINE i == OfdOf(p, n).ino
<1>1. /\ fds' = [fds EXCEPT ![p][n] = NotOpen] /\ ofd' = Kept(ofd, fds')
      /\ InUser(p) /\ fds[p][n] # NotOpen /\ UNCHANGED <<data, pc, left>>
      /\ last' = None
      /\ locks' = Dropped(locks, p, i)
  BY DEF io_close, IsUsed
<1>2. i \in Ino \cup {Dir}
  BY <1>1 DEF OfdOf, IInv, HandlesOK
<1> HIDE DEF i
<1>3. LockState'
  BY <1>1, <1>2, DroppedKeeps DEF IInv, LockState
<1>4. Recounted(p, ofd)
  BY <1>1 DEF Recounted, IInv, HandlesOK, NotOpen
<1>5. HandlesOK' /\ \A q \in Proc \ {p} : TruncOK(q)'
  BY <1>4, RecountedKeeps
<1>6. TruncOK(p)'
  BY <1>1 DEF TruncOK, InUser, Truncating
<1>7. TruncState'
  BY <1>1, <1>5, <1>6 DEF IInv, TruncState, TruncRestores, None
<1> QED BY <1>1, <1>3, <1>5, <1>7 DEF IInv, BudgetOK

(* Marking directories as shared changes neither files nor offsets.        *)
LEMMA SharedSame ==
    ASSUME IInv, NEW set
    PROVE  /\ DOMAIN Shared(ofd, set) = DOMAIN ofd
           /\ \A k \in DOMAIN ofd :
                /\ {"ino", "off"} \subseteq DOMAIN Shared(ofd, set)[k]
                /\ Shared(ofd, set)[k].ino = ofd[k].ino
                /\ Shared(ofd, set)[k].off = ofd[k].off
BY DEF Shared, IInv, HandlesOK

(* io_dup.                                                                 *)
LEMMA DupKeeps ==
    ASSUME IInv, NEW p \in Proc, NEW n \in Fd, NEW m \in Fd, io_dup(p, n, m)
    PROVE  IInv'
<1> DEFINE i == OfdOf(p, m).ino
           o == Shared(ofd, {fds[p][n]})
<1>1. /\ fds' = [fds EXCEPT ![p][m] = fds[p][n]]
      /\ ofd' = Kept(o, fds')
      /\ InUser(p) /\ fds[p][n] # NotOpen /\ UNCHANGED <<data, pc>>
      /\ last' = None
  BY DEF io_dup, IsUsed
<1>2. BudgetOK'
  BY SpendKeeps DEF io_dup, IInv
<1>3. \/ fds[p][m] # NotOpen /\ locks' = Dropped(locks, p, i)
      \/ UNCHANGED locks
  BY DEF io_dup, IsUsed
<1>4. fds[p][m] # NotOpen => i \in Ino \cup {Dir}
  BY DEF OfdOf, IInv, HandlesOK
<1> HIDE DEF i
<1>5. LockState'
  <2>1. CASE UNCHANGED locks
    BY <1>1, <2>1 DEF IInv, LockState
  <2> QED BY <1>1, <1>3, <1>4, <2>1, DroppedKeeps DEF IInv, LockState
<1>6. /\ DOMAIN o = DOMAIN ofd
      /\ \A k \in DOMAIN ofd : /\ {"ino", "off"} \subseteq DOMAIN o[k]
                               /\ o[k].ino = ofd[k].ino /\ o[k].off = ofd[k].off
  BY SharedSame
<1> HIDE DEF o
<1>7. Recounted(p, o)
  BY <1>1, <1>6 DEF Recounted, IInv, HandlesOK
<1>8. HandlesOK' /\ \A q \in Proc \ {p} : TruncOK(q)'
  BY <1>7, RecountedKeeps
<1>9. TruncOK(p)'
  BY <1>1 DEF TruncOK, InUser, Truncating
<1>10. TruncState'
  BY <1>1, <1>8, <1>9 DEF IInv, TruncState, TruncRestores, None
<1> QED BY <1>2, <1>5, <1>8, <1>10 DEF IInv

(* A new process c gets descriptors of its parent p.                       *)
Joined(p, c, f, set) ==
    /\ InUser(p) /\ pc[c] = Gone
    /\ f \in [Fd -> Nat]
    /\ \A m \in Fd : f[m] # NotOpen => \E n \in Fd : f[m] = fds[p][n]
    /\ fds' = [fds EXCEPT ![c] = f]
    /\ ofd' = Shared(ofd, set)
    /\ pc' = [pc EXCEPT ![c] = User]
    /\ UNCHANGED <<data, locks>>
    /\ BudgetOK'
    /\ last'.op # "trunc"

(* That keeps the invariant: guests in a request do not fork.              *)
LEMMA JoinedKeeps ==
    ASSUME IInv, NEW p \in Proc, NEW c \in Proc, NEW f, NEW set,
           Joined(p, c, f, set)
    PROVE  IInv'
<1>1. /\ DOMAIN ofd' = DOMAIN ofd
      /\ \A k \in DOMAIN ofd : /\ {"ino", "off"} \subseteq DOMAIN ofd'[k]
                               /\ ofd'[k].ino = ofd[k].ino /\ ofd'[k].off = ofd[k].off
  BY SharedSame DEF Joined
<1>2. fds' \in [Proc -> [Fd -> Nat]] /\ fds'[c] = f
      /\ \A q \in Proc \ {c} : fds'[q] = fds[q]
  BY DEF Joined, IInv, HandlesOK
<1>3. \A q \in Proc, m \in Fd : fds'[q][m] # NotOpen => fds'[q][m] \in DOMAIN ofd
  BY <1>2 DEF Joined, IInv, HandlesOK
<1>4. HandlesOK'
  BY <1>1, <1>2, <1>3 DEF IInv, HandlesOK
<1>5. \A q \in Proc : pc'[q] = IF q = c THEN User ELSE pc[q]
  BY DEF Joined, IInv, TruncState
<1>6. LockState'
  BY <1>5 DEF Joined, IInv, LockState, WaitOK, User
<1>7. ASSUME NEW q \in Proc
      PROVE  TruncOK(q)'
  <2>1. CASE q = c
    BY <2>1, <1>5 DEF TruncOK, User, Truncating
  <2>2. CASE q # c /\ q # p
    <3>1. pc'[q] = pc[q] /\ fds'[q] = fds[q]
      BY <2>2, <1>2, <1>5
    <3>2. ASSUME NEW m \in Fd, fds[q][m] # NotOpen
          PROVE  /\ ofd'[fds[q][m]].ino = ofd[fds[q][m]].ino
                 /\ Alone(q, m) =>
                     Alone(q, m)' /\ ofd'[fds[q][m]].off = ofd[fds[q][m]].off
      <4>1. fds[q][m] \in DOMAIN ofd
        BY <3>2 DEF IInv, HandlesOK
      <4>2. Alone(q, m) => Alone(q, m)'
        <5>1. SUFFICES ASSUME Alone(q, m), NEW r \in Proc \ {q}, NEW x \in Fd
                       PROVE  fds'[r][x] # fds[q][m]
          BY <3>1, <1>2 DEF Alone, Range
        <5>2. \A y \in Fd : fds[r][y] # fds[q][m] /\ fds[p][y] # fds[q][m]
          BY <2>2, <5>1 DEF Alone, Range, IInv, HandlesOK
        <5> QED BY <1>2, <3>2, <5>2 DEF Joined
      <4> QED BY <1>1, <4>1, <4>2
    <3> QED BY <3>1, <3>2, Undisturbed
  <2>3. CASE q = p
    <3>1. pc'[q].at = "user"
      BY <2>3, <1>5 DEF Joined, InUser, User
    <3> QED BY <3>1 DEF TruncOK, Truncating
  <2> QED BY <2>1, <2>2, <2>3
<1>8. TruncState'
  <2>1. DOMAIN data' = Ino /\ DOMAIN pc' = Proc
    BY DEF Joined, IInv, TruncState
  <2>2. \A q \in Proc : "at" \in DOMAIN pc'[q]
    BY <1>5 DEF IInv, TruncState, User
  <2>3. TruncRestores'
    BY DEF Joined, TruncRestores
  <2> QED BY <1>7, <2>1, <2>2, <2>3 DEF TruncState
<1> QED BY <1>4, <1>6, <1>8 DEF IInv, Joined

(* proc_fork.                                                              *)
LEMMA ForkKeeps ==
    ASSUME IInv, NEW p \in Proc, NEW c \in Proc, proc_fork(p, c)
    PROVE  IInv'
<1>1. fds[p] \in [Fd -> Nat]
  BY DEF IInv, HandlesOK
<1>2. Joined(p, c, fds[p], Range(fds[p]))
  BY <1>1 DEF Joined, proc_fork, IInv, BudgetOK, None
<1> QED BY <1>2, JoinedKeeps

(* proc_spawn.                                                             *)
LEMMA SpawnKeeps ==
    ASSUME IInv, NEW p \in Proc, NEW c \in Proc, NEW s, proc_spawn(p, c, s)
    PROVE  IInv'
<1> DEFINE f == Inherited(p)
<1>1. f \in [Fd -> Nat] /\ \A m \in Fd : f[m] # NotOpen => f[m] = fds[p][m]
  BY DEF IInv, HandlesOK, Inherited, NotOpen
<1>2. BudgetOK'
  BY SpendKeeps DEF proc_spawn, IInv
<1>3. /\ fds' = [fds EXCEPT ![c] = f] /\ ofd' = Shared(ofd, Range(f))
      /\ InUser(p) /\ pc[c] = Gone /\ pc' = [pc EXCEPT ![c] = User]
      /\ UNCHANGED <<data, locks>>
  BY DEF proc_spawn
<1>4. last'.op # "trunc"
  BY DEF proc_spawn
<1> HIDE DEF f
<1>5. Joined(p, c, f, Range(f))
  BY <1>1, <1>2, <1>3, <1>4 DEF Joined
<1> QED BY <1>5, JoinedKeeps

(* exit, in whatever request.                                              *)
LEMMA ExitKeeps ==
    ASSUME IInv, NEW p \in Proc, exit(p)
    PROVE  IInv'
<1>1. \A q \in Proc : pc'[q] = IF q = p THEN Gone ELSE pc[q]
  BY DEF exit, IInv, TruncState
<1>2. LockState'
  <2>1. locks' \in [Ino -> [Proc -> Lock]]
    BY DEF exit, IInv, LockState, Lock
  <2>2. \A q \in Proc : WaitOK(pc[q])'
    BY <1>1 DEF WaitOK, Gone, IInv, LockState
  <2> QED BY <2>1, <2>2 DEF LockState
<1>3. Recounted(p, ofd)
  BY <1>1 DEF Recounted, IInv, HandlesOK, exit, Closed, NotOpen
<1>4. HandlesOK' /\ \A q \in Proc \ {p} : TruncOK(q)'
  BY <1>3, RecountedKeeps
<1>5. TruncOK(p)'
  BY <1>1 DEF TruncOK, Gone, Truncating
<1>6. TruncState'
  <2>1. DOMAIN data' = Ino /\ DOMAIN pc' = Proc
    BY DEF exit, IInv, TruncState
  <2>2. \A q \in Proc : "at" \in DOMAIN pc'[q]
    BY <1>1 DEF IInv, TruncState, Gone
  <2>3. TruncRestores'
    BY DEF exit, TruncRestores, None
  <2> QED BY <1>4, <1>5, <2>1, <2>2, <2>3 DEF TruncState
<1>7. BudgetOK'
  BY DEF exit, IInv, BudgetOK
<1> QED BY <1>2, <1>4, <1>6, <1>7 DEF IInv

-----------------------------------------------------------------------------
(* Truncating and locking.                                                 *)

(* The parts of the invariant about p itself, for a step that changes the  *)
(* place of p only.                                                        *)
LEMMA PlaceChanged ==
    ASSUME IInv, NEW p \in Proc, NEW r, pc' = [pc EXCEPT ![p] = r],
           "at" \in DOMAIN r, r.at # "lock"
    PROVE  /\ \A q \in Proc : pc'[q] = IF q = p THEN r ELSE pc[q]
           /\ \A q \in Proc \ {p} : pc'[q] = pc[q]
           /\ DOMAIN pc' = Proc
           /\ \A q \in Proc : "at" \in DOMAIN pc'[q]
           /\ \A q \in Proc : WaitOK(pc'[q])
BY DEF IInv, TruncState, LockState, WaitOK

(* A guest that is not in a request.                                       *)
LEMMA UserPlace == "at" \in DOMAIN User /\ User.at = "user"
BY DEF User

(* fsys_trunc finds out the offset.                                        *)
LEMMA TruncKeeps ==
    ASSUME IInv, NEW p \in Proc, NEW n \in Fd, NEW offset, NEW whence,
           fsys_trunc(p, n, offset, whence)
    PROVE  IInv'
<1> DEFINE r == [at |-> "trunc_seek", n |-> n, prev |-> OfdOf(p, n).off,
                 offset |-> offset, whence |-> whence, alone |-> Alone(p, n)]
<1>1. pc' = [pc EXCEPT ![p] = r] /\ UNCHANGED <<data, ofd, fds, locks>>
      /\ last' = None
  BY DEF fsys_trunc
<1>2. BudgetOK'
  BY SpendKeeps DEF fsys_trunc, IInv
<1>3. fds[p][n] # NotOpen /\ OfdOf(p, n).ino \in Ino
  BY DEF fsys_trunc, IsOpen, IsUsed, OfdOf, IInv, HandlesOK
<1>4. /\ \A q \in Proc : pc'[q] = IF q = p THEN r ELSE pc[q]
      /\ \A q \in Proc \ {p} : pc'[q] = pc[q]
      /\ DOMAIN pc' = Proc
      /\ \A q \in Proc : "at" \in DOMAIN pc'[q]
      /\ \A q \in Proc : WaitOK(pc'[q])
  <2>1. "at" \in DOMAIN r /\ r.at # "lock"
    OBVIOUS
  <2> HIDE DEF r
  <2> QED BY <1>1, <2>1, PlaceChanged
<1>5. HandlesOK' /\ \A q \in Proc \ {p} : TruncOK(q)'
  BY <1>1, <1>4, SameFilesKeep
<1>6. LockState'
  BY <1>1, <1>4 DEF IInv, LockState
<1>7. TruncOK(p)'
  <2>1. pc'[p] = r
    BY <1>4
  <2> QED BY <1>1, <1>3, <2>1 DEF TruncOK, OfdOf, Alone
<1>8. TruncState'
  BY <1>1, <1>4, <1>5, <1>7 DEF IInv, TruncState, TruncRestores, None
<1> QED BY <1>2, <1>5, <1>6, <1>8 DEF IInv

(* The first seek, which moves the offset or ends the request.             *)
LEMMA TruncSeekKeeps ==
    ASSUME IInv, NEW p \in Proc, TruncSeek(p)
    PROVE  IInv'
<1> DEFINE n == pc[p].n
           to == Seek(OfdOf(p, n), pc[p].offset, pc[p].whence)
<1>1. pc[p].at = "trunc_seek" /\ UNCHANGED <<data, fds, locks, left>>
  BY DEF TruncSeek, TruncReply
<1>2. n \in Fd /\ fds[p][n] # NotOpen /\ OfdOf(p, n).ino \in Ino
      /\ (pc[p].alone => Alone(p, n) /\ OfdOf(p, n).off = pc[p].prev)
  BY <1>1 DEF IInv, TruncState, TruncOK, Truncating
<1>3. BudgetOK'
  BY <1>1 DEF IInv, BudgetOK
<1>4. CASE to = -1
  <2>1. /\ UNCHANGED ofd
        /\ pc' = [pc EXCEPT ![p] = User]
        /\ last'.alone = pc[p].alone /\ last'.ok = FALSE /\ last'.op = "trunc"
        /\ last'.prev = pc[p].prev /\ last'.now = ofd[fds[p][n]].off
    BY <1>4 DEF TruncSeek, TruncReply
  <2>2. /\ \A q \in Proc : pc'[q] = IF q = p THEN User ELSE pc[q]
        /\ \A q \in Proc \ {p} : pc'[q] = pc[q]
        /\ DOMAIN pc' = Proc
        /\ \A q \in Proc : "at" \in DOMAIN pc'[q]
        /\ \A q \in Proc : WaitOK(pc'[q])
    BY <2>1, UserPlace, PlaceChanged
  <2>3. HandlesOK' /\ \A q \in Proc \ {p} : TruncOK(q)'
    BY <1>1, <2>1, <2>2, SameFilesKeep
  <2>4. LockState'
    BY <1>1, <2>2 DEF IInv, LockState
  <2>5. TruncOK(p)'
    BY <2>2 DEF TruncOK, User, Truncating
  <2>6. TruncRestores'
    BY <1>2, <2>1 DEF TruncRestores, OfdOf
  <2>7. TruncState'
    BY <1>1, <2>2, <2>3, <2>5, <2>6 DEF IInv, TruncState
  <2> QED BY <1>3, <2>3, <2>4, <2>7 DEF IInv
<1>5. CASE to # -1
  <2> DEFINE r == [at |-> "trunc_back", n |-> n, prev |-> pc[p].prev,
                   offset |-> pc[p].offset, whence |-> pc[p].whence,
                   alone |-> pc[p].alone, to |-> to]
  <2>1. /\ ofd' = [ofd EXCEPT ![fds[p][n]].off = to]
        /\ pc' = [pc EXCEPT ![p] = r]
        /\ last' = None
    BY <1>5, <1>1 DEF TruncSeek, IInv, TruncState
  <2>2. to \in 0 .. MaxLen
    BY <1>5 DEF Seek
  <2>3. pc[p].whence = "cur" /\ pc[p].alone => to = pc[p].offset + pc[p].prev
    BY <1>2, <1>5 DEF Seek
  <2> HIDE DEF to
  <2>4. /\ \A q \in Proc : pc'[q] = IF q = p THEN r ELSE pc[q]
        /\ \A q \in Proc \ {p} : pc'[q] = pc[q]
        /\ DOMAIN pc' = Proc
        /\ \A q \in Proc : "at" \in DOMAIN pc'[q]
        /\ \A q \in Proc : WaitOK(pc'[q])
    <3>1. "at" \in DOMAIN r /\ r.at # "lock"
      OBVIOUS
    <3> HIDE DEF r
    <3> QED BY <2>1, <3>1, PlaceChanged
  <2>5. OnlyOf(p, n)
    BY <1>1, <1>2, <2>1, FieldSet DEF OnlyOf
  <2>6. HandlesOK' /\ \A q \in Proc \ {p} : TruncOK(q)'
    BY <2>4, <2>5, OnlyOfKeeps
  <2>7. LockState'
    BY <1>1, <2>4 DEF IInv, LockState
  <2>8. TruncOK(p)'
    <3>1. pc'[p] = r
      BY <2>4
    <3>2. ofd'[fds[p][n]].ino = ofd[fds[p][n]].ino
      BY <1>2, <2>5 DEF OnlyOf, IInv, HandlesOK
    <3> QED BY <1>1, <1>2, <2>2, <2>3, <3>1, <3>2 DEF TruncOK, OfdOf, Alone
  <2>9. TruncState'
    BY <1>1, <2>1, <2>4, <2>6, <2>8 DEF IInv, TruncState, TruncRestores, None
  <2> QED BY <1>3, <2>6, <2>7, <2>9 DEF IInv
<1> QED BY <1>4, <1>5

(* The seek back, to where the offset was.                                 *)
LEMMA TruncBackKeeps ==
    ASSUME IInv, NEW p \in Proc, TruncBack(p)
    PROVE  IInv'
<1> DEFINE n == pc[p].n
           r == [pc[p] EXCEPT !.at = "trunc_cut"]
<1>1. /\ pc[p].at = "trunc_back" /\ UNCHANGED <<data, fds, locks, left>>
      /\ ofd' = [ofd EXCEPT ![fds[p][n]].off = pc[p].prev]
      /\ last' = None
  BY DEF TruncBack
<1>2. /\ {"at", "n", "prev", "offset", "whence", "alone", "to"} \subseteq DOMAIN pc[p]
      /\ n \in Fd /\ fds[p][n] # NotOpen /\ OfdOf(p, n).ino \in Ino
      /\ pc[p].to \in 0 .. MaxLen
      /\ pc[p].alone => /\ Alone(p, n)
                        /\ pc[p].whence = "cur" => pc[p].to = pc[p].offset + pc[p].prev
  BY <1>1 DEF IInv, TruncState, TruncOK, Truncating
<1>3. BudgetOK'
  BY <1>1 DEF IInv, BudgetOK
<1>4. pc' = [pc EXCEPT ![p] = r]
  BY DEF TruncBack
<1>5. /\ DOMAIN r = DOMAIN pc[p] /\ r.at = "trunc_cut" /\ r.n = n
      /\ r.prev = pc[p].prev /\ r.offset = pc[p].offset /\ r.to = pc[p].to
      /\ r.whence = pc[p].whence /\ r.alone = pc[p].alone
  BY <1>2
<1> HIDE DEF r
<1>6. /\ \A q \in Proc : pc'[q] = IF q = p THEN r ELSE pc[q]
      /\ \A q \in Proc \ {p} : pc'[q] = pc[q]
      /\ DOMAIN pc' = Proc
      /\ \A q \in Proc : "at" \in DOMAIN pc'[q]
      /\ \A q \in Proc : WaitOK(pc'[q])
  BY <1>2, <1>4, <1>5, PlaceChanged
<1>7. OnlyOf(p, n)
  BY <1>1, <1>2, FieldSet DEF OnlyOf
<1>8. HandlesOK' /\ \A q \in Proc \ {p} : TruncOK(q)'
  BY <1>6, <1>7, OnlyOfKeeps
<1>9. LockState'
  BY <1>1, <1>6 DEF IInv, LockState
<1>10. TruncOK(p)'
  <2>1. pc'[p] = r
    BY <1>6
  <2>2. fds[p][n] \in DOMAIN ofd /\ "off" \in DOMAIN ofd[fds[p][n]]
    BY <1>2 DEF IInv, HandlesOK
  <2>3. ofd'[fds[p][n]].ino = ofd[fds[p][n]].ino
    BY <1>2, <1>7, <2>2 DEF OnlyOf
  <2>4. ofd'[fds[p][n]].off = pc[p].prev
    BY <1>1, <2>2
  <2> QED BY <1>1, <1>2, <1>5, <2>1, <2>3, <2>4 DEF TruncOK, OfdOf, Alone
<1>11. TruncState'
  BY <1>1, <1>6, <1>8, <1>10 DEF IInv, TruncState, TruncRestores, None
<1> QED BY <1>3, <1>8, <1>9, <1>11 DEF IInv

(* A file that is cut has the length it is cut to.                         *)
LEMMA CutLength ==
    ASSUME NEW c, NEW len \in Nat
    PROVE  Len(Cut(c, len)) = len
BY DEF Cut

(* The cut and the end of the request.                                     *)
LEMMA TruncCutKeeps ==
    ASSUME IInv, NEW p \in Proc, TruncCut(p)
    PROVE  IInv'
<1> DEFINE n == pc[p].n
           o == OfdOf(p, n)
           ok == o.acc # "rd"
<1>1. /\ pc[p].at = "trunc_cut" /\ UNCHANGED <<ofd, fds, locks, left>>
      /\ pc' = [pc EXCEPT ![p] = User]
      /\ data' = IF ok THEN [data EXCEPT ![o.ino] = Cut(@, pc[p].to)] ELSE data
  BY DEF TruncCut, TruncReply
<1>2. /\ n \in Fd /\ fds[p][n] # NotOpen /\ o.ino \in Ino
      /\ pc[p].to \in 0 .. MaxLen
      /\ pc[p].alone => /\ Alone(p, n)
                        /\ o.off = pc[p].prev
                        /\ pc[p].whence = "cur" => pc[p].to = pc[p].offset + pc[p].prev
  BY <1>1 DEF IInv, TruncState, TruncOK, Truncating
<1>3. BudgetOK'
  BY <1>1 DEF IInv, BudgetOK
<1>4. /\ \A q \in Proc : pc'[q] = IF q = p THEN User ELSE pc[q]
      /\ \A q \in Proc \ {p} : pc'[q] = pc[q]
      /\ DOMAIN pc' = Proc
      /\ \A q \in Proc : "at" \in DOMAIN pc'[q]
      /\ \A q \in Proc : WaitOK(pc'[q])
  BY <1>1, UserPlace, PlaceChanged
<1>5. HandlesOK' /\ \A q \in Proc \ {p} : TruncOK(q)'
  BY <1>1, <1>4, SameFilesKeep
<1>6. LockState'
  BY <1>1, <1>4 DEF IInv, LockState
<1>7. TruncOK(p)'
  BY <1>4 DEF TruncOK, User, Truncating
<1>8. DOMAIN data' = Ino
  BY <1>1 DEF IInv, TruncState
<1>9. /\ last'.alone = pc[p].alone /\ last'.ok = ok
      /\ last'.prev = pc[p].prev /\ last'.now = o.off /\ last'.to = pc[p].to
      /\ last'.asked = IF pc[p].whence = "cur" THEN pc[p].offset + pc[p].prev
                       ELSE pc[p].to
      /\ last'.len = Len(data'[o.ino])
  BY <1>1 DEF TruncCut, TruncReply, OfdOf
<1>10. ok => Len(data'[o.ino]) = pc[p].to
  <2>1. pc[p].to \in Nat
    BY <1>2
  <2>2. ok => data'[o.ino] = Cut(data[o.ino], pc[p].to)
    BY <1>1, <1>2 DEF IInv, TruncState
  <2> QED BY <2>1, <2>2, CutLength
<1>11. TruncRestores'
  BY <1>2, <1>9, <1>10 DEF TruncRestores
<1>12. TruncState'
  BY <1>4, <1>5, <1>7, <1>8, <1>11 DEF TruncState
<1> QED BY <1>3, <1>5, <1>6, <1>12 DEF IInv

(* io_lock is granted, or waits.                                           *)
LEMMA LockKeeps ==
    ASSUME IInv, NEW p \in Proc, NEW n \in Fd, NEW type \in Lock, NEW wait,
           io_lock(p, n, type, wait)
    PROVE  IInv'
<1> DEFINE i == OfdOf(p, n).ino
           r == [at |-> "lock", ino |-> i, type |-> type]
<1>1. InUser(p) /\ UNCHANGED <<data, ofd, fds>> /\ last' = None
  BY DEF io_lock
<1>2. BudgetOK'
  BY SpendKeeps DEF io_lock, IInv
<1>3. i \in Ino
  BY DEF io_lock, IsOpen, IsUsed, OfdOf, IInv, HandlesOK
<1>4. \/ locks' = [locks EXCEPT ![i][p] = type] /\ UNCHANGED pc
      \/ pc' = [pc EXCEPT ![p] = r] /\ UNCHANGED locks
  BY DEF io_lock
<1>5. "at" \in DOMAIN r /\ WaitOK(r) /\ r.at = "lock"
  BY <1>3 DEF WaitOK
<1> HIDE DEF i, r
<1>6. \A q \in Proc : pc'[q] = pc[q] \/ (q = p /\ pc'[q] = r)
  <2>1. CASE UNCHANGED pc
    BY <2>1
  <2>2. CASE pc' = [pc EXCEPT ![p] = r]
    BY <2>2 DEF IInv, TruncState
  <2> QED BY <1>4, <2>1, <2>2
<1>7. \A q \in Proc : WaitOK(pc'[q])
  BY <1>5, <1>6 DEF IInv, LockState
<1>8. LockState'
  <2>1. CASE UNCHANGED locks
    BY <2>1, <1>7 DEF IInv, LockState
  <2> QED BY <1>3, <1>4, <1>7, <2>1, SetKeeps DEF IInv
<1>9. HandlesOK' /\ \A q \in Proc \ {p} : TruncOK(q)'
  BY <1>1, <1>6, SameFilesKeep
<1>10. TruncOK(p)'
  BY <1>1, <1>5, <1>6 DEF TruncOK, InUser, Truncating
<1>11. DOMAIN pc' = Proc /\ \A q \in Proc : "at" \in DOMAIN pc'[q]
  BY <1>4, <1>5, <1>6 DEF IInv, TruncState
<1>12. TruncState'
  BY <1>1, <1>9, <1>10, <1>11 DEF IInv, TruncState, TruncRestores, None
<1> QED BY <1>2, <1>8, <1>9, <1>12 DEF IInv

(* A wait for a lock ends, with the lock or without.                       *)
LEMMA LockEndKeeps ==
    ASSUME IInv, NEW p \in Proc, LockGranted(p) \/ LockInterrupted(p)
    PROVE  IInv'
<1>1. /\ pc[p].at = "lock" /\ UNCHANGED <<data, ofd, fds, left>> /\ last' = None
      /\ pc' = [pc EXCEPT ![p] = User]
  BY DEF LockGranted, LockInterrupted
<1>2. /\ \A q \in Proc : pc'[q] = IF q = p THEN User ELSE pc[q]
      /\ \A q \in Proc \ {p} : pc'[q] = pc[q]
      /\ DOMAIN pc' = Proc
      /\ \A q \in Proc : "at" \in DOMAIN pc'[q]
      /\ \A q \in Proc : WaitOK(pc'[q])
  BY <1>1, UserPlace, PlaceChanged
<1>3. pc[p].ino \in Ino /\ pc[p].type \in Lock
  BY <1>1 DEF IInv, LockState, WaitOK
<1>4. \/ locks' = [locks EXCEPT ![pc[p].ino][p] = pc[p].type]
      \/ UNCHANGED locks
  BY DEF LockGranted, LockInterrupted
<1>5. LockState'
  <2>1. CASE UNCHANGED locks
    BY <2>1, <1>2 DEF IInv, LockState
  <2> QED BY <1>2, <1>3, <1>4, <2>1, SetKeeps DEF IInv
<1>6. HandlesOK' /\ \A q \in Proc \ {p} : TruncOK(q)'
  BY <1>1, <1>2, SameFilesKeep
<1>7. TruncOK(p)'
  BY <1>2, UserPlace DEF TruncOK, Truncating
<1>8. TruncState'
  BY <1>1, <1>2, <1>6, <1>7 DEF IInv, TruncState, TruncRestores, None
<1>9. BudgetOK'
  BY <1>1 DEF IInv, BudgetOK
<1> QED BY <1>5, <1>6, <1>8, <1>9 DEF IInv

-----------------------------------------------------------------------------
(* The invariant holds at the start.                                       *)
LEMMA InitInvariant == Init => IInv
<1> SUFFICES ASSUME Init PROVE IInv
  OBVIOUS
<1>1. DOMAIN ofd = {}
  BY DEF Init
<1>2. HandlesOK
  <2>1. DOMAIN ofd \subseteq 1 .. 0
    BY <1>1
  <2> QED BY <1>1, <2>1 DEF Init, HandlesOK, Closed, NotOpen
<1>3. BudgetOK
  BY FilesAssumption DEF Init, BudgetOK
<1>4. \A p \in Proc : pc[p] = User \/ pc[p] = Gone
  BY DEF Init
<1>5. LockState
  BY <1>4 DEF Init, LockState, Lock, WaitOK, User, Gone
<1>6. TruncState
  BY <1>4 DEF Init, TruncState, TruncOK, TruncRestores, None, User, Gone, Truncating
<1> QED BY <1>2, <1>3, <1>5, <1>6 DEF IInv

(* Every step keeps the invariant.                                         *)
LEMMA StepInvariant == IInv /\ [Next]_vars => IInv'
<1> SUFFICES ASSUME IInv, [Next]_vars PROVE IInv'
  OBVIOUS
<1>1. CASE UNCHANGED vars
  <2>1. HandlesOK' /\ BudgetOK'
    BY <1>1 DEF vars, IInv, HandlesOK, BudgetOK
  <2>2. LockState'
    BY <1>1 DEF vars, IInv, LockState, WaitOK
  <2>3. \A p \in Proc : TruncOK(p)'
    BY <1>1 DEF vars, IInv, TruncState, TruncOK, OfdOf, Alone
  <2>4. TruncState'
    BY <1>1, <2>3 DEF vars, IInv, TruncState, TruncRestores
  <2> QED BY <2>1, <2>2, <2>4 DEF IInv
<1>2. CASE Next
  <2>1. PICK p \in Proc :
        \/ exit(p)
        \/ TruncSeek(p) \/ TruncBack(p) \/ TruncCut(p)
        \/ LockGranted(p) \/ LockInterrupted(p)
        \/ \E c \in Proc : proc_fork(p, c)
        \/ \E c \in Proc, s \in Spawns : proc_spawn(p, c, s)
        \/ \E area \in Sent : io_write(p, area)
        \/ \E n \in Fd :
              \/ io_close(p, n) \/ io_fcntl_flags(p, n)
              \/ \E m \in Fd : io_dup(p, n, m)
              \/ io_rewinddir(p, n)
              \/ \E req \in Readdirs :
                    \/ io_readdir(p, n, req.area, req.ndirs)
                    \/ io_readdir_fails(p, n, req.ndirs)
              \/ \E req \in Opens : io_open(p, n, req)
              \/ \E req \in Reads : io_read(p, n, req.area, req.nbytes)
              \/ \E offset \in Offsets, whence \in Whence :
                    \/ io_lseek(p, n, offset, whence)
                    \/ fsys_trunc(p, n, offset, whence)
              \/ \E type \in Lock, wait \in BOOLEAN : io_lock(p, n, type, wait)
    BY <1>2 DEF Next
  <2>2. CASE exit(p) \/ TruncSeek(p) \/ TruncBack(p) \/ TruncCut(p)
    BY <2>2, ExitKeeps, TruncSeekKeeps, TruncBackKeeps, TruncCutKeeps
  <2>3. CASE LockGranted(p) \/ LockInterrupted(p)
    BY <2>3, LockEndKeeps
  <2>4. CASE \E c \in Proc : proc_fork(p, c)
    BY <2>4, ForkKeeps
  <2>5. CASE \E c \in Proc, s \in Spawns : proc_spawn(p, c, s)
    BY <2>5, SpawnKeeps
  <2>6. CASE \E area \in Sent : io_write(p, area)
    BY <2>6, WriteTouches, TouchedKeeps
  <2>7. ASSUME NEW n \in Fd, io_close(p, n) \/ io_fcntl_flags(p, n)
        PROVE  IInv'
    BY <2>7, CloseKeeps, FlagsTouches, TouchedKeeps
  <2>8. ASSUME NEW n \in Fd, NEW m \in Fd, io_dup(p, n, m)
        PROVE  IInv'
    BY <2>8, DupKeeps
  <2>9. ASSUME NEW n \in Fd, io_rewinddir(p, n)
        PROVE  IInv'
    BY <2>9, RewinddirTouches, TouchedKeeps
  <2>10. ASSUME NEW n \in Fd, NEW req \in Readdirs,
                io_readdir(p, n, req.area, req.ndirs)
         PROVE  IInv'
    BY <2>10, ReaddirTouches, TouchedKeeps
  <2>11. ASSUME NEW n \in Fd, NEW req \in Readdirs, io_readdir_fails(p, n, req.ndirs)
         PROVE  IInv'
    BY <2>11, ReaddirFailsTouches, TouchedKeeps
  <2>12. ASSUME NEW n \in Fd, NEW req \in Opens, io_open(p, n, req)
         PROVE  IInv'
    BY <2>12, OpenKeeps
  <2>13. ASSUME NEW n \in Fd, NEW req \in Reads, io_read(p, n, req.area, req.nbytes)
         PROVE  IInv'
    BY <2>13, ReadTouches, TouchedKeeps
  <2>14. ASSUME NEW n \in Fd, NEW offset \in Offsets, NEW whence \in Whence,
                io_lseek(p, n, offset, whence)
         PROVE  IInv'
    BY <2>14, LseekTouches, TouchedKeeps
  <2>15. ASSUME NEW n \in Fd, NEW offset \in Offsets, NEW whence \in Whence,
                fsys_trunc(p, n, offset, whence)
         PROVE  IInv'
    BY <2>15, TruncKeeps
  <2>16. ASSUME NEW n \in Fd, NEW type \in Lock, NEW wait \in BOOLEAN,
                io_lock(p, n, type, wait)
         PROVE  IInv'
    BY <2>16, LockKeeps
  <2> QED BY <2>1, <2>2, <2>3, <2>4, <2>5, <2>6, <2>7, <2>8, <2>9, <2>10, <2>11,
             <2>12, <2>13, <2>14, <2>15, <2>16
<1> QED BY <1>1, <1>2

(* IInv is an invariant of the specification.                              *)
THEOREM Invariance == Spec => []IInv
<1>1. Init => IInv
  BY InitInvariant
<1>2. IInv /\ [Next]_vars => IInv'
  BY StepInvariant
<1> QED BY <1>1, <1>2, PTL DEF Spec

(* A guest alone with its open file description finds the offset where it  *)
(* was after fsys_trunc and the file cut where it asked, whatever other    *)
(* guests do between the host calls.                                       *)
THEOREM TruncAlwaysRestores == Spec => []TruncRestores
<1>1. IInv => TruncRestores
  BY DEF IInv, TruncState
<1> QED BY <1>1, Invariance, PTL

-----------------------------------------------------------------------------
(* The host's vectors.                                                     *)

(* The sums that Total is defined by.                                      *)
IsSum(s, f) ==
    /\ f \in [0 .. Len(s) -> Nat] /\ f[0] = 0
    /\ \A k \in 1 .. Len(s) : f[k] = f[k - 1] + s[k].len

(* Total is the last of any such sums.                                     *)
LEMMA TotalIs ==
    ASSUME NEW s \in Seq(SliceRec), NEW f, IsSum(s, f)
    PROVE  Total(s) = f[Len(s)]
<1> DEFINE n == Len(s)
           Sum(h) == h = [k \in 0 .. n |-> IF k = 0 THEN 0 ELSE h[k - 1] + s[k].len]
           g == CHOOSE h : Sum(h)
           N == {k \in Nat : k <= n => g[k] = f[k]}
<1>0. n \in Nat
  OBVIOUS
<1>1. Sum(f)
  <2>1. f = [k \in 0 .. n |-> f[k]] /\ f[0] = 0
    BY DEF IsSum
  <2>2. ASSUME NEW k \in 0 .. n
        PROVE  f[k] = IF k = 0 THEN 0 ELSE f[k - 1] + s[k].len
    <3>1. k = 0 \/ k \in 1 .. n
      BY <1>0
    <3> QED BY <2>1, <3>1 DEF IsSum
  <2> HIDE DEF n
  <2> QED BY <2>1, <2>2
<1>2. Sum(g)
  BY <1>1, Zenon
<1>3. Total(s) = g[n]
  BY DEF Total
<1> HIDE DEF g
<1>4. 0 \in N
  BY <1>0, <1>2 DEF IsSum
<1>5. ASSUME NEW k \in Nat, k \in N PROVE k + 1 \in N
  <2> SUFFICES ASSUME k + 1 <= n PROVE g[k + 1] = f[k + 1]
    OBVIOUS
  <2>1. k + 1 \in 1 .. n /\ k + 1 \in 0 .. n /\ (k + 1) - 1 = k /\ k + 1 # 0 /\ k <= n
    BY <1>0
  <2>2. g[k + 1] = g[k] + s[k + 1].len
    <3>1. g[k + 1] = IF k + 1 = 0 THEN 0 ELSE g[(k + 1) - 1] + s[k + 1].len
      BY <1>2, <2>1
    <3> QED BY <2>1, <3>1
  <2>3. f[k + 1] = f[k] + s[k + 1].len
    <3>1. f[k + 1] = f[(k + 1) - 1] + s[k + 1].len
      BY <2>1 DEF IsSum
    <3> QED BY <2>1, <3>1
  <2>4. g[k] = f[k]
    BY <1>5, <2>1
  <2> QED BY <2>2, <2>3, <2>4
<1> HIDE DEF N
<1>6. n \in N
  BY <1>0, <1>4, <1>5, NatSetInduction
<1> QED BY <1>0, <1>3, <1>6 DEF N

(* There are such sums.                                                    *)
LEMMA SumExists ==
    ASSUME NEW s \in Seq(SliceRec)
    PROVE  \E f : IsSum(s, f)
<1> DEFINE n == Len(s)
           g == [k \in Nat |-> [x \in Nat |-> IF k \in 1 .. n THEN x + s[k].len ELSE x]]
<1>0. n \in Nat /\ \A k \in 1 .. n : s[k] \in SliceRec
  OBVIOUS
<1>1. \A k \in 1 .. n : s[k].len \in Nat
  BY <1>0 DEF SliceRec
<1> HIDE DEF n
<1>2. g \in [Nat -> [Nat -> Nat]]
  <2>1. \A k, x \in Nat : (IF k \in 1 .. n THEN x + s[k].len ELSE x) \in Nat
    BY <1>1
  <2> QED BY <2>1
<1>3. PICK f : Rounds(f, Nat, 0, g, n)
  <2> HIDE DEF g
  <2>1. n \in Nat /\ 0 \in Nat
    BY <1>0
  <2> QED BY <1>2, <2>1, RoundsExist
<1>4. f \in [0 .. n -> Nat] /\ f[0] = 0
  BY <1>3 DEF Rounds
<1>5. ASSUME NEW k \in 1 .. n PROVE f[k] = f[k - 1] + s[k].len
  <2>1. k \in Nat /\ k - 1 \in 0 .. n
    BY <1>0
  <2>2. f[k - 1] \in Nat /\ f[k] = g[k][f[k - 1]]
    BY <1>3, <1>4, <2>1 DEF Rounds
  <2> QED BY <2>1, <2>2
<1> QED BY <1>4, <1>5 DEF IsSum, n

(* The total of vectors, and of one more.                                  *)
LEMMA TotalFacts ==
    /\ Total(<<>>) = 0
    /\ \A s \in Seq(SliceRec) : Total(s) \in Nat
    /\ \A s \in Seq(SliceRec), e \in SliceRec : Total(Append(s, e)) = Total(s) + e.len
<1>1. Total(<<>>) = 0
  <2> DEFINE f == [k \in 0 .. 0 |-> 0]
  <2>1. <<>> \in Seq(SliceRec) /\ Len(<<>>) = 0
    BY EmptySeq
  <2>2. IsSum(<<>>, f)
    BY <2>1 DEF IsSum
  <2>3. f[0] = 0
    OBVIOUS
  <2> HIDE DEF f
  <2>4. Total(<<>>) = f[Len(<<>>)]
    BY <2>1, <2>2, TotalIs
  <2> QED BY <2>1, <2>3, <2>4
<1>2. ASSUME NEW s \in Seq(SliceRec) PROVE Total(s) \in Nat
  <2>1. PICK f : IsSum(s, f)
    BY SumExists
  <2>2. Total(s) = f[Len(s)]
    BY <2>1, TotalIs
  <2>3. Len(s) \in Nat /\ f \in [0 .. Len(s) -> Nat]
    BY <2>1 DEF IsSum
  <2> QED BY <2>2, <2>3
<1>3. ASSUME NEW s \in Seq(SliceRec), NEW e \in SliceRec
      PROVE  Total(Append(s, e)) = Total(s) + e.len
  <2>1. PICK f : IsSum(s, f)
    BY SumExists
  <2> DEFINE n == Len(s)
             u == Append(s, e)
             v == f[n] + e.len
             h == [k \in 0 .. n + 1 |-> IF k = n + 1 THEN v ELSE f[k]]
  <2>2. /\ n \in Nat /\ u \in Seq(SliceRec) /\ Len(u) = n + 1 /\ u[n + 1] = e
        /\ \A k \in 1 .. n : u[k] = s[k]
    OBVIOUS
  <2>3. /\ f \in [0 .. n -> Nat] /\ f[0] = 0
        /\ \A k \in 1 .. n : f[k] = f[k - 1] + s[k].len
    BY <2>1 DEF IsSum
  <2>4. v \in Nat
    <3>1. e.len \in Nat
      BY DEF SliceRec
    <3> QED BY <2>2, <2>3, <3>1
  <2>5. Total(s) = f[n]
    BY <2>1, TotalIs
  <2> HIDE DEF n, u
  <2>6. IsSum(u, h)
    <3>1. h \in [0 .. n + 1 -> Nat] /\ h[0] = 0
      <4> HIDE DEF v
      <4> QED BY <2>2, <2>3, <2>4
    <3>2. ASSUME NEW k \in 1 .. n + 1 PROVE h[k] = h[k - 1] + u[k].len
      <4>1. k - 1 \in 0 .. n /\ h[k - 1] = f[k - 1]
        BY <2>2
      <4>2. CASE k = n + 1
        <5>1. h[k] = v /\ u[k] = e /\ k - 1 = n
          BY <2>2, <4>2
        <5>2. h[k] = f[n] + e.len
          BY <5>1
        <5>3. h[k - 1] = f[n] /\ u[k].len = e.len
          BY <4>1, <5>1
        <5> QED BY <5>2, <5>3, Zenon
      <4>3. CASE k # n + 1
        <5>1. k \in 1 .. n
          BY <2>2, <4>3
        <5>2. h[k] = f[k] /\ u[k] = s[k]
          BY <2>2, <4>3, <5>1
        <5>3. f[k] = f[k - 1] + s[k].len
          BY <2>3, <5>1
        <5> QED BY <4>1, <5>2, <5>3, Zenon
      <4> QED BY <4>2, <4>3
    <3> HIDE DEF h
    <3> QED BY <2>2, <3>1, <3>2 DEF IsSum
  <2>7. h[n + 1] = v
    BY <2>2
  <2> HIDE DEF h
  <2>8. Total(u) = h[n + 1]
    BY <2>2, <2>6, TotalIs
  <2> QED BY <2>5, <2>7, <2>8 DEF u
<1> QED BY <1>1, <1>2, <1>3

(* The total of vectors one after the other.                               *)
LEMMA TotalConcat ==
    ASSUME NEW s \in Seq(SliceRec), NEW t \in Seq(SliceRec)
    PROVE  Total(s \o t) = Total(s) + Total(t)
<1> DEFINE P == {u \in Seq(SliceRec) : Total(s \o u) = Total(s) + Total(u)}
<1>1. <<>> \in P
  <2>1. <<>> \in Seq(SliceRec) /\ s \o <<>> = s
    BY EmptySeq, ConcatEmptySeq
  <2>2. Total(s) \in Nat /\ Total(<<>>) = 0
    BY TotalFacts
  <2>3. Total(s) = Total(s) + 0
    BY <2>2
  <2>4. Total(s \o <<>>) = Total(s) + Total(<<>>)
    BY <2>1, <2>2, <2>3, Zenon
  <2> QED BY <2>1, <2>4, Zenon
<1>2. ASSUME NEW u \in Seq(SliceRec), NEW e \in SliceRec, u \in P
      PROVE  Append(u, e) \in P
  <2>1. s \o Append(u, e) = Append(s \o u, e)
    <3>1. Append(u, e) = u \o <<e>> /\ <<e>> \in Seq(SliceRec)
      BY AppendIsConcat
    <3>2. s \o (u \o <<e>>) = (s \o u) \o <<e>>
      BY <3>1, ConcatAssociative
    <3>3. s \o u \in Seq(SliceRec)
      BY ConcatProperties
    <3>4. Append(s \o u, e) = (s \o u) \o <<e>>
      BY <3>3, AppendIsConcat
    <3> QED BY <3>1, <3>2, <3>4
  <2>2. s \o u \in Seq(SliceRec) /\ Append(u, e) \in Seq(SliceRec)
    BY ConcatProperties
  <2> DEFINE a == Total(s)
             b == Total(u)
             l == e.len
  <2>3. a \in Nat /\ b \in Nat /\ l \in Nat
    BY TotalFacts DEF SliceRec
  <2>4. Total(Append(s \o u, e)) = Total(s \o u) + l /\ Total(Append(u, e)) = b + l
    BY <2>2, TotalFacts
  <2>5. Total(s \o u) = a + b
    BY <1>2
  <2> HIDE DEF a, b, l
  <2>6. (a + b) + l = a + (b + l)
    BY <2>3
  <2>7. Total(s \o Append(u, e)) = a + Total(Append(u, e))
    BY <2>1, <2>4, <2>5, <2>6, Zenon
  <2> QED BY <2>2, <2>7, Zenon DEF a
<1> HIDE DEF P
<1>3. t \in P
  BY <1>1, <1>2, SeqSetInduction
<1> QED BY <1>3 DEF P

(* The total of slices that follow each other.                             *)
LEMMA TotalRun ==
    ASSUME NEW c, NEW st, NEW out, NEW from \in Nat, NEW to \in Nat,
           Run(c, st, out, from, to)
    PROVE  Total(out) = to - from
<1> DEFINE n == Len(out)
           P(k) == Place(st, out, to, k + 1)
           f == [k \in 0 .. n |-> P(k) - from]
           N == {k \in Nat : k <= n => P(k) \in Nat /\ P(k) >= from}
<1>1. n \in Nat /\ out \in Seq(SliceRec) /\ P(0) = from /\ P(n) = to
  BY DEF Run, Place
<1>2. ASSUME NEW k \in 1 .. n PROVE out[k].len \in Nat /\ P(k) = P(k - 1) + out[k].len
  <2>1. out[k] \in SliceRec /\ (k - 1) + 1 = k
    BY <1>1
  <2>2. Place(st, out, to, k + 1) = Place(st, out, to, k) + out[k].len
    BY DEF Run
  <2> QED BY <2>1, <2>2 DEF SliceRec
<1> HIDE DEF n, P
<1>3. 0 \in N
  BY <1>1
<1>4. ASSUME NEW k \in Nat, k \in N PROVE k + 1 \in N
  <2> SUFFICES ASSUME k + 1 <= n PROVE P(k + 1) \in Nat /\ P(k + 1) >= from
    OBVIOUS
  <2>1. k + 1 \in 1 .. n /\ (k + 1) - 1 = k /\ k <= n
    BY <1>1
  <2>2. out[k + 1].len \in Nat /\ P(k + 1) = P(k) + out[k + 1].len
    BY <1>2, <2>1
  <2>3. P(k) \in Nat /\ P(k) >= from
    BY <1>4, <2>1
  <2> QED BY <2>2, <2>3
<1> HIDE DEF N
<1>5. Nat \subseteq N
  BY <1>3, <1>4, NatSetInduction
<1>6. ASSUME NEW k \in 0 .. n PROVE P(k) \in Nat /\ P(k) >= from
  BY <1>1, <1>5 DEF N
<1>7. IsSum(out, f)
  <2>1. f \in [0 .. n -> Nat] /\ f[0] = 0
    BY <1>1, <1>6
  <2>2. ASSUME NEW k \in 1 .. n PROVE f[k] = f[k - 1] + out[k].len
    <3>1. k \in 0 .. n /\ k - 1 \in 0 .. n
      BY <1>1
    <3> DEFINE a == P(k - 1)
               b == P(k)
               l == out[k].len
    <3>2. a \in Nat /\ b \in Nat /\ l \in Nat /\ b = a + l
      BY <1>2, <1>6, <3>1
    <3>3. f[k] = b - from /\ f[k - 1] = a - from
      BY <3>1
    <3> HIDE DEF a, b, l, f
    <3>4. f[k] = f[k - 1] + l
      BY <3>2, <3>3
    <3> QED BY <3>4 DEF l
  <2> HIDE DEF f
  <2> QED BY <2>1, <2>2 DEF IsSum, n
<1>8. f[n] = to - from
  BY <1>1
<1> HIDE DEF f
<1>9. Total(out) = f[Len(out)]
  BY <1>1, <1>7, TotalIs
<1> QED BY <1>8, <1>9 DEF n

(* The total of the garbage.                                               *)
LEMMA TotalPadding ==
    ASSUME NEW pad, NEW q \in Nat, NEW rest \in Nat, Padding(pad, q, rest)
    PROVE  Total(pad) = q * GarbageSize + rest
<1> DEFINE n == Len(pad)
           M(k) == k * GarbageSize
           f == [k \in 0 .. n |-> IF k <= q THEN M(k) ELSE M(q) + rest]
<1>1. /\ \A k \in Nat : M(k) \in Nat
      /\ M(0) = 0
      /\ \A k \in Nat : M(k + 1) = M(k) + GarbageSize
  BY MessageAssumption
<1>2. /\ pad \in Seq(SliceRec) /\ n \in Nat
      /\ n = IF rest = 0 THEN q ELSE q + 1
      /\ \A k \in 1 .. n : pad[k].len = IF k <= q THEN GarbageSize ELSE rest
  BY DEF Padding
<1> HIDE DEF n, M
<1>3. IsSum(pad, f)
  <2>0. M(q) + rest \in Nat /\ \A k \in 0 .. n : M(k) \in Nat
    <3>1. \A k \in Nat : M(k) \in Nat
      BY <1>1
    <3>2. \A k \in 0 .. n : k \in Nat
      BY <1>2
    <3>3. M(q) \in Nat
      BY <3>1
    <3> QED BY <3>1, <3>2, <3>3
  <2>1. f \in [0 .. n -> Nat] /\ f[0] = 0
    <3>1. \A k \in 0 .. n : (IF k <= q THEN M(k) ELSE M(q) + rest) \in Nat
      BY <2>0
    <3>2. f \in [0 .. n -> Nat]
      BY <3>1
    <3>3. f[0] = 0
      <4>1. 0 \in 0 .. n /\ 0 <= q /\ M(0) = 0
        BY <1>1, <1>2
      <4> QED BY <4>1
    <3> QED BY <3>2, <3>3
  <2>2. ASSUME NEW k \in 1 .. n PROVE f[k] = f[k - 1] + pad[k].len
    <3>1. k \in 0 .. n /\ k - 1 \in 0 .. n /\ k - 1 \in Nat /\ (k - 1) + 1 = k
          /\ k - 1 <= q /\ f[k - 1] = M(k - 1)
      BY <1>2
    <3>2. CASE k <= q
      <4>1. f[k] = M(k) /\ pad[k].len = GarbageSize
        BY <1>2, <3>1, <3>2
      <4>2. M(k) = M(k - 1) + GarbageSize
        <5>1. M((k - 1) + 1) = M(k - 1) + GarbageSize
          BY <1>1, <3>1
        <5> QED BY <3>1, <5>1
      <4> QED BY <3>1, <4>1, <4>2
    <3>3. CASE ~ (k <= q)
      <4>1. f[k] = M(q) + rest /\ pad[k].len = rest /\ k - 1 = q
        BY <1>2, <3>1, <3>3
      <4> QED BY <3>1, <4>1
    <3> QED BY <3>2, <3>3
  <2> HIDE DEF f
  <2> QED BY <2>1, <2>2 DEF IsSum, n
<1>4. f[n] = M(q) + rest
  <2>1. M(q) \in Nat
    BY <1>1
  <2>2. CASE rest = 0
    BY <1>2, <2>1, <2>2
  <2>3. CASE rest # 0
    BY <1>2, <2>1, <2>3
  <2> QED BY <2>2, <2>3
<1> HIDE DEF f
<1>5. Total(pad) = f[n]
  BY <1>2, <1>3, TotalIs DEF n
<1> QED BY <1>4, <1>5 DEF M

(* What vectors of garbage hold.                                           *)
Garbage == {"X", "0"}
Junk(pad) == [k \in 1 .. Len(pad) |-> GarbageBytes(pad[k].len)]

(* It is as much as they are long.                                         *)
LEMMA JunkFacts ==
    ASSUME NEW pad \in Seq(SliceRec)
    PROVE  /\ Junk(pad) \in Seq(Seq(Garbage))
           /\ FlattenSeq(Junk(pad)) \in Seq(Garbage)
           /\ Len(FlattenSeq(Junk(pad))) = Total(pad)
<1> DEFINE P == {u \in Seq(SliceRec) : Len(FlattenSeq(Junk(u))) = Total(u)}
<1>1. ASSUME NEW n \in Nat
      PROVE  GarbageBytes(n) \in Seq(Garbage) /\ Len(GarbageBytes(n)) = n
  BY DEF GarbageBytes, Garbage
<1>2. ASSUME NEW u \in Seq(SliceRec) PROVE Junk(u) \in Seq(Seq(Garbage))
  <2>1. Len(u) \in Nat /\ \A k \in 1 .. Len(u) : u[k] \in SliceRec
    OBVIOUS
  <2>2. \A k \in 1 .. Len(u) : u[k].len \in Nat
    BY <2>1 DEF SliceRec
  <2>3. \A k \in 1 .. Len(u) : GarbageBytes(u[k].len) \in Seq(Garbage)
    BY <1>1, <2>2
  <2> QED BY <2>1, <2>3 DEF Junk
<1>3. <<>> \in P
  <2>1. <<>> \in Seq(SliceRec) /\ Len(<<>>) = 0 /\ Junk(<<>>) = <<>>
    BY EmptySeq DEF Junk
  <2>2. Len(FlattenSeq(Junk(<<>>))) = Total(<<>>)
    BY <2>1, FlattenEmpty, TotalFacts, Zenon
  <2> QED BY <2>1, <2>2, Zenon
<1>4. ASSUME NEW u \in Seq(SliceRec), NEW e \in SliceRec, u \in P
      PROVE  Append(u, e) \in P
  <2> DEFINE v == Append(u, e)
             b == GarbageBytes(e.len)
             n == Len(u)
  <2>1. /\ n \in Nat /\ v \in Seq(SliceRec) /\ Len(v) = n + 1 /\ v[n + 1] = e
        /\ \A k \in 1 .. n : v[k] = u[k]
    OBVIOUS
  <2>2. e.len \in Nat /\ b \in Seq(Garbage) /\ Len(b) = e.len
    BY <1>1 DEF SliceRec
  <2>3. Junk(u) \in Seq(Seq(Garbage))
    BY <1>2
  <2> HIDE DEF v, n
  <2>4. Junk(v) = Append(Junk(u), b)
    <3>1. Len(Junk(u)) = n /\ \A k \in 1 .. n : Junk(u)[k] = GarbageBytes(u[k].len)
      BY <2>1 DEF Junk, n
    <3>2. Append(Junk(u), b) = [k \in 1 .. n + 1 |-> IF k = n + 1 THEN b ELSE Junk(u)[k]]
      <4> DEFINE j == Junk(u)
                 T == Seq(Garbage)
      <4>1. j \in Seq(T) /\ b \in T /\ Len(j) = n
        BY <2>2, <2>3, <3>1
      <4> HIDE DEF b, j, T
      <4>2. Append(j, b) = [k \in 1 .. n + 1 |-> IF k = n + 1 THEN b ELSE j[k]]
        <5>1. Append(j, b) = [k \in 1 .. Len(j) + 1 |-> IF k = Len(j) + 1 THEN b ELSE j[k]]
          BY <4>1, AppendValue
        <5> QED BY <4>1, <5>1
      <4> QED BY <4>2 DEF j
    <3>3. ASSUME NEW k \in 1 .. n + 1
          PROVE  GarbageBytes(v[k].len) = IF k = n + 1 THEN b ELSE Junk(u)[k]
      <4>1. CASE k = n + 1
        BY <2>1, <4>1
      <4>2. CASE k # n + 1
        <5>1. k \in 1 .. n
          BY <2>1, <4>2
        <5> QED BY <2>1, <3>1, <4>2, <5>1
      <4> QED BY <4>1, <4>2
    <3>4. Junk(v) = [k \in 1 .. n + 1 |-> GarbageBytes(v[k].len)]
      BY <2>1 DEF Junk
    <3> HIDE DEF b
    <3> QED BY <3>2, <3>3, <3>4
  <2> HIDE DEF b
  <2>5. FlattenSeq(Junk(v)) = FlattenSeq(Junk(u)) \o b
    BY <2>2, <2>3, <2>4, FlattenAppend
  <2>6. FlattenSeq(Junk(u)) \in Seq(Garbage)
    BY <2>3, FlattenType
  <2>7. Len(FlattenSeq(Junk(v))) = Len(FlattenSeq(Junk(u))) + Len(b)
    BY <2>2, <2>5, <2>6, SMTT(30)
  <2>8. Len(FlattenSeq(Junk(u))) = Total(u)
    BY <1>4
  <2>9. Total(v) = Total(u) + e.len
    BY TotalFacts DEF v
  <2>10. Len(FlattenSeq(Junk(v))) = Total(v)
    BY <2>2, <2>7, <2>8, <2>9, Zenon
  <2> QED BY <2>1, <2>10, Zenon DEF v
<1> HIDE DEF P
<1>5. pad \in P
  BY <1>3, <1>4, SeqSetInduction
<1>6. Junk(pad) \in Seq(Seq(Garbage))
  BY <1>2
<1> QED BY <1>5, <1>6, FlattenType DEF P

(* The vectors that the host may store to are the slices.                  *)
LEMMA WritableIs ==
    ASSUME NEW out \in Seq(SliceRec), NEW pad \in Seq(SliceRec),
           \A k \in 1 .. Len(out) : out[k].part # 0,
           \A k \in 1 .. Len(pad) : pad[k].part = 0
    PROVE  Writable(out \o pad) = out
<1> DEFINE iov == out \o pad
           n == Len(out)
           X == {Len(iov) + 1} \cup {k \in DOMAIN iov : iov[k].part = 0}
<1>1. /\ n \in Nat /\ Len(pad) \in Nat /\ iov \in Seq(SliceRec) /\ Len(iov) = n + Len(pad)
      /\ \A k \in 1 .. n : iov[k] = out[k]
      /\ \A k \in n + 1 .. n + Len(pad) : iov[k] = pad[k - n]
      /\ DOMAIN iov = 1 .. Len(iov)
  BY ConcatProperties
<1> HIDE DEF iov
<1>2. X \in SUBSET Nat /\ X # {} /\ n + 1 \in X /\ \A k \in X : k >= n + 1
  <2>1. X \in SUBSET Nat /\ X # {}
    BY <1>1
  <2>2. ASSUME NEW k \in X PROVE k >= n + 1
    <3>1. CASE k = Len(iov) + 1
      BY <1>1, <3>1
    <3>2. CASE k \in 1 .. Len(iov) /\ iov[k].part = 0
      <4>1. ~ (k \in 1 .. n)
        BY <1>1, <3>2 DEF n
      <4> QED BY <1>1, <3>2, <4>1
    <3> QED BY <1>1, <3>1, <3>2
  <2>3. n + 1 \in X
    <3>1. CASE Len(pad) = 0
      BY <1>1, <3>1
    <3>2. CASE Len(pad) # 0
      <4>1. n + 1 \in n + 1 .. n + Len(pad) /\ (n + 1) - n = 1 /\ 1 \in 1 .. Len(pad)
            /\ n + 1 \in 1 .. Len(iov)
        BY <1>1, <3>2
      <4>2. iov[n + 1] = pad[1] /\ pad[1].part = 0
        BY <1>1, <4>1
      <4> QED BY <1>1, <4>1, <4>2
    <3> QED BY <3>1, <3>2
  <2> QED BY <2>1, <2>2, <2>3
<1>3. Min(X) = n + 1
  <2> DEFINE m == Min(X)
  <2>0. X \in SUBSET Nat /\ X # {}
    BY <1>2
  <2> HIDE DEF X
  <2>1. m \in X /\ \A x \in X : m <= x
    BY <2>0, MinOfNats
  <2>2. m >= n + 1 /\ m <= n + 1 /\ m \in Nat
    BY <1>2, <2>0, <2>1
  <2> HIDE DEF m
  <2>3. m = n + 1
    BY <1>1, <2>2
  <2> QED BY <2>3 DEF m
<1>4. Writable(iov) = SubSeq(iov, 1, n)
  <2>1. Writable(iov) = SubSeq(iov, 1, Min(X) - 1)
    BY DEF Writable
  <2>2. Min(X) - 1 = n
    BY <1>1, <1>3
  <2> QED BY <2>1, <2>2
<1>5. SubSeq(iov, 1, n) = out
  <2>1. SubSeq(iov, 1, n) = [k \in 1 .. n |-> iov[k]]
    BY <1>1
  <2>2. out = [k \in 1 .. n |-> out[k]]
    OBVIOUS
  <2> QED BY <1>1, <2>1, <2>2
<1> QED BY <1>4, <1>5 DEF iov

(* What the host finds in the vectors of common_iovec: slices `out' for    *)
(* the bytes `from' to `to' of the message, to which it may store, and     *)
(* garbage, all together as much as was asked for.                         *)
VectorIs(area, offset, size, iov, st, out, from, to, junk) ==
    /\ Layout(Chunks(area), st) /\ Run(Chunks(area), st, out, from, to)
    /\ from = Clip(offset, Len(FlattenSeq(area)))
    /\ to = Clip(from + size, Len(FlattenSeq(area)))
    /\ from \in Nat /\ to \in Nat /\ from <= to /\ to <= Len(FlattenSeq(area))
    /\ Total(iov) = size
    /\ Writable(iov) = out /\ Total(out) = to - from
    /\ junk \in Seq(Garbage) /\ Len(junk) = size - (to - from) /\ Len(junk) \in Nat
    /\ Gather(area, iov) = SubSeq(FlattenSeq(area), from + 1, to) \o junk

(* The bytes that writev finds.                                            *)
LEMMA GatherIs ==
    ASSUME NEW S, NEW area \in Seq(Seq(S)), NEW out \in Seq(SliceRec),
           NEW pad \in Seq(SliceRec),
           \A k \in 1 .. Len(out) : out[k].part # 0,
           \A k \in 1 .. Len(pad) : pad[k].part = 0,
           [k \in 1 .. Len(out) |-> Bytes(area, out[k])] \in Seq(Seq(S))
    PROVE  Gather(area, out \o pad) =
             FlattenSeq([k \in 1 .. Len(out) |-> Bytes(area, out[k])])
               \o FlattenSeq(Junk(pad))
<1> DEFINE iov == out \o pad
           n == Len(out)
           T == S \cup Garbage
           x == [k \in 1 .. n |-> Bytes(area, out[k])]
           y == Junk(pad)
           z == [k \in DOMAIN iov |-> IF iov[k].part = 0 THEN GarbageBytes(iov[k].len)
                                      ELSE Bytes(area, iov[k])]
<1>1. /\ n \in Nat /\ Len(pad) \in Nat /\ iov \in Seq(SliceRec) /\ Len(iov) = n + Len(pad)
      /\ \A k \in 1 .. n : iov[k] = out[k]
      /\ \A k \in n + 1 .. n + Len(pad) : iov[k] = pad[k - n]
      /\ DOMAIN iov = 1 .. Len(iov)
  BY ConcatProperties
<1>2. x \in Seq(Seq(T)) /\ y \in Seq(Seq(T))
  <2>1. S \subseteq T /\ Garbage \subseteq T
    OBVIOUS
  <2>2. x \in Seq(Seq(S)) /\ y \in Seq(Seq(Garbage))
    BY JunkFacts
  <2> HIDE DEF T, x, y
  <2> QED BY <2>1, <2>2, SeqLarger
<1>3. /\ Len(x) = n /\ \A k \in 1 .. n : x[k] = Bytes(area, out[k])
      /\ Len(y) = Len(pad) /\ \A k \in 1 .. Len(pad) : y[k] = GarbageBytes(pad[k].len)
  BY <1>1 DEF Junk
<1>4. Gather(area, iov) = FlattenSeq(z)
  BY DEF Gather
<1> HIDE DEF iov, n, T, x, y
<1>5. z = x \o y
  <2>1. x \o y = [k \in 1 .. n + Len(pad) |-> IF k <= n THEN x[k] ELSE y[k - n]]
    <3> DEFINE U == Seq(T)
    <3>1. x \in Seq(U) /\ y \in Seq(U)
      BY <1>2
    <3> HIDE DEF U
    <3>2. x \o y = [k \in 1 .. Len(x) + Len(y) |-> IF k <= Len(x) THEN x[k] ELSE y[k - Len(x)]]
      BY <3>1, ConcatValue
    <3> QED BY <1>3, <3>2
  <2>2. ASSUME NEW k \in 1 .. n + Len(pad)
        PROVE  z[k] = IF k <= n THEN x[k] ELSE y[k - n]
    <3>1. z[k] = IF iov[k].part = 0 THEN GarbageBytes(iov[k].len) ELSE Bytes(area, iov[k])
      BY <1>1
    <3>2. CASE k <= n
      <4>1. k \in 1 .. n
        BY <1>1, <3>2
      <4>2. iov[k] = out[k] /\ out[k].part # 0 /\ x[k] = Bytes(area, out[k])
        BY <1>1, <1>3, <4>1 DEF n
      <4> QED BY <3>1, <3>2, <4>2
    <3>3. CASE ~ (k <= n)
      <4>1. k \in n + 1 .. n + Len(pad) /\ k - n \in 1 .. Len(pad)
        BY <1>1, <3>3
      <4>2. /\ iov[k] = pad[k - n] /\ pad[k - n].part = 0
            /\ y[k - n] = GarbageBytes(pad[k - n].len)
        BY <1>1, <1>3, <4>1
      <4> QED BY <3>1, <3>3, <4>2
    <3> QED BY <3>2, <3>3
  <2>3. z = [k \in 1 .. n + Len(pad) |-> z[k]]
    BY <1>1
  <2> HIDE DEF z
  <2> QED BY <2>1, <2>2, <2>3
<1>6. FlattenSeq(x \o y) = FlattenSeq(x) \o FlattenSeq(y)
  BY <1>2, FlattenConcat
<1> QED BY <1>4, <1>5, <1>6 DEF iov, x, y, n

(* common_iovec yields such vectors.                                       *)
LEMMA VectorFacts ==
    ASSUME NEW S, NEW area \in Seq(Seq(S)), NEW offset \in Nat, NEW size \in Nat
    PROVE  \E st, out, from, to, junk :
              VectorIs(area, offset, size, common_iovec(area, offset, size),
                       st, out, from, to, junk)
<1> DEFINE c == Chunks(area)
           total == Len(FlattenSeq(area))
           w == Slices(c, offset, size)
           out == w.out
           n == w.left
           iov == common_iovec(area, offset, size)
<1>1. PICK st, from, to : Layout(c, st) /\ SlicesAt(c, st, total, offset, from, to, size, w)
  BY SlicesOfArea
<1>2. from = Clip(offset, total) /\ to = Clip(from + size, total) /\ n = size - (to - from)
  BY <1>1 DEF SlicesAt
<1>3. /\ total \in Nat /\ from \in Nat /\ to \in Nat /\ from <= to /\ to <= total /\ n \in Nat
      /\ from <= total
  BY <1>1 DEF SlicesAt
<1>4. Run(c, st, out, from, to)
  BY <1>1 DEF SlicesAt
<1>5. out \in Seq(SliceRec) /\ \A k \in 1 .. Len(out) : out[k].part # 0
  BY <1>4 DEF Run
<1>6. PICK pad : \E q, rest \in Nat :
         iov = out \o pad /\ Padding(pad, q, rest) /\ q * GarbageSize + rest = n
  BY <1>3, <1>5, IovecFacts
<1> HIDE DEF c, w, out, n, iov, total
<1>7. PICK q \in Nat, rest \in Nat :
         iov = out \o pad /\ Padding(pad, q, rest) /\ q * GarbageSize + rest = n
  BY <1>6, Zenon
<1>8. pad \in Seq(SliceRec) /\ \A k \in 1 .. Len(pad) : pad[k].part = 0
  BY <1>7 DEF Padding
<1>9. Total(pad) = n
  BY <1>7, TotalPadding
<1>10. Total(out) = to - from
  BY <1>3, <1>4, TotalRun
<1>11. Total(iov) = size
  <2>1. Total(iov) = Total(out) + Total(pad)
    BY <1>5, <1>7, <1>8, TotalConcat
  <2>2. (to - from) + (size - (to - from)) = size
    BY <1>3
  <2> QED BY <1>2, <1>9, <1>10, <2>1, <2>2
<1>12. Writable(iov) = out
  BY <1>5, <1>7, <1>8, WritableIs
<1>13. RunIs(S, area, out, from, to)
  <2>1. Layout(Chunks(area), st) /\ Run(Chunks(area), st, out, from, to)
        /\ from <= Len(FlattenSeq(area))
    BY <1>1, <1>3, <1>4 DEF c, total
  <2> QED BY <1>3, <2>1, RunBytes
<1> DEFINE junk == FlattenSeq(Junk(pad))
<1>14. junk \in Seq(Garbage) /\ Len(junk) = n
  BY <1>8, <1>9, JunkFacts
<1>15. Gather(area, iov) = SubSeq(FlattenSeq(area), from + 1, to) \o junk
  <2>1. /\ [k \in 1 .. Len(out) |-> Bytes(area, out[k])] \in Seq(Seq(S))
        /\ FlattenSeq([k \in 1 .. Len(out) |-> Bytes(area, out[k])]) =
             SubSeq(FlattenSeq(area), from + 1, to)
    BY <1>13 DEF RunIs
  <2>2. Gather(area, out \o pad) =
             FlattenSeq([k \in 1 .. Len(out) |-> Bytes(area, out[k])]) \o FlattenSeq(Junk(pad))
    BY <1>5, <1>8, <2>1, GatherIs
  <2> QED BY <1>7, <2>1, <2>2
<1> HIDE DEF junk
<1>16. VectorIs(area, offset, size, iov, st, out, from, to, junk)
  BY <1>1, <1>2, <1>3, <1>4, <1>10, <1>11, <1>12, <1>14, <1>15 DEF VectorIs, c, total
<1> QED BY <1>16 DEF iov

-----------------------------------------------------------------------------
(* The contents of files, and directories.                                 *)

(* Files are sequences, and offsets are in them or behind them.            *)
FileState ==
    /\ \A i \in Ino : IsTuple(data[i])
    /\ \A k \in DOMAIN ofd : ofd[k].off \in Nat
    /\ \A p \in Proc : pc[p].at \in Truncating => pc[p].prev \in Nat

(* A directory that its guest may expect to list in order: nobody else has *)
(* the description, and what the host has read ahead are the names between *)
(* what the guest was given and the offset.                                *)
InOrder(p, n) ==
    LET o == OfdOf(p, n)
    IN  /\ o.given <= o.off /\ o.off <= Len(Entries)
        /\ Ahead(p, n) = SubSeq(Entries, o.given + 1, o.off)
        /\ \A q \in Proc, m \in Fd : fds[q][m] = fds[p][n] => q = p /\ m = n

(* Streams: an FD that is not open has none, and an FD that has one is     *)
(* that of a directory.                                                    *)
StreamState ==
    /\ DOMAIN dirs = Proc
    /\ \A p \in Proc : DOMAIN dirs[p] = Fd
    /\ \A p \in Proc, n \in Fd : dirs[p][n] # NoStream =>
          dirs[p][n] = <<Ahead(p, n)>> /\ Ahead(p, n) \in Seq(Range(Entries))
    /\ \A p \in Proc, n \in Fd : fds[p][n] = NotOpen => dirs[p][n] = NoStream
    /\ \A p \in Proc, n \in Fd : dirs[p][n] # NoStream => IsDir(p, n)
    /\ \A p \in Proc : pc[p] = Gone => fds[p] = Closed
    /\ \A k \in DOMAIN ofd : ofd[k].ino = Dir =>
          {"given", "inorder"} \subseteq DOMAIN ofd[k] /\ ofd[k].given \in Nat
    /\ \A p \in Proc, n \in Fd :
          IsDir(p, n) /\ OfdOf(p, n).inorder => InOrder(p, n)

(* What io_write stores: n bytes, those of the message as far as there are *)
(* any, and garbage.                                                       *)
SentIs(flat, n, bytes) ==
    LET sent == Portion(flat, Hdr + 1, Hdr + n)
    IN  /\ bytes = [k \in 1 .. n |-> bytes[k]] /\ Len(bytes) = n
        /\ Len(sent) \in Nat /\ Len(sent) <= n
        /\ \A k \in 1 .. Len(sent) : bytes[k] = sent[k]
        /\ \A k \in 1 .. n : k > Len(sent) => bytes[k] \in {"X", "0"}

(* How much there is behind the first m of a sequence, and of it at most n *)
(* elements.                                                               *)
Rest(s, m, n) == Clip(n, IF Len(s) >= m THEN Len(s) - m ELSE 0)
PortionIs(S, s, m, x, len) ==
    /\ x \in Seq(S) /\ Len(x) = len /\ len \in Nat
    /\ \A k \in 1 .. len : x[k] = s[m + k]

(* A portion is that.                                                      *)
LEMMA PortionOf ==
    ASSUME NEW S, NEW s \in Seq(S), NEW m \in Nat, NEW n \in Nat
    PROVE  PortionIs(S, s, m, Portion(s, m + 1, m + n), Rest(s, m, n))
<1> DEFINE total == Len(s)
           e == Clip(m + n, total)
           x == Portion(s, m + 1, m + n)
           len == Clip(n, IF total >= m THEN total - m ELSE 0)
<1>0. total \in Nat
  OBVIOUS
<1>1. x = SubSeq(s, m + 1, e)
  <2>1. m + n \in Int /\ total \in Int
    BY <1>0
  <2>2. Min({m + n, total}) = e
    BY <2>1, MinOfTwo DEF Clip
  <2> QED BY <2>2 DEF Portion
<1>2. e \in Nat /\ e <= total /\ len \in Nat /\ (IF m + 1 <= e + 1 THEN e - m ELSE 0) = len
  <2> HIDE DEF total
  <2> QED BY <1>0 DEF Clip
<1>3. SubSeq(s, m + 1, e) \in Seq(S)
      /\ Len(SubSeq(s, m + 1, e)) = (IF m + 1 <= e + 1 THEN e - m ELSE 0)
      /\ \A k \in 1 .. len : SubSeq(s, m + 1, e)[k] = s[m + k]
  <2> HIDE DEF e, len
  <2>1. CASE m <= e
    <3>1. len = e - m
      BY <1>2, <2>1
    <3>2. m + 1 \in 1 .. e + 1 /\ e \in m .. total
      BY <1>0, <1>2, <2>1
    <3>3. \A k \in m + 1 .. e : s[k] \in S
      BY <1>2
    <3>4. /\ SubSeq(s, m + 1, e) \in Seq(S) /\ Len(SubSeq(s, m + 1, e)) = e - m
          /\ \A k \in 1 .. e - m : SubSeq(s, m + 1, e)[k] = s[m + k]
      BY <1>0, <1>2, <2>1
    <3> QED BY <1>2, <2>1, <3>1, <3>4
  <2>2. CASE ~ (m <= e)
    <3>1. len = 0 /\ SubSeq(s, m + 1, e) = <<>>
      BY <1>2, <2>2
    <3>2. <<>> \in Seq(S) /\ Len(<<>>) = 0
      BY EmptySeq
    <3>3. ~ (m + 1 <= e + 1) /\ 1 .. len = {}
      BY <1>2, <2>2, <3>1
    <3>4. SubSeq(s, m + 1, e) \in Seq(S) /\ Len(SubSeq(s, m + 1, e)) = 0
      BY <3>1, <3>2, Zenon
    <3> QED BY <3>3, <3>4
  <2> QED BY <2>1, <2>2
<1> HIDE DEF e, len, x
<1>4. len = Rest(s, m, n)
  BY DEF len, Rest
<1> QED BY <1>1, <1>2, <1>3, <1>4 DEF x, PortionIs

(* That is what writev finds in the vectors of io_write.                   *)
LEMMA SentBytes ==
    ASSUME NEW S, NEW area \in Seq(Seq(S)), NEW n \in Nat
    PROVE  SentIs(FlattenSeq(area), n, Gather(area, common_iovec(area, Hdr, n)))
<1> DEFINE flat == FlattenSeq(area)
           total == Len(flat)
           iov == common_iovec(area, Hdr, n)
           bytes == Gather(area, iov)
           sent == Portion(flat, Hdr + 1, Hdr + n)
           len == Rest(flat, Hdr, n)
           T == S \cup Garbage
<1>0. Hdr = 2 /\ Hdr \in Nat
  BY DEF Hdr
<1>1. PICK st, out, from, to, junk : VectorIs(area, Hdr, n, iov, st, out, from, to, junk)
  BY <1>0, VectorFacts
<1>2. from = Clip(Hdr, total) /\ to = Clip(from + n, total)
  BY <1>1 DEF VectorIs
<1>3. from \in Nat /\ to \in Nat /\ from <= to /\ to <= total
  BY <1>1 DEF VectorIs
<1>4. /\ junk \in Seq(Garbage) /\ Len(junk) = n - (to - from) /\ Len(junk) \in Nat
      /\ bytes = SubSeq(flat, from + 1, to) \o junk
  BY <1>1 DEF VectorIs
<1>5. flat \in Seq(S) /\ total \in Nat
  BY FlattenType
<1> HIDE DEF flat
<1>6. /\ sent \in Seq(S) /\ Len(sent) = len
      /\ \A k \in 1 .. len : sent[k] = flat[Hdr + k]
  <2>1. PortionIs(S, flat, Hdr, sent, len)
    BY <1>0, <1>5, PortionOf
  <2> HIDE DEF sent, len
  <2> QED BY <2>1 DEF PortionIs
<1> DEFINE x == SubSeq(flat, from + 1, to)
<1>7. x \in Seq(S) /\ Len(x) = to - from /\ \A k \in 1 .. to - from : x[k] = flat[from + k]
  BY <1>3, <1>5
<1> HIDE DEF total, sent, x, iov, bytes
<1>8. to - from = len /\ len \in Nat /\ len <= n /\ (len > 0 => from = Hdr)
  <2>1. total \in Nat /\ Hdr = 2
    BY <1>0, <1>5
  <2>2. len = Clip(n, IF total >= Hdr THEN total - Hdr ELSE 0)
    BY DEF Rest, total
  <2> HIDE DEF len
  <2> QED BY <1>2, <1>3, <2>1, <2>2 DEF Clip
<1> HIDE DEF len
<1>9. x \o junk = [k \in 1 .. Len(x) + Len(junk) |->
                     IF k <= Len(x) THEN x[k] ELSE junk[k - Len(x)]]
  <2>1. S \subseteq T /\ Garbage \subseteq T
    OBVIOUS
  <2> HIDE DEF T
  <2>2. x \in Seq(T) /\ junk \in Seq(T)
    BY <1>4, <1>7, <2>1, SeqLarger
  <2> QED BY <2>2, ConcatValue
<1>10. Len(x) = len /\ Len(junk) = n - len
  BY <1>4, <1>7, <1>8
<1>11. bytes = [k \in 1 .. n |-> IF k <= len THEN x[k] ELSE junk[k - len]]
  <2>1. Len(x) + Len(junk) = n
    BY <1>8, <1>10
  <2> QED BY <1>4, <1>9, <1>10, <2>1 DEF x
<1>12. Len(bytes) = n /\ bytes = [k \in 1 .. n |-> bytes[k]]
  BY <1>11
<1>13. \A k \in 1 .. len : bytes[k] = sent[k]
  <2> SUFFICES ASSUME NEW k \in 1 .. len PROVE bytes[k] = sent[k]
    OBVIOUS
  <2>1. k \in 1 .. n /\ k <= len /\ len > 0
    BY <1>8
  <2>2. bytes[k] = x[k]
    BY <1>11, <2>1
  <2>3. x[k] = flat[from + k] /\ from = Hdr
    BY <1>7, <1>8, <2>1
  <2> QED BY <1>6, <2>2, <2>3
<1>14. \A k \in 1 .. n : k > len => bytes[k] \in {"X", "0"}
  <2> SUFFICES ASSUME NEW k \in 1 .. n, k > len PROVE bytes[k] \in {"X", "0"}
    OBVIOUS
  <2>1. bytes[k] = junk[k - len]
    BY <1>8, <1>11
  <2>2. k - len \in 1 .. Len(junk)
    BY <1>8, <1>10
  <2>3. junk[k - len] \in Garbage
    BY <1>4, <2>2
  <2> QED BY <2>1, <2>3 DEF Garbage
<1> QED BY <1>6, <1>8, <1>12, <1>13, <1>14 DEF SentIs, flat, iov, bytes, sent

(* The count in the header of a message, also of one that is too short.    *)
LEMMA HeaderCount ==
    ASSUME NEW S, NEW area \in Seq(Seq(S))
    PROVE  read(area, 0, Hdr)[2] = (FlattenSeq(area) \o Fill(Hdr, NoByte))[2]
<1> DEFINE flat == FlattenSeq(area)
           fill == Fill(Hdr, NoByte)
           T == S \cup {NoByte}
<1>1. read(area, 0, Hdr)[2] = IF 0 + 2 <= Len(flat) THEN flat[0 + 2] ELSE NoByte
  <2>1. 0 \in Nat /\ Hdr \in Nat /\ 2 \in 1 .. Hdr
    BY DEF Hdr
  <2> QED BY <2>1, ReadFacts
<1>2. flat \in Seq(S) /\ Len(flat) \in Nat
  BY FlattenType
<1>3. fill \in Seq({NoByte}) /\ Len(fill) = 2 /\ \A k \in 1 .. 2 : fill[k] = NoByte
  BY DEF Fill, Hdr
<1> HIDE DEF flat, fill
<1>4. flat \o fill = [k \in 1 .. Len(flat) + Len(fill) |->
                        IF k <= Len(flat) THEN flat[k] ELSE fill[k - Len(flat)]]
  <2>1. S \subseteq T /\ {NoByte} \subseteq T
    OBVIOUS
  <2> HIDE DEF T
  <2>2. flat \in Seq(T) /\ fill \in Seq(T)
    BY <1>2, <1>3, <2>1, SeqLarger
  <2> QED BY <2>2, ConcatValue
<1>5. (flat \o fill)[2] = IF 2 <= Len(flat) THEN flat[2] ELSE fill[2 - Len(flat)]
  <2>1. 2 \in 1 .. Len(flat) + Len(fill)
    BY <1>2, <1>3
  <2> QED BY <1>4, <2>1
<1>6. ~ (2 <= Len(flat)) => fill[2 - Len(flat)] = NoByte
  BY <1>2, <1>3
<1>7. 0 + 2 = 2
  OBVIOUS
<1> QED BY <1>1, <1>5, <1>6, <1>7 DEF flat, fill

(* A tuple is a sequence, and the other way around.                        *)
LEMMA TupleSeq == ASSUME NEW s, IsTuple(s) PROVE \E S : s \in Seq(S)
<1> DEFINE S == {s[k] : k \in DOMAIN s}
<1>1. Len(s) \in Nat /\ s = [k \in 1 .. Len(s) |-> s[k]]
  BY DEF IsTuple
<1>2. DOMAIN s = 1 .. Len(s)
  BY <1>1
<1>3. \A k \in 1 .. Len(s) : s[k] \in S
  BY <1>2
<1> HIDE DEF S
<1>4. s \in [1 .. Len(s) -> S]
  BY <1>1, <1>3
<1>5. s \in Seq(S)
  BY <1>1, <1>4
<1> QED BY <1>5

(* A sequence is a tuple.                                                  *)
LEMMA SeqTuple == ASSUME NEW S, NEW s \in Seq(S) PROVE IsTuple(s)
BY DEF IsTuple

(* A file that was written to holds the bytes, and what it held elsewhere. *)
StoredIs(before, after, at, n, sent) ==
    /\ n = 0 => after = before
    /\ n # 0 => /\ Len(after) = Max({Len(before), at + n})
                /\ \A k \in DOMAIN after :
                     after[k] \in
                       IF k \in at + 1 .. at + Len(sent) THEN {sent[k - at]}
                       ELSE IF k \in at + 1 .. at + n THEN {"X", "0"}
                       ELSE IF k <= Len(before) THEN {before[k]}
                       ELSE {"0"}

(* Overwritten does that.                                                  *)
LEMMA StoredBytes ==
    ASSUME NEW flat, NEW n \in Nat, NEW bytes, SentIs(flat, n, bytes),
           NEW c, IsTuple(c), NEW at \in Nat
    PROVE  /\ IsTuple(Overwritten(c, at, bytes))
           /\ StoredIs(c, Overwritten(c, at, bytes), at, n, Portion(flat, Hdr + 1, Hdr + n))
<1> DEFINE sent == Portion(flat, Hdr + 1, Hdr + n)
           len == Len(sent)
           L == Len(c)
           V(k) == IF k \in at + 1 .. at + n THEN bytes[k - at]
                   ELSE IF k <= L THEN c[k] ELSE "0"
           m == IF n = 0 THEN L ELSE Max({L, at + n})
           after == Overwritten(c, at, bytes)
<1>1. /\ Len(bytes) = n /\ len \in Nat /\ len <= n
      /\ \A k \in 1 .. len : bytes[k] = sent[k]
      /\ \A k \in 1 .. n : k > len => bytes[k] \in {"X", "0"}
  BY DEF SentIs
<1>2. L \in Nat /\ c = [k \in 1 .. L |-> c[k]]
  BY DEF IsTuple
<1>3. m \in Nat /\ (n # 0 => m = (IF L >= at + n THEN L ELSE at + n))
  <2>1. Max({L, at + n}) = IF L >= at + n THEN L ELSE at + n
    BY <1>2, MaxOfTwo
  <2> HIDE DEF L
  <2> QED BY <1>2, <2>1
<1> HIDE DEF sent, len, L
<1>4. after = [k \in 1 .. m |-> V(k)]
  <2>1. CASE n = 0
    <3>1. bytes = <<>>
      BY <2>1 DEF SentIs
    <3>2. (IF bytes = <<>> THEN L ELSE Max({L, at + n})) = m
      BY <2>1, <3>1
    <3> QED BY <1>1, <3>2 DEF Overwritten, L
  <2>2. CASE n # 0
    <3>1. bytes # <<>>
      BY <1>1, <2>2
    <3> QED BY <1>1, <2>2, <3>1 DEF Overwritten, L
  <2> QED BY <2>1, <2>2
<1> HIDE DEF after
<1>5. /\ Len(after) = m /\ DOMAIN after = 1 .. m
      /\ \A k \in 1 .. m : after[k] = V(k)
      /\ after = [k \in 1 .. m |-> after[k]]
  <2> HIDE DEF m, V
  <2> QED BY <1>3, <1>4
<1>6. IsTuple(after)
  BY <1>3, <1>5 DEF IsTuple
<1>7. n = 0 => after = c
  <2> SUFFICES ASSUME n = 0 PROVE after = c
    OBVIOUS
  <2>1. m = L
    OBVIOUS
  <2>2. \A k \in 1 .. L : after[k] = c[k]
    BY <1>2, <1>5, <2>1
  <2> HIDE DEF m, V
  <2>3. after = [k \in 1 .. L |-> after[k]]
    BY <1>5, <2>1
  <2>4. [k \in 1 .. L |-> after[k]] = [k \in 1 .. L |-> c[k]]
    BY <2>2
  <2> QED BY <1>2, <2>3, <2>4, Zenon
<1>8. ASSUME n # 0, NEW k \in 1 .. m
      PROVE  after[k] \in IF k \in at + 1 .. at + len THEN {sent[k - at]}
                          ELSE IF k \in at + 1 .. at + n THEN {"X", "0"}
                          ELSE IF k <= L THEN {c[k]} ELSE {"0"}
  <2> HIDE DEF m
  <2>1. after[k] = V(k) /\ k \in Nat
    <3> HIDE DEF V
    <3> QED BY <1>3, <1>5
  <2>2. CASE k \in at + 1 .. at + len
    <3>1. k \in at + 1 .. at + n /\ k - at \in 1 .. len
      BY <1>1, <2>1, <2>2
    <3> QED BY <1>1, <2>1, <2>2, <3>1
  <2>3. CASE k \notin at + 1 .. at + len /\ k \in at + 1 .. at + n
    <3>1. k - at \in 1 .. n /\ k - at > len
      BY <1>1, <2>1, <2>3
    <3> QED BY <1>1, <2>1, <2>3, <3>1
  <2>4. CASE k \notin at + 1 .. at + n
    <3>1. k \notin at + 1 .. at + len
      BY <1>1, <2>1, <2>4
    <3> QED BY <2>1, <2>4, <3>1
  <2> QED BY <2>2, <2>3, <2>4
<1>9. n # 0 => Len(after) = Max({L, at + n})
  BY <1>5
<1> HIDE DEF m
<1> QED BY <1>5, <1>6, <1>7, <1>8, <1>9 DEF StoredIs, after, sent, len, L

(* An FD that is open for a file has a description of it.                  *)
LEMMA OpenFile ==
    ASSUME IInv, FileState, NEW p \in Proc, NEW n, IsOpen(p, n)
    PROVE  /\ n \in Fd /\ fds[p][n] # NotOpen /\ fds[p][n] \in DOMAIN ofd
           /\ {"ino", "off"} \subseteq DOMAIN OfdOf(p, n)
           /\ OfdOf(p, n).ino \in Ino /\ OfdOf(p, n).ino \in DOMAIN data
           /\ OfdOf(p, n).off \in Nat
           /\ IsTuple(data[OfdOf(p, n).ino]) /\ Len(data[OfdOf(p, n).ino]) \in Nat
<1>1. n \in Fd /\ fds[p][n] # NotOpen /\ OfdOf(p, n).ino # Dir
  BY DEF IsOpen, IsUsed
<1>2. fds[p][n] \in DOMAIN ofd
  BY <1>1 DEF IInv, HandlesOK
<1>3. {"ino", "off"} \subseteq DOMAIN OfdOf(p, n) /\ OfdOf(p, n).ino \in Ino \cup {Dir}
  BY <1>2 DEF IInv, HandlesOK, OfdOf
<1>4. OfdOf(p, n).ino \in Ino
  BY <1>1, <1>3
<1>5. OfdOf(p, n).off \in Nat
  BY <1>2 DEF FileState, OfdOf
<1>6. IsTuple(data[OfdOf(p, n).ino])
  BY <1>4 DEF FileState
<1>7. OfdOf(p, n).ino \in DOMAIN data
  BY <1>4 DEF IInv, TruncState
<1> QED BY <1>1, <1>2, <1>3, <1>4, <1>5, <1>6, <1>7 DEF IsTuple

(* A message with a sensible header.                                       *)
LEMMA SentArea ==
    ASSUME NEW area \in Sent
    PROVE  \E S : area \in Seq(Seq(S)) /\ read(area, 0, Hdr)[2] \in Nat
<1>1. IsArea(area) /\ (FlattenSeq(area) \o Fill(Hdr, NoByte))[Hdr] \in Nat
  BY RequestsAssumption
<1>2. PICK S : area \in Seq(Seq(S))
  BY <1>1, AreaTyped
<1>3. read(area, 0, Hdr)[2] = (FlattenSeq(area) \o Fill(Hdr, NoByte))[2]
  BY <1>2, HeaderCount
<1> QED BY <1>1, <1>2, <1>3 DEF Hdr

(* io_write stores what it should, and the offset moves by as much.        *)
LEMMA WriteStep ==
    ASSUME IInv, FileState, NEW p \in Proc, NEW area \in Sent, io_write(p, area)
    PROVE  WriteStores' /\ FileState'
<1> DEFINE n == read(area, 0, Hdr)[1]
           cnt == read(area, 0, Hdr)[2]
           flat == FlattenSeq(area)
           k0 == fds[p][n]
           o == OfdOf(p, n)
           i == o.ino
           bytes == Gather(area, common_iovec(area, Hdr, cnt))
           at == IF o.app THEN Len(data[i]) ELSE o.off
           ok == o.acc # "rd"
           sent == Portion(flat, Hdr + 1, Hdr + cnt)
<1>1. PICK S : area \in Seq(Seq(S)) /\ cnt \in Nat
  BY SentArea
<1>2. /\ IsOpen(p, n)
      /\ data' = (IF ok THEN [data EXCEPT ![i] = Overwritten(@, at, bytes)] ELSE data)
      /\ ofd' = (IF ok /\ bytes # <<>> THEN [ofd EXCEPT ![k0].off = at + Len(bytes)] ELSE ofd)
      /\ last' = [op |-> "write", area |-> area, at |-> at, ok |-> ok,
                  before |-> data[i], after |-> data'[i],
                  count |-> IF ok THEN Len(bytes) ELSE 0]
      /\ UNCHANGED <<fds, pc>>
  BY DEF io_write
<1> HIDE DEF n, cnt
<1>3. /\ n \in Fd /\ k0 \in DOMAIN ofd /\ {"ino", "off"} \subseteq DOMAIN o
      /\ i \in Ino /\ i \in DOMAIN data
      /\ o.off \in Nat /\ IsTuple(data[i]) /\ Len(data[i]) \in Nat
  BY <1>2, OpenFile
<1>4. at \in Nat
  BY <1>3
<1>5. SentIs(flat, cnt, bytes)
  BY <1>1, SentBytes
<1>6. Len(bytes) = cnt
  BY <1>5 DEF SentIs
<1> HIDE DEF at, bytes, ok, i, o, k0
<1> DEFINE new == Overwritten(data[i], at, bytes)
<1>7. IsTuple(new) /\ StoredIs(data[i], new, at, cnt, sent)
  BY <1>1, <1>3, <1>4, <1>5, StoredBytes
<1> HIDE DEF new
<1>8. data'[i] = (IF ok THEN new ELSE data[i])
  BY <1>2, <1>3 DEF new
<1>9. \A j \in Ino : IsTuple(data'[j])
  <2> TAKE j \in Ino
  <2>1. CASE j = i
    BY <1>3, <1>7, <1>8, <2>1
  <2>2. CASE j # i
    <3>1. data'[j] = data[j]
      BY <1>2, <2>2
    <3> QED BY <3>1 DEF FileState
  <2> QED BY <2>1, <2>2
<1>10. \A k \in DOMAIN ofd' : ofd'[k].off \in Nat
  <2>0. at + Len(bytes) \in Nat
    BY <1>1, <1>4, <1>6
  <2>1. CASE ofd' = ofd
    BY <2>1 DEF FileState
  <2>2. CASE ofd' = [ofd EXCEPT ![k0].off = at + Len(bytes)]
    <3>1. ofd[k0] = o
      BY DEF k0, o, OfdOf
    <3> QED BY <1>3, <2>0, <2>2, <3>1 DEF FileState
  <2> QED BY <1>2, <2>1, <2>2
<1>11. FileState'
  BY <1>2, <1>9, <1>10 DEF FileState
<1>12. WriteStores'
  <2> DEFINE h == flat \o Fill(Hdr, NoByte)
  <2>1. cnt = h[2]
    BY <1>1, HeaderCount DEF cnt
  <2>2. /\ last'.area = area /\ last'.at = at /\ last'.before = data[i]
        /\ last'.after = (IF ok THEN new ELSE data[i])
        /\ last'.count = (IF ok THEN cnt ELSE 0)
    BY <1>2, <1>6, <1>8
  <2>3. CASE ~ ok
    BY <2>2, <2>3 DEF WriteStores
  <2>4. CASE ok
    <3>1. last'.after = new /\ last'.count = cnt
      BY <2>2, <2>4
    <3>2. CASE cnt = 0
      <4>1. new = data[i]
        BY <1>7, <3>2 DEF StoredIs
      <4> QED BY <2>2, <3>1, <3>2, <4>1 DEF WriteStores
    <3>3. CASE cnt # 0
      <4>1. /\ Len(new) = Max({Len(data[i]), at + cnt})
            /\ \A k \in DOMAIN new :
                     new[k] \in
                       IF k \in at + 1 .. at + Len(sent) THEN {sent[k - at]}
                       ELSE IF k \in at + 1 .. at + cnt THEN {"X", "0"}
                       ELSE IF k <= Len(data[i]) THEN {data[i][k]}
                       ELSE {"0"}
        BY <1>7, <3>3 DEF StoredIs
      <4> HIDE DEF sent, flat, h
      <4>2. /\ FlattenSeq(last'.area) = flat
            /\ Portion(FlattenSeq(last'.area), Hdr + 1, Hdr + last'.count) = sent
            /\ (FlattenSeq(last'.area) \o Fill(Hdr, NoByte))[2] = h[2]
        BY <2>2, <3>1 DEF sent, flat, h
      <4> QED BY <2>1, <2>2, <3>1, <3>3, <4>1, <4>2 DEF WriteStores
    <3> QED BY <3>2, <3>3
  <2> QED BY <2>3, <2>4
<1> QED BY <1>11, <1>12

(* Three sequences of lengths a, b and c, one after the other.             *)
PartsIs(S, x, y, z, all, a, b, c) ==
    /\ all \in Seq(S) /\ Len(all) = a + b + c
    /\ \A m \in 1 .. a + b + c :
          all[m] = IF m <= a THEN x[m] ELSE IF m <= a + b THEN y[m - a]
                   ELSE z[m - (a + b)]

(* That is what \o makes of them.                                          *)
LEMMA ThreeParts ==
    ASSUME NEW S, NEW x \in Seq(S), NEW y \in Seq(S), NEW z \in Seq(S)
    PROVE  PartsIs(S, x, y, z, (x \o y) \o z, Len(x), Len(y), Len(z))
<1> DEFINE u == x \o y
           a == Len(x)
           b == Len(y)
           c == Len(z)
<1>1. a \in Nat /\ b \in Nat /\ c \in Nat
  OBVIOUS
<1>2. u \in Seq(S) /\ Len(u) = a + b
      /\ u = [k \in 1 .. a + b |-> IF k <= a THEN x[k] ELSE y[k - a]]
  BY ConcatProperties, ConcatValue
<1> HIDE DEF u
<1>3. u \o z \in Seq(S) /\ Len(u \o z) = Len(u) + c
      /\ u \o z = [k \in 1 .. Len(u) + c |-> IF k <= Len(u) THEN u[k] ELSE z[k - Len(u)]]
  BY <1>2, ConcatProperties, ConcatValue
<1> HIDE DEF a, b, c
<1>4. ASSUME NEW m \in 1 .. a + b + c
      PROVE  (u \o z)[m] = IF m <= a THEN x[m] ELSE IF m <= a + b THEN y[m - a]
                           ELSE z[m - (a + b)]
  <2>1. (u \o z)[m] = IF m <= a + b THEN u[m] ELSE z[m - (a + b)]
    BY <1>2, <1>3
  <2>2. CASE m <= a + b
    <3>1. m \in 1 .. a + b
      BY <1>1, <2>2
    <3>2. u[m] = IF m <= a THEN x[m] ELSE y[m - a]
      BY <1>2, <3>1
    <3> QED BY <1>1, <2>1, <2>2, <3>2
  <2>3. CASE ~ (m <= a + b)
    <3>1. ~ (m <= a)
      BY <1>1, <2>3
    <3> QED BY <2>1, <2>3, <3>1
  <2> QED BY <2>2, <2>3
<1>5. Len(u \o z) = a + b + c
  BY <1>2, <1>3
<1> QED BY <1>3, <1>4, <1>5 DEF u, a, b, c, PartsIs

(* A reply with data and a header written over it: the header, the data    *)
(* and the rest of what was there, as far as the message has room.         *)
LEMMA ReplyForm ==
    ASSUME NEW S, NEW flat \in Seq(S), NEW bytes \in Seq(S), NEW head \in Seq(S),
           Len(head) = Hdr, NEW from \in Nat,
           Len(bytes) > 0 => from = Hdr /\ Hdr + Len(bytes) <= Len(flat)
    PROVE  Patched(Patched(flat, from, Len(bytes), bytes), 0, Hdr, head) =
             Portion((head \o bytes) \o SubSeq(flat, Hdr + Len(bytes) + 1, Len(flat)),
                     1, Len(flat))
<1> DEFINE n == Len(bytes)
           L == Len(flat)
           z == SubSeq(flat, Hdr + n + 1, L)
           all == (head \o bytes) \o z
           p == Patched(flat, from, n, bytes)
           q == Patched(p, 0, Hdr, head)
<1>0. Hdr = 2 /\ n \in Nat /\ L \in Nat
  BY DEF Hdr
<1>1. z \in Seq(S) /\ Len(z) = (IF L >= Hdr + n THEN L - (Hdr + n) ELSE 0)
      /\ \A k \in 1 .. Len(z) : z[k] = flat[Hdr + n + k]
  <2> HIDE DEF n, L
  <2>1. CASE L >= Hdr + n
    <3>1. /\ Hdr + n + 1 \in Nat /\ Hdr + n + 1 >= 1 /\ L <= Len(flat)
          /\ Hdr + n + 1 <= L + 1 /\ L - (Hdr + n + 1) + 1 = L - (Hdr + n)
      BY <1>0, <2>1 DEF L
    <3>2. /\ z \in Seq(S) /\ Len(z) = L - (Hdr + n)
          /\ \A k \in 1 .. L - (Hdr + n) : z[k] = flat[Hdr + n + k]
      BY <1>0, <2>1, <3>1, SMTT(30)
    <3> QED BY <2>1, <3>2
  <2>2. CASE ~ (L >= Hdr + n)
    <3>1. z = <<>>
      BY <1>0, <2>2
    <3>2. <<>> \in Seq(S) /\ Len(<<>>) = 0
      BY EmptySeq
    <3>3. z \in Seq(S) /\ Len(z) = 0
      BY <3>1, <3>2, Zenon
    <3> QED BY <2>2, <3>3
  <2> QED BY <2>1, <2>2
<1>2. /\ all \in Seq(S) /\ Len(all) = Hdr + n + Len(z)
      /\ \A m \in 1 .. Hdr + n + Len(z) :
            all[m] = IF m <= Hdr THEN head[m] ELSE IF m <= Hdr + n THEN bytes[m - Hdr]
                     ELSE z[m - (Hdr + n)]
  <2> HIDE DEF z
  <2>1. PartsIs(S, head, bytes, z, all, Len(head), n, Len(z))
    BY <1>1, ThreeParts
  <2> HIDE DEF all, n
  <2>2. PartsIs(S, head, bytes, z, all, Hdr, n, Len(z))
    BY <2>1
  <2> QED BY <2>2 DEF PartsIs
<1>3. Len(p) = L /\ \A m \in 1 .. L :
         p[m] = IF m \in from + 1 .. from + n THEN bytes[m - from] ELSE flat[m]
  BY <1>0 DEF Patched
<1> HIDE DEF p
<1>4. q = [m \in 1 .. L |-> IF m \in 0 + 1 .. 0 + Hdr THEN head[m - 0] ELSE p[m]]
  BY <1>3 DEF Patched
<1> HIDE DEF z, all, n, L, q
<1>5. Len(all) >= L
  BY <1>0, <1>1, <1>2
<1>6. Portion(all, 1, L) = [m \in 1 .. L |-> all[m]]
  <2>1. Len(all) \in Nat
    BY <1>2
  <2>2. Min({L, Len(all)}) = L
    BY <1>0, <1>5, <2>1, MinOfTwo
  <2>3. SubSeq(all, 1, L) = [m \in 1 .. L |-> all[m]]
    BY <1>0, <1>2, <1>5
  <2> QED BY <2>2, <2>3 DEF Portion
<1>7. ASSUME NEW m \in 1 .. L PROVE q[m] = all[m]
  <2>1. q[m] = IF m \in 0 + 1 .. 0 + Hdr THEN head[m - 0] ELSE p[m]
    BY <1>4
  <2>2. m \in 1 .. Hdr + n + Len(z)
    BY <1>0, <1>1
  <2>3. all[m] = IF m <= Hdr THEN head[m] ELSE IF m <= Hdr + n THEN bytes[m - Hdr]
                 ELSE z[m - (Hdr + n)]
    BY <1>2, <2>2
  <2>4. CASE m <= Hdr
    <3>1. m \in 0 + 1 .. 0 + Hdr /\ m - 0 = m
      BY <1>0, <2>4
    <3> QED BY <2>1, <2>3, <2>4, <3>1
  <2>5. CASE ~ (m <= Hdr) /\ m <= Hdr + n
    <3>1. m \notin 0 + 1 .. 0 + Hdr /\ n > 0
      BY <1>0, <2>5
    <3>2. from = Hdr
      BY <3>1 DEF n
    <3>3. m \in from + 1 .. from + n
      BY <1>0, <2>5, <3>2
    <3> QED BY <1>3, <2>1, <2>3, <2>5, <3>1, <3>2, <3>3
  <2>6. CASE ~ (m <= Hdr + n)
    <3>1. m \notin 0 + 1 .. 0 + Hdr /\ ~ (m <= Hdr)
      BY <1>0, <2>6
    <3>2. m \notin from + 1 .. from + n
      <4>1. CASE n = 0
        BY <1>0, <4>1
      <4>2. CASE n > 0
        <5>1. from = Hdr
          BY <4>2 DEF n
        <5> QED BY <1>0, <2>6, <5>1
      <4> QED BY <1>0, <4>1, <4>2
    <3>3. p[m] = flat[m]
      BY <1>3, <3>2
    <3>4. m - (Hdr + n) \in 1 .. Len(z) /\ Hdr + n + (m - (Hdr + n)) = m
      BY <1>0, <1>1, <2>6
    <3>5. z[m - (Hdr + n)] = flat[m]
      BY <1>1, <3>4
    <3> QED BY <2>1, <2>3, <2>6, <3>1, <3>3, <3>5
  <2> QED BY <2>4, <2>5, <2>6
<1>8. q = [m \in 1 .. L |-> q[m]]
  BY <1>4
<1> QED BY <1>6, <1>7, <1>8 DEF q, p, all, z, n, L

(* How much room a reply has behind its header.                            *)
Room(flat) == IF Len(flat) > Hdr THEN Len(flat) - Hdr ELSE 0

(* What readv delivers of a file of which `file' is still to be read: as   *)
(* much as was asked for, as there is, and as there is room for.           *)
DeliveredIs(S, file, want, room, readable, err, bytes, n) ==
    /\ bytes \in Seq(S) /\ Len(bytes) = n /\ n \in Nat
    /\ bytes = Portion(file, 1, n)
    /\ n = IF readable THEN Clip(Clip(want, Len(file)), room) ELSE 0
    /\ err = IF ~ readable THEN "EBADF"
             ELSE IF Clip(want, Len(file)) > 0 /\ room = 0 THEN "EFAULT" ELSE "EOK"

(* Nothing of a sequence.                                                  *)
LEMMA NoPortion ==
    ASSUME NEW S, NEW s \in Seq(S)
    PROVE  Portion(s, 1, 0) = <<>>
<1>1. Len(s) \in Nat
  OBVIOUS
<1>2. Min({0, Len(s)}) = 0
  BY <1>1, MinOfTwo
<1> QED BY <1>2 DEF Portion

(* It does so with the vectors of common_iovec.                            *)
LEMMA ReadvFacts ==
    ASSUME NEW S, NEW area \in Seq(Seq(S)), NEW o, data[o.ino] \in Seq(S),
           o.off \in Nat, NEW want \in Nat,
           NEW st, NEW out, NEW from, NEW to, NEW junk, NEW iov,
           VectorIs(area, Hdr, want, iov, st, out, from, to, junk)
    PROVE  LET r == readv(o, iov)
           IN  DeliveredIs(S, SubSeq(data[o.ino], o.off + 1, Len(data[o.ino])), want,
                           Room(FlattenSeq(area)), o.acc # "wr", r.err, r.bytes,
                           Len(r.bytes))
<1> DEFINE F == data[o.ino]
           off == o.off
           L == Len(F)
           file == SubSeq(F, off + 1, L)
           got == Portion(F, off + 1, off + want)
           avail == Rest(F, off, want)
           R == IF L >= off THEN L - off ELSE 0
           room == to - from
           r == readv(o, iov)
           W == Len(FlattenSeq(area))
           part == Portion(got, 1, room)
           n == Clip(avail, room)
<1>1. Total(iov) = want /\ Total(Writable(iov)) = room
  BY DEF VectorIs
<1>2. room = Clip(want, Room(FlattenSeq(area))) /\ room \in Nat /\ Room(FlattenSeq(area)) \in Nat
  <2>1. from = Clip(Hdr, W) /\ to = Clip(from + want, W)
    BY DEF VectorIs
  <2>2. W \in Nat /\ Hdr = 2
    BY FlattenType DEF Hdr
  <2> HIDE DEF W
  <2>3. to - from = Clip(want, IF W > Hdr THEN W - Hdr ELSE 0) /\ to - from \in Nat
    BY <2>1, <2>2 DEF Clip
  <2>4. Room(FlattenSeq(area)) = IF W > Hdr THEN W - Hdr ELSE 0
    BY DEF W, Room
  <2>5. Room(FlattenSeq(area)) \in Nat
    BY <2>2, <2>4
  <2> QED BY <2>3, <2>4, <2>5
<1>3. r = IF o.acc = "wr" THEN [err |-> "EBADF", bytes |-> <<>>]
          ELSE IF got # <<>> /\ room = 0 THEN [err |-> "EFAULT", bytes |-> <<>>]
          ELSE [err |-> "EOK", bytes |-> part]
  BY <1>1 DEF readv
<1>4. F \in Seq(S) /\ off \in Nat /\ L \in Nat
  OBVIOUS
<1> HIDE DEF F, off, r
<1>5. got \in Seq(S) /\ Len(got) = avail /\ avail \in Nat /\ \A k \in 1 .. avail : got[k] = F[off + k]
  <2>1. PortionIs(S, F, off, got, avail)
    BY <1>4, PortionOf
  <2> HIDE DEF got, avail
  <2> QED BY <2>1 DEF PortionIs
<1>6. avail = Clip(want, R) /\ R \in Nat
  <2>1. avail = Clip(want, R)
    BY DEF Rest
  <2> HIDE DEF L
  <2> QED BY <1>4, <2>1
<1>7. file \in Seq(S) /\ Len(file) = R /\ \A k \in 1 .. R : file[k] = F[off + k]
  <2>1. CASE L >= off
    <3>1. /\ file \in Seq(S) /\ Len(file) = L - off
          /\ \A k \in 1 .. L - off : file[k] = F[off + k]
      BY <1>4, <2>1
    <3> QED BY <2>1, <3>1
  <2>2. CASE ~ (L >= off)
    <3>1. file = <<>>
      BY <1>4, <2>2
    <3>2. <<>> \in Seq(S) /\ Len(<<>>) = 0
      BY EmptySeq
    <3>3. file \in Seq(S) /\ Len(file) = 0
      BY <3>1, <3>2, Zenon
    <3> QED BY <2>2, <3>3
  <2> QED BY <2>1, <2>2
<1> HIDE DEF got, avail, room, file, R, L
<1>8. part \in Seq(S) /\ Len(part) = n /\ n \in Nat /\ \A k \in 1 .. n : part[k] = got[k]
  <2>1. PortionIs(S, got, 0, Portion(got, 0 + 1, 0 + room), Rest(got, 0, room))
    BY <1>2, <1>5, PortionOf
  <2>2. 0 + 1 = 1 /\ 0 + room = room
    BY <1>2
  <2>3. Rest(got, 0, room) = n
    <3>1. Rest(got, 0, room) = Clip(room, IF avail >= 0 THEN avail - 0 ELSE 0)
      BY <1>5 DEF Rest
    <3>2. Clip(room, IF avail >= 0 THEN avail - 0 ELSE 0) = Clip(avail, room)
      BY <1>2, <1>5 DEF Clip
    <3> QED BY <3>1, <3>2
  <2>4. PortionIs(S, got, 0, part, n)
    BY <2>1, <2>2, <2>3
  <2> HIDE DEF part, n
  <2>5. \A k \in 1 .. n : 0 + k = k
    BY <2>4 DEF PortionIs
  <2> QED BY <2>4, <2>5 DEF PortionIs
<1>9. n <= R /\ n <= avail
  BY <1>2, <1>5, <1>6 DEF Clip
<1> HIDE DEF n, part
<1>10. ASSUME NEW m \in Nat, m <= R
       PROVE  Portion(file, 1, m) = [k \in 1 .. m |-> file[k]]
  <2>1. Min({m, Len(file)}) = m
    BY <1>6, <1>7, <1>10, MinOfTwo
  <2>2. SubSeq(file, 1, m) = [k \in 1 .. m |-> file[k]]
    BY <1>6, <1>7, <1>10
  <2> QED BY <2>1, <2>2 DEF Portion
<1>11. part = Portion(file, 1, n)
  <2>1. part = [k \in 1 .. n |-> part[k]]
    BY <1>8
  <2>2. ASSUME NEW k \in 1 .. n PROVE part[k] = file[k]
    <3>1. k \in 1 .. avail /\ k \in 1 .. R
      BY <1>5, <1>6, <1>8, <1>9
    <3> QED BY <1>5, <1>7, <1>8, <3>1
  <2>3. Portion(file, 1, n) = [k \in 1 .. n |-> file[k]]
    BY <1>8, <1>9, <1>10
  <2> QED BY <2>1, <2>2, <2>3
<1>12. n = Clip(Clip(want, Len(file)), Room(FlattenSeq(area)))
  <2> DEFINE rm == Room(FlattenSeq(area))
  <2>1. n = Clip(Clip(want, R), room) /\ room = Clip(want, rm) /\ rm \in Nat
    BY <1>2, <1>6 DEF n
  <2> HIDE DEF rm
  <2>2. Clip(Clip(want, R), Clip(want, rm)) = Clip(Clip(want, R), rm)
    BY <1>6, <2>1 DEF Clip
  <2> QED BY <1>7, <2>1, <2>2 DEF rm
<1>13. Portion(file, 1, 0) = <<>> /\ <<>> \in Seq(S) /\ Len(<<>>) = 0
  BY <1>7, NoPortion, EmptySeq
<1>14. got # <<>> <=> Clip(want, Len(file)) > 0
  <2>1. got = <<>> <=> Len(got) = 0
    BY <1>5
  <2> QED BY <1>5, <1>6, <1>7, <2>1
<1> DEFINE D(err, bytes) == DeliveredIs(S, file, want, Room(FlattenSeq(area)), o.acc # "wr",
                                        err, bytes, Len(bytes))
<1>15. CASE o.acc = "wr"
  <2>1. r.err = "EBADF" /\ r.bytes = <<>>
    BY <1>3, <1>15
  <2>2. D("EBADF", <<>>)
    BY <1>13, <1>15 DEF DeliveredIs
  <2> QED BY <2>1, <2>2 DEF r, file, F, off, L
<1>16. CASE o.acc # "wr" /\ got # <<>> /\ room = 0
  <2>1. r.err = "EFAULT" /\ r.bytes = <<>>
    BY <1>3, <1>16
  <2>2. Room(FlattenSeq(area)) = 0 /\ Clip(want, Len(file)) > 0
    <3>1. Clip(want, Len(file)) > 0
      BY <1>14, <1>16
    <3>2. want > 0
      BY <1>6, <1>7, <3>1 DEF Clip
    <3> QED BY <1>2, <1>16, <3>1, <3>2 DEF Clip
  <2>3. Clip(Clip(want, Len(file)), 0) = 0
    BY <2>2 DEF Clip
  <2>4. D("EFAULT", <<>>)
    BY <1>13, <1>16, <2>2, <2>3 DEF DeliveredIs
  <2> QED BY <2>1, <2>4 DEF r, file, F, off, L
<1>17. CASE o.acc # "wr" /\ ~ (got # <<>> /\ room = 0)
  <2>1. r.err = "EOK" /\ r.bytes = part
    BY <1>3, <1>17
  <2>2. ~ (Clip(want, Len(file)) > 0 /\ Room(FlattenSeq(area)) = 0)
    <3> SUFFICES ASSUME Clip(want, Len(file)) > 0, Room(FlattenSeq(area)) = 0 PROVE FALSE
      OBVIOUS
    <3>1. room = 0
      BY <1>2 DEF Clip
    <3> QED BY <1>14, <1>17, <3>1
  <2>3. D("EOK", part)
    BY <1>8, <1>11, <1>12, <1>17, <2>2 DEF DeliveredIs
  <2> QED BY <2>1, <2>3 DEF r, file, F, off, L
<1> QED BY <1>15, <1>16, <1>17

(* io_read delivers what it should, and the offset moves by as much.       *)
LEMMA ReadStep ==
    ASSUME IInv, FileState, NEW p \in Proc, NEW n \in Fd, NEW req \in Reads,
           io_read(p, n, req.area, req.nbytes)
    PROVE  ReadDelivers' /\ FileState'
<1> DEFINE area == req.area
           want == req.nbytes
           flat == FlattenSeq(area)
           k0 == fds[p][n]
           o == OfdOf(p, n)
           F == data[o.ino]
           file == SubSeq(F, o.off + 1, Len(F))
           iov == common_iovec(area, Hdr, want)
           r == readv(o, iov)
           bytes == r.bytes
           err == r.err
           got == Len(bytes)
           filled == Scatter(area, Writable(iov), bytes)
           reply == write(filled, 0, <<err, got>>)
           readable == o.acc # "wr"
<1>1. /\ IsOpen(p, n)
      /\ ofd' = [ofd EXCEPT ![k0].off = @ + got]
      /\ last' = [op |-> "read", want |-> want, area |-> area, file |-> file,
                  readable |-> readable, reply |-> reply, moved |-> ofd'[k0].off - o.off]
      /\ UNCHANGED <<data, fds, pc>>
  BY DEF io_read
<1>2. /\ k0 \in DOMAIN ofd /\ "off" \in DOMAIN o /\ o.off \in Nat /\ o.ino \in Ino
      /\ IsTuple(F)
  BY <1>1, OpenFile
<1>3. IsArea(area) /\ want \in Nat
  BY RequestsAssumption
<1>4. PICK S1 : area \in Seq(Seq(S1))
  BY <1>3, AreaTyped
<1>5. PICK S2 : F \in Seq(S2)
  BY <1>2, TupleSeq
<1> DEFINE S == S1 \cup S2 \cup Nat \cup {err}
<1>6. area \in Seq(Seq(S)) /\ F \in Seq(S)
  <2>1. S1 \subseteq S /\ S2 \subseteq S
    OBVIOUS
  <2> HIDE DEF S, area, F
  <2> QED BY <1>4, <1>5, <2>1, SeqLarger
<1>7. err \in S /\ Nat \subseteq S
  OBVIOUS
<1> HIDE DEF S
<1>8. PICK st, out, from, to, junk : VectorIs(area, Hdr, want, iov, st, out, from, to, junk)
  <2>1. Hdr \in Nat
    BY DEF Hdr
  <2> QED BY <1>3, <1>6, <2>1, VectorFacts
<1>9. DeliveredIs(S, file, want, Room(flat), readable, err, bytes, got)
  <2>1. data[o.ino] \in Seq(S) /\ o.off \in Nat /\ want \in Nat /\ area \in Seq(Seq(S))
    BY <1>2, <1>3, <1>6
  <2> HIDE DEF o, iov, area, want
  <2> QED BY <1>8, <2>1, ReadvFacts
<1>10. /\ bytes \in Seq(S) /\ got \in Nat /\ bytes = Portion(file, 1, got)
       /\ got = (IF readable THEN Clip(Clip(want, Len(file)), Room(flat)) ELSE 0)
       /\ err = (IF ~ readable THEN "EBADF"
                 ELSE IF Clip(want, Len(file)) > 0 /\ Room(flat) = 0 THEN "EFAULT" ELSE "EOK")
  BY <1>9 DEF DeliveredIs
<1>11. /\ Layout(Chunks(area), st) /\ Run(Chunks(area), st, out, from, to)
       /\ from \in Nat /\ to \in Nat /\ from <= Len(flat) /\ Writable(iov) = out
  <2>1. /\ Layout(Chunks(area), st) /\ Run(Chunks(area), st, out, from, to)
        /\ from \in Nat /\ to \in Nat /\ from <= to /\ to <= Len(flat) /\ Writable(iov) = out
    BY <1>8 DEF VectorIs
  <2>2. Len(flat) \in Nat
    BY <1>6, FlattenType
  <2> HIDE DEF flat
  <2> QED BY <2>1, <2>2
<1>12. flat \in Seq(S) /\ Len(flat) \in Nat
  BY <1>6, FlattenType
<1>13. file \in Seq(S) /\ Len(file) \in Nat
  <2>1. o.off + 1 \in Nat
    BY <1>2
  <2>2. Len(F) \in Nat /\ o.off + 1 >= 1
    BY <1>2, <1>6
  <2>3. \A k \in o.off + 1 .. Len(F) : F[k] \in S
    BY <1>2, <1>6
  <2> HIDE DEF F, o
  <2> QED BY <1>6, <2>1, <2>2, <2>3, SubSeqProperties
<1> HIDE DEF r, bytes, err, got, iov, file, o, F, readable, area, want, flat
<1>14. got <= to - from /\ (got > 0 => from = Hdr /\ Hdr + got <= Len(flat))
  <2>1. from = Clip(Hdr, Len(flat)) /\ to = Clip(from + want, Len(flat))
    BY <1>8 DEF VectorIs, flat
  <2>2. got <= want /\ got <= Room(flat)
    <3>1. Room(flat) \in Nat
      BY <1>12 DEF Room, Hdr
    <3> HIDE DEF Hdr
    <3> QED BY <1>3, <1>10, <1>13, <3>1 DEF Clip
  <2>3. Hdr = 2 /\ Room(flat) = IF Len(flat) > Hdr THEN Len(flat) - Hdr ELSE 0
    BY DEF Hdr, Room
  <2> DEFINE L == Len(flat)
  <2>4. L \in Nat /\ got \in Nat /\ want \in Nat /\ from \in Nat /\ to \in Nat
    BY <1>3, <1>10, <1>11, <1>12
  <2> HIDE DEF L
  <2>5. /\ from = Clip(Hdr, L) /\ to = Clip(from + want, L) /\ got <= want
        /\ got <= IF L > Hdr THEN L - Hdr ELSE 0
    BY <2>1, <2>2, <2>3 DEF L
  <2>6. got <= to - from /\ (got > 0 => from = Hdr /\ Hdr + got <= L)
    BY <2>3, <2>4, <2>5 DEF Clip
  <2> QED BY <2>6 DEF L
<1>15. filled \in Seq(Seq(S)) /\ FlattenSeq(filled) = Patched(flat, from, got, bytes)
  <2>1. ScatterIs(S, area, Scatter(area, out, bytes), from, to, bytes)
    BY <1>6, <1>10, <1>11, ScatterFacts DEF flat
  <2>2. Len(bytes) = got
    BY DEF got
  <2>3. Clip(to - from, got) = got
    BY <1>10, <1>11, <1>14 DEF Clip
  <2> QED BY <1>11, <2>1, <2>2, <2>3 DEF ScatterIs, flat
<1> HIDE DEF filled
<1> DEFINE head == <<err, got>>
<1>16. head \in Seq(S) /\ Len(head) = Hdr
  <2>1. err \in S /\ got \in S
    BY <1>7, <1>10
  <2> QED BY <2>1 DEF Hdr
<1> HIDE DEF head
<1>17. FlattenSeq(reply) = Patched(Patched(flat, from, got, bytes), 0, Hdr, head)
  <2>1. 0 \in Nat
    OBVIOUS
  <2>2. FlattenSeq(write(filled, 0, head)) = Patched(FlattenSeq(filled), 0, Len(head), head)
    BY <1>15, <1>16, <2>1, WriteFacts
  <2> QED BY <1>15, <1>16, <2>2 DEF head
<1>18. FlattenSeq(reply) =
         Portion((head \o bytes) \o SubSeq(flat, Hdr + got + 1, Len(flat)), 1, Len(flat))
  <2>1. Len(bytes) = got
    BY DEF got
  <2>2. Len(bytes) > 0 => from = Hdr /\ Hdr + Len(bytes) <= Len(flat)
    BY <1>14, <2>1
  <2>3. Patched(Patched(flat, from, Len(bytes), bytes), 0, Hdr, head) =
         Portion((head \o bytes) \o SubSeq(flat, Hdr + Len(bytes) + 1, Len(flat)), 1, Len(flat))
    BY <1>10, <1>11, <1>12, <1>16, <2>2, ReplyForm
  <2> QED BY <1>17, <2>1, <2>3
<1> HIDE DEF reply
<1>19. ofd'[k0].off = o.off + got /\ \A k \in DOMAIN ofd : k # k0 => ofd'[k] = ofd[k]
  <2>1. ofd[k0] = o
    BY DEF o, OfdOf
  <2> QED BY <1>1, <1>2, <2>1
<1>20. FileState'
  <2>1. DOMAIN ofd' = DOMAIN ofd
    BY <1>1
  <2>2. ofd'[k0].off \in Nat
    BY <1>2, <1>10, <1>19
  <2>3. \A k \in DOMAIN ofd' : ofd'[k].off \in Nat
    BY <1>19, <2>1, <2>2 DEF FileState
  <2> QED BY <1>1, <2>3 DEF FileState
<1>21. last'.moved = got
  <2>1. (o.off + got) - o.off = got
    BY <1>2, <1>10
  <2> QED BY <1>1, <1>19, <2>1
<1>22. ReadDelivers'
  <2> DEFINE room == Room(flat)
             avail == Min({want, Len(file)})
             m == IF readable THEN Min({avail, room}) ELSE 0
             status == IF ~ readable THEN "EBADF"
                       ELSE IF avail > 0 /\ room = 0 THEN "EFAULT" ELSE "EOK"
             all == <<status, m>> \o Portion(file, 1, m) \o SubSeq(flat, Hdr + m + 1, Len(flat))
  <2>1. avail = Clip(want, Len(file)) /\ avail \in Nat
    <3>1. avail = Clip(want, Len(file))
      BY <1>3, <1>13, MinOfTwo DEF Clip
    <3> HIDE DEF avail
    <3> QED BY <1>3, <1>13, <3>1 DEF Clip
  <2>2. Min({avail, room}) = Clip(avail, room)
    <3>1. room \in Nat
      BY <1>12 DEF Room, Hdr
    <3> HIDE DEF avail, room
    <3> QED BY <2>1, <3>1, MinOfTwo DEF Clip
  <2>3. m = got /\ status = err
    <3>1. m = IF readable THEN Clip(avail, room) ELSE 0
      BY <2>2
    <3> HIDE DEF m, avail, room
    <3> QED BY <1>10, <2>1, <3>1 DEF room
  <2> HIDE DEF m, status
  <2>4. all = (head \o bytes) \o SubSeq(flat, Hdr + got + 1, Len(flat))
    BY <1>10, <2>3 DEF head
  <2>5. FlattenSeq(reply) = Portion(all, 1, Len(flat))
    BY <1>18, <2>4
  <2> HIDE DEF all
  <2>6. /\ last'.op = "read" /\ last'.want = want /\ last'.area = area /\ last'.file = file
        /\ last'.readable = readable /\ last'.reply = reply
    BY <1>1
  <2>7. FlattenSeq(last'.reply) = Portion(all, 1, Len(flat)) /\ last'.moved = m
    BY <1>21, <2>3, <2>5, <2>6
  <2> HIDE DEF Hdr
  <2> QED BY <2>6, <2>7 DEF ReadDelivers, all, m, status, Room, flat
<1> QED BY <1>20, <1>22

-----------------------------------------------------------------------------
(* Listing a directory.                                                    *)

Names == Range(Entries)
Reading == [buf : Seq(Names), off : Nat, out : Seq(Names)]

(* One readdir of the host.                                                *)
TakeOne(s) ==
    LET more == Portion(Entries, s.off + 1, s.off + DirBuf)
        b == IF s.buf = <<>> THEN more ELSE s.buf
    IN  IF b = <<>> THEN s
        ELSE [buf |-> Tail(b),
              off |-> IF s.buf = <<>> THEN s.off + Len(more) ELSE s.off,
              out |-> Append(s.out, Head(b))]

(* After k of them by a guest that had been given g names: it has the next *)
(* ones, and what is read ahead follows.                                   *)
Listed(buf, off, out, g, k) ==
    LET m == Clip(k, Len(Entries) - g)
    IN  /\ g + m <= off /\ off <= Len(Entries)
        /\ out = SubSeq(Entries, g + 1, g + m)
        /\ buf = SubSeq(Entries, g + m + 1, off)

(* The names.                                                              *)
LEMMA EntriesFacts ==
    Entries \in Seq(Names) /\ Len(Entries) \in Nat /\ DirBuf \in Nat /\ DirBuf > 0
<1>1. IsTuple(Entries) /\ DirBuf \in Nat /\ DirBuf > 0
  BY RequestsAssumption, FilesAssumption
<1>2. Len(Entries) \in Nat /\ Entries = [k \in 1 .. Len(Entries) |-> Entries[k]]
  BY <1>1 DEF IsTuple
<1>3. DOMAIN Entries = 1 .. Len(Entries)
  BY <1>2
<1>4. \A k \in 1 .. Len(Entries) : Entries[k] \in Names
  BY <1>3 DEF Names, Range
<1>5. Entries \in [1 .. Len(Entries) -> Names]
  BY <1>2, <1>4
<1>6. Entries \in Seq(Names)
  BY <1>2, <1>5
<1> QED BY <1>1, <1>2, <1>6

(* A piece of a sequence.                                                  *)
LEMMA PieceValue ==
    ASSUME NEW S, NEW s \in Seq(S), NEW a \in Nat, NEW b \in Nat, a <= b, b <= Len(s)
    PROVE  /\ SubSeq(s, a + 1, b) \in Seq(S) /\ Len(SubSeq(s, a + 1, b)) = b - a
           /\ SubSeq(s, a + 1, b) = [k \in 1 .. b - a |-> s[a + k]]
<1> DEFINE x == SubSeq(s, a + 1, b)
           n == b - a
<1>1. Len(s) \in Nat /\ n \in Nat
  OBVIOUS
<1>2. x \in Seq(S) /\ Len(x) = n /\ \A k \in 1 .. n : x[k] = s[a + k]
  BY <1>1
<1> HIDE DEF x, n
<1>3. x = [k \in 1 .. n |-> x[k]]
  BY <1>1, <1>2
<1> QED BY <1>2, <1>3 DEF x, n

(* A piece of a sequence, its first element and the rest.                  *)
HeadIs(S, s, a, b, x) ==
    /\ x \in Seq(S) /\ x # <<>> /\ Len(x) = b - a
    /\ Head(x) = s[a + 1] /\ s[a + 1] \in S
    /\ Tail(x) = SubSeq(s, (a + 1) + 1, b)

(* A part of a sequence that is not empty: its head and its tail.          *)
LEMMA PieceHead ==
    ASSUME NEW S, NEW s \in Seq(S), NEW a \in Nat, NEW b \in Nat, a < b, b <= Len(s)
    PROVE  HeadIs(S, s, a, b, SubSeq(s, a + 1, b))
<1> DEFINE x == SubSeq(s, a + 1, b)
           n == b - a
<1>1. Len(s) \in Nat /\ n \in Nat /\ n > 0
  OBVIOUS
<1>2. /\ x \in Seq(S) /\ Len(x) = n
      /\ \A k \in 1 .. n : x[k] = s[a + k]
  BY <1>1
<1>3. x # <<>> /\ Head(x) = x[1] /\ Tail(x) \in Seq(S) /\ Len(Tail(x)) = n - 1
      /\ \A k \in 1 .. n - 1 : Tail(x)[k] = x[k + 1]
  <2> HIDE DEF x
  <2> QED BY <1>1, <1>2
<1>4. SubSeq(s, (a + 1) + 1, b) = [k \in 1 .. n - 1 |-> s[a + (k + 1)]]
  <2>1. a + 1 \in Nat /\ a + 1 <= b
    OBVIOUS
  <2>2. SubSeq(s, (a + 1) + 1, b) = [k \in 1 .. b - (a + 1) |-> s[(a + 1) + k]]
    BY <2>1, PieceValue
  <2>3. b - (a + 1) = n - 1 /\ \A k \in 1 .. n - 1 : (a + 1) + k = a + (k + 1)
    OBVIOUS
  <2> HIDE DEF n
  <2> QED BY <2>2, <2>3
<1> HIDE DEF x
<1>5. Tail(x) = [k \in 1 .. n - 1 |-> Tail(x)[k]]
  <2> DEFINE y == Tail(x)
             m == n - 1
  <2>1. y \in Seq(S) /\ Len(y) = m /\ m \in Nat
    BY <1>1, <1>3
  <2> HIDE DEF y, m
  <2>2. y = [k \in 1 .. m |-> y[k]]
    BY <2>1
  <2> QED BY <2>2 DEF y, m
<1>6. \A k \in 1 .. n - 1 : Tail(x)[k] = s[a + (k + 1)]
  <2> TAKE k \in 1 .. n - 1
  <2>1. k + 1 \in 1 .. n
    BY <1>1
  <2>2. x[k + 1] = s[a + (k + 1)]
    BY <1>2, <2>1
  <2> QED BY <1>3, <2>2
<1>7. Tail(x) = SubSeq(s, (a + 1) + 1, b)
  BY <1>4, <1>5, <1>6
<1>8. a + 1 \in 1 .. Len(s) /\ 1 \in 1 .. n
  BY <1>1
<1>9. x[1] = s[a + 1] /\ s[a + 1] \in S
  BY <1>2, <1>8
<1>10. Len(x) = b - a
  BY <1>2
<1> HIDE DEF n
<1>11. HeadIs(S, s, a, b, x)
  BY <1>2, <1>3, <1>7, <1>9, <1>10 DEF HeadIs
<1> QED BY <1>11 DEF x

(* A readdir of the host takes one name, or none at the end.               *)
LEMMA TakeOneTypes ==
    ASSUME NEW s \in Reading
    PROVE  TakeOne(s) \in Reading
<1> DEFINE more == Portion(Entries, s.off + 1, s.off + DirBuf)
           b == IF s.buf = <<>> THEN more ELSE s.buf
           t == TakeOne(s)
<1>1. s.buf \in Seq(Names) /\ s.off \in Nat /\ s.out \in Seq(Names)
  BY DEF Reading
<1>2. more \in Seq(Names) /\ Len(more) \in Nat
  <2>1. PortionIs(Names, Entries, s.off, more, Rest(Entries, s.off, DirBuf))
    BY <1>1, EntriesFacts, PortionOf
  <2> HIDE DEF more
  <2> QED BY <2>1 DEF PortionIs
<1>3. t = IF b = <<>> THEN s
          ELSE [buf |-> Tail(b),
                off |-> IF s.buf = <<>> THEN s.off + Len(more) ELSE s.off,
                out |-> Append(s.out, Head(b))]
  BY DEF TakeOne
<1> HIDE DEF more, t
<1>4. b \in Seq(Names)
  BY <1>1, <1>2
<1> HIDE DEF b
<1>5. CASE b = <<>>
  BY <1>3, <1>5 DEF t
<1>6. CASE b # <<>>
  <2>1. Tail(b) \in Seq(Names) /\ Head(b) \in Names
    BY <1>4, <1>6
  <2>2. Append(s.out, Head(b)) \in Seq(Names)
    BY <1>1, <2>1
  <2>3. (IF s.buf = <<>> THEN s.off + Len(more) ELSE s.off) \in Nat
    BY <1>1, <1>2
  <2> QED BY <1>3, <1>6, <2>1, <2>2, <2>3 DEF t, Reading
<1> QED BY <1>5, <1>6

(* One more name for the guest, out of what is read ahead.                 *)
LEMMA ListGrows ==
    ASSUME NEW g \in Nat, NEW k \in Nat, NEW f \in Nat, g + k < f, f <= Len(Entries),
           NEW out \in Seq(Names), out = SubSeq(Entries, g + 1, g + k),
           NEW b, b = SubSeq(Entries, (g + k) + 1, f)
    PROVE  Listed(Tail(b), f, Append(out, Head(b)), g, k + 1) /\ b # <<>>
<1> DEFINE L == Len(Entries)
           a == g + k
<1>1. L \in Nat /\ Entries \in Seq(Names) /\ a \in Nat /\ a < f /\ f <= L
  BY EntriesFacts
<1>2. /\ b # <<>> /\ Head(b) = Entries[a + 1] /\ Entries[a + 1] \in Names
      /\ Tail(b) = SubSeq(Entries, (a + 1) + 1, f)
  <2>1. a < f /\ f <= Len(Entries) /\ a \in Nat
    BY <1>1
  <2>2. HeadIs(Names, Entries, a, f, SubSeq(Entries, a + 1, f))
    BY <1>1, <2>1, PieceHead
  <2>3. b = SubSeq(Entries, a + 1, f)
    OBVIOUS
  <2> HIDE DEF a
  <2> QED BY <2>2, <2>3 DEF HeadIs
<1>3. SubSeq(Entries, g + 1, a) \o SubSeq(Entries, a + 1, a + 1) = SubSeq(Entries, g + 1, a + 1)
  <2>1. g + 1 \in 1 .. Len(Entries) + 1 /\ a \in (g + 1) - 1 .. Len(Entries)
        /\ a + 1 \in a .. Len(Entries)
    BY <1>1
  <2> QED BY <1>1, <2>1, ConcatAdjacentSubSeq
<1>4. SubSeq(Entries, a + 1, a + 1) = <<Entries[a + 1]>>
  <2>1. a <= a + 1 /\ a + 1 <= Len(Entries) /\ a + 1 \in Nat
    BY <1>1
  <2>2. SubSeq(Entries, a + 1, a + 1) = [j \in 1 .. (a + 1) - a |-> Entries[a + j]]
    BY <1>1, <2>1, PieceValue
  <2>3. (a + 1) - a = 1
    BY <1>1
  <2> HIDE DEF a
  <2>4. <<Entries[a + 1]>> = [j \in 1 .. 1 |-> Entries[a + j]]
    OBVIOUS
  <2> QED BY <2>2, <2>3, <2>4
<1>5. Append(out, Entries[a + 1]) = out \o <<Entries[a + 1]>>
  BY <1>2, AppendIsConcat
<1>6. Append(out, Head(b)) = SubSeq(Entries, g + 1, a + 1)
  BY <1>2, <1>3, <1>4, <1>5
<1>7. Clip(k + 1, L - g) = k + 1 /\ g + (k + 1) = a + 1 /\ a + 1 <= f
  <2> HIDE DEF L
  <2> QED BY <1>1 DEF Clip
<1> HIDE DEF a, L
<1> QED BY <1>1, <1>2, <1>6, <1>7 DEF Listed, L

(* It keeps the list in order.                                             *)
LEMMA TakeOneListed ==
    ASSUME NEW s \in Reading, NEW g \in Nat, g <= Len(Entries), NEW k \in Nat,
           Listed(s.buf, s.off, s.out, g, k)
    PROVE  Listed(TakeOne(s).buf, TakeOne(s).off, TakeOne(s).out, g, k + 1)
<1> DEFINE L == Len(Entries)
           off == s.off
           buf == s.buf
           out == s.out
           more == Portion(Entries, off + 1, off + DirBuf)
           b == IF buf = <<>> THEN more ELSE buf
           t == TakeOne(s)
           m == Clip(k, L - g)
           a == g + m
           e == Clip(off + DirBuf, L)
<1>1. buf \in Seq(Names) /\ off \in Nat /\ out \in Seq(Names)
  BY DEF Reading
<1>2. /\ a <= off /\ off <= L /\ out = SubSeq(Entries, g + 1, a)
      /\ buf = SubSeq(Entries, a + 1, off)
  BY DEF Listed
<1>3. t = IF b = <<>> THEN s
          ELSE [buf |-> Tail(b),
                off |-> IF buf = <<>> THEN off + Len(more) ELSE off,
                out |-> Append(out, Head(b))]
  BY DEF TakeOne
<1>4. L \in Nat /\ Entries \in Seq(Names) /\ DirBuf \in Nat /\ DirBuf > 0 /\ g <= L
  BY EntriesFacts
<1>5. more = SubSeq(Entries, off + 1, e)
  <2>1. Min({off + DirBuf, L}) = e
    <3>1. off + DirBuf \in Int /\ L \in Int
      BY <1>1, <1>4
    <3> HIDE DEF off, L
    <3> QED BY <3>1, MinOfTwo DEF Clip
  <2> QED BY <2>1 DEF Portion
<1> HIDE DEF L, off, buf, out, more, t
<1>6. e \in Nat /\ e <= L /\ (off < L => off < e) /\ (off = L => e = L)
  BY <1>1, <1>4 DEF Clip
<1>7. m \in Nat /\ a \in Nat /\ a <= L /\ m = Clip(k, L - g) /\ (a < L => m = k)
  BY <1>4 DEF Clip
<1> HIDE DEF e, m
<1>8. CASE a < off
  <2>1. m = k /\ a = g + k
    <3>1. off <= L
      BY <1>2
    <3>2. a < L
      BY <1>1, <1>4, <1>7, <1>8, <3>1
    <3> QED BY <1>7, <3>2
  <2>2. g + k < off /\ off <= Len(Entries) /\ out = SubSeq(Entries, g + 1, g + k)
        /\ buf = SubSeq(Entries, (g + k) + 1, off)
    BY <1>2, <1>8, <2>1 DEF L
  <2>3. Listed(Tail(buf), off, Append(out, Head(buf)), g, k + 1) /\ buf # <<>>
    BY <1>1, <2>2, ListGrows
  <2>4. t.buf = Tail(buf) /\ t.off = off /\ t.out = Append(out, Head(buf))
    BY <1>3, <2>3
  <2> QED BY <2>3, <2>4 DEF t
<1>9. CASE a = off /\ off < L
  <2>1. m = k /\ a = g + k /\ g + k = off
    BY <1>7, <1>9
  <2>2. buf = <<>>
    BY <1>1, <1>2, <1>9
  <2>3. g + k < e /\ e <= Len(Entries) /\ out = SubSeq(Entries, g + 1, g + k)
        /\ more = SubSeq(Entries, (g + k) + 1, e)
    BY <1>2, <1>5, <1>6, <1>9, <2>1 DEF L
  <2>4. Listed(Tail(more), e, Append(out, Head(more)), g, k + 1) /\ more # <<>>
    BY <1>1, <1>6, <2>3, ListGrows
  <2>5. Len(more) = e - off
    <3>1. off < e /\ e <= Len(Entries) /\ off \in Nat /\ e \in Nat
      BY <1>1, <1>6, <1>9 DEF L
    <3>2. HeadIs(Names, Entries, off, e, SubSeq(Entries, off + 1, e))
      BY <1>4, <3>1, PieceHead
    <3> QED BY <1>5, <3>2 DEF HeadIs
  <2>6. off + (e - off) = e
    BY <1>1, <1>6
  <2>7. t.buf = Tail(more) /\ t.off = e /\ t.out = Append(out, Head(more))
    BY <1>3, <2>2, <2>4, <2>5, <2>6
  <2> QED BY <2>4, <2>7 DEF t
<1>10. CASE a = off /\ off = L
  <2>1. e = L /\ buf = <<>>
    BY <1>1, <1>2, <1>6, <1>10
  <2>2. more = <<>>
    BY <1>1, <1>4, <1>5, <1>10, <2>1
  <2>3. t = s
    BY <1>3, <2>1, <2>2
  <2>4. Clip(k + 1, L - g) = m
    <3>1. m = Clip(k, L - g) /\ g + m = L /\ g \in Nat /\ L \in Nat /\ m \in Nat
      BY <1>4, <1>7, <1>10
    <3> QED BY <3>1 DEF Clip
  <2>5. Listed(s.buf, s.off, s.out, g, k + 1)
    <3>1. Clip(k + 1, Len(Entries) - g) = m
      BY <2>4 DEF L
    <3>2. /\ g + m <= s.off /\ s.off <= Len(Entries)
          /\ s.out = SubSeq(Entries, g + 1, g + m)
          /\ s.buf = SubSeq(Entries, g + m + 1, s.off)
      BY <1>2 DEF L, off, buf, out
    <3> QED BY <3>1, <3>2 DEF Listed
  <2> QED BY <2>3, <2>5 DEF t
<1> QED BY <1>1, <1>2, <1>4, <1>7, <1>8, <1>9, <1>10, SMTT(30)

(* So does the whole request.                                              *)
LEMMA TakenFacts ==
    ASSUME NEW buf \in Seq(Names), NEW off \in Nat, NEW count \in Nat
    PROVE  /\ Taken(buf, off, count) \in Reading
           /\ \A g \in Nat : g <= Len(Entries) /\ Listed(buf, off, <<>>, g, 0) =>
                 Listed(Taken(buf, off, count).buf, Taken(buf, off, count).off,
                        Taken(buf, off, count).out, g, count)
<1> DEFINE first == [buf |-> buf, off |-> off, out |-> <<>>]
           g == [k \in Nat |-> [s \in Reading |-> TakeOne(s)]]
           Walk(f) == f = [k \in 0 .. count |-> IF k = 0 THEN first ELSE TakeOne(f[k - 1])]
           go == CHOOSE f : Walk(f)
<1>1. first \in Reading
  <2>1. <<>> \in Seq(Names)
    BY EmptySeq
  <2> QED BY <2>1 DEF Reading
<1>2. g \in [Nat -> [Reading -> Reading]]
  <2>1. \A s \in Reading : TakeOne(s) \in Reading
    BY TakeOneTypes
  <2> HIDE DEF Reading, TakeOne
  <2> QED BY <2>1
<1> HIDE DEF first
<1>3. PICK f : Rounds(f, Reading, first, g, count)
  <2> HIDE DEF g, Reading
  <2> QED BY <1>1, <1>2, RoundsExist
<1>4. Walk(f)
  <2> HIDE DEF Reading, TakeOne
  <2>1. ASSUME NEW k \in 0 .. count PROVE f[k] = IF k = 0 THEN first ELSE TakeOne(f[k - 1])
    <3>1. CASE k = 0
      BY <1>3, <3>1 DEF Rounds
    <3>2. CASE k # 0
      <4>1. k \in 1 .. count /\ k - 1 \in 0 .. count /\ k \in Nat
        BY <3>2
      <4>2. f[k - 1] \in Reading /\ f[k] = g[k][f[k - 1]]
        BY <1>3, <4>1 DEF Rounds
      <4> QED BY <3>2, <4>1, <4>2
    <3> QED BY <3>1, <3>2
  <2> QED BY <1>3, <2>1 DEF Rounds
<1>5. Walk(go)
  BY <1>4, Zenon
<1>6. Taken(buf, off, count) = go[count]
  BY DEF Taken, TakeOne, first
<1> HIDE DEF go
<1>7. \A k \in 0 .. count : go[k] = IF k = 0 THEN first ELSE TakeOne(go[k - 1])
  BY <1>5
<1> HIDE DEF Walk, g
<1>8. ASSUME NEW k \in Nat, k + 1 <= count PROVE go[k + 1] = TakeOne(go[k])
  <2>1. k + 1 \in 0 .. count /\ k + 1 # 0 /\ (k + 1) - 1 = k
    BY <1>8
  <2> QED BY <1>7, <2>1
<1>9. go[0] = first
  BY <1>7
<1> DEFINE N == {k \in Nat : k <= count => go[k] \in Reading}
<1>10. \A k \in Nat : k \in N
  <2>1. 0 \in N
    BY <1>1, <1>9
  <2>2. ASSUME NEW k \in Nat, k \in N PROVE k + 1 \in N
    <3> SUFFICES ASSUME k + 1 <= count PROVE go[k + 1] \in Reading
      OBVIOUS
    <3>1. go[k] \in Reading
      BY <2>2
    <3> QED BY <1>8, <3>1, TakeOneTypes
  <2> HIDE DEF N
  <2> QED BY <2>1, <2>2, NatSetInduction
<1>11. \A k \in Nat : k <= count => go[k] \in Reading
  BY <1>10
<1>12. ASSUME NEW h \in Nat, h <= Len(Entries), Listed(buf, off, <<>>, h, 0)
       PROVE  Listed(go[count].buf, go[count].off, go[count].out, h, count)
  <2> DEFINE M == {k \in Nat : k <= count =>
                       Listed(go[k].buf, go[k].off, go[k].out, h, k)}
  <2>1. 0 \in M
    <3>1. first.buf = buf /\ first.off = off /\ first.out = <<>>
      BY DEF first
    <3> QED BY <1>9, <1>12, <3>1
  <2>2. ASSUME NEW k \in Nat, k \in M PROVE k + 1 \in M
    <3> SUFFICES ASSUME k + 1 <= count
                 PROVE  Listed(go[k + 1].buf, go[k + 1].off, go[k + 1].out, h, k + 1)
      OBVIOUS
    <3>1. k <= count
      OBVIOUS
    <3>2. go[k] \in Reading /\ Listed(go[k].buf, go[k].off, go[k].out, h, k)
      BY <1>11, <2>2, <3>1
    <3>3. Listed(TakeOne(go[k]).buf, TakeOne(go[k]).off, TakeOne(go[k]).out, h, k + 1)
      BY <1>12, <3>2, TakeOneListed
    <3> QED BY <1>8, <3>3
  <2> HIDE DEF M
  <2>3. count \in M
    BY <2>1, <2>2, NatSetInduction
  <2> QED BY <2>3 DEF M
<1> QED BY <1>6, <1>11, <1>12

(* Data that continues what F has in its first n places.                   *)
Continues(F, n, w, d) == \A j \in 1 .. w : d[j] = F[n + j]

(* Data written behind data that was written before.                       *)
LEMMA PatchMore ==
    ASSUME NEW S, NEW flat \in Seq(S), NEW from \in Nat, NEW n \in Nat, NEW w \in Nat,
           NEW F, NEW d, Continues(F, n, w, d)
    PROVE  Patched(Patched(flat, from, n, F), from + n, w, d) = Patched(flat, from, n + w, F)
<1> DEFINE L == Len(flat)
           p == Patched(flat, from, n, F)
<1>1. L \in Nat
  OBVIOUS
<1>2. Len(p) = L /\ \A m \in 1 .. L :
         p[m] = IF m \in from + 1 .. from + n THEN F[m - from] ELSE flat[m]
  BY <1>1 DEF Patched
<1> HIDE DEF p, L
<1>3. ASSUME NEW m \in 1 .. L
      PROVE  (IF m \in (from + n) + 1 .. (from + n) + w THEN d[m - (from + n)] ELSE p[m]) =
             (IF m \in from + 1 .. from + (n + w) THEN F[m - from] ELSE flat[m])
  <2>1. CASE m \in (from + n) + 1 .. (from + n) + w
    <3>1. /\ m - (from + n) \in 1 .. w /\ n + (m - (from + n)) = m - from
          /\ m \in from + 1 .. from + (n + w)
      BY <1>1, <2>1
    <3>2. d[m - (from + n)] = F[n + (m - (from + n))]
      BY <3>1 DEF Continues
    <3> QED BY <2>1, <3>1, <3>2
  <2>2. CASE m \notin (from + n) + 1 .. (from + n) + w
    <3>1. m \in from + 1 .. from + (n + w) <=> m \in from + 1 .. from + n
      BY <1>1, <2>2
    <3> QED BY <1>2, <2>2, <3>1
  <2> QED BY <2>1, <2>2
<1>4. Patched(p, from + n, w, d) =
        [m \in 1 .. L |-> IF m \in (from + n) + 1 .. (from + n) + w
                          THEN d[m - (from + n)] ELSE p[m]]
  BY <1>2 DEF Patched
<1>5. Patched(flat, from, n + w, F) =
        [m \in 1 .. L |-> IF m \in from + 1 .. from + (n + w) THEN F[m - from] ELSE flat[m]]
  BY DEF Patched, L
<1>6. Patched(p, from + n, w, d) = Patched(flat, from, n + w, F)
  BY <1>3, <1>4, <1>5
<1> QED BY <1>6 DEF p

(* The entries of a reply: for each name a mark and the name.              *)
Entry(name) == <<"unused", name>>
Listing(names) == FlattenSeq([k \in 1 .. Len(names) |-> Entry(names[k])])

(* They are pairs, one behind the other.                                   *)
LEMMA ListingFacts ==
    ASSUME NEW S, NEW names \in Seq(S), "unused" \in S
    PROVE  /\ Listing(names) \in Seq(S) /\ Len(Listing(names)) = 2 * Len(names)
           /\ \A k \in 1 .. Len(names) : \A j \in 1 .. 2 :
                 Listing(names)[2 * (k - 1) + j] = Entry(names[k])[j]
<1> DEFINE n == Len(names)
           area == [k \in 1 .. n |-> Entry(names[k])]
           st == [k \in 1 .. n + 1 |-> 2 * (k - 1)]
<1>1. n \in Nat /\ \A k \in 1 .. n : names[k] \in S
  OBVIOUS
<1>2. ASSUME NEW k \in 1 .. n PROVE Entry(names[k]) \in Seq(S) /\ Len(Entry(names[k])) = 2
  BY <1>1 DEF Entry
<1> HIDE DEF n
<1>3. area \in Seq(Seq(S)) /\ Len(area) = n /\ \A k \in 1 .. n : area[k] = Entry(names[k])
  <2>1. area \in [1 .. n -> Seq(S)]
    BY <1>2
  <2> QED BY <1>1, <2>1
<1> HIDE DEF area
<1>4. Layout(Chunks(area), st)
  <2>1. /\ Chunks(area) \in Seq(Nat) /\ Len(Chunks(area)) = n
        /\ \A k \in 1 .. n : Chunks(area)[k] = Len(area[k])
    BY <1>3, ChunksFacts
  <2>2. \A k \in 1 .. n : Chunks(area)[k] = 2
    BY <1>2, <1>3, <2>1
  <2>3. st \in [1 .. n + 1 -> Nat] /\ st[1] = 0
    BY <1>1
  <2>4. \A k \in 1 .. n : st[k + 1] = st[k] + 2
    BY <1>1
  <2> HIDE DEF st
  <2> QED BY <2>1, <2>2, <2>3, <2>4 DEF Layout
<1>5. FlatIs(S, area, st)
  <2> HIDE DEF st
  <2> QED BY <1>3, <1>4, FlatBytes
<1>6. st[n + 1] = 2 * n /\ \A k \in 1 .. n : st[k] = 2 * (k - 1)
  BY <1>1
<1> HIDE DEF st
<1>7. FlattenSeq(area) \in Seq(S) /\ Len(FlattenSeq(area)) = 2 * n
  BY <1>3, <1>5, <1>6 DEF FlatIs
<1>8. \A k \in 1 .. n : \A j \in 1 .. 2 : FlattenSeq(area)[2 * (k - 1) + j] = Entry(names[k])[j]
  <2> TAKE k \in 1 .. n
  <2>1. Len(area[k]) = 2
    BY <1>2, <1>3
  <2>2. \A j \in 1 .. 2 : FlattenSeq(area)[st[k] + j] = area[k][j]
    BY <1>3, <1>5, <2>1 DEF FlatIs
  <2> QED BY <1>3, <1>6, <2>2
<1>9. Listing(names) = FlattenSeq(area)
  BY DEF Listing, area, n
<1> QED BY <1>7, <1>8, <1>9 DEF n

(* Writing the entries one by one writes them all, as far as there is room.*)
LEMMA WithEntriesFacts ==
    ASSUME NEW S, NEW area \in Seq(Seq(S)), NEW names \in Seq(S), "unused" \in S
    PROVE  /\ WithEntries(area, names) \in Seq(Seq(S))
           /\ FlattenSeq(WithEntries(area, names)) =
                Patched(FlattenSeq(area), Hdr, 2 * Len(names), Listing(names))
<1> DEFINE n == Len(names)
           I == Seq(Seq(S))
           flat == FlattenSeq(area)
           all == Listing(names)
           Put(a, k) == write(a, Hdr + 2 * (k - 1), Entry(names[k]))
           g == [k \in Nat |-> [a \in I |-> IF k \in 1 .. n THEN Put(a, k) ELSE a]]
           Walk(f) == f = [k \in 0 .. n |-> IF k = 0 THEN area ELSE Put(f[k - 1], k)]
           put == CHOOSE f : Walk(f)
           F(k) == put[k] \in I /\ FlattenSeq(put[k]) = Patched(flat, Hdr, 2 * k, all)
<1>1. n \in Nat /\ flat \in Seq(S) /\ \A k \in 1 .. n : names[k] \in S
  BY FlattenType
<1>2. ASSUME NEW k \in 1 .. n PROVE Entry(names[k]) \in Seq(S) /\ Len(Entry(names[k])) = 2
  BY <1>1 DEF Entry
<1>3. \A k \in 1 .. n : \A j \in 1 .. 2 : all[2 * (k - 1) + j] = Entry(names[k])[j]
  BY ListingFacts
<1> HIDE DEF n, all
<1>4. ASSUME NEW k \in 1 .. n, NEW a \in I
      PROVE  /\ Put(a, k) \in I
             /\ FlattenSeq(Put(a, k)) =
                  Patched(FlattenSeq(a), Hdr + 2 * (k - 1), 2, Entry(names[k]))
  <2>1. Hdr + 2 * (k - 1) \in Nat
    BY <1>1 DEF Hdr
  <2> DEFINE off == Hdr + 2 * (k - 1)
             e == Entry(names[k])
  <2>2. off \in Nat /\ e \in Seq(S) /\ Len(e) = 2
    BY <1>2, <2>1
  <2> HIDE DEF off, e
  <2>3. write(a, off, e) \in I /\ FlattenSeq(write(a, off, e)) = Patched(FlattenSeq(a), off, Len(e), e)
    BY <2>2, WriteFacts
  <2> QED BY <2>2, <2>3 DEF off, e
<1>5. area \in I
  OBVIOUS
<1> HIDE DEF I, Put
<1>6. g \in [Nat -> [I -> I]]
  <2>1. \A k \in Nat, a \in I : (IF k \in 1 .. n THEN Put(a, k) ELSE a) \in I
    BY <1>4
  <2> QED BY <2>1
<1>7. PICK f : Rounds(f, I, area, g, n)
  <2> HIDE DEF g
  <2> QED BY <1>1, <1>5, <1>6, RoundsExist
<1>8. Walk(f)
  <2>1. ASSUME NEW k \in 0 .. n PROVE f[k] = IF k = 0 THEN area ELSE Put(f[k - 1], k)
    <3>1. CASE k = 0
      BY <1>7, <3>1 DEF Rounds
    <3>2. CASE k # 0
      <4>1. k \in 1 .. n /\ k - 1 \in 0 .. n /\ k \in Nat
        BY <1>1, <3>2
      <4>2. f[k - 1] \in I /\ f[k] = g[k][f[k - 1]]
        BY <1>7, <4>1 DEF Rounds
      <4> QED BY <3>2, <4>1, <4>2
    <3> QED BY <3>1, <3>2
  <2> QED BY <1>7, <2>1 DEF Rounds
<1>9. Walk(put)
  BY <1>8, Zenon
<1>10. WithEntries(area, names) = put[n]
  BY DEF WithEntries, Put, Entry, n
<1> HIDE DEF put
<1>11. \A k \in 0 .. n : put[k] = IF k = 0 THEN area ELSE Put(put[k - 1], k)
  BY <1>9
<1> DEFINE N == {k \in Nat : k <= n => F(k)}
<1>12. 0 \in N
  <2>1. put[0] = area
    BY <1>1, <1>11
  <2>2. Hdr \in Nat /\ 2 * 0 = 0
    BY DEF Hdr
  <2>3. Patched(flat, Hdr, 0, all) = flat
    BY <1>1, <2>2, NothingPatched
  <2> QED BY <1>5, <2>1, <2>2, <2>3
<1>13. ASSUME NEW k \in Nat, k \in N PROVE k + 1 \in N
  <2> SUFFICES ASSUME k + 1 <= n PROVE F(k + 1)
    <3> HIDE DEF F
    <3> QED OBVIOUS
  <2>1. k + 1 \in 1 .. n /\ k + 1 \in 0 .. n /\ k <= n /\ (k + 1) - 1 = k /\ k + 1 # 0
    BY <1>1
  <2>2. put[k] \in I /\ FlattenSeq(put[k]) = Patched(flat, Hdr, 2 * k, all)
    <3>1. F(k)
      <4> HIDE DEF F
      <4> QED BY <1>13, <2>1
    <3> QED BY <3>1
  <2>3. put[k + 1] = Put(put[k], k + 1)
    BY <1>11, <2>1
  <2> DEFINE e == Entry(names[k + 1])
  <2>4. /\ Put(put[k], k + 1) \in I
        /\ FlattenSeq(Put(put[k], k + 1)) = Patched(FlattenSeq(put[k]), Hdr + 2 * k, 2, e)
    BY <1>4, <2>1, <2>2
  <2>5. \A j \in 1 .. 2 : e[j] = all[2 * k + j]
    BY <1>3, <2>1
  <2> HIDE DEF e
  <2>6. Patched(Patched(flat, Hdr, 2 * k, all), Hdr + 2 * k, 2, e) =
          Patched(flat, Hdr, 2 * k + 2, all)
    <3> DEFINE m == 2 * k
               w == 2
    <3>1. Hdr \in Nat /\ m \in Nat /\ w \in Nat /\ Continues(all, m, w, e)
      BY <2>5 DEF Hdr, Continues
    <3> HIDE DEF m, w, flat
    <3>2. Patched(Patched(flat, Hdr, m, all), Hdr + m, w, e) = Patched(flat, Hdr, m + w, all)
      BY <1>1, <3>1, PatchMore
    <3> QED BY <3>2 DEF m, w
  <2>7. 2 * (k + 1) = 2 * k + 2
    OBVIOUS
  <2> QED BY <2>2, <2>3, <2>4, <2>6, <2>7
<1> HIDE DEF N
<1>14. n \in N
  BY <1>1, <1>12, <1>13, NatSetInduction
<1>15. F(n)
  BY <1>1, <1>14 DEF N
<1> QED BY <1>10, <1>15 DEF I, n, all

(* A sequence behind its first m elements.                                 *)
LEMMA TailPiece ==
    ASSUME NEW S, NEW s \in Seq(S), NEW m \in Nat
    PROVE  PortionIs(S, s, m, SubSeq(s, m + 1, Len(s)), Rest(s, m, Len(s)))
<1>1. Len(s) \in Nat
  OBVIOUS
<1>2. Min({m + Len(s), Len(s)}) = Len(s)
  <2> DEFINE L == Len(s)
  <2>1. L \in Nat
    BY <1>1
  <2> HIDE DEF L
  <2>2. m + L \in Int /\ L \in Int /\ (m + L <= L => m + L = L)
    BY <2>1
  <2>3. Min({m + L, L}) = L
    BY <2>2, MinOfTwo
  <2> QED BY <2>3 DEF L
<1>3. Portion(s, m + 1, m + Len(s)) = SubSeq(s, m + 1, Len(s))
  BY <1>2 DEF Portion
<1>4. PortionIs(S, s, m, Portion(s, m + 1, m + Len(s)), Rest(s, m, Len(s)))
  BY <1>1, PortionOf
<1> QED BY <1>3, <1>4

(* A reply with entries and a header: as much of them as there is room     *)
(* for, and the rest of what was there.                                    *)
LEMMA ListingForm ==
    ASSUME NEW S, NEW flat \in Seq(S), NEW head \in Seq(S), Len(head) = Hdr,
           NEW bytes \in Seq(S), NEW all, all = head \o bytes
    PROVE  Patched(Patched(flat, Hdr, Len(bytes), bytes), 0, Hdr, head) =
             Portion(all, 1, Len(flat)) \o SubSeq(flat, Len(all) + 1, Len(flat))
<1> DEFINE n == Len(bytes)
           L == Len(flat)
           A == Len(all)
           p == Patched(flat, Hdr, n, bytes)
           q == Patched(p, 0, Hdr, head)
           x == Portion(all, 1, L)
           z == SubSeq(flat, A + 1, L)
           a == Clip(L, A)
           c == Len(z)
<1>0. Hdr = 2 /\ n \in Nat /\ L \in Nat
  BY DEF Hdr
<1>1. all \in Seq(S) /\ A = Hdr + n /\ A \in Nat
      /\ \A m \in 1 .. A : all[m] = IF m <= Hdr THEN head[m] ELSE bytes[m - Hdr]
  <2>1. head \o bytes \in Seq(S) /\ Len(head \o bytes) = Len(head) + n
    BY ConcatProperties
  <2>2. head \o bytes = [k \in 1 .. Len(head) + n |->
                           IF k <= Len(head) THEN head[k] ELSE bytes[k - Len(head)]]
    BY ConcatValue
  <2>3. Hdr + n \in Nat
    BY <1>0
  <2> HIDE DEF n
  <2> QED BY <2>1, <2>2, <2>3
<1>2. x \in Seq(S) /\ Len(x) = a /\ a \in Nat /\ \A k \in 1 .. a : x[k] = all[k]
  <2>1. PortionIs(S, all, 0, Portion(all, 0 + 1, 0 + L), Rest(all, 0, L))
    <3>1. 0 \in Nat
      OBVIOUS
    <3> QED BY <1>0, <1>1, <3>1, PortionOf
  <2>2. 0 + 1 = 1 /\ 0 + L = L /\ \A k \in 1 .. a : 0 + k = k
    <3> HIDE DEF a
    <3> QED BY <1>0
  <2>3. Rest(all, 0, L) = a
    <3>1. A >= 0 /\ A - 0 = A
      BY <1>1
    <3> HIDE DEF L, A
    <3> QED BY <3>1 DEF Rest, A
  <2> HIDE DEF L, a
  <2>4. PortionIs(S, all, 0, Portion(all, 1, L), a)
    BY <2>1, <2>2, <2>3
  <2> QED BY <2>2, <2>4 DEF PortionIs
<1>3. z \in Seq(S) /\ c \in Nat /\ c = (IF L >= A THEN L - A ELSE 0)
      /\ \A k \in 1 .. c : z[k] = flat[A + k]
  <2>1. PortionIs(S, flat, A, z, Rest(flat, A, L))
    BY <1>1, TailPiece
  <2>2. Rest(flat, A, L) = IF L >= A THEN L - A ELSE 0
    <3>1. Rest(flat, A, L) = Clip(L, IF L >= A THEN L - A ELSE 0)
      BY DEF Rest
    <3> HIDE DEF L, A
    <3> QED BY <1>0, <1>1, <3>1 DEF Clip
  <2> HIDE DEF L, A, z
  <2> QED BY <2>1, <2>2 DEF PortionIs
<1>4. x \o z = [k \in 1 .. a + c |-> IF k <= a THEN x[k] ELSE z[k - a]]
  <2>1. x \o z = [k \in 1 .. Len(x) + Len(z) |-> IF k <= Len(x) THEN x[k] ELSE z[k - Len(x)]]
    <3> HIDE DEF x, z
    <3> QED BY <1>2, <1>3, ConcatValue
  <2> HIDE DEF x, z
  <2> QED BY <1>2, <2>1
<1>5. Len(p) = L /\ \A m \in 1 .. L :
         p[m] = IF m \in Hdr + 1 .. Hdr + n THEN bytes[m - Hdr] ELSE flat[m]
  BY <1>0 DEF Patched
<1> HIDE DEF p
<1>6. q = [m \in 1 .. L |-> IF m \in 0 + 1 .. 0 + Hdr THEN head[m - 0] ELSE p[m]]
  BY <1>5 DEF Patched
<1> HIDE DEF x, z, n, L, A, c
<1>7. a + c = L /\ (L <= A => a = L) /\ (L > A => a = A) /\ a <= A
  BY <1>0, <1>1, <1>3 DEF Clip
<1> HIDE DEF a
<1>8. ASSUME NEW m \in 1 .. L
      PROVE  (IF m \in 0 + 1 .. 0 + Hdr THEN head[m - 0] ELSE p[m]) =
             (IF m <= a THEN x[m] ELSE z[m - a])
  <2>1. p[m] = IF m \in Hdr + 1 .. Hdr + n THEN bytes[m - Hdr] ELSE flat[m]
    BY <1>5
  <2>2. CASE m <= a /\ m <= Hdr
    <3>1. m \in 0 + 1 .. 0 + Hdr /\ m - 0 = m /\ m \in 1 .. a /\ m \in 1 .. A
      BY <1>0, <1>1, <1>2, <1>7, <2>2
    <3> QED BY <1>1, <1>2, <2>2, <3>1
  <2>3. CASE m <= a /\ ~ (m <= Hdr)
    <3>1. /\ m \notin 0 + 1 .. 0 + Hdr /\ m \in 1 .. a /\ m \in 1 .. A
          /\ m \in Hdr + 1 .. Hdr + n
      BY <1>0, <1>1, <1>2, <1>7, <2>3
    <3> QED BY <1>1, <1>2, <2>1, <2>3, <3>1
  <2>4. CASE ~ (m <= a)
    <3>1. a = A /\ m > A
      BY <1>0, <1>1, <1>2, <1>7, <2>4
    <3>2. /\ m \notin 0 + 1 .. 0 + Hdr /\ m \notin Hdr + 1 .. Hdr + n
          /\ m - a \in 1 .. c /\ A + (m - a) = m
      BY <1>0, <1>1, <1>3, <1>7, <3>1
    <3> QED BY <1>3, <2>1, <2>4, <3>2
  <2> QED BY <2>2, <2>3, <2>4
<1>9. q = x \o z
  BY <1>4, <1>6, <1>7, <1>8
<1> QED BY <1>9 DEF q, p, x, z, n, L, A

(* An FD that is open for a directory has a description of it, and maybe a *)
(* stream.                                                                 *)
LEMMA OpenDir ==
    ASSUME IInv, FileState, StreamState, NEW p \in Proc, NEW n, IsDir(p, n)
    PROVE  /\ n \in Fd /\ fds[p][n] # NotOpen /\ fds[p][n] \in DOMAIN ofd
           /\ {"ino", "off", "given", "inorder"} \subseteq DOMAIN OfdOf(p, n)
           /\ OfdOf(p, n).off \in Nat /\ OfdOf(p, n).given \in Nat
           /\ Ahead(p, n) \in Seq(Names)
           /\ OfdOf(p, n).inorder => InOrder(p, n)
<1>1. n \in Fd /\ fds[p][n] # NotOpen /\ OfdOf(p, n).ino = Dir
  BY DEF IsDir, IsUsed
<1>2. fds[p][n] \in DOMAIN ofd
  BY <1>1 DEF IInv, HandlesOK
<1>3. {"ino", "off"} \subseteq DOMAIN OfdOf(p, n)
  BY <1>2 DEF IInv, HandlesOK, OfdOf
<1>4. OfdOf(p, n).off \in Nat
  BY <1>2 DEF FileState, OfdOf
<1>5. {"given", "inorder"} \subseteq DOMAIN OfdOf(p, n) /\ OfdOf(p, n).given \in Nat
  BY <1>1, <1>2 DEF StreamState, OfdOf
<1>6. Ahead(p, n) \in Seq(Names)
  <2>1. CASE dirs[p][n] = NoStream
    BY <2>1, EmptySeq DEF Ahead
  <2>2. CASE dirs[p][n] # NoStream
    BY <1>1, <2>2 DEF StreamState, Names
  <2> QED BY <2>1, <2>2
<1>7. OfdOf(p, n).inorder => InOrder(p, n)
  BY <1>1 DEF StreamState
<1> QED BY <1>1, <1>2, <1>3, <1>4, <1>5, <1>6, <1>7

(* What a request takes of a directory.                                    *)
TakenIs(o, t, count) ==
    /\ t \in Reading
    /\ o.inorder =>
         /\ o.given <= Len(Entries)
         /\ Listed(t.buf, t.off, t.out, o.given, count)

(* What readdir takes of the stream of a descriptor, by what is read ahead.*)
LEMMA DirTaken ==
    ASSUME IInv, FileState, StreamState, NEW p \in Proc, NEW n, IsDir(p, n),
           NEW count \in Nat
    PROVE  TakenIs(OfdOf(p, n), Taken(Ahead(p, n), OfdOf(p, n).off, count), count)
<1> DEFINE o == OfdOf(p, n)
           buf == Ahead(p, n)
           off == o.off
           g == o.given
           t == Taken(buf, off, count)
<1>1. off \in Nat /\ g \in Nat /\ buf \in Seq(Names) /\ (o.inorder => InOrder(p, n))
  BY OpenDir
<1>2. o.inorder => g <= off /\ off <= Len(Entries) /\ buf = SubSeq(Entries, g + 1, off)
  BY <1>1 DEF InOrder
<1> HIDE DEF o, buf, off, g
<1>3. /\ t \in Reading
      /\ \A h \in Nat : h <= Len(Entries) /\ Listed(buf, off, <<>>, h, 0) =>
            Listed(t.buf, t.off, t.out, h, count)
  BY <1>1, TakenFacts
<1> HIDE DEF t
<1>4. ASSUME o.inorder PROVE g <= Len(Entries) /\ Listed(buf, off, <<>>, g, 0)
  <2> DEFINE L == Len(Entries)
  <2>1. g <= off /\ off <= L /\ buf = SubSeq(Entries, g + 1, off) /\ L \in Nat
    BY <1>2, <1>4, EntriesFacts
  <2>2. g <= L /\ Clip(0, L - g) = 0 /\ g + 0 = g
    <3>1. g <= off /\ off <= L /\ L \in Nat
      BY <2>1
    <3> HIDE DEF L
    <3> QED BY <1>1, <3>1 DEF Clip
  <2>3. SubSeq(Entries, g + 1, g) = <<>>
    BY <1>1
  <2> QED BY <2>1, <2>2, <2>3 DEF Listed
<1>5. o.inorder => Listed(t.buf, t.off, t.out, g, count) /\ g <= Len(Entries)
  BY <1>1, <1>3, <1>4
<1> QED BY <1>3, <1>5 DEF TakenIs, o, g, t, buf, off

(* io_readdir puts the names into the reply that come next.                *)
LEMMA ReaddirReplies ==
    ASSUME IInv, FileState, StreamState, NEW p \in Proc, NEW n \in Fd, NEW req \in Readdirs,
           io_readdir(p, n, req.area, req.ndirs)
    PROVE  ReaddirLists'
<1> DEFINE area == req.area
           want == req.ndirs
           o == OfdOf(p, n)
           t == Taken(Ahead(p, n), o.off, want)
           names == t.out
           got == Len(names)
           flat == FlattenSeq(area)
           head == <<"EOK", got>>
           reply == write(WithEntries(area, names), 0, head)
<1>1. IsDir(p, n) /\ last' = [op |-> "readdir", area |-> area, want |-> want,
                              given |-> o.given, inorder |-> o.inorder, reply |-> reply]
  BY DEF io_readdir
<1>2. IsArea(area) /\ want \in Nat
  BY RequestsAssumption
<1>3. TakenIs(o, t, want)
  BY <1>1, <1>2, DirTaken
<1>4. PICK S1 : area \in Seq(Seq(S1))
  BY <1>2, AreaTyped
<1> HIDE DEF area, want, o, t
<1>5. names \in Seq(Names)
  BY <1>3 DEF TakenIs, Reading
<1> DEFINE S == S1 \cup Names \cup Nat \cup {"unused", "EOK"}
<1>6. area \in Seq(Seq(S)) /\ names \in Seq(S)
  <2>1. S1 \subseteq S /\ Names \subseteq S
    OBVIOUS
  <2> HIDE DEF S, names
  <2> QED BY <1>4, <1>5, <2>1, SeqLarger
<1>7. "unused" \in S /\ "EOK" \in S /\ Nat \subseteq S
  OBVIOUS
<1> HIDE DEF S, names
<1>8. head \in Seq(S) /\ Len(head) = Hdr
  <2>1. got \in Nat
    BY <1>6
  <2>2. got \in S /\ "EOK" \in S
    BY <1>7, <2>1
  <2> QED BY <2>2 DEF Hdr
<1> DEFINE put == WithEntries(area, names)
           bytes == Listing(names)
<1>9. /\ put \in Seq(Seq(S)) /\ bytes \in Seq(S) /\ Len(bytes) = 2 * got
      /\ FlattenSeq(put) = Patched(flat, Hdr, 2 * got, bytes)
  BY <1>6, <1>7, WithEntriesFacts, ListingFacts
<1>10. flat \in Seq(S)
  BY <1>6, FlattenType
<1> HIDE DEF put, bytes, flat, head
<1>11. FlattenSeq(reply) = Patched(Patched(flat, Hdr, Len(bytes), bytes), 0, Hdr, head)
  <2>1. 0 \in Nat
    OBVIOUS
  <2>2. FlattenSeq(write(put, 0, head)) = Patched(FlattenSeq(put), 0, Len(head), head)
    BY <1>8, <1>9, <2>1, WriteFacts
  <2> QED BY <1>8, <1>9, <2>2 DEF put
<1> DEFINE all == head \o bytes
<1>12. FlattenSeq(reply) =
         Portion(all, 1, Len(flat)) \o SubSeq(flat, Len(all) + 1, Len(flat))
  <2> HIDE DEF reply
  <2>1. Patched(Patched(flat, Hdr, Len(bytes), bytes), 0, Hdr, head) =
          Portion(all, 1, Len(flat)) \o SubSeq(flat, Len(all) + 1, Len(flat))
    <3>1. all = head \o bytes /\ bytes \in Seq(S)
      BY <1>9
    <3> HIDE DEF all
    <3> QED BY <1>8, <1>10, <3>1, ListingForm, ZenonT(90)
  <2> QED BY <1>11, <2>1
<1> HIDE DEF reply, all
<1>13. ASSUME o.inorder
       PROVE  /\ got = Min({want, Len(Entries) - o.given})
              /\ bytes = FlattenSeq([k \in 1 .. got |-> <<"unused", Entries[o.given + k]>>])
  <2> DEFINE g == o.given
             L == Len(Entries)
             m == Clip(want, L - g)
  <2>1. g \in Nat /\ L \in Nat /\ Entries \in Seq(Names)
    BY <1>1, OpenDir, EntriesFacts DEF o
  <2>2. g <= L /\ g + m <= t.off /\ t.off <= L /\ names = SubSeq(Entries, g + 1, g + m)
    BY <1>3, <1>13 DEF TakenIs, Listed, names
  <2>3. t.off \in Nat
    BY <1>3 DEF TakenIs, Reading
  <2> HIDE DEF g, L
  <2>4. L - g \in Int /\ want \in Int /\ g <= L
    BY <1>2, <2>1, <2>2
  <2>5. m = Min({want, L - g})
    BY <2>4, MinOfTwo DEF Clip
  <2>6. m \in Nat /\ g + m \in Nat /\ g <= g + m /\ g + m <= L /\ (g + m) - g = m
    BY <1>2, <2>1, <2>4 DEF Clip
  <2> HIDE DEF m
  <2>7. Len(names) = m /\ names = [k \in 1 .. m |-> Entries[g + k]]
    <3>1. /\ Len(SubSeq(Entries, g + 1, g + m)) = (g + m) - g
          /\ SubSeq(Entries, g + 1, g + m) = [k \in 1 .. (g + m) - g |-> Entries[g + k]]
      BY <2>1, <2>6, PieceValue DEF L
    <3> QED BY <2>2, <2>6, <3>1
  <2>8. \A k \in 1 .. m : names[k] = Entries[g + k]
    BY <2>7
  <2>9. [k \in 1 .. Len(names) |-> Entry(names[k])] =
          [k \in 1 .. m |-> <<"unused", Entries[g + k]>>]
    BY <2>7, <2>8 DEF Entry
  <2>10. bytes = FlattenSeq([k \in 1 .. m |-> <<"unused", Entries[g + k]>>])
    BY <2>9 DEF bytes, Listing
  <2> QED BY <2>5, <2>7, <2>10 DEF g, L
<1>14. ASSUME last'.inorder PROVE
         LET f == FlattenSeq(last'.area)
             m == Min({last'.want, Len(Entries) - last'.given})
             a == <<"EOK", m>> \o FlattenSeq([k \in 1 .. m |->
                                     <<"unused", Entries[last'.given + k]>>])
         IN  FlattenSeq(last'.reply) = Portion(a, 1, Len(f)) \o SubSeq(f, Len(a) + 1, Len(f))
  <2>1. /\ last'.area = area /\ last'.want = want /\ last'.given = o.given
        /\ last'.inorder = o.inorder /\ last'.reply = reply
    BY <1>1
  <2>2. /\ got = Min({want, Len(Entries) - o.given})
        /\ bytes = FlattenSeq([k \in 1 .. got |-> <<"unused", Entries[o.given + k]>>])
    BY <1>13, <1>14, <2>1
  <2>3. all = <<"EOK", got>> \o FlattenSeq([k \in 1 .. got |->
                                   <<"unused", Entries[o.given + k]>>])
    BY <2>2 DEF all, head
  <2> HIDE DEF got
  <2> QED BY <1>12, <2>1, <2>2, <2>3 DEF flat
<1> QED BY <1>14 DEF ReaddirLists

-----------------------------------------------------------------------------
(* Every step keeps FileState and StreamState.                             *)

(* Steps that leave directories and their streams alone.                   *)
DirsKept ==
    /\ UNCHANGED <<fds, dirs>>
    /\ DOMAIN ofd' = DOMAIN ofd
    /\ \A k \in DOMAIN ofd : /\ ofd'[k].ino = ofd[k].ino
                             /\ ofd[k].ino = Dir => ofd'[k] = ofd[k]
    /\ \A p \in Proc : pc'[p] = Gone => pc[p] = Gone

(* A step like that leaves streams as they are.                            *)
LEMMA DirsKeptKeeps ==
    ASSUME IInv, StreamState, DirsKept
    PROVE  StreamState'
<1>1. /\ fds' = fds /\ dirs' = dirs /\ DOMAIN ofd' = DOMAIN ofd
      /\ \A k \in DOMAIN ofd : /\ ofd'[k].ino = ofd[k].ino
                               /\ ofd[k].ino = Dir => ofd'[k] = ofd[k]
      /\ \A p \in Proc : pc'[p] = Gone => pc[p] = Gone
  BY DEF DirsKept
<1>2. \A p \in Proc, n \in Fd : Ahead(p, n)' = Ahead(p, n)
  BY <1>1 DEF Ahead
<1>3. ASSUME NEW p \in Proc, NEW n \in Fd, IsDir(p, n)'
      PROVE  IsDir(p, n) /\ OfdOf(p, n)' = OfdOf(p, n)
  <2>1. fds[p][n] # NotOpen /\ ofd'[fds[p][n]].ino = Dir
    BY <1>1, <1>3 DEF IsDir, IsUsed, OfdOf
  <2>2. fds[p][n] \in DOMAIN ofd
    BY <2>1 DEF IInv, HandlesOK
  <2>3. ofd[fds[p][n]].ino = Dir /\ ofd'[fds[p][n]] = ofd[fds[p][n]]
    BY <1>1, <2>1, <2>2
  <2> QED BY <1>1, <2>1, <2>3 DEF IsDir, IsUsed, OfdOf
<1>4. ASSUME NEW p \in Proc, NEW n \in Fd, IsDir(p, n)', OfdOf(p, n)'.inorder
      PROVE  InOrder(p, n)'
  <2>1. InOrder(p, n) /\ OfdOf(p, n)' = OfdOf(p, n) /\ Ahead(p, n)' = Ahead(p, n)
    BY <1>2, <1>3, <1>4 DEF StreamState
  <2> QED BY <1>1, <2>1 DEF InOrder
<1>5. \A p \in Proc, n \in Fd : dirs'[p][n] # NoStream =>
          dirs'[p][n] = <<Ahead(p, n)'>> /\ Ahead(p, n)' \in Seq(Range(Entries))
  BY <1>1, <1>2 DEF StreamState
<1>6. \A k \in DOMAIN ofd' : ofd'[k].ino = Dir =>
          {"given", "inorder"} \subseteq DOMAIN ofd'[k] /\ ofd'[k].given \in Nat
  BY <1>1 DEF StreamState
<1>7. \A p \in Proc : pc'[p] = Gone => fds'[p] = Closed
  BY <1>1 DEF StreamState
<1>8. ASSUME NEW p \in Proc, NEW n \in Fd, dirs'[p][n] # NoStream
      PROVE  IsDir(p, n)'
  <2>1. IsDir(p, n)
    BY <1>1, <1>8 DEF StreamState
  <2>2. fds[p][n] \in DOMAIN ofd
    BY <2>1 DEF IsDir, IsUsed, IInv, HandlesOK
  <2> QED BY <1>1, <2>1, <2>2 DEF IsDir, IsUsed, OfdOf
<1> QED BY <1>1, <1>4, <1>5, <1>6, <1>7, <1>8 DEF StreamState

(* The description of a file changes.                                      *)
LEMMA FileDirsKept ==
    ASSUME IInv, StreamState, NEW p \in Proc, NEW n, OnlyOf(p, n),
           OfdOf(p, n).ino # Dir, UNCHANGED dirs,
           \A q \in Proc : pc'[q] = Gone => pc[q] = Gone
    PROVE  StreamState'
<1>1. DirsKept
  BY DEF OnlyOf, OfdOf, DirsKept
<1> QED BY <1>1, DirsKeptKeeps

(* io_read and io_write.                                                   *)
LEMMA ReadStreams ==
    ASSUME IInv, StreamState, NEW p \in Proc, NEW n \in Fd, NEW area, NEW nbytes,
           io_read(p, n, area, nbytes)
    PROVE  StreamState'
<1>1. OnlyOf(p, n) /\ UNCHANGED pc
  BY ReadTouches DEF Touched
<1>2. OfdOf(p, n).ino # Dir /\ UNCHANGED dirs
  BY DEF io_read, IsOpen
<1> QED BY <1>1, <1>2, FileDirsKept

(* io_write is to a file: no stream changes.                               *)
LEMMA WriteStreams ==
    ASSUME IInv, StreamState, NEW p \in Proc, NEW area, io_write(p, area)
    PROVE  StreamState'
<1> DEFINE n == read(area, 0, Hdr)[1]
<1>1. OnlyOf(p, n) /\ UNCHANGED pc
  BY WriteTouches DEF Touched
<1>2. OfdOf(p, n).ino # Dir /\ UNCHANGED dirs
  BY DEF io_write, IsOpen
<1> HIDE DEF n
<1> QED BY <1>1, <1>2, FileDirsKept

(* The host's lseek fails, or the new offset is a number.                  *)
LEMMA SeekRange ==
    ASSUME NEW o, NEW offset, NEW whence
    PROVE  Seek(o, offset, whence) = -1 \/ Seek(o, offset, whence) \in Nat
<1> DEFINE to == offset + CASE whence = "set" -> 0
                            [] whence = "cur" -> o.off
                            [] whence = "end" -> Len(data[o.ino])
<1>1. Seek(o, offset, whence) = IF to \in 0 .. MaxLen THEN to ELSE -1
  BY DEF Seek
<1>2. MaxLen \in Nat
  BY FilesAssumption
<1> HIDE DEF to
<1> QED BY <1>1, <1>2

(* io_lseek.                                                               *)
LEMMA LseekStreams ==
    ASSUME IInv, FileState, StreamState, NEW p \in Proc, NEW n \in Fd,
           NEW offset, NEW whence, io_lseek(p, n, offset, whence)
    PROVE  FileState' /\ StreamState'
<1> DEFINE to == Seek(OfdOf(p, n), offset, whence)
<1>1. OnlyOf(p, n) /\ UNCHANGED pc
  BY LseekTouches DEF Touched
<1>2. /\ OfdOf(p, n).ino # Dir /\ UNCHANGED <<data, dirs>>
      /\ ofd' = IF to < 0 THEN ofd ELSE [ofd EXCEPT ![fds[p][n]].off = to]
  BY DEF io_lseek, IsOpen
<1>3. StreamState'
  BY <1>1, <1>2, FileDirsKept
<1>4. to = -1 \/ to \in Nat
  BY SeekRange
<1> HIDE DEF to
<1>5. \A k \in DOMAIN ofd' : ofd'[k].off \in Nat
  <2>1. CASE to < 0
    BY <1>2, <2>1 DEF FileState
  <2>2. CASE ~ (to < 0)
    <3>1. to \in Nat
      BY <1>4, <2>2
    <3>2. \A k \in DOMAIN ofd : "off" \in DOMAIN ofd[k]
      BY DEF IInv, HandlesOK
    <3>3. \A k \in DOMAIN ofd : ofd'[k].off = IF k = fds[p][n] THEN to ELSE ofd[k].off
      BY <1>2, <2>2, <3>2
    <3> QED BY <1>1, <3>1, <3>3 DEF FileState, OnlyOf
  <2> QED BY <2>1, <2>2
<1>6. FileState'
  BY <1>1, <1>2, <1>5 DEF FileState
<1> QED BY <1>3, <1>6

(* io_fcntl_flags.                                                         *)
LEMMA FlagsStreams ==
    ASSUME IInv, FileState, StreamState, NEW p \in Proc, NEW n \in Fd, io_fcntl_flags(p, n)
    PROVE  FileState' /\ StreamState'
<1>1. OnlyOf(p, n) /\ UNCHANGED pc
  BY FlagsTouches DEF Touched
<1>2. PICK x : /\ OfdOf(p, n).ino # Dir /\ UNCHANGED <<data, dirs>>
               /\ ofd' = [ofd EXCEPT ![fds[p][n]].app = x]
  BY DEF io_fcntl_flags, IsOpen
<1>3. StreamState'
  BY <1>1, <1>2, FileDirsKept
<1>4. \A k \in DOMAIN ofd : "off" \in DOMAIN ofd[k]
  BY DEF IInv, HandlesOK
<1>5. \A k \in DOMAIN ofd : ofd'[k].off = ofd[k].off
  BY <1>2, <1>4
<1>6. FileState'
  BY <1>1, <1>2, <1>5 DEF FileState, OnlyOf
<1> QED BY <1>3, <1>6

(* Steps that change the place of p only.                                  *)
LEMMA PlaceStreams ==
    ASSUME IInv, FileState, StreamState, NEW p \in Proc, NEW r,
           UNCHANGED <<data, ofd, fds, dirs>>,
           \A q \in Proc : pc'[q] = pc[q] \/ (q = p /\ pc'[q] = r),
           r.at # "gone", r.at \in Truncating => r.prev \in Nat
    PROVE  FileState' /\ StreamState'
<1>1. r # Gone
  BY DEF Gone
<1>2. DirsKept
  BY <1>1 DEF DirsKept
<1>3. FileState'
  BY DEF FileState
<1> QED BY <1>2, <1>3, DirsKeptKeeps

(* io_lock, and the ends of a wait for a lock.                             *)
LEMMA LockStreams ==
    ASSUME IInv, FileState, StreamState, NEW p \in Proc, NEW n \in Fd, NEW type,
           NEW wait, io_lock(p, n, type, wait)
    PROVE  FileState' /\ StreamState'
<1> DEFINE r == [at |-> "lock", ino |-> OfdOf(p, n).ino, type |-> type]
<1>1. UNCHANGED <<data, ofd, fds, dirs>> /\ (UNCHANGED pc \/ pc' = [pc EXCEPT ![p] = r])
  BY DEF io_lock
<1>2. r.at = "lock"
  OBVIOUS
<1> HIDE DEF r
<1>3. \A q \in Proc : pc'[q] = pc[q] \/ (q = p /\ pc'[q] = r)
  BY <1>1 DEF IInv, TruncState
<1> QED BY <1>1, <1>2, <1>3, PlaceStreams DEF Truncating

(* The end of the wait for a lock.                                         *)
LEMMA LockEndStreams ==
    ASSUME IInv, FileState, StreamState, NEW p \in Proc, LockGranted(p) \/ LockInterrupted(p)
    PROVE  FileState' /\ StreamState'
<1>1. UNCHANGED <<data, ofd, fds, dirs>> /\ pc' = [pc EXCEPT ![p] = User]
  BY DEF LockGranted, LockInterrupted
<1>2. \A q \in Proc : pc'[q] = pc[q] \/ (q = p /\ pc'[q] = User)
  BY <1>1 DEF IInv, TruncState
<1> QED BY <1>1, <1>2, UserPlace, PlaceStreams DEF Truncating

(* fsys_trunc, step by step.                                               *)
LEMMA TruncStreams ==
    ASSUME IInv, FileState, StreamState, NEW p \in Proc, NEW n \in Fd,
           NEW offset, NEW whence, fsys_trunc(p, n, offset, whence)
    PROVE  FileState' /\ StreamState'
<1> DEFINE r == [at |-> "trunc_seek", n |-> n, prev |-> OfdOf(p, n).off,
                 offset |-> offset, whence |-> whence, alone |-> Alone(p, n)]
<1>1. IsOpen(p, n) /\ UNCHANGED <<data, ofd, fds, dirs>> /\ pc' = [pc EXCEPT ![p] = r]
  BY DEF fsys_trunc
<1>2. r.at = "trunc_seek" /\ r.prev \in Nat
  BY <1>1, OpenFile
<1> HIDE DEF r
<1>3. \A q \in Proc : pc'[q] = pc[q] \/ (q = p /\ pc'[q] = r)
  BY <1>1 DEF IInv, TruncState
<1> QED BY <1>1, <1>2, <1>3, PlaceStreams

(* One of the two seeks of fsys_trunc.                                     *)
LEMMA TruncMoves ==
    ASSUME IInv, FileState, StreamState, NEW p \in Proc, NEW n \in Fd,
           fds[p][n] # NotOpen, OfdOf(p, n).ino # Dir, NEW to \in Nat,
           ofd' = [ofd EXCEPT ![fds[p][n]].off = to], UNCHANGED <<data, fds, dirs>>,
           NEW r, pc' = [pc EXCEPT ![p] = r], r.at # "gone", r.prev \in Nat
    PROVE  FileState' /\ StreamState'
<1>1. OnlyOf(p, n)
  BY FieldSet DEF OnlyOf
<1>2. \A q \in Proc : pc'[q] = IF q = p THEN r ELSE pc[q]
  BY DEF IInv, TruncState
<1>3. r # Gone
  BY DEF Gone
<1>4. StreamState'
  BY <1>1, <1>2, <1>3, FileDirsKept
<1>5. \A k \in DOMAIN ofd : "off" \in DOMAIN ofd[k]
  BY DEF IInv, HandlesOK
<1>6. \A k \in DOMAIN ofd : ofd'[k].off = IF k = fds[p][n] THEN to ELSE ofd[k].off
  BY <1>5
<1>7. FileState'
  BY <1>1, <1>2, <1>6 DEF FileState, OnlyOf
<1> QED BY <1>4, <1>7

(* A guest in the middle of it.                                            *)
LEMMA TruncPlace ==
    ASSUME IInv, FileState, NEW p \in Proc, pc[p].at \in Truncating
    PROVE  /\ pc[p].n \in Fd /\ fds[p][pc[p].n] # NotOpen
           /\ OfdOf(p, pc[p].n).ino \in Ino /\ OfdOf(p, pc[p].n).ino # Dir
           /\ pc[p].prev \in Nat /\ {"at", "prev"} \subseteq DOMAIN pc[p]
           /\ pc[p].at # "trunc_seek" => pc[p].to \in Nat
<1>1. /\ pc[p].n \in Fd /\ fds[p][pc[p].n] # NotOpen
      /\ OfdOf(p, pc[p].n).ino \in Ino /\ {"at", "prev"} \subseteq DOMAIN pc[p]
      /\ pc[p].at # "trunc_seek" => pc[p].to \in 0 .. MaxLen
  BY DEF IInv, TruncState, TruncOK
<1>2. Dir \notin Ino /\ MaxLen \in Nat
  BY FilesAssumption
<1>3. pc[p].prev \in Nat
  BY DEF FileState
<1> QED BY <1>1, <1>2, <1>3

(* The seek to where the cut will be.                                      *)
LEMMA TruncSeekStreams ==
    ASSUME IInv, FileState, StreamState, NEW p \in Proc, TruncSeek(p)
    PROVE  FileState' /\ StreamState'
<1> DEFINE n == pc[p].n
           to == Seek(OfdOf(p, n), pc[p].offset, pc[p].whence)
           r == [at |-> "trunc_back", n |-> n, prev |-> pc[p].prev,
                 offset |-> pc[p].offset, whence |-> pc[p].whence,
                 alone |-> pc[p].alone, to |-> to]
<1>1. pc[p].at = "trunc_seek" /\ UNCHANGED <<data, fds, dirs>>
  BY DEF TruncSeek
<1>2. /\ n \in Fd /\ fds[p][n] # NotOpen /\ OfdOf(p, n).ino # Dir /\ pc[p].prev \in Nat
  BY <1>1, TruncPlace DEF Truncating
<1>3. CASE to = -1
  <2>1. UNCHANGED ofd /\ pc' = [pc EXCEPT ![p] = User]
    BY <1>3 DEF TruncSeek, TruncReply
  <2>2. \A q \in Proc : pc'[q] = pc[q] \/ (q = p /\ pc'[q] = User)
    BY <2>1 DEF IInv, TruncState
  <2> QED BY <1>1, <2>1, <2>2, UserPlace, PlaceStreams DEF Truncating
<1>4. CASE to # -1
  <2>1. ofd' = [ofd EXCEPT ![fds[p][n]].off = to] /\ pc' = [pc EXCEPT ![p] = r]
    BY <1>4 DEF TruncSeek
  <2>2. r.at = "trunc_back" /\ r.prev \in Nat
    BY <1>2
  <2>3. to \in Nat
    BY <1>4, SeekRange
  <2> HIDE DEF to, r, n
  <2> QED BY <1>1, <1>2, <2>1, <2>2, <2>3, TruncMoves
<1> QED BY <1>3, <1>4

(* The seek back.                                                          *)
LEMMA TruncBackStreams ==
    ASSUME IInv, FileState, StreamState, NEW p \in Proc, TruncBack(p)
    PROVE  FileState' /\ StreamState'
<1> DEFINE n == pc[p].n
           r == [pc[p] EXCEPT !.at = "trunc_cut"]
           to == pc[p].prev
<1>1. /\ pc[p].at = "trunc_back" /\ UNCHANGED <<data, fds, dirs>>
      /\ ofd' = [ofd EXCEPT ![fds[p][n]].off = to]
  BY DEF TruncBack
<1>2. /\ n \in Fd /\ fds[p][n] # NotOpen /\ OfdOf(p, n).ino # Dir /\ to \in Nat
      /\ {"at", "prev"} \subseteq DOMAIN pc[p]
  BY <1>1, TruncPlace DEF Truncating
<1>3. pc' = [pc EXCEPT ![p] = r]
  BY DEF TruncBack
<1>4. r.at = "trunc_cut" /\ r.prev \in Nat
  BY <1>2
<1> HIDE DEF n, r, to
<1> QED BY <1>1, <1>2, <1>3, <1>4, TruncMoves

(* ftruncate itself.                                                       *)
LEMMA TruncCutStreams ==
    ASSUME IInv, FileState, StreamState, NEW p \in Proc, TruncCut(p)
    PROVE  FileState' /\ StreamState'
<1> DEFINE n == pc[p].n
           i == OfdOf(p, n).ino
           to == pc[p].to
<1>1. /\ pc[p].at = "trunc_cut" /\ UNCHANGED <<ofd, fds, dirs>>
      /\ pc' = [pc EXCEPT ![p] = User]
      /\ data' = data \/ data' = [data EXCEPT ![i] = Cut(@, to)]
  BY DEF TruncCut, TruncReply
<1>2. i \in Ino /\ to \in Nat
  BY <1>1, TruncPlace DEF Truncating
<1>3. \A q \in Proc : pc'[q] = pc[q] \/ (q = p /\ pc'[q] = User)
  BY <1>1 DEF IInv, TruncState
<1>4. User # Gone
  BY DEF User, Gone
<1>5. StreamState'
  <2>1. DirsKept
    BY <1>1, <1>3, <1>4 DEF DirsKept
  <2> QED BY <2>1, DirsKeptKeeps
<1> HIDE DEF i, to
<1>6. IsTuple(Cut(data[i], to))
  <2> DEFINE c == Cut(data[i], to)
  <2>1. Len(c) = to /\ c = [k \in 1 .. to |-> c[k]]
    BY <1>2 DEF Cut
  <2> HIDE DEF c
  <2>2. IsTuple(c)
    BY <1>2, <2>1 DEF IsTuple
  <2> QED BY <2>2 DEF c
<1>7. \A j \in Ino : data'[j] = data[j] \/ (j = i /\ data'[j] = Cut(data[i], to))
  BY <1>1, <1>2 DEF IInv, TruncState
<1>8. \A j \in Ino : IsTuple(data'[j])
  BY <1>6, <1>7 DEF FileState
<1>9. \A q \in Proc : pc'[q].at \in Truncating => pc'[q].prev \in Nat
  BY <1>3, UserPlace DEF FileState, Truncating
<1>10. \A k \in DOMAIN ofd' : ofd'[k].off \in Nat
  BY <1>1 DEF FileState
<1> QED BY <1>5, <1>8, <1>9, <1>10 DEF FileState

(* What an open file description becomes when it is shared.                *)
SharedOr(o, d) == d = o \/ (o.ino = Dir /\ d = [o EXCEPT !.inorder = FALSE])

(* Descriptors go from one process to another, or away.  An FD that comes  *)
(* to a directory, comes to one that is not listed in order any more.      *)
Handed ==
    /\ DOMAIN dirs' = Proc
    /\ \A q \in Proc : DOMAIN dirs'[q] = Fd
    /\ \A q \in Proc, m \in Fd : dirs'[q][m] # NoStream =>
          /\ fds'[q][m] # NotOpen
          /\ \E r \in Proc : dirs'[q][m] = dirs[r][m] /\ fds'[q][m] = fds[r][m]
    /\ \A q \in Proc : pc'[q] = Gone => fds'[q] = Closed
    /\ \A q \in Proc : pc'[q] = pc[q] \/ pc'[q] = User \/ pc'[q] = Gone
    /\ UNCHANGED data
    /\ \A k \in DOMAIN ofd' : k \in DOMAIN ofd /\ SharedOr(ofd[k], ofd'[k])
    /\ \A q \in Proc, m \in Fd : LET k == fds'[q][m] IN
          k # NotOpen /\ ofd'[k].ino = Dir /\ ofd'[k].inorder =>
             k = fds[q][m] /\ ofd'[k] = ofd[k] /\ dirs'[q][m] = dirs[q][m]

(* That leaves the others in order.                                        *)
LEMMA HandedKeeps ==
    ASSUME IInv, IInv', FileState, StreamState, Handed
    PROVE  FileState' /\ StreamState'
<1>1. /\ DOMAIN dirs' = Proc
      /\ \A q \in Proc : DOMAIN dirs'[q] = Fd
      /\ \A q \in Proc, m \in Fd : dirs'[q][m] # NoStream =>
          /\ fds'[q][m] # NotOpen
          /\ \E r \in Proc : dirs'[q][m] = dirs[r][m] /\ fds'[q][m] = fds[r][m]
      /\ \A q \in Proc : pc'[q] = Gone => fds'[q] = Closed
      /\ \A q \in Proc : pc'[q] = pc[q] \/ pc'[q] = User \/ pc'[q] = Gone
      /\ UNCHANGED data
      /\ \A k \in DOMAIN ofd' : k \in DOMAIN ofd /\ SharedOr(ofd[k], ofd'[k])
  BY DEF Handed
<1>2. \A q \in Proc, m \in Fd : LET k == fds'[q][m] IN
          k # NotOpen /\ ofd'[k].ino = Dir /\ ofd'[k].inorder =>
             k = fds[q][m] /\ ofd'[k] = ofd[k] /\ dirs'[q][m] = dirs[q][m]
  BY DEF Handed
<1>3. ASSUME NEW k \in DOMAIN ofd'
      PROVE  /\ ofd'[k].off = ofd[k].off /\ ofd'[k].ino = ofd[k].ino
             /\ ofd'[k].ino = Dir => /\ {"given", "inorder"} \subseteq DOMAIN ofd'[k]
                                     /\ ofd'[k].given \in Nat
  <2>1. k \in DOMAIN ofd /\ {"ino", "off"} \subseteq DOMAIN ofd[k]
    BY <1>1 DEF IInv, HandlesOK
  <2>2. ofd[k].ino = Dir => {"given", "inorder"} \subseteq DOMAIN ofd[k] /\ ofd[k].given \in Nat
    BY <2>1 DEF StreamState
  <2>3. CASE ofd'[k] = ofd[k]
    BY <2>2, <2>3
  <2>4. CASE ofd[k].ino = Dir /\ ofd'[k] = [ofd[k] EXCEPT !.inorder = FALSE]
    BY <2>1, <2>2, <2>4
  <2> QED BY <1>1, <2>3, <2>4 DEF SharedOr
<1>4. FileState'
  <2>1. \A k \in DOMAIN ofd' : ofd'[k].off \in Nat
    BY <1>1, <1>3 DEF FileState
  <2>2. \A q \in Proc : pc'[q].at \in Truncating => pc'[q].prev \in Nat
    BY <1>1 DEF FileState, Truncating, User, Gone
  <2> QED BY <1>1, <2>1, <2>2 DEF FileState
<1>5. ASSUME NEW q \in Proc, NEW m \in Fd, IsDir(q, m)', OfdOf(q, m)'.inorder
      PROVE  InOrder(q, m)'
  <2> DEFINE k == fds'[q][m]
  <2>1. k # NotOpen /\ ofd'[k].ino = Dir /\ ofd'[k].inorder
    BY <1>5 DEF IsDir, IsUsed, OfdOf
  <2>2. k = fds[q][m] /\ ofd'[k] = ofd[k] /\ dirs'[q][m] = dirs[q][m]
    BY <1>2, <2>1
  <2>3. \A r \in Proc, j \in Fd : fds'[r][j] = k => fds[r][j] = k
    BY <1>2, <2>1
  <2>4. OfdOf(q, m)' = OfdOf(q, m) /\ Ahead(q, m)' = Ahead(q, m)
    BY <2>2 DEF OfdOf, Ahead
  <2>5. IsDir(q, m) /\ OfdOf(q, m).inorder
    BY <2>1, <2>2 DEF IsDir, IsUsed, OfdOf
  <2>6. InOrder(q, m)
    BY <2>5 DEF StreamState
  <2>7. \A r \in Proc, j \in Fd : fds'[r][j] = k => r = q /\ j = m
    BY <2>2, <2>3, <2>6 DEF InOrder
  <2> QED BY <2>4, <2>6, <2>7 DEF InOrder
<1>6. ASSUME NEW q \in Proc, NEW m \in Fd, dirs'[q][m] # NoStream
      PROVE  dirs'[q][m] = <<Ahead(q, m)'>> /\ Ahead(q, m)' \in Seq(Range(Entries))
  <2>1. PICK r \in Proc : dirs'[q][m] = dirs[r][m]
    BY <1>1, <1>6
  <2>2. dirs[r][m] = <<Ahead(r, m)>> /\ Ahead(r, m) \in Seq(Range(Entries))
    BY <1>6, <2>1 DEF StreamState
  <2>3. Ahead(q, m)' = Ahead(r, m)
    BY <1>6, <2>1 DEF Ahead
  <2> QED BY <2>1, <2>2, <2>3
<1>7. \A q \in Proc, m \in Fd : fds'[q][m] = NotOpen => dirs'[q][m] = NoStream
  BY <1>1
<1>8. ASSUME NEW q \in Proc, NEW m \in Fd, dirs'[q][m] # NoStream
      PROVE  IsDir(q, m)'
  <2> DEFINE k == fds'[q][m]
  <2>1. PICK r \in Proc : dirs'[q][m] = dirs[r][m] /\ k = fds[r][m]
    BY <1>1, <1>8
  <2>2. IsDir(r, m)
    BY <1>8, <2>1 DEF StreamState
  <2>3. ofd[k].ino = Dir
    BY <2>1, <2>2 DEF IsDir, OfdOf
  <2>4. k # NotOpen /\ k \in DOMAIN ofd'
    BY <1>1, <1>8 DEF IInv, HandlesOK
  <2>5. ofd'[k].ino = Dir
    BY <1>3, <2>3, <2>4
  <2> QED BY <2>4, <2>5 DEF IsDir, IsUsed, OfdOf
<1> QED BY <1>1, <1>3, <1>4, <1>5, <1>6, <1>7, <1>8 DEF StreamState

(* What is kept of the descriptions, when some are shared before.          *)
LEMMA KeptShared ==
    ASSUME IInv, NEW set, NEW f \in [Proc -> [Fd -> Nat]], ofd' = Kept(Shared(ofd, set), f)
    PROVE  \A k \in DOMAIN ofd' : k \in DOMAIN ofd /\ ofd'[k] = Shared(ofd, set)[k]
<1>1. DOMAIN Shared(ofd, set) = DOMAIN ofd
  BY DEF Shared
<1> QED BY <1>1, KeptDescriptions

(* Of a description that is still listed in order, nothing has changed.    *)
LEMMA SharedIs ==
    ASSUME StreamState, NEW set, NEW k \in DOMAIN ofd
    PROVE  /\ SharedOr(ofd[k], Shared(ofd, set)[k])
           /\ Shared(ofd, set)[k].ino = Dir /\ Shared(ofd, set)[k].inorder =>
                 k \notin set /\ Shared(ofd, set)[k] = ofd[k]
<1>1. Shared(ofd, set)[k] = IF k \in set /\ ofd[k].ino = Dir
                            THEN [ofd[k] EXCEPT !.inorder = FALSE] ELSE ofd[k]
  BY DEF Shared
<1>2. ofd[k].ino = Dir => "inorder" \in DOMAIN ofd[k]
  BY DEF StreamState
<1> QED BY <1>1, <1>2 DEF SharedOr

(* Descriptions that are left are as they were.                            *)
LEMMA KeptSame ==
    ASSUME NEW f \in [Proc -> [Fd -> Nat]], ofd' = Kept(ofd, f)
    PROVE  \A k \in DOMAIN ofd' : k \in DOMAIN ofd /\ ofd'[k] = ofd[k]
BY KeptDescriptions

(* io_close.                                                               *)
LEMMA CloseStreams ==
    ASSUME IInv, FileState, StreamState, NEW p \in Proc, NEW n \in Fd, io_close(p, n)
    PROVE  FileState' /\ StreamState'
<1>1. IInv'
  BY CloseKeeps
<1>2. /\ fds' = [fds EXCEPT ![p][n] = NotOpen] /\ dirs' = [dirs EXCEPT ![p][n] = NoStream]
      /\ ofd' = Kept(ofd, fds') /\ UNCHANGED <<data, pc>> /\ InUser(p)
  BY DEF io_close
<1>3. /\ fds \in [Proc -> [Fd -> Nat]] /\ fds' \in [Proc -> [Fd -> Nat]]
      /\ DOMAIN dirs = Proc /\ \A q \in Proc : DOMAIN dirs[q] = Fd
  BY <1>1 DEF IInv, HandlesOK, StreamState
<1>4. \A q \in Proc, m \in Fd :
         /\ fds'[q][m] = IF q = p /\ m = n THEN NotOpen ELSE fds[q][m]
         /\ dirs'[q][m] = IF q = p /\ m = n THEN NoStream ELSE dirs[q][m]
  BY <1>2, <1>3
<1>5. \A k \in DOMAIN ofd' : k \in DOMAIN ofd /\ ofd'[k] = ofd[k]
  <2>1. ofd' = Kept(ofd, fds')
    BY <1>2
  <2> QED BY <1>3, <2>1, KeptSame
<1>6. \A q \in Proc, m \in Fd : fds'[q][m] # NotOpen => fds'[q][m] \in DOMAIN ofd'
  BY <1>1 DEF IInv, HandlesOK
<1>7. \A q \in Proc : pc'[q] = Gone => fds'[q] = Closed
  <2>1. pc[p] # Gone
    BY <1>2 DEF InUser, Gone
  <2> QED BY <1>2, <1>3, <2>1 DEF StreamState
<1>8. DOMAIN dirs' = Proc /\ \A q \in Proc : DOMAIN dirs'[q] = Fd
  BY <1>2, <1>3
<1>9. \A q \in Proc, m \in Fd : dirs'[q][m] # NoStream =>
          /\ fds'[q][m] # NotOpen
          /\ \E r \in Proc : dirs'[q][m] = dirs[r][m] /\ fds'[q][m] = fds[r][m]
  BY <1>4 DEF StreamState
<1>10. \A q \in Proc, m \in Fd : LET k == fds'[q][m] IN
          k # NotOpen => k = fds[q][m] /\ ofd'[k] = ofd[k] /\ dirs'[q][m] = dirs[q][m]
  BY <1>4, <1>5, <1>6
<1>11. UNCHANGED <<data, pc>>
  BY <1>2
<1>12. Handed
  BY <1>5, <1>7, <1>8, <1>9, <1>10, <1>11 DEF Handed, SharedOr
<1> QED BY <1>1, <1>12, HandedKeeps

(* io_dup.                                                                 *)
LEMMA DupStreams ==
    ASSUME IInv, FileState, StreamState, NEW p \in Proc, NEW n \in Fd, NEW m \in Fd,
           io_dup(p, n, m)
    PROVE  FileState' /\ StreamState'
<1> DEFINE k0 == fds[p][n]
           set == {k0}
<1>1. IInv'
  BY DupKeeps
<1>2. /\ fds' = [fds EXCEPT ![p][m] = k0] /\ dirs' = [dirs EXCEPT ![p][m] = NoStream]
      /\ ofd' = Kept(Shared(ofd, set), fds') /\ UNCHANGED <<data, pc>> /\ InUser(p)
      /\ k0 # NotOpen
  BY DEF io_dup, IsUsed
<1>3. /\ fds \in [Proc -> [Fd -> Nat]] /\ fds' \in [Proc -> [Fd -> Nat]]
      /\ DOMAIN dirs = Proc /\ \A q \in Proc : DOMAIN dirs[q] = Fd
  BY <1>1 DEF IInv, HandlesOK, StreamState
<1>4. \A q \in Proc, j \in Fd :
         /\ fds'[q][j] = IF q = p /\ j = m THEN k0 ELSE fds[q][j]
         /\ dirs'[q][j] = IF q = p /\ j = m THEN NoStream ELSE dirs[q][j]
  BY <1>2, <1>3
<1>5. \A k \in DOMAIN ofd' : k \in DOMAIN ofd /\ ofd'[k] = Shared(ofd, set)[k]
  <2> HIDE DEF set
  <2> QED BY <1>2, <1>3, KeptShared
<1>6. \A q \in Proc, j \in Fd : fds'[q][j] # NotOpen => fds'[q][j] \in DOMAIN ofd'
  BY <1>1 DEF IInv, HandlesOK
<1>7. \A q \in Proc : pc'[q] = Gone => fds'[q] = Closed
  <2>1. pc[p] # Gone
    BY <1>2 DEF InUser, Gone
  <2> QED BY <1>2, <1>3, <2>1 DEF StreamState
<1>8. DOMAIN dirs' = Proc /\ \A q \in Proc : DOMAIN dirs'[q] = Fd
  BY <1>2, <1>3
<1>9. \A q \in Proc, j \in Fd : dirs'[q][j] # NoStream =>
          /\ fds'[q][j] # NotOpen
          /\ \E r \in Proc : dirs'[q][j] = dirs[r][j] /\ fds'[q][j] = fds[r][j]
  BY <1>4 DEF StreamState
<1>10. \A k \in DOMAIN ofd' :
          /\ SharedOr(ofd[k], ofd'[k])
          /\ ofd'[k].ino = Dir /\ ofd'[k].inorder => k \notin set /\ ofd'[k] = ofd[k]
  BY <1>5, SharedIs
<1>11. \A q \in Proc, j \in Fd : LET k == fds'[q][j] IN
          k # NotOpen /\ ofd'[k].ino = Dir /\ ofd'[k].inorder =>
             k = fds[q][j] /\ ofd'[k] = ofd[k] /\ dirs'[q][j] = dirs[q][j]
  BY <1>4, <1>6, <1>10
<1>12. UNCHANGED <<data, pc>>
  BY <1>2
<1>13. Handed
  BY <1>5, <1>7, <1>8, <1>9, <1>10, <1>11, <1>12 DEF Handed
<1> QED BY <1>1, <1>13, HandedKeeps

(* A new process, with descriptors of its parent's and streams for some.   *)
StreamsOf(p, c, f, d) ==
    /\ DOMAIN dirs' = Proc /\ \A q \in Proc : dirs'[q] = IF q = c THEN d ELSE dirs[q]
    /\ DOMAIN d = Fd
    /\ \A m \in Fd : d[m] # NoStream =>
          f[m] # NotOpen /\ d[m] = dirs[p][m] /\ f[m] = fds[p][m]

(* A new process gets descriptors of its parent, and streams with them.    *)
LEMMA JoinedStreams ==
    ASSUME IInv, IInv', FileState, StreamState, NEW p \in Proc, NEW c \in Proc, NEW f,
           Joined(p, c, f, Range(f)), NEW d, StreamsOf(p, c, f, d)
    PROVE  FileState' /\ StreamState'
<1>1. /\ fds' = [fds EXCEPT ![c] = f] /\ f \in [Fd -> Nat]
      /\ ofd' = Shared(ofd, Range(f)) /\ UNCHANGED data
      /\ pc' = [pc EXCEPT ![c] = User]
  BY DEF Joined
<1>2. /\ fds \in [Proc -> [Fd -> Nat]]
      /\ DOMAIN dirs = Proc /\ \A q \in Proc : DOMAIN dirs[q] = Fd
  BY DEF IInv, HandlesOK, StreamState
<1>3. /\ \A q \in Proc : fds'[q] = IF q = c THEN f ELSE fds[q]
      /\ \A q \in Proc : dirs'[q] = IF q = c THEN d ELSE dirs[q]
  BY <1>1, <1>2 DEF StreamsOf
<1>4. \A q \in Proc : pc'[q] = IF q = c THEN User ELSE pc[q]
  BY <1>1 DEF IInv, TruncState
<1>5. DOMAIN ofd' = DOMAIN ofd
  BY <1>1 DEF Shared
<1>6. \A k \in DOMAIN ofd' :
          /\ SharedOr(ofd[k], ofd'[k])
          /\ ofd'[k].ino = Dir /\ ofd'[k].inorder => k \notin Range(f) /\ ofd'[k] = ofd[k]
  BY <1>1, <1>5, SharedIs
<1>7. \A m \in Fd : f[m] \in Range(f)
  BY <1>1 DEF Range
<1>8. \A q \in Proc, m \in Fd : fds'[q][m] # NotOpen => fds'[q][m] \in DOMAIN ofd'
  BY DEF IInv, HandlesOK
<1>9. \A q \in Proc : pc'[q] = Gone => fds'[q] = Closed
  <2>1. User # Gone
    BY DEF User, Gone
  <2> QED BY <1>3, <1>4, <2>1 DEF StreamState
<1>10. DOMAIN dirs' = Proc /\ \A q \in Proc : DOMAIN dirs'[q] = Fd
  BY <1>2, <1>3 DEF StreamsOf
<1>11. \A q \in Proc, m \in Fd : dirs'[q][m] # NoStream =>
          /\ fds'[q][m] # NotOpen
          /\ \E r \in Proc : dirs'[q][m] = dirs[r][m] /\ fds'[q][m] = fds[r][m]
  BY <1>3 DEF StreamState, StreamsOf
<1>12. Handed
  BY <1>1, <1>3, <1>4, <1>5, <1>6, <1>7, <1>8, <1>9, <1>10, <1>11 DEF Handed
<1> QED BY <1>12, HandedKeeps

(* proc_fork.                                                              *)
LEMMA ForkStreams ==
    ASSUME IInv, FileState, StreamState, NEW p \in Proc, NEW c \in Proc, proc_fork(p, c)
    PROVE  FileState' /\ StreamState'
<1> DEFINE f == fds[p]
           d == dirs[p]
<1>1. IInv'
  BY ForkKeeps
<1>2. f \in [Fd -> Nat] /\ DOMAIN d = Fd
  BY DEF IInv, HandlesOK, StreamState
<1>3. Joined(p, c, f, Range(f)) /\ dirs' = [dirs EXCEPT ![c] = d]
  BY <1>2 DEF Joined, proc_fork, IInv, BudgetOK, None
<1>4. \A m \in Fd : d[m] # NoStream =>
         f[m] # NotOpen /\ d[m] = dirs[p][m] /\ f[m] = fds[p][m]
  BY DEF StreamState
<1>5. DOMAIN dirs' = Proc /\ \A q \in Proc : dirs'[q] = IF q = c THEN d ELSE dirs[q]
  BY <1>3 DEF StreamState
<1> HIDE DEF f, d
<1>6. StreamsOf(p, c, f, d)
  BY <1>2, <1>4, <1>5 DEF StreamsOf
<1> QED BY <1>1, <1>3, <1>6, JoinedStreams

(* proc_spawn: the child was not there and has no streams.                 *)
LEMMA SpawnStreams ==
    ASSUME IInv, FileState, StreamState, NEW p \in Proc, NEW c \in Proc, NEW s,
           proc_spawn(p, c, s)
    PROVE  FileState' /\ StreamState'
<1> DEFINE f == Inherited(p)
           d == dirs[c]
<1>1. IInv'
  BY SpawnKeeps
<1>2. f \in [Fd -> Nat] /\ \A m \in Fd : f[m] # NotOpen => f[m] = fds[p][m]
  BY DEF IInv, HandlesOK, Inherited, NotOpen
<1>3. BudgetOK'
  BY SpendKeeps DEF proc_spawn, IInv
<1>4. /\ fds' = [fds EXCEPT ![c] = f] /\ ofd' = Shared(ofd, Range(f))
      /\ InUser(p) /\ pc[c] = Gone /\ pc' = [pc EXCEPT ![c] = User]
      /\ UNCHANGED <<data, dirs, locks>>
  BY DEF proc_spawn
<1>5. last'.op # "trunc"
  BY DEF proc_spawn
<1>6. DOMAIN d = Fd /\ \A m \in Fd : d[m] = NoStream
  BY <1>4 DEF StreamState, Closed, NotOpen
<1>7. DOMAIN dirs' = Proc /\ \A q \in Proc : dirs'[q] = IF q = c THEN d ELSE dirs[q]
  BY <1>4 DEF StreamState
<1> HIDE DEF f, d
<1>8. Joined(p, c, f, Range(f))
  BY <1>2, <1>3, <1>4, <1>5 DEF Joined
<1>9. StreamsOf(p, c, f, d)
  BY <1>6, <1>7 DEF StreamsOf
<1> QED BY <1>1, <1>8, <1>9, JoinedStreams

(* exit.                                                                   *)
LEMMA ExitStreams ==
    ASSUME IInv, FileState, StreamState, NEW p \in Proc, exit(p)
    PROVE  FileState' /\ StreamState'
<1>1. IInv'
  BY ExitKeeps
<1>2. /\ fds' = [fds EXCEPT ![p] = Closed] /\ dirs' = [dirs EXCEPT ![p] = NoStreams]
      /\ ofd' = Kept(ofd, fds') /\ UNCHANGED data /\ pc' = [pc EXCEPT ![p] = Gone]
  BY DEF exit
<1>3. /\ fds \in [Proc -> [Fd -> Nat]] /\ fds' \in [Proc -> [Fd -> Nat]]
      /\ DOMAIN dirs = Proc /\ \A q \in Proc : DOMAIN dirs[q] = Fd
  BY <1>1 DEF IInv, HandlesOK, StreamState
<1>4. /\ \A q \in Proc : fds'[q] = IF q = p THEN Closed ELSE fds[q]
      /\ \A q \in Proc : dirs'[q] = IF q = p THEN NoStreams ELSE dirs[q]
  BY <1>2, <1>3
<1>5. \A q \in Proc : pc'[q] = IF q = p THEN Gone ELSE pc[q]
  BY <1>2 DEF IInv, TruncState
<1>6. \A k \in DOMAIN ofd' : k \in DOMAIN ofd /\ ofd'[k] = ofd[k]
  <2>1. ofd' = Kept(ofd, fds')
    BY <1>2
  <2> QED BY <1>3, <2>1, KeptSame
<1>7. \A q \in Proc, m \in Fd : fds'[q][m] # NotOpen => fds'[q][m] \in DOMAIN ofd'
  BY <1>1 DEF IInv, HandlesOK
<1>8. \A q \in Proc : pc'[q] = Gone => fds'[q] = Closed
  BY <1>4, <1>5 DEF StreamState
<1>9. \A m \in Fd : Closed[m] = NotOpen /\ NoStreams[m] = NoStream
  BY DEF Closed, NoStreams
<1>10. DOMAIN dirs' = Proc /\ \A q \in Proc : DOMAIN dirs'[q] = Fd
  BY <1>2, <1>3, <1>4 DEF NoStreams
<1>11. \A q \in Proc, m \in Fd : dirs'[q][m] # NoStream =>
          /\ fds'[q][m] # NotOpen
          /\ \E r \in Proc : dirs'[q][m] = dirs[r][m] /\ fds'[q][m] = fds[r][m]
  BY <1>4, <1>9 DEF StreamState
<1>12. \A q \in Proc, m \in Fd : LET k == fds'[q][m] IN
          k # NotOpen => k = fds[q][m] /\ ofd'[k] = ofd[k] /\ dirs'[q][m] = dirs[q][m]
  BY <1>4, <1>6, <1>7, <1>9
<1>13. UNCHANGED data /\ \A q \in Proc : pc'[q] = pc[q] \/ pc'[q] = Gone
  BY <1>2, <1>5
<1>14. Handed
  BY <1>6, <1>8, <1>10, <1>11, <1>12, <1>13 DEF Handed, SharedOr
<1> QED BY <1>1, <1>14, HandedKeeps

(* io_open: a description of its own, without a stream.                    *)
LEMMA OpenStreams ==
    ASSUME IInv, FileState, StreamState, NEW p \in Proc, NEW n \in Fd, NEW req,
           io_open(p, n, req)
    PROVE  FileState' /\ StreamState'
<1> DEFINE o == 1 + Max({0} \cup DOMAIN ofd)
           i == req.ino
           flags == map_file_flags_to_host(req.acc, req.app, req.trunc)
           d == Description(i, flags)
<1>1. o \in Nat \ {0} /\ o \notin DOMAIN ofd
  BY FreshNumber DEF IInv
<1>2. /\ d.off = 0 /\ d.ino = i
      /\ i = Dir => {"given", "inorder"} \subseteq DOMAIN d /\ d.given = 0
  BY DEF Description
<1>3. /\ ofd' = [k \in DOMAIN ofd \cup {o} |-> IF k = o THEN d ELSE ofd[k]]
      /\ fds' = [fds EXCEPT ![p][n] = o] /\ UNCHANGED <<pc, dirs>>
      /\ InUser(p) /\ ~ IsUsed(p, n)
      /\ data' = data \/ data' = [data EXCEPT ![i] = <<>>]
  BY DEF io_open
<1>4. fds[p][n] = NotOpen /\ fds \in [Proc -> [Fd -> Nat]]
  BY <1>3 DEF IsUsed, IInv, HandlesOK
<1> HIDE DEF o, d
<1>5. \A q \in Proc, m \in Fd : fds'[q][m] = IF q = p /\ m = n THEN o ELSE fds[q][m]
  BY <1>3, <1>4
<1>6. /\ DOMAIN ofd' = DOMAIN ofd \cup {o} /\ ofd'[o] = d
      /\ \A k \in DOMAIN ofd : ofd'[k] = ofd[k]
  BY <1>1, <1>3
<1>7. \A q \in Proc, m \in Fd : fds[q][m] # NotOpen => fds[q][m] \in DOMAIN ofd
  BY DEF IInv, HandlesOK
<1>8. FileState'
  <2>1. \A j \in Ino : data'[j] = data[j] \/ data'[j] = <<>>
    BY <1>3 DEF IInv, TruncState
  <2>2. IsTuple(<<>>)
    BY DEF IsTuple
  <2>3. \A k \in DOMAIN ofd' : ofd'[k].off \in Nat
    BY <1>2, <1>6 DEF FileState
  <2> QED BY <1>3, <2>1, <2>2, <2>3 DEF FileState
<1>9. \A q \in Proc, m \in Fd : Ahead(q, m)' = Ahead(q, m)
  BY <1>3 DEF Ahead
<1>10. o # NotOpen
  BY <1>1 DEF NotOpen
<1>11. ASSUME NEW q \in Proc, NEW m \in Fd, IsDir(q, m)', OfdOf(q, m)'.inorder
       PROVE  InOrder(q, m)'
  <2>1. CASE q = p /\ m = n
    <3>1. fds'[q][m] = o /\ OfdOf(q, m)' = d
      BY <1>5, <1>6, <2>1 DEF OfdOf
    <3>2. i = Dir /\ d.given = 0 /\ d.off = 0
      BY <1>2, <1>11, <3>1 DEF IsDir
    <3>3. Ahead(q, m)' = <<>>
      BY <1>4, <1>9, <2>1 DEF StreamState, Ahead
    <3>4. SubSeq(Entries, 0 + 1, 0) = <<>> /\ 0 <= Len(Entries)
      BY EntriesFacts
    <3>5. \A r \in Proc, j \in Fd : fds'[r][j] = o => r = p /\ j = n
      BY <1>1, <1>5, <1>7, <1>10
    <3> QED BY <2>1, <3>1, <3>2, <3>3, <3>4, <3>5 DEF InOrder
  <2>2. CASE ~ (q = p /\ m = n)
    <3> DEFINE k == fds[q][m]
    <3>1. fds'[q][m] = k /\ k # NotOpen
      BY <1>5, <1>11, <2>2 DEF IsDir, IsUsed
    <3>2. k \in DOMAIN ofd /\ ofd'[k] = ofd[k] /\ k # o
      BY <1>1, <1>6, <1>7, <3>1
    <3>3. OfdOf(q, m)' = OfdOf(q, m)
      BY <3>1, <3>2 DEF OfdOf
    <3>4. InOrder(q, m)
      BY <1>11, <3>1, <3>3 DEF IsDir, IsUsed, StreamState
    <3>5. \A r \in Proc, j \in Fd : fds'[r][j] = k => fds[r][j] = k
      BY <1>5, <3>2
    <3> QED BY <1>9, <3>1, <3>3, <3>4, <3>5 DEF InOrder
  <2> QED BY <2>1, <2>2
<1>12. \A q \in Proc, m \in Fd : dirs'[q][m] # NoStream =>
          dirs'[q][m] = <<Ahead(q, m)'>> /\ Ahead(q, m)' \in Seq(Range(Entries))
  BY <1>3, <1>9 DEF StreamState
<1>13. \A k \in DOMAIN ofd' : ofd'[k].ino = Dir =>
          {"given", "inorder"} \subseteq DOMAIN ofd'[k] /\ ofd'[k].given \in Nat
  BY <1>2, <1>6 DEF StreamState
<1>14. \A q \in Proc : pc'[q] = Gone => fds'[q] = Closed
  <2>1. pc[p] # Gone
    BY <1>3 DEF InUser, Gone
  <2> QED BY <1>3, <1>4, <2>1 DEF StreamState
<1>15. \A q \in Proc, m \in Fd : fds'[q][m] = NotOpen => dirs'[q][m] = NoStream
  BY <1>3, <1>5, <1>10 DEF StreamState
<1>16. DOMAIN dirs' = Proc /\ \A q \in Proc : DOMAIN dirs'[q] = Fd
  BY <1>3 DEF StreamState
<1>17. ASSUME NEW q \in Proc, NEW m \in Fd, dirs'[q][m] # NoStream
       PROVE  IsDir(q, m)'
  <2> DEFINE k == fds[q][m]
  <2>1. IsDir(q, m)
    BY <1>3, <1>17 DEF StreamState
  <2>2. k # NotOpen /\ ofd[k].ino = Dir
    BY <2>1 DEF IsDir, IsUsed, OfdOf
  <2>3. fds'[q][m] = k /\ ofd'[k] = ofd[k]
    BY <1>4, <1>5, <1>6, <1>7, <2>2
  <2> QED BY <2>2, <2>3 DEF IsDir, IsUsed, OfdOf
<1> QED BY <1>8, <1>11, <1>12, <1>13, <1>14, <1>15, <1>16, <1>17 DEF StreamState

(* A directory that is listed in order still is.                           *)
Advanced(d, e, buf) ==
    /\ e.off \in Nat /\ e.given \in Nat
    /\ e.inorder => /\ d.inorder
                    /\ e.given <= e.off /\ e.off <= Len(Entries)
                    /\ buf = SubSeq(Entries, e.given + 1, e.off)

(* Such a request, which leaves other directories alone.                   *)
LEMMA DirAdvances ==
    ASSUME IInv, FileState, StreamState, NEW p \in Proc, NEW n \in Fd, IsDir(p, n),
           OnlyOf(p, n), UNCHANGED <<data, pc>>, NEW buf \in Seq(Names),
           dirs' = [dirs EXCEPT ![p][n] = <<buf>>],
           Advanced(ofd[fds[p][n]], ofd'[fds[p][n]], buf)
    PROVE  FileState' /\ StreamState'
<1> DEFINE k0 == fds[p][n]
<1>1. /\ k0 # NotOpen /\ k0 \in DOMAIN ofd
      /\ {"ino", "off", "given", "inorder"} \subseteq DOMAIN ofd[k0]
  BY OpenDir DEF OfdOf
<1>2. /\ DOMAIN ofd' = DOMAIN ofd /\ UNCHANGED fds
      /\ \A k \in DOMAIN ofd : k # k0 => ofd'[k] = ofd[k]
      /\ \A k \in DOMAIN ofd : DOMAIN ofd'[k] = DOMAIN ofd[k] /\ ofd'[k].ino = ofd[k].ino
  BY DEF OnlyOf
<1>3. /\ DOMAIN dirs' = Proc /\ \A q \in Proc : DOMAIN dirs'[q] = Fd
      /\ \A q \in Proc, m \in Fd :
            dirs'[q][m] = IF q = p /\ m = n THEN <<buf>> ELSE dirs[q][m]
  BY DEF StreamState
<1>4. <<buf>> # NoStream /\ <<buf>>[1] = buf
  BY DEF NoStream
<1>5. Ahead(p, n)' = buf
  BY <1>3, <1>4 DEF Ahead
<1>6. \A q \in Proc, m \in Fd : ~ (q = p /\ m = n) => Ahead(q, m)' = Ahead(q, m)
  BY <1>3 DEF Ahead
<1>7. FileState'
  BY <1>1, <1>2 DEF FileState, Advanced
<1>8. ASSUME NEW q \in Proc, NEW m \in Fd, IsDir(q, m)', OfdOf(q, m)'.inorder
      PROVE  InOrder(q, m)'
  <2>1. IsDir(q, m) /\ fds[q][m] \in DOMAIN ofd
    <3>1. fds[q][m] # NotOpen /\ ofd'[fds[q][m]].ino = Dir
      BY <1>2, <1>8 DEF IsDir, IsUsed, OfdOf
    <3>2. fds[q][m] \in DOMAIN ofd
      BY <3>1 DEF IInv, HandlesOK
    <3> QED BY <1>2, <3>1, <3>2 DEF IsDir, IsUsed, OfdOf
  <2>2. CASE fds[q][m] = k0
    <3>1. ofd'[k0].inorder
      BY <1>2, <1>8, <2>2 DEF OfdOf
    <3>2. /\ ofd[k0].inorder
          /\ ofd'[k0].given <= ofd'[k0].off /\ ofd'[k0].off <= Len(Entries)
          /\ buf = SubSeq(Entries, ofd'[k0].given + 1, ofd'[k0].off)
      BY <3>1 DEF Advanced
    <3>3. InOrder(p, n)
      BY <3>2 DEF StreamState, OfdOf
    <3>4. q = p /\ m = n /\ \A r \in Proc, j \in Fd : fds[r][j] = k0 => r = p /\ j = n
      BY <2>2, <3>3 DEF InOrder
    <3>5. OfdOf(q, m)' = ofd'[k0] /\ Ahead(q, m)' = buf
      BY <1>2, <1>5, <2>2, <3>4 DEF OfdOf
    <3> QED BY <1>2, <3>2, <3>4, <3>5 DEF InOrder
  <2>3. CASE fds[q][m] # k0
    <3>1. OfdOf(q, m)' = OfdOf(q, m) /\ Ahead(q, m)' = Ahead(q, m)
      BY <1>2, <1>6, <2>1, <2>3 DEF OfdOf
    <3>2. InOrder(q, m)
      BY <1>8, <2>1, <3>1 DEF StreamState
    <3> QED BY <1>2, <3>1, <3>2 DEF InOrder
  <2> QED BY <2>2, <2>3
<1>9. ASSUME NEW q \in Proc, NEW m \in Fd, dirs'[q][m] # NoStream
      PROVE  dirs'[q][m] = <<Ahead(q, m)'>> /\ Ahead(q, m)' \in Seq(Range(Entries))
  BY <1>3, <1>5, <1>6, <1>9 DEF StreamState, Names
<1>10. \A k \in DOMAIN ofd' : ofd'[k].ino = Dir =>
          {"given", "inorder"} \subseteq DOMAIN ofd'[k] /\ ofd'[k].given \in Nat
  BY <1>1, <1>2 DEF StreamState, Advanced
<1>11. \A q \in Proc, m \in Fd : fds'[q][m] = NotOpen => dirs'[q][m] = NoStream
  BY <1>1, <1>2, <1>3 DEF StreamState
<1>12. \A q \in Proc : pc'[q] = Gone => fds'[q] = Closed
  BY <1>2 DEF StreamState
<1>13. ASSUME NEW q \in Proc, NEW m \in Fd, dirs'[q][m] # NoStream
       PROVE  IsDir(q, m)'
  <2>1. IsDir(q, m)
    BY <1>3, <1>13 DEF StreamState
  <2>2. fds[q][m] \in DOMAIN ofd
    BY <2>1 DEF IsDir, IsUsed, IInv, HandlesOK
  <2> QED BY <1>2, <2>1, <2>2 DEF IsDir, IsUsed, OfdOf
<1> QED BY <1>3, <1>7, <1>8, <1>9, <1>10, <1>11, <1>12, <1>13 DEF StreamState

(* io_rewinddir.                                                           *)
LEMMA RewinddirStreams ==
    ASSUME IInv, FileState, StreamState, NEW p \in Proc, NEW n \in Fd, io_rewinddir(p, n)
    PROVE  FileState' /\ StreamState'
<1> DEFINE k0 == fds[p][n]
<1>1. OnlyOf(p, n) /\ UNCHANGED <<data, pc>>
  BY RewinddirTouches DEF Touched, io_rewinddir
<1>2. /\ IsDir(p, n) /\ dirs' = [dirs EXCEPT ![p][n] = << <<>> >>]
      /\ ofd' = [ofd EXCEPT ![k0].off = 0, ![k0].given = 0]
  BY DEF io_rewinddir
<1>3. /\ k0 \in DOMAIN ofd /\ {"off", "given", "inorder"} \subseteq DOMAIN ofd[k0]
  BY <1>2, OpenDir DEF OfdOf
<1>4. ofd'[k0].off = 0 /\ ofd'[k0].given = 0 /\ ofd'[k0].inorder = ofd[k0].inorder
  BY <1>2, <1>3
<1>5. <<>> \in Seq(Names) /\ SubSeq(Entries, 0 + 1, 0) = <<>> /\ 0 <= Len(Entries)
  BY EntriesFacts, EmptySeq
<1>6. Advanced(ofd[k0], ofd'[k0], <<>>)
  BY <1>4, <1>5 DEF Advanced
<1> QED BY <1>1, <1>2, <1>5, <1>6, DirAdvances

(* io_readdir that fails.                                                  *)
LEMMA ReaddirFailsStreams ==
    ASSUME IInv, FileState, StreamState, NEW p \in Proc, NEW n \in Fd, NEW ndirs,
           io_readdir_fails(p, n, ndirs)
    PROVE  FileState' /\ StreamState'
<1> DEFINE k0 == fds[p][n]
<1>1. OnlyOf(p, n) /\ UNCHANGED <<data, pc>>
  BY ReaddirFailsTouches DEF Touched, io_readdir_fails
<1>2. /\ IsDir(p, n) /\ dirs' = [dirs EXCEPT ![p][n] = << <<>> >>]
      /\ ofd' = [ofd EXCEPT ![k0].inorder = @ /\ Ahead(p, n) = <<>>]
  BY DEF io_readdir_fails
<1>3. /\ k0 \in DOMAIN ofd /\ {"off", "given", "inorder"} \subseteq DOMAIN ofd[k0]
      /\ ofd[k0].off \in Nat /\ ofd[k0].given \in Nat
      /\ ofd[k0].inorder => InOrder(p, n)
  BY <1>2, OpenDir DEF OfdOf
<1>4. /\ ofd'[k0].off = ofd[k0].off /\ ofd'[k0].given = ofd[k0].given
      /\ ofd'[k0].inorder = (ofd[k0].inorder /\ Ahead(p, n) = <<>>)
  BY <1>2, <1>3
<1>5. <<>> \in Seq(Names)
  BY EmptySeq
<1>6. Advanced(ofd[k0], ofd'[k0], <<>>)
  <2>1. ASSUME ofd'[k0].inorder
        PROVE  /\ ofd[k0].inorder
               /\ ofd[k0].given <= ofd[k0].off /\ ofd[k0].off <= Len(Entries)
               /\ <<>> = SubSeq(Entries, ofd[k0].given + 1, ofd[k0].off)
    BY <1>3, <1>4, <2>1 DEF InOrder, OfdOf
  <2> QED BY <1>3, <1>4, <2>1 DEF Advanced
<1> QED BY <1>1, <1>2, <1>5, <1>6, DirAdvances

(* io_readdir.                                                             *)
LEMMA ReaddirStreams ==
    ASSUME IInv, FileState, StreamState, NEW p \in Proc, NEW n \in Fd, NEW req \in Readdirs,
           io_readdir(p, n, req.area, req.ndirs)
    PROVE  FileState' /\ StreamState'
<1> DEFINE k0 == fds[p][n]
           want == req.ndirs
           o == OfdOf(p, n)
           t == Taken(Ahead(p, n), o.off, want)
           got == Len(t.out)
<1>1. OnlyOf(p, n) /\ UNCHANGED <<data, pc>>
  BY ReaddirTouches DEF Touched, io_readdir
<1>2. /\ IsDir(p, n) /\ dirs' = [dirs EXCEPT ![p][n] = <<t.buf>>]
      /\ ofd' = [ofd EXCEPT ![k0].off = t.off, ![k0].given = @ + got]
  BY DEF io_readdir
<1>3. want \in Nat
  BY RequestsAssumption
<1>4. TakenIs(o, t, want)
  BY <1>2, <1>3, DirTaken
<1>5. o = ofd[k0]
  BY DEF OfdOf
<1>6. /\ k0 \in DOMAIN ofd /\ {"off", "given", "inorder"} \subseteq DOMAIN ofd[k0]
      /\ o.given \in Nat
  BY <1>2, OpenDir DEF OfdOf
<1> HIDE DEF t, want, o
<1>7. t.buf \in Seq(Names) /\ t.off \in Nat /\ t.out \in Seq(Names) /\ got \in Nat
  BY <1>4 DEF TakenIs, Reading
<1> DEFINE g == o.given
<1>8. ASSUME o.inorder
      PROVE  /\ g + got <= t.off /\ t.off <= Len(Entries)
             /\ t.buf = SubSeq(Entries, (g + got) + 1, t.off)
  <2> DEFINE L == Len(Entries)
             m == Clip(want, L - g)
  <2>1. L \in Nat /\ Entries \in Seq(Names)
    BY EntriesFacts
  <2>2. /\ g <= L /\ g + m <= t.off /\ t.off <= L /\ t.out = SubSeq(Entries, g + 1, g + m)
        /\ t.buf = SubSeq(Entries, g + m + 1, t.off)
    BY <1>4, <1>8 DEF TakenIs, Listed
  <2>3. g \in Nat
    BY <1>6
  <2>g. g <= L
    BY <2>2
  <2> HIDE DEF L, g
  <2>4. m \in Nat /\ g + m \in Nat /\ g <= g + m /\ g + m <= L /\ (g + m) - g = m
    BY <1>3, <2>1, <2>3, <2>g DEF Clip
  <2> HIDE DEF m
  <2>5. Len(SubSeq(Entries, g + 1, g + m)) = (g + m) - g
    BY <2>1, <2>3, <2>4, PieceValue DEF L
  <2>6. got = m
    BY <2>2, <2>4, <2>5
  <2> QED BY <2>2, <2>6 DEF L
<1> HIDE DEF got
<1>9. ofd'[k0].off = t.off /\ ofd'[k0].given = g + got /\ ofd'[k0].inorder = o.inorder
  BY <1>2, <1>5, <1>6
<1>10. Advanced(ofd[k0], ofd'[k0], t.buf)
  <2>1. g + got \in Nat
    BY <1>6, <1>7
  <2> QED BY <1>5, <1>7, <1>8, <1>9, <2>1 DEF Advanced
<1> QED BY <1>1, <1>2, <1>7, <1>10, DirAdvances

-----------------------------------------------------------------------------
(* The strings of a spawn message.                                         *)

(* Strings one after the other from byte 1 on, each with a NUL behind it:  *)
(* the k-th starts after byte st[k].                                       *)
StringsAt(S, bytes, strs, st) ==
    /\ bytes \in Seq(S) /\ strs \in Seq(Seq(S))
    /\ st \in [1 .. Len(strs) + 1 -> Nat] /\ st[1] = 0
    /\ \A k \in 1 .. Len(strs) :
          /\ st[k + 1] = (st[k] + Len(strs[k])) + 1
          /\ st[k + 1] <= Len(bytes) /\ bytes[st[k + 1]] = NUL
          /\ \A j \in 1 .. Len(strs[k]) :
                bytes[st[k] + j] = strs[k][j] /\ strs[k][j] # NUL

(* The k-th is found between two NULs.                                     *)
StringIs(bytes, strs, st, k) ==
    /\ Min({j \in st[k] + 1 .. Len(bytes) : bytes[j] = NUL}) = st[k + 1]
    /\ SubSeq(bytes, st[k] + 1, st[k + 1] - 1) = strs[k]

(* The NUL that ends a string is the first one behind its start.           *)
LEMMA StringEnds ==
    ASSUME NEW S, NEW bytes, NEW strs, NEW st, StringsAt(S, bytes, strs, st),
           NEW k \in 1 .. Len(strs)
    PROVE  StringIs(bytes, strs, st, k)
<1> DEFINE a == st[k]
           e == st[k + 1]
           l == Len(strs[k])
           top == Len(bytes)
           J == {j \in a + 1 .. top : bytes[j] = NUL}
<1>0. Len(strs) \in Nat /\ strs[k] \in Seq(S) /\ bytes \in Seq(S)
  BY DEF StringsAt
<1>1. l \in Nat /\ top \in Nat
  BY <1>0
<1>2. k \in 1 .. Len(strs) + 1 /\ k + 1 \in 1 .. Len(strs) + 1
  BY <1>0
<1>3. a \in Nat /\ e \in Nat
  BY <1>2 DEF StringsAt
<1>4. e = (a + l) + 1 /\ e <= top /\ bytes[e] = NUL
  BY DEF StringsAt
<1>5. \A j \in 1 .. l : bytes[a + j] = strs[k][j] /\ strs[k][j] # NUL
  BY DEF StringsAt
<1> HIDE DEF a, e, l, top
<1>6. e \in J
  BY <1>1, <1>3, <1>4
<1>7. ASSUME NEW j \in J PROVE e <= j
  <2> SUFFICES ASSUME j < e PROVE FALSE
    BY <1>1, <1>3
  <2>1. j - a \in 1 .. l /\ a + (j - a) = j
    BY <1>1, <1>3, <1>4
  <2>2. bytes[a + (j - a)] # NUL
    BY <1>5, <2>1
  <2> QED BY <2>1, <2>2
<1>8. J \in SUBSET Nat /\ J # {}
  BY <1>1, <1>3, <1>6
<1> HIDE DEF J
<1>9. Min(J) = e
  <2>1. Min(J) \in J /\ \A x \in J : Min(J) <= x
    BY <1>8, MinOfNats
  <2>2. e <= Min(J) /\ Min(J) <= e /\ Min(J) \in Nat
    BY <1>6, <1>7, <1>8, <2>1
  <2> QED BY <1>3, <2>2
<1> DEFINE u == SubSeq(bytes, a + 1, e - 1)
<1>10. u = strs[k]
  <2>1. e - 1 = a + l /\ a + l <= top
    BY <1>1, <1>3, <1>4
  <2>2. a + 1 \in 1 .. top + 1 /\ e - 1 \in (a + 1) - 1 .. top
    BY <1>1, <1>3, <2>1
  <2>3. u = [j \in 1 .. l |-> bytes[a + j]]
    <3>1. u = [j \in 1 .. (1 + (e - 1)) - (a + 1) |-> bytes[(j + (a + 1)) - 1]]
      BY <1>0, <1>1, <1>3, <2>1, <2>2 DEF top
    <3>2. (1 + (e - 1)) - (a + 1) = l /\ \A j \in 1 .. l : (j + (a + 1)) - 1 = a + j
      BY <1>1, <1>3, <2>1
    <3> HIDE DEF u
    <3> QED BY <3>1, <3>2
  <2>4. strs[k] = [j \in 1 .. l |-> strs[k][j]]
    BY <1>0 DEF l
  <2> HIDE DEF u
  <2> QED BY <1>5, <2>3, <2>4
<1> QED BY <1>3, <1>9, <1>10 DEF a, e, top, J, StringIs

(* read_string finds them all.                                             *)
LEMMA StringsFound ==
    ASSUME NEW S, NEW area, NEW strs, NEW st,
           StringsAt(S, Stream(area, Hdr, Len(FlattenSeq(area)) + Len(strs), NUL), strs, st)
    PROVE  ReadStrings(area, Len(strs)) = strs
<1> DEFINE n == Len(strs)
           bytes == Stream(area, Hdr, Len(FlattenSeq(area)) + n, NUL)
           End(e) == Min({j \in e + 1 .. Len(bytes) : bytes[j] = NUL})
           Walk(f) == f = [k \in 0 .. n |-> IF k = 0 THEN 0 ELSE End(f[k - 1])]
           ends == CHOOSE f : Walk(f)
           h == [k \in 0 .. n |-> st[k + 1]]
<1>a. StringsAt(S, bytes, strs, st)
  OBVIOUS
<1>3. ReadStrings(area, n) = [k \in 1 .. n |-> SubSeq(bytes, ends[k - 1] + 1, ends[k] - 1)]
  BY DEF ReadStrings
<1> HIDE DEF bytes
<1>e. \A k \in 1 .. n : StringIs(bytes, strs, st, k)
  BY <1>a, StringEnds
<1>b. \A k \in 1 .. n : End(st[k]) = st[k + 1]
  BY <1>e DEF StringIs
<1>c. \A k \in 1 .. n : SubSeq(bytes, st[k] + 1, st[k + 1] - 1) = strs[k]
  BY <1>e DEF StringIs
<1> HIDE DEF End
<1>0. n \in Nat /\ st[1] = 0 /\ strs \in Seq(Seq(S))
  BY <1>a DEF StringsAt
<1>1. Walk(h)
  <2>1. ASSUME NEW k \in 0 .. n
        PROVE  h[k] = IF k = 0 THEN 0 ELSE End(h[k - 1])
    <3>1. CASE k = 0
      BY <1>0, <3>1
    <3>2. CASE k # 0
      <4>1. k \in 1 .. n /\ k - 1 \in 0 .. n /\ (k - 1) + 1 = k
        BY <1>0, <3>2
      <4>2. h[k - 1] = st[k] /\ h[k] = st[k + 1]
        BY <4>1
      <4>3. End(st[k]) = st[k + 1]
        BY <1>b, <4>1
      <4> HIDE DEF h
      <4> QED BY <3>2, <4>2, <4>3
    <3> QED BY <3>1, <3>2
  <2> QED BY <2>1
<1>2. Walk(ends)
  BY <1>1, Zenon
<1> HIDE DEF ends, h
<1>4. \A k \in 0 .. n : ends[k] = IF k = 0 THEN 0 ELSE End(ends[k - 1])
  BY <1>2
<1> DEFINE N == {k \in Nat : k <= n => ends[k] = st[k + 1]}
<1>5. 0 \in N
  <2>1. ends[0] = 0 /\ 0 + 1 = 1
    BY <1>0, <1>4
  <2> QED BY <1>0, <2>1
<1>6. ASSUME NEW k \in Nat, k \in N PROVE k + 1 \in N
  <2> SUFFICES ASSUME k + 1 <= n PROVE ends[k + 1] = st[(k + 1) + 1]
    OBVIOUS
  <2>1. k + 1 \in 0 .. n /\ k + 1 # 0 /\ (k + 1) - 1 = k /\ k + 1 \in 1 .. n /\ k <= n
    BY <1>0
  <2>2. ends[k] = st[k + 1]
    BY <1>6, <2>1
  <2>3. End(st[k + 1]) = st[(k + 1) + 1]
    BY <1>b, <2>1
  <2> QED BY <1>4, <2>1, <2>2, <2>3
<1> HIDE DEF N
<1>7. \A k \in 0 .. n : ends[k] = st[k + 1]
  <2>1. Nat \subseteq N
    BY <1>5, <1>6, NatSetInduction
  <2> QED BY <1>0, <2>1 DEF N
<1>8. ASSUME NEW k \in 1 .. n
      PROVE  SubSeq(bytes, ends[k - 1] + 1, ends[k] - 1) = strs[k]
  <2>1. k - 1 \in 0 .. n /\ k \in 0 .. n /\ (k - 1) + 1 = k
    BY <1>0
  <2>2. ends[k - 1] = st[k] /\ ends[k] = st[k + 1]
    BY <1>7, <2>1
  <2>3. SubSeq(bytes, st[k] + 1, st[k + 1] - 1) = strs[k]
    BY <1>c
  <2> QED BY <2>2, <2>3
<1> DEFINE Str(k) == SubSeq(bytes, ends[k - 1] + 1, ends[k] - 1)
<1>9. strs = [k \in 1 .. n |-> strs[k]]
  BY <1>0
<1>10. \A k \in 1 .. n : Str(k) = strs[k]
  BY <1>8
<1>11. ReadStrings(area, n) = [k \in 1 .. n |-> Str(k)]
  BY <1>3
<1> HIDE DEF Str
<1>12. [k \in 1 .. n |-> Str(k)] = strs
  BY <1>9, <1>10
<1> QED BY <1>11, <1>12, Zenon

(* No string contains a NUL.                                               *)
NoNuls(strs) == \A k \in 1 .. Len(strs) : \A j \in 1 .. Len(strs[k]) : strs[k][j] # NUL

(* Bytes that start with all of some others.                               *)
StartsWith(bytes, t) == Len(t) <= Len(bytes) /\ \A m \in 1 .. Len(t) : bytes[m] = t[m]

(* The strings as they are terminated are one after the other.             *)
LEMMA TerminatedStrings ==
    ASSUME NEW S, NEW strs \in Seq(Seq(S)), NUL \in S, NoNuls(strs),
           NEW bytes \in Seq(S), StartsWith(bytes, Terminated(strs))
    PROVE  \E st : StringsAt(S, bytes, strs, st)
<1> DEFINE n == Len(strs)
           T == [k \in DOMAIN strs |-> Append(strs[k], NUL)]
           flat == FlattenSeq(T)
<1>1. n \in Nat /\ DOMAIN strs = 1 .. n /\ \A k \in 1 .. n : strs[k] \in Seq(S)
  OBVIOUS
<1>2. ASSUME NEW k \in 1 .. n
      PROVE  /\ Append(strs[k], NUL) \in Seq(S)
             /\ Len(Append(strs[k], NUL)) = Len(strs[k]) + 1 /\ Len(strs[k]) \in Nat
             /\ \A j \in 1 .. Len(strs[k]) : Append(strs[k], NUL)[j] = strs[k][j]
             /\ Append(strs[k], NUL)[Len(strs[k]) + 1] = NUL
  <2> DEFINE x == strs[k]
  <2>1. x \in Seq(S)
    BY <1>1
  <2> HIDE DEF x
  <2>2. /\ Append(x, NUL) \in Seq(S) /\ Len(Append(x, NUL)) = Len(x) + 1 /\ Len(x) \in Nat
        /\ \A j \in 1 .. Len(x) : Append(x, NUL)[j] = x[j]
        /\ Append(x, NUL)[Len(x) + 1] = NUL
    BY <2>1
  <2> QED BY <2>2 DEF x
<1>3. T \in [1 .. n -> Seq(S)]
  BY <1>1, <1>2
<1>4. T \in Seq(Seq(S)) /\ Len(T) = n
  <2> HIDE DEF T, n
  <2> QED BY <1>1, <1>3
<1>5. \A k \in 1 .. n : T[k] = Append(strs[k], NUL)
  BY <1>1
<1>6. Terminated(strs) = flat
  BY DEF Terminated
<1> HIDE DEF T
<1>7. PICK st : Layout(Chunks(T), st)
  BY <1>4, LayoutExists
<1>8. FlatIs(S, T, st)
  BY <1>4, <1>7, FlatBytes
<1>9. /\ flat \in Seq(S) /\ Len(flat) \in Nat
      /\ \A k \in 1 .. n : \A j \in 1 .. Len(T[k]) :
            st[k] + j \in 1 .. Len(flat) /\ flat[st[k] + j] = T[k][j]
  BY <1>4, <1>8 DEF FlatIs
<1>10. Len(flat) <= Len(bytes) /\ \A m \in 1 .. Len(flat) : bytes[m] = flat[m]
  BY <1>6 DEF StartsWith
<1>11. /\ Len(Chunks(T)) = n
       /\ \A k \in 1 .. n : Chunks(T)[k] = Len(strs[k]) + 1
  <2>1. Len(Chunks(T)) = Len(T) /\ \A k \in 1 .. Len(T) : Chunks(T)[k] = Len(T[k])
    BY <1>4, ChunksFacts
  <2> QED BY <1>2, <1>4, <1>5, <2>1
<1>12. /\ st \in [1 .. n + 1 -> Nat] /\ st[1] = 0
       /\ \A k \in 1 .. n : st[k + 1] = st[k] + (Len(strs[k]) + 1)
  BY <1>7, <1>11 DEF Layout
<1> HIDE DEF flat
<1>13. ASSUME NEW k \in 1 .. n
       PROVE  /\ st[k + 1] = (st[k] + Len(strs[k])) + 1
              /\ st[k + 1] <= Len(bytes) /\ bytes[st[k + 1]] = NUL
              /\ \A j \in 1 .. Len(strs[k]) :
                    bytes[st[k] + j] = strs[k][j] /\ strs[k][j] # NUL
  <2> DEFINE a == st[k]
             l == Len(strs[k])
             e == st[k + 1]
             top == Len(bytes)
  <2>1. a \in Nat /\ l \in Nat /\ e = a + (l + 1) /\ top \in Nat
    BY <1>1, <1>2, <1>12
  <2>2. /\ Len(T[k]) = l + 1 /\ T[k][l + 1] = NUL
        /\ \A j \in 1 .. l : T[k][j] = strs[k][j]
    BY <1>2, <1>5
  <2>3. \A j \in 1 .. l + 1 : a + j \in 1 .. Len(flat) /\ flat[a + j] = T[k][j]
    BY <1>9, <2>2
  <2>4. \A j \in 1 .. l : strs[k][j] # NUL
    BY DEF NoNuls
  <2> HIDE DEF a, l, e, top
  <2>5. \A j \in 1 .. l + 1 : a + j <= top /\ bytes[a + j] = T[k][j]
    <3>1. ASSUME NEW j \in 1 .. l + 1 PROVE a + j <= top /\ bytes[a + j] = T[k][j]
      <4> DEFINE m == a + j
      <4>1. m \in 1 .. Len(flat) /\ flat[m] = T[k][j]
        BY <2>3
      <4> HIDE DEF m
      <4>2. bytes[m] = T[k][j] /\ m <= top
        BY <1>9, <1>10, <2>1, <4>1 DEF top
      <4> QED BY <4>2 DEF m
    <3> QED BY <3>1
  <2>6. l + 1 \in 1 .. l + 1 /\ e = (a + l) + 1 /\ \A j \in 1 .. l : j \in 1 .. l + 1
    BY <2>1
  <2>7. e <= top /\ bytes[e] = NUL
    BY <2>1, <2>2, <2>5, <2>6
  <2>8. \A j \in 1 .. l : bytes[a + j] = strs[k][j]
    BY <2>2, <2>5, <2>6
  <2> QED BY <2>4, <2>6, <2>7, <2>8 DEF a, l, e, top
<1>14. StringsAt(S, bytes, strs, st)
  BY <1>12, <1>13 DEF StringsAt
<1> QED BY <1>14

(* What is handed out of a message behind its header.                      *)
LEMMA BehindHeader ==
    ASSUME NEW S, NEW t \in Seq(S), NEW flat \in Seq(S), NEW a \in S, NEW b \in S,
           flat = <<a, b>> \o t, NEW n \in Nat, n >= Len(t), NEW bytes,
           NEW c, StreamIs(S, flat, Hdr, n, c, bytes)
    PROVE  bytes \in Seq(S) /\ StartsWith(bytes, t)
<1> DEFINE h == <<a, b>>
<1>1. h \in Seq(S) /\ Len(h) = 2
  OBVIOUS
<1>2. flat = h \o t /\ Len(t) \in Nat
  OBVIOUS
<1> HIDE DEF h
<1>3. h \o t = [k \in 1 .. Len(h) + Len(t) |-> IF k <= Len(h) THEN h[k] ELSE t[k - Len(h)]]
  BY <1>1, ConcatValue
<1>4. Len(flat) = 2 + Len(t)
  BY <1>1, <1>2
<1>5. bytes \in Seq(S) /\ Len(bytes) = n
      /\ \A m \in 1 .. n : bytes[m] = ByteFrom(flat, Hdr, m, c)
  BY DEF StreamIs
<1>6. ASSUME NEW m \in 1 .. Len(t) PROVE bytes[m] = t[m]
  <2>1. m \in 1 .. n /\ 2 + m <= Len(flat) /\ 2 + m \in 1 .. 2 + Len(t)
        /\ ~ (2 + m <= 2) /\ (2 + m) - 2 = m
    BY <1>2, <1>4
  <2>2. bytes[m] = flat[2 + m]
    BY <1>5, <2>1 DEF ByteFrom, Hdr
  <2>3. flat[2 + m] = t[(2 + m) - 2]
    BY <1>1, <1>2, <1>3, <2>1
  <2> QED BY <2>1, <2>2, <2>3
<1> QED BY <1>5, <1>6 DEF StartsWith

(* The strings of a spawn message, in their order.                         *)
SpawnStrings(path, argv, envp) ==
    <<path>> \o argv \o << <<>> >> \o envp \o << <<>> >>

(* The path, the arguments and the environment are found in them.          *)
StringsSplit(path, argv, envp, strs) ==
    /\ strs[1] = path
    /\ SubSeq(strs, 2, Len(argv) + 1) = argv
    /\ SubSeq(strs, Len(argv) + 3, Len(argv) + 2 + Len(envp)) = envp

(* The strings of a spawn message, by where they are.                      *)
LEMMA SpawnSplits ==
    ASSUME NEW S, NEW path \in Seq(S), NEW argv \in Seq(Seq(S)), NEW envp \in Seq(Seq(S))
    PROVE  /\ SpawnStrings(path, argv, envp) \in Seq(Seq(S))
           /\ Len(SpawnStrings(path, argv, envp)) = Len(argv) + Len(envp) + 3
           /\ StringsSplit(path, argv, envp, SpawnStrings(path, argv, envp))
<1> DEFINE T == Seq(S)
           p == <<path>>
           z == << <<>> >>
           a == p \o argv
           b == a \o z
           c == b \o envp
           d == c \o z
           l == Len(argv)
           m == Len(envp)
<1>0. /\ p \in Seq(T) /\ Len(p) = 1 /\ p[1] = path
      /\ z \in Seq(T) /\ Len(z) = 1
      /\ argv \in Seq(T) /\ envp \in Seq(T) /\ l \in Nat /\ m \in Nat
  OBVIOUS
<1>1. SpawnStrings(path, argv, envp) = d
  BY DEF SpawnStrings
<1> HIDE DEF T, p, z, l, m
<1>2. a \in Seq(T) /\ Len(a) = 1 + l /\ a[1] = path
  <2>1. Joins(T, p, argv, a)
    BY <1>0, ConcatParts
  <2>2. 1 \in 1 .. Len(p)
    BY <1>0
  <2> HIDE DEF a
  <2> QED BY <1>0, <2>1, <2>2 DEF Joins, l
<1>3. SubSeq(a, 2, l + 1) = argv
  <2>1. SubSeq(a, Len(p) + 1, Len(p) + Len(argv)) = argv
    BY <1>0, BackOf
  <2>2. Len(p) + 1 = 2 /\ Len(p) + Len(argv) = l + 1
    BY <1>0 DEF l
  <2> QED BY <2>1, <2>2
<1> HIDE DEF a
<1>4. b \in Seq(T) /\ Len(b) = l + 2 /\ b[1] = path
  <2>1. Joins(T, a, z, b)
    BY <1>0, <1>2, ConcatParts
  <2>2. 1 \in 1 .. Len(a)
    BY <1>0, <1>2
  <2> HIDE DEF b
  <2> QED BY <1>0, <1>2, <2>1, <2>2 DEF Joins
<1>5. SubSeq(b, 2, l + 1) = SubSeq(a, 2, l + 1)
  <2>1. 2 \in Nat \ {0} /\ l + 1 \in Nat /\ 2 <= (l + 1) + 1 /\ l + 1 <= Len(a)
    BY <1>0, <1>2
  <2> QED BY <1>0, <1>2, <2>1, FrontOf
<1> HIDE DEF b
<1>6. c \in Seq(T) /\ Len(c) = (l + 2) + m /\ c[1] = path
  <2>1. Joins(T, b, envp, c)
    BY <1>0, <1>4, ConcatParts
  <2>2. 1 \in 1 .. Len(b)
    BY <1>0, <1>4
  <2> HIDE DEF c
  <2> QED BY <1>0, <1>4, <2>1, <2>2 DEF Joins, m
<1>7. SubSeq(c, 2, l + 1) = SubSeq(b, 2, l + 1)
  <2>1. 2 \in Nat \ {0} /\ l + 1 \in Nat /\ 2 <= (l + 1) + 1 /\ l + 1 <= Len(b)
    BY <1>0, <1>4
  <2> QED BY <1>0, <1>4, <2>1, FrontOf
<1>8. SubSeq(c, l + 3, l + 2 + m) = envp
  <2>1. SubSeq(c, Len(b) + 1, Len(b) + Len(envp)) = envp
    BY <1>0, <1>4, BackOf
  <2>2. Len(b) + 1 = l + 3 /\ Len(b) + Len(envp) = l + 2 + m
    BY <1>0, <1>4 DEF m
  <2> QED BY <2>1, <2>2
<1> HIDE DEF c
<1>9. d \in Seq(T) /\ Len(d) = (l + m) + 3 /\ d[1] = path
  <2>1. Joins(T, c, z, d)
    BY <1>0, <1>6, ConcatParts
  <2>2. 1 \in 1 .. Len(c)
    BY <1>0, <1>6
  <2> HIDE DEF d
  <2> QED BY <1>0, <1>6, <2>1, <2>2 DEF Joins
<1>10. SubSeq(d, 2, l + 1) = SubSeq(c, 2, l + 1)
  <2>1. 2 \in Nat \ {0} /\ l + 1 \in Nat /\ 2 <= (l + 1) + 1 /\ l + 1 <= Len(c)
    BY <1>0, <1>6
  <2> QED BY <1>0, <1>6, <2>1, FrontOf
<1>11. SubSeq(d, l + 3, l + 2 + m) = SubSeq(c, l + 3, l + 2 + m)
  <2>1. l + 3 \in Nat \ {0} /\ l + 2 + m \in Nat /\ l + 3 <= (l + 2 + m) + 1 /\ l + 2 + m <= Len(c)
    BY <1>0, <1>6
  <2> QED BY <1>0, <1>6, <2>1, FrontOf
<1> HIDE DEF d
<1>12. StringsSplit(path, argv, envp, d)
  BY <1>3, <1>5, <1>7, <1>8, <1>9, <1>10, <1>11 DEF StringsSplit, l, m
<1> QED BY <1>1, <1>9, <1>12 DEF T, l, m

(* A spawn request and the strings in its message.                         *)
LEMMA SpawnMessage ==
    ASSUME NEW s \in Spawns
    PROVE  \E S : /\ s.area \in Seq(Seq(S)) /\ NUL \in S /\ "spawn" \in S
                  /\ s.path \in Seq(S) /\ s.argv \in Seq(Seq(S)) /\ s.envp \in Seq(Seq(S))
<1>1. /\ IsArea(s.area) /\ IsString(s.path)
      /\ IsTuple(s.argv) /\ \A k \in DOMAIN s.argv : IsString(s.argv[k])
      /\ IsTuple(s.envp) /\ \A k \in DOMAIN s.envp : IsString(s.envp[k])
  BY RequestsAssumption
<1>2. IsArea(s.argv) /\ IsArea(s.envp) /\ IsTuple(s.path)
  BY <1>1 DEF IsArea, IsString
<1>3. PICK A : s.area \in Seq(Seq(A))
  BY <1>1, AreaTyped
<1>4. PICK B : s.argv \in Seq(Seq(B))
  BY <1>2, AreaTyped
<1>5. PICK C : s.envp \in Seq(Seq(C))
  BY <1>2, AreaTyped
<1>6. PICK D : s.path \in Seq(D)
  BY <1>2, TupleSeq
<1> DEFINE S == A \cup B \cup C \cup D \cup {NUL, "spawn"}
<1>7. A \subseteq S /\ B \subseteq S /\ C \subseteq S /\ D \subseteq S /\ NUL \in S /\ "spawn" \in S
  OBVIOUS
<1> HIDE DEF S
<1>8. /\ Seq(Seq(A)) \subseteq Seq(Seq(S)) /\ Seq(Seq(B)) \subseteq Seq(Seq(S))
      /\ Seq(Seq(C)) \subseteq Seq(Seq(S)) /\ Seq(D) \subseteq Seq(S)
  BY <1>7, SeqLarger
<1>9. /\ s.area \in Seq(Seq(S)) /\ s.path \in Seq(S)
      /\ s.argv \in Seq(Seq(S)) /\ s.envp \in Seq(Seq(S))
  BY <1>3, <1>4, <1>5, <1>6, <1>8
<1> QED BY <1>7, <1>9

(* The strings of a spawn message have no NUL but the ones at their ends.  *)
LEMMA SpawnNoNuls ==
    ASSUME NEW S, NEW path \in Seq(S), NEW argv \in Seq(Seq(S)), NEW envp \in Seq(Seq(S)),
           IsString(path), \A k \in DOMAIN argv : IsString(argv[k]),
           \A k \in DOMAIN envp : IsString(envp[k])
    PROVE  NoNuls(SpawnStrings(path, argv, envp))
<1> DEFINE T == {x \in Seq(S) : IsString(x)}
           p == <<path>>
           z == << <<>> >>
           d == SpawnStrings(path, argv, envp)
<1>1. p \in Seq(T)
  OBVIOUS
<1>2. z \in Seq(T)
  <2>1. <<>> \in Seq(S) /\ IsString(<<>>)
    BY DEF IsString, IsTuple
  <2> QED BY <2>1
<1>3. argv \in Seq(T) /\ envp \in Seq(T)
  <2>1. \A k \in 1 .. Len(argv) : argv[k] \in T
    OBVIOUS
  <2>2. \A k \in 1 .. Len(envp) : envp[k] \in T
    OBVIOUS
  <2> HIDE DEF T
  <2>3. ASSUME NEW q \in Seq(Seq(S)), \A k \in 1 .. Len(q) : q[k] \in T
        PROVE  q \in Seq(T)
    <3>1. Len(q) \in Nat /\ q = [k \in 1 .. Len(q) |-> q[k]]
      OBVIOUS
    <3>2. q \in [1 .. Len(q) -> T]
      BY <2>3, <3>1
    <3> QED BY <3>1, <3>2, FunctionSeq
  <2> QED BY <2>1, <2>2, <2>3
<1>4. d \in Seq(T)
  <2> HIDE DEF p, z, T
  <2>1. p \o argv \o z \o envp \o z \in Seq(T)
    BY <1>1, <1>2, <1>3
  <2>2. d = p \o argv \o z \o envp \o z
    BY DEF SpawnStrings, p, z
  <2> QED BY <2>1, <2>2
<1> HIDE DEF d
<1>5. \A k \in 1 .. Len(d) : d[k] \in Seq(S) /\ IsString(d[k])
  <2>1. \A k \in 1 .. Len(d) : d[k] \in T
    <3> HIDE DEF T
    <3> QED BY <1>4
  <2> QED BY <2>1
<1>6. \A x \in Seq(S) : IsString(x) => \A j \in 1 .. Len(x) : x[j] # NUL
  BY DEF IsString
<1>7. NoNuls(d)
  BY <1>5, <1>6 DEF NoNuls
<1> QED BY <1>7 DEF d

(* The strings that proc_spawn reads are those that the guest wrote.       *)
LEMMA SpawnReads ==
    ASSUME NEW s \in Spawns
    PROVE  StringsSplit(s.path, s.argv, s.envp,
                        ReadStrings(s.area, Len(s.argv) + Len(s.envp) + 3))
<1> DEFINE area == s.area
           path == s.path
           argv == s.argv
           envp == s.envp
           strs == SpawnStrings(path, argv, envp)
           flat == FlattenSeq(area)
           t == Terminated(strs)
<1>1. /\ IsString(path) /\ (\A k \in DOMAIN argv : IsString(argv[k]))
      /\ (\A k \in DOMAIN envp : IsString(envp[k]))
      /\ flat = <<"spawn", "spawn">> \o t
  BY RequestsAssumption DEF SpawnStrings
<1>2. PICK S : /\ area \in Seq(Seq(S)) /\ NUL \in S /\ "spawn" \in S
               /\ path \in Seq(S) /\ argv \in Seq(Seq(S)) /\ envp \in Seq(Seq(S))
  BY SpawnMessage
<1> HIDE DEF area, path, argv, envp
<1>3. /\ strs \in Seq(Seq(S)) /\ Len(strs) = Len(argv) + Len(envp) + 3
      /\ StringsSplit(path, argv, envp, strs)
  BY <1>2, SpawnSplits
<1>4. NoNuls(strs)
  BY <1>1, <1>2, SpawnNoNuls
<1> HIDE DEF strs
<1>5. t \in Seq(S)
  <2> DEFINE T == [k \in DOMAIN strs |-> Append(strs[k], NUL)]
  <2>1. T \in [1 .. Len(strs) -> Seq(S)] /\ Len(strs) \in Nat
    BY <1>2, <1>3
  <2>2. T \in Seq(Seq(S))
    <3> HIDE DEF T
    <3> QED BY <2>1
  <2>3. t = FlattenSeq(T)
    BY DEF Terminated
  <2> HIDE DEF T, t
  <2> QED BY <2>2, <2>3, FlattenType
<1>6. flat \in Seq(S)
  BY <1>2, FlattenType
<1> DEFINE n == Len(flat) + Len(strs)
           bytes == Stream(area, Hdr, n, NUL)
<1> HIDE DEF t, flat
<1>7. Len(flat) = 2 + Len(t) /\ Len(t) \in Nat /\ Len(flat) \in Nat
  BY <1>1, <1>2, <1>5, <1>6
<1>8. n \in Nat /\ n >= Len(t) /\ Hdr \in Nat /\ Hdr <= Len(flat)
  BY <1>3, <1>7 DEF Hdr
<1> HIDE DEF n
<1>9. StreamIs(S, flat, Hdr, n, NUL, bytes)
  BY <1>2, <1>8, StreamFacts DEF flat
<1> HIDE DEF bytes
<1>10. bytes \in Seq(S) /\ StartsWith(bytes, t)
  BY <1>1, <1>2, <1>5, <1>6, <1>8, <1>9, BehindHeader
<1>11. PICK st : StringsAt(S, bytes, strs, st)
  BY <1>2, <1>3, <1>4, <1>10, TerminatedStrings DEF t
<1>12. ReadStrings(area, Len(strs)) = strs
  <2>1. StringsAt(S, Stream(area, Hdr, Len(FlattenSeq(area)) + Len(strs), NUL), strs, st)
    BY <1>11 DEF bytes, n, flat
  <2> QED BY <2>1, StringsFound
<1>13. StringsSplit(path, argv, envp, ReadStrings(area, Len(argv) + Len(envp) + 3))
  BY <1>3, <1>12
<1> QED BY <1>13 DEF area, path, argv, envp

(* proc_spawn passes them on.                                              *)
LEMMA SpawnPasses ==
    ASSUME NEW p \in Proc, NEW c \in Proc, NEW s \in Spawns, proc_spawn(p, c, s)
    PROVE  SpawnArguments'
<1> DEFINE str == ReadStrings(s.area, Len(s.argv) + Len(s.envp) + 3)
<1>1. last' = [op |-> "spawn", req |-> s,
               path |-> str[1],
               argv |-> SubSeq(str, 2, Len(s.argv) + 1),
               envp |-> SubSeq(str, Len(s.argv) + 3, Len(s.argv) + 2 + Len(s.envp))]
  BY DEF proc_spawn
<1>2. StringsSplit(s.path, s.argv, s.envp, str)
  BY SpawnReads
<1> HIDE DEF str
<1>3. /\ str[1] = s.path /\ SubSeq(str, 2, Len(s.argv) + 1) = s.argv
      /\ SubSeq(str, Len(s.argv) + 3, Len(s.argv) + 2 + Len(s.envp)) = s.envp
  BY <1>2 DEF StringsSplit
<1>4. last' = [op |-> "spawn", req |-> s, path |-> s.path, argv |-> s.argv, envp |-> s.envp]
  BY <1>1, <1>3
<1> QED BY <1>4 DEF SpawnArguments

-----------------------------------------------------------------------------
(* The replies are what they should be.                                    *)
Replied == ReadDelivers /\ WriteStores /\ ReaddirLists /\ SpawnArguments

StateOK == FileState /\ StreamState /\ Replied

(* So they are as long as no other is given.                               *)
LEMMA NoReply ==
    ASSUME last'.op \notin {"read", "write", "readdir", "spawn"}
    PROVE  Replied'
<1>1. ReadDelivers'
  BY DEF ReadDelivers
<1>2. WriteStores'
  BY DEF WriteStores
<1>3. ReaddirLists'
  BY DEF ReaddirLists
<1>4. SpawnArguments'
  BY DEF SpawnArguments
<1> QED BY <1>1, <1>2, <1>3, <1>4 DEF Replied

(* The invariant holds in the beginning.                                   *)
LEMMA InitState == Init => StateOK
<1> SUFFICES ASSUME Init PROVE StateOK
  OBVIOUS
<1>1. DOMAIN ofd = {} /\ \A p \in Proc : pc[p] = User \/ pc[p] = Gone
  BY DEF Init
<1>2. FileState
  <2>1. IsTuple(<<>>)
    BY DEF IsTuple
  <2> QED BY <1>1, <2>1 DEF Init, FileState, Truncating, User, Gone
<1>3. \A p \in Proc : fds[p] = Closed /\ dirs[p] = NoStreams
  BY DEF Init
<1>4. \A p \in Proc, n \in Fd : fds[p][n] = NotOpen /\ dirs[p][n] = NoStream
  BY <1>3 DEF Closed, NoStreams
<1>5. \A p \in Proc, n \in Fd : ~ IsDir(p, n)
  BY <1>4 DEF IsDir, IsUsed
<1>6. DOMAIN dirs = Proc /\ \A p \in Proc : DOMAIN dirs[p] = Fd
  BY <1>3 DEF Init, NoStreams
<1>7. StreamState
  BY <1>1, <1>3, <1>4, <1>5, <1>6 DEF StreamState
<1>8. Replied
  BY DEF Init, None, Replied, ReadDelivers, WriteStores, ReaddirLists, SpawnArguments
<1> QED BY <1>2, <1>7, <1>8 DEF StateOK

(* Every step preserves it.                                                *)
LEMMA StepState == IInv /\ StateOK /\ [Next]_vars => StateOK'
<1> SUFFICES ASSUME IInv, FileState, StreamState, Replied, [Next]_vars PROVE StateOK'
  BY DEF StateOK
<1>0. None.op = "none"
  BY DEF None
<1>1. CASE UNCHANGED vars
  <2>1. FileState'
    BY <1>1 DEF vars, FileState
  <2>2. DirsKept
    BY <1>1 DEF vars, DirsKept
  <2>3. StreamState'
    BY <2>2, DirsKeptKeeps
  <2>4. last' = last
    BY <1>1 DEF vars
  <2>5. ReadDelivers'
    BY <2>4 DEF Replied, ReadDelivers
  <2>6. WriteStores'
    BY <2>4 DEF Replied, WriteStores
  <2>7. ReaddirLists'
    BY <2>4 DEF Replied, ReaddirLists
  <2>8. SpawnArguments'
    BY <2>4 DEF Replied, SpawnArguments
  <2> QED BY <2>1, <2>3, <2>5, <2>6, <2>7, <2>8 DEF StateOK, Replied
<1>2. CASE Next
  <2>1. PICK p \in Proc :
        \/ exit(p)
        \/ TruncSeek(p) \/ TruncBack(p) \/ TruncCut(p)
        \/ LockGranted(p) \/ LockInterrupted(p)
        \/ \E c \in Proc : proc_fork(p, c)
        \/ \E c \in Proc, s \in Spawns : proc_spawn(p, c, s)
        \/ \E area \in Sent : io_write(p, area)
        \/ \E n \in Fd :
              \/ io_close(p, n) \/ io_fcntl_flags(p, n)
              \/ \E m \in Fd : io_dup(p, n, m)
              \/ io_rewinddir(p, n)
              \/ \E req \in Readdirs :
                    \/ io_readdir(p, n, req.area, req.ndirs)
                    \/ io_readdir_fails(p, n, req.ndirs)
              \/ \E req \in Opens : io_open(p, n, req)
              \/ \E req \in Reads : io_read(p, n, req.area, req.nbytes)
              \/ \E offset \in Offsets, whence \in Whence :
                    \/ io_lseek(p, n, offset, whence)
                    \/ fsys_trunc(p, n, offset, whence)
              \/ \E type \in Lock, wait \in BOOLEAN : io_lock(p, n, type, wait)
    BY <1>2 DEF Next
  <2>2. CASE exit(p)
    <3>1. last' = None
      BY <2>2 DEF exit
    <3> QED BY <1>0, <2>2, <3>1, NoReply, ExitStreams DEF StateOK
  <2>3. CASE TruncSeek(p)
    <3>1. last' = None \/ last'.op = "trunc"
      BY <2>3 DEF TruncSeek, TruncReply
    <3> QED BY <1>0, <2>3, <3>1, NoReply, TruncSeekStreams DEF StateOK
  <2>4. CASE TruncBack(p)
    <3>1. last' = None
      BY <2>4 DEF TruncBack
    <3> QED BY <1>0, <2>4, <3>1, NoReply, TruncBackStreams DEF StateOK
  <2>5. CASE TruncCut(p)
    <3>1. last'.op = "trunc"
      BY <2>5 DEF TruncCut, TruncReply
    <3> QED BY <1>0, <2>5, <3>1, NoReply, TruncCutStreams DEF StateOK
  <2>6. CASE LockGranted(p) \/ LockInterrupted(p)
    <3>1. last' = None
      BY <2>6 DEF LockGranted, LockInterrupted
    <3> QED BY <1>0, <2>6, <3>1, NoReply, LockEndStreams DEF StateOK
  <2>7. ASSUME NEW c \in Proc, proc_fork(p, c) PROVE StateOK'
    <3>1. last' = None
      BY <2>7 DEF proc_fork
    <3> QED BY <1>0, <2>7, <3>1, NoReply, ForkStreams DEF StateOK
  <2>8. ASSUME NEW c \in Proc, NEW s \in Spawns, proc_spawn(p, c, s) PROVE StateOK'
    <3>1. last'.op = "spawn"
      BY <2>8 DEF proc_spawn
    <3>2. SpawnArguments' /\ FileState' /\ StreamState'
      BY <2>8, SpawnPasses, SpawnStreams
    <3>3. ReadDelivers' /\ WriteStores' /\ ReaddirLists'
      BY <3>1 DEF ReadDelivers, WriteStores, ReaddirLists
    <3> QED BY <3>2, <3>3 DEF StateOK, Replied
  <2>9. ASSUME NEW area \in Sent, io_write(p, area) PROVE StateOK'
    <3>1. last'.op = "write"
      BY <2>9 DEF io_write
    <3>2. WriteStores' /\ FileState' /\ StreamState'
      BY <2>9, WriteStep, WriteStreams
    <3>3. ReadDelivers' /\ ReaddirLists' /\ SpawnArguments'
      BY <3>1 DEF ReadDelivers, ReaddirLists, SpawnArguments
    <3> QED BY <3>2, <3>3 DEF StateOK, Replied
  <2>10. ASSUME NEW n \in Fd, io_close(p, n) PROVE StateOK'
    <3>1. last' = None
      BY <2>10 DEF io_close
    <3> QED BY <1>0, <2>10, <3>1, NoReply, CloseStreams DEF StateOK
  <2>11. ASSUME NEW n \in Fd, io_fcntl_flags(p, n) PROVE StateOK'
    <3>1. last' = None
      BY <2>11 DEF io_fcntl_flags
    <3> QED BY <1>0, <2>11, <3>1, NoReply, FlagsStreams DEF StateOK
  <2>12. ASSUME NEW n \in Fd, NEW m \in Fd, io_dup(p, n, m) PROVE StateOK'
    <3>1. last' = None
      BY <2>12 DEF io_dup
    <3> QED BY <1>0, <2>12, <3>1, NoReply, DupStreams DEF StateOK
  <2>13. ASSUME NEW n \in Fd, io_rewinddir(p, n) PROVE StateOK'
    <3>1. last' = None
      BY <2>13 DEF io_rewinddir
    <3> QED BY <1>0, <2>13, <3>1, NoReply, RewinddirStreams DEF StateOK
  <2>14. ASSUME NEW n \in Fd, NEW req \in Readdirs, io_readdir(p, n, req.area, req.ndirs)
         PROVE  StateOK'
    <3>1. last'.op = "readdir"
      BY <2>14 DEF io_readdir
    <3>2. ReaddirLists' /\ FileState' /\ StreamState'
      BY <2>14, ReaddirReplies, ReaddirStreams
    <3>3. ReadDelivers' /\ WriteStores' /\ SpawnArguments'
      BY <3>1 DEF ReadDelivers, WriteStores, SpawnArguments
    <3> QED BY <3>2, <3>3 DEF StateOK, Replied
  <2>15. ASSUME NEW n \in Fd, NEW req \in Readdirs, io_readdir_fails(p, n, req.ndirs)
         PROVE  StateOK'
    <3>1. last' = None
      BY <2>15 DEF io_readdir_fails
    <3> QED BY <1>0, <2>15, <3>1, NoReply, ReaddirFailsStreams DEF StateOK
  <2>16. ASSUME NEW n \in Fd, NEW req \in Opens, io_open(p, n, req) PROVE StateOK'
    <3>1. last' = None
      BY <2>16 DEF io_open
    <3> QED BY <1>0, <2>16, <3>1, NoReply, OpenStreams DEF StateOK
  <2>17. ASSUME NEW n \in Fd, NEW req \in Reads, io_read(p, n, req.area, req.nbytes)
         PROVE  StateOK'
    <3>1. last'.op = "read"
      BY <2>17 DEF io_read
    <3>2. ReadDelivers' /\ FileState' /\ StreamState'
      BY <2>17, ReadStep, ReadStreams
    <3>3. WriteStores' /\ ReaddirLists' /\ SpawnArguments'
      BY <3>1 DEF WriteStores, ReaddirLists, SpawnArguments
    <3> QED BY <3>2, <3>3 DEF StateOK, Replied
  <2>18. ASSUME NEW n \in Fd, NEW offset \in Offsets, NEW whence \in Whence,
                io_lseek(p, n, offset, whence)
         PROVE  StateOK'
    <3>1. last' = None
      BY <2>18 DEF io_lseek
    <3> QED BY <1>0, <2>18, <3>1, NoReply, LseekStreams DEF StateOK
  <2>19. ASSUME NEW n \in Fd, NEW offset \in Offsets, NEW whence \in Whence,
                fsys_trunc(p, n, offset, whence)
         PROVE  StateOK'
    <3>1. last' = None
      BY <2>19 DEF fsys_trunc
    <3> QED BY <1>0, <2>19, <3>1, NoReply, TruncStreams DEF StateOK
  <2>20. ASSUME NEW n \in Fd, NEW type \in Lock, NEW wait \in BOOLEAN,
                io_lock(p, n, type, wait)
         PROVE  StateOK'
    <3>1. last' = None
      BY <2>20 DEF io_lock
    <3> QED BY <1>0, <2>20, <3>1, NoReply, LockStreams DEF StateOK
  <2> QED BY <2>1, <2>2, <2>3, <2>4, <2>5, <2>6, <2>7, <2>8, <2>9, <2>10, <2>11,
             <2>12, <2>13, <2>14, <2>15, <2>16, <2>17, <2>18, <2>19, <2>20
<1> QED BY <1>1, <1>2

(* Files, offsets and streams are in order, and so is every reply.         *)
THEOREM StateInvariance == Spec => []StateOK
<1>1. Init => StateOK
  BY InitState
<1>2. IInv /\ StateOK /\ [Next]_vars => StateOK'
  BY StepState
<1> QED BY <1>1, <1>2, Invariance, PTL DEF Spec

(* io_read: whatever the parts of the reply and wherever the offset is,    *)
(* the guest finds the header and the file's next bytes, as many as it     *)
(* asked for, as there are and as there is room for, and nothing else of   *)
(* its memory has changed.                                                 *)
THEOREM ReadAlwaysDelivers == Spec => []ReadDelivers
<1>1. StateOK => ReadDelivers
  BY DEF StateOK, Replied
<1> QED BY <1>1, StateInvariance, PTL

(* io_write: whatever the parts of the message, the file holds its bytes   *)
(* in order from the offset on, garbage for those that are missing, and    *)
(* the rest as before.                                                     *)
THEOREM WriteAlwaysStores == Spec => []WriteStores
<1>1. StateOK => WriteStores
  BY DEF StateOK, Replied
<1> QED BY <1>1, StateInvariance, PTL

(* io_readdir: a guest that shares a directory with nobody lists it in     *)
(* order, each name once, whatever the host reads ahead, with requests of  *)
(* any size and after any rewind, and finds each name at its place.        *)
THEOREM ReaddirAlwaysLists == Spec => []ReaddirLists
<1>1. StateOK => ReaddirLists
  BY DEF StateOK, Replied
<1> QED BY <1>1, StateInvariance, PTL

(* A stream is always one of the directory that is open at its FD, and     *)
(* where its guest expects it to be, however many guests open, duplicate,  *)
(* close, fork, spawn, list, rewind and are killed in whatever order.      *)
THEOREM StreamsAlwaysCurrent == Spec => []StreamsCurrent
<1>1. StreamState => StreamsCurrent
  <2> SUFFICES ASSUME StreamState, NEW p \in Proc, NEW n \in Fd,
                      dirs[p][n] # NoStream
               PROVE  /\ IsDir(p, n)
                      /\ OfdOf(p, n).inorder =>
                            Ahead(p, n) = SubSeq(Entries, OfdOf(p, n).given + 1,
                                                 OfdOf(p, n).off)
    BY DEF StreamsCurrent
  <2>1. IsDir(p, n)
    BY DEF StreamState
  <2>2. OfdOf(p, n).inorder => InOrder(p, n)
    BY <2>1 DEF StreamState
  <2> QED BY <2>1, <2>2 DEF InOrder
<1>2. StateOK => StreamsCurrent
  BY <1>1 DEF StateOK
<1> QED BY <1>2, StateInvariance, PTL

(* proc_spawn: whatever the parts of its message, the path, the arguments  *)
(* and the environment to start a program with are those that the guest    *)
(* put there.                                                              *)
THEOREM SpawnAlwaysPasses == Spec => []SpawnArguments
<1>1. StateOK => SpawnArguments
  BY DEF StateOK, Replied
<1> QED BY <1>1, StateInvariance, PTL
=============================================================================
