--------------------------- MODULE SegmentsProofs ---------------------------
(***************************************************************************)
(* Proofs about Segments, for any page size, limits, headers and requests: *)
(* no entry of the host's table reaches past its segment, and the guest    *)
(* can use what it was told it has.                                        *)
(***************************************************************************)
EXTENDS Segments, Induction

(* What a segment is made of.                                              *)
SegmentSet == [paged : Nat, limit : Nat, reserved : Nat, shared : BOOLEAN,
               bitmap : Seq(BOOLEAN), flat : BOOLEAN, ok : BOOLEAN]

(* The pages of a segment: whole ones, within the reservation, with a bit  *)
(* each.                                                                   *)
PagesOK(s) ==
    /\ s \in SegmentSet
    /\ Len(s.bitmap) * Page = s.paged
    /\ s.paged <= s.reserved
    /\ s.reserved <= Mega1 * Page

(* A segment is not larger than its pages, and has no page it does not     *)
(* need: a limit of 64 KiB is one of as many bytes of pages.               *)
Well(s) == PagesOK(s) /\ s.ok /\ s.paged = PageUp(s.limit)

(* Descriptors and entries, when there are n segments.                     *)
SdSet(n) == [seg : 0 .. n, access : Access]
EntrySet(n) == [seg : 0 .. n, access : Access, limit : -1 .. Mega1 - 1,
                pages : BOOLEAN]

(* The tables, of segments, of descriptors and the host's, are tables of   *)
(* what they should be, and a descriptor in use has a segment.             *)
TablesOK(ss, sd, ld) ==
    /\ ss \in Seq(SegmentSet)
    /\ sd \in [Ids -> SdSet(Len(ss))]
    /\ ld \in [Ids -> EntrySet(Len(ss))]
    /\ \A i \in Ids : sd[i] # NoSd => sd[i].seg # 0

(* Descriptors share a segment only where that is flat, so that no other   *)
(* descriptor goes stale when a request grows the segment of one.          *)
Alone(ss, sd) ==
    \A i, j \in Ids :
        sd[i] # NoSd /\ sd[j] # NoSd /\ i # j /\ sd[i].seg = sd[j].seg =>
            ss[sd[i].seg].flat

Backed(ss, ld) ==
    \A i \in Ids : ld[i].seg # 0 /\ ld[i].limit >= 0 =>
        Reach(ld[i]) <= ss[ld[i].seg].paged

Installed(sd, ld) ==
    \A i \in Ids : sd[i] # NoSd =>
        ld[i].seg = sd[i].seg /\ ld[i].access = sd[i].access

UpToDate(ss, sd, ld) ==
    \A i \in Ids : sd[i] # NoSd /\ ~ss[sd[i].seg].flat =>
        ld[i] = update_descriptors(sd[i], ss[sd[i].seg])

Sound(ss, sd, ld) ==
    /\ TablesOK(ss, sd, ld)
    /\ \A k \in 1 .. Len(ss) : Well(ss[k])
    /\ Alone(ss, sd)
    /\ Backed(ss, ld)
    /\ Installed(sd, ld)
    /\ UpToDate(ss, sd, ld)

(* What a guest was told is what the segment has, and a free descriptor    *)
(* was never told of.                                                      *)
GrantedFits(ss, sd, gr) ==
    /\ gr \in [Ids -> Nat]
    /\ \A i \in Ids : gr[i] <= IF sd[i] # NoSd THEN ss[sd[i].seg].limit ELSE 0

(* What the loader has left for startup, and startup for the guest.        *)
InfoOK ==
    /\ info.ss \in Ids /\ info.ds \in Ids
    /\ {"data", "brk"} \subseteq DOMAIN info
    /\ info.heap_start \in Nat /\ info.b32 \in BOOLEAN
    /\ phase \in {"exec", "libs", "run", "ended"}
    /\ phase = "libs" => Live(info.ss)
    /\ phase \in {"libs", "run"} /\ info.ss = info.ds
       /\ (info.flat \/ info.stack_low + info.stack_size <= Kilo64) =>
            info.stack_low + info.stack_size <= info.heap_start
    /\ phase = "run" => info.data \in 1 .. Len(segs) /\ info.brk \in Nat
                        /\ info.brk <= segs[info.data].limit

IInv == Sound(segs, sds, ldt) /\ InfoOK /\ GrantedFits(segs, sds, granted)

-----------------------------------------------------------------------------
(* Pages.                                                                  *)

(* Division with remainder.                                                *)
LEMMA DivMod ==
    ASSUME NEW a \in Nat, NEW b \in Nat \ {0}
    PROVE  /\ a \div b \in Nat /\ a % b \in 0 .. b - 1
           /\ a = (a \div b) * b + (a % b)
OBVIOUS

(* There is one way to divide.                                             *)
LEMMA DivUnique ==
    ASSUME NEW b \in Nat \ {0}, NEW q \in Nat, NEW r \in 0 .. b - 1
    PROVE  (q * b + r) \div b = q /\ (q * b + r) % b = r
<1> DEFINE a == q * b + r
<1>1. a \in Nat
  OBVIOUS
<1>2. a \div b \in Nat /\ a % b \in 0 .. b - 1 /\ a = (a \div b) * b + (a % b)
  BY <1>1, DivMod
<1> DEFINE p == a \div b
           s == a % b
<1>3. p \in Nat /\ s \in 0 .. b - 1 /\ q * b + r = p * b + s
  BY <1>2
<1> HIDE DEF p, s
<1>4. p = q
  <2>1. CASE p < q
    <3>1. q >= p + 1 /\ q * b >= (p + 1) * b
      BY <1>3, <2>1
    <3>2. (p + 1) * b = p * b + b
      BY <1>3
    <3>3. p * b \in Nat /\ q * b \in Nat
      BY <1>3
    <3> QED BY <1>3, <3>1, <3>2, <3>3
  <2>2. CASE p > q
    <3>1. p >= q + 1 /\ p * b >= (q + 1) * b
      BY <1>3, <2>2
    <3>2. (q + 1) * b = q * b + b
      BY <1>3
    <3>3. p * b \in Nat /\ q * b \in Nat
      BY <1>3
    <3> QED BY <1>3, <3>1, <3>2, <3>3
  <2> QED BY <1>3, <2>1, <2>2
<1>5. s = r
  <2>1. q * b \in Nat
    OBVIOUS
  <2> QED BY <1>3, <1>4, <2>1
<1> QED BY <1>4, <1>5 DEF p, s

(* A whole number of pages.                                                *)
Whole(n) == n \in Nat /\ \E q \in Nat : n = q * Page

(* How many they are.                                                      *)
LEMMA WholeDiv ==
    ASSUME NEW n \in Nat
    PROVE  /\ Whole(n) <=> n % Page = 0
           /\ Whole(n) => n \div Page \in Nat /\ n = (n \div Page) * Page
           /\ \A q \in Nat : (q * Page) \div Page = q /\ Whole(q * Page)
<1>1. Page \in Nat \ {0}
  BY SegmentAssumption
<1>2. \A q \in Nat : q * Page \in Nat /\ (q * Page) \div Page = q /\ (q * Page) % Page = 0
  <2> TAKE q \in Nat
  <2>1. 0 \in 0 .. Page - 1
    BY <1>1
  <2>2. (q * Page + 0) \div Page = q /\ (q * Page + 0) % Page = 0
    BY <1>1, <2>1, DivUnique
  <2>3. q * Page \in Nat /\ q * Page + 0 = q * Page
    BY <1>1
  <2> QED BY <2>2, <2>3
<1>3. n \div Page \in Nat /\ n = (n \div Page) * Page + (n % Page)
  BY <1>1, DivMod
<1>4. n % Page = 0 => n = (n \div Page) * Page
  BY <1>1, <1>3
<1>5. Whole(n) => n % Page = 0
  BY <1>2 DEF Whole
<1>6. n % Page = 0 => Whole(n)
  BY <1>3, <1>4 DEF Whole
<1>7. \A q \in Nat : Whole(q * Page)
  BY <1>2 DEF Whole
<1> QED BY <1>2, <1>3, <1>4, <1>5, <1>6, <1>7

(* Sums and differences.                                                   *)
LEMMA WholeSum ==
    ASSUME NEW m, NEW n, Whole(m), Whole(n)
    PROVE  Whole(m + n) /\ (m <= n => Whole(n - m))
<1>1. Page \in Nat \ {0}
  BY SegmentAssumption
<1>2. PICK p \in Nat, q \in Nat : m = p * Page /\ n = q * Page
  BY DEF Whole
<1>3. m + n = (p + q) * Page /\ p + q \in Nat /\ m + n \in Nat
  BY <1>1, <1>2
<1>4. ASSUME m <= n PROVE Whole(n - m)
  <2>1. n - m = (q - p) * Page /\ n - m \in Nat
    BY <1>1, <1>2, <1>4
  <2>2. q - p \in Nat
    <3> SUFFICES ASSUME p > q PROVE FALSE
      BY <1>2
    <3>1. (p - q) * Page >= Page
      BY <1>1, <1>2
    <3>2. (p - q) * Page = p * Page - q * Page /\ p * Page \in Nat /\ q * Page \in Nat
      BY <1>1, <1>2
    <3> QED BY <1>1, <1>2, <1>4, <3>1, <3>2
  <2> QED BY <2>1, <2>2 DEF Whole
<1> QED BY <1>3, <1>4 DEF Whole

(* PageUp is the least whole number of pages that is enough.               *)
LEMMA PageUpFacts ==
    ASSUME NEW n \in Nat
    PROVE  /\ Whole(PageUp(n)) /\ n <= PageUp(n) /\ PageUp(n) < n + Page
           /\ \A m \in Nat : Whole(m) /\ n <= m => PageUp(n) <= m
           /\ Whole(n) => PageUp(n) = n
<1>1. Page \in Nat \ {0}
  BY SegmentAssumption
<1> DEFINE a == n + Page - 1
           q == a \div Page
           r == a % Page
<1>2. a \in Nat
  BY <1>1
<1>3. q \in Nat /\ r \in 0 .. Page - 1 /\ a = q * Page + r
  BY <1>1, <1>2, DivMod
<1>4. PageUp(n) = q * Page
  BY DEF PageUp, align_up
<1>5. n + Page - 1 = q * Page + r
  BY <1>3
<1> HIDE DEF a, q, r
<1>6. q * Page \in Nat
  BY <1>1, <1>3
<1>7. Whole(PageUp(n)) /\ n <= PageUp(n) /\ PageUp(n) < n + Page
  BY <1>1, <1>3, <1>4, <1>5, <1>6 DEF Whole
<1>8. ASSUME NEW m \in Nat, Whole(m), n <= m PROVE PageUp(n) <= m
  <2>1. PICK p \in Nat : m = p * Page
    BY <1>8 DEF Whole
  <2>2. q <= p
    <3> SUFFICES ASSUME q > p PROVE FALSE
      BY <1>3, <2>1
    <3>1. (q - p) * Page >= Page /\ (q - p) * Page = q * Page - p * Page
      BY <1>1, <1>3, <2>1
    <3>2. p * Page \in Nat
      BY <1>1, <2>1
    <3> QED BY <1>1, <1>4, <1>6, <1>7, <1>8, <2>1, <3>1, <3>2
  <2>3. q * Page <= p * Page
    BY <1>1, <1>3, <2>1, <2>2
  <2> QED BY <1>4, <2>1, <2>3
<1>9. Whole(n) => PageUp(n) = n
  <2> SUFFICES ASSUME Whole(n) PROVE PageUp(n) = n
    OBVIOUS
  <2>1. PageUp(n) <= n
    BY <1>8
  <2> QED BY <1>4, <1>6, <1>7, <2>1
<1> QED BY <1>7, <1>8, <1>9

-----------------------------------------------------------------------------
(* Segments.                                                               *)

(* A segment only ever grows.                                              *)
Grown(s, g) ==
    /\ s.paged <= g.paged /\ s.limit <= g.limit
    /\ g.flat = s.flat /\ g.shared = s.shared

(* A well-formed segment has the type the runs check.                      *)
LEMMA WellFacts ==
    ASSUME NEW s, Well(s)
    PROVE  /\ s \in SegmentSet /\ s.limit <= s.paged /\ Whole(s.paged)
           /\ s.paged <= Mega1 * Page
           /\ SegmentOK(s)
<1>1. s \in SegmentSet /\ s.ok /\ s.paged = PageUp(s.limit)
  BY DEF Well, PagesOK
<1>2. s.limit \in Nat /\ s.paged \in Nat /\ s.reserved \in Nat
  BY <1>1 DEF SegmentSet
<1>3. s.limit <= s.paged /\ Whole(s.paged)
  BY <1>1, <1>2, PageUpFacts
<1>4. s.paged <= s.reserved /\ s.reserved <= Mega1 * Page /\ Len(s.bitmap) * Page = s.paged
  BY DEF Well, PagesOK
<1>5. Mega1 * Page \in Nat
  BY SegmentAssumption
<1>6. SegmentOK(s)
  <2>1. s.shared \in BOOLEAN /\ s.flat \in BOOLEAN
    BY <1>1 DEF SegmentSet
  <2> QED BY <1>1, <1>2, <1>3, <1>4, <2>1 DEF SegmentOK
<1> QED BY <1>1, <1>2, <1>3, <1>4, <1>5, <1>6

(* A new segment is well-formed: it has nothing.                           *)
LEMMA NewWell ==
    ASSUME NEW r \in 0 .. Mega1 * Page
    PROVE  Well(NewSegment(r))
<1>1. Page \in Nat \ {0} /\ Mega1 \in Nat /\ Mega1 * Page \in Nat
  BY SegmentAssumption
<1>2. Whole(Mega1 * Page) /\ Whole(0)
  <2>1. 0 * Page = 0
    BY <1>1
  <2> QED BY <1>1, <2>1, WholeDiv
<1>3. PageUp(r) \in Nat /\ PageUp(r) <= Mega1 * Page
  <2> DEFINE top == Mega1 * Page
  <2>1. top \in Nat /\ Whole(top) /\ r \in Nat /\ r <= top
    BY <1>1, <1>2
  <2> HIDE DEF top
  <2>2. Whole(PageUp(r)) /\ PageUp(r) <= top
    BY <2>1, PageUpFacts
  <2> QED BY <2>2 DEF Whole, top
<1>4. PageUp(0) = 0
  BY <1>2, PageUpFacts
<1> DEFINE s == NewSegment(r)
<1>5. /\ s.paged = 0 /\ s.limit = 0 /\ s.reserved = PageUp(r) /\ s.ok
      /\ s.bitmap = <<>>
  BY DEF NewSegment
<1>6. s \in SegmentSet
  BY <1>3 DEF NewSegment, SegmentSet
<1>7. Len(<<>>) * Page = 0
  BY <1>1
<1> HIDE DEF s
<1>8. Well(s)
  BY <1>3, <1>4, <1>5, <1>6, <1>7 DEF Well, PagesOK
<1> QED BY <1>8 DEF s

(* What is not ok has its pages nevertheless.                              *)
LEMMA FailedPages ==
    ASSUME NEW s, PagesOK(s)
    PROVE  PagesOK([s EXCEPT !.ok = FALSE]) /\ ~[s EXCEPT !.ok = FALSE].ok
BY DEF PagesOK, SegmentSet

(* More pages, with the bits for them.                                     *)
LEMMA MorePages ==
    ASSUME NEW s, PagesOK(s), NEW n \in Nat, NEW valid \in BOOLEAN,
           n % Page = 0, n + s.paged <= s.reserved,
           NEW g, g = [s EXCEPT !.paged = @ + n, !.bitmap = @ \o Pages(n, valid)]
    PROVE  /\ PagesOK(g) /\ Grown(s, g)
           /\ g.paged = s.paged + n /\ g.limit = s.limit /\ g.ok = s.ok
<1>1. Page \in Nat \ {0}
  BY SegmentAssumption
<1>2. s \in SegmentSet /\ s.paged \in Nat /\ s.limit \in Nat /\ s.bitmap \in Seq(BOOLEAN)
  BY DEF PagesOK, SegmentSet
<1> DEFINE k == n \div Page
           new == Pages(n, valid)
<1>3. k \in Nat /\ n = k * Page
  BY WholeDiv
<1>4. new \in Seq(BOOLEAN) /\ Len(new) = k
  BY <1>3 DEF Pages
<1>5. g = [s EXCEPT !.paged = s.paged + n, !.bitmap = s.bitmap \o new]
  BY <1>2 DEF SegmentSet
<1> HIDE DEF k, new
<1>6. s.bitmap \o new \in Seq(BOOLEAN) /\ Len(s.bitmap \o new) = Len(s.bitmap) + k
  BY <1>2, <1>4, ConcatProperties
<1>7. /\ g \in SegmentSet /\ g.paged = s.paged + n /\ g.limit = s.limit
      /\ g.bitmap = s.bitmap \o new /\ g.reserved = s.reserved
      /\ g.flat = s.flat /\ g.shared = s.shared
  <2> DEFINE pgd == s.paged + n
             bits == s.bitmap \o new
  <2>1. pgd \in Nat /\ bits \in Seq(BOOLEAN)
    BY <1>2, <1>6
  <2>2. g = [s EXCEPT !.paged = pgd, !.bitmap = bits]
    BY <1>5
  <2> HIDE DEF pgd, bits
  <2>3. g \in SegmentSet
    BY <1>2, <2>1, <2>2 DEF SegmentSet
  <2>4. /\ g.paged = pgd /\ g.limit = s.limit
        /\ g.bitmap = bits /\ g.reserved = s.reserved
        /\ g.flat = s.flat /\ g.shared = s.shared
    BY <1>2, <2>2 DEF SegmentSet
  <2> QED BY <2>3, <2>4 DEF pgd, bits
<1>8. g.ok = s.ok
  BY <1>2, <1>5 DEF SegmentSet
<1>9. Len(g.bitmap) * Page = g.paged
  <2>1. Len(s.bitmap) \in Nat /\ Len(s.bitmap) * Page = s.paged
    BY <1>2 DEF PagesOK
  <2>2. (Len(s.bitmap) + k) * Page = Len(s.bitmap) * Page + k * Page
    BY <1>1, <1>3, <2>1
  <2> QED BY <1>3, <1>6, <1>7, <2>1, <2>2
<1>10. g.paged <= g.reserved /\ g.reserved <= Mega1 * Page
  BY <1>2, <1>7 DEF PagesOK
<1>11. PagesOK(g)
  BY <1>7, <1>9, <1>10 DEF PagesOK
<1>12. Grown(s, g)
  BY <1>2, <1>7 DEF Grown
<1> QED BY <1>7, <1>8, <1>11, <1>12

(* grow_paged_internal adds pages or fails.                                *)
LEMMA InternalGrows ==
    ASSUME NEW s, PagesOK(s), NEW n \in Nat, NEW g, g = grow_paged_internal(s, n)
    PROVE  /\ PagesOK(g)
           /\ g.ok => /\ s.ok /\ Whole(n) /\ Grown(s, g)
                      /\ g.paged = s.paged + n /\ g.limit = s.limit
<1>1. CASE n % Page # 0 \/ n = 0 \/ n + s.paged > s.reserved
  <2>1. g = [s EXCEPT !.ok = FALSE]
    BY <1>1 DEF grow_paged_internal
  <2> QED BY <2>1, FailedPages
<1>2. CASE ~(n % Page # 0 \/ n = 0 \/ n + s.paged > s.reserved)
  <2>1. g = [s EXCEPT !.paged = @ + n, !.bitmap = @ \o Pages(n, TRUE)]
    BY <1>2 DEF grow_paged_internal
  <2>2. n % Page = 0 /\ n + s.paged <= s.reserved
    BY <1>2 DEF PagesOK, SegmentSet
  <2>3. /\ PagesOK(g) /\ Grown(s, g)
        /\ g.paged = s.paged + n /\ g.limit = s.limit /\ g.ok = s.ok
    BY <2>1, <2>2, MorePages
  <2>4. Whole(n)
    BY <2>2, WholeDiv
  <2> QED BY <2>3, <2>4
<1> QED BY <1>1, <1>2

(* skip_paged, too.                                                        *)
LEMMA SkipGrows ==
    ASSUME NEW s, PagesOK(s), NEW n \in Nat, NEW g, g = skip_paged(s, n)
    PROVE  /\ PagesOK(g)
           /\ g.ok => /\ s.ok /\ Whole(n) /\ Grown(s, g)
                      /\ g.paged = s.paged + n /\ g.limit = s.limit
<1>1. CASE n % Page # 0 \/ n + s.paged > s.reserved
  <2>1. g = [s EXCEPT !.ok = FALSE]
    BY <1>1 DEF skip_paged
  <2> QED BY <2>1, FailedPages
<1>2. CASE ~(n % Page # 0 \/ n + s.paged > s.reserved)
  <2>1. g = [s EXCEPT !.paged = @ + n, !.bitmap = @ \o Pages(n, FALSE)]
    BY <1>2 DEF skip_paged
  <2>2. n % Page = 0 /\ n + s.paged <= s.reserved
    BY <1>2 DEF PagesOK, SegmentSet
  <2>3. /\ PagesOK(g) /\ Grown(s, g)
        /\ g.paged = s.paged + n /\ g.limit = s.limit /\ g.ok = s.ok
    BY <2>1, <2>2, MorePages
  <2>4. Whole(n)
    BY <2>2, WholeDiv
  <2> QED BY <2>3, <2>4
<1> QED BY <1>1, <1>2

(* Another limit does not touch the pages.                                 *)
LEMMA LimitSet ==
    ASSUME NEW s, PagesOK(s), NEW n \in Nat, NEW g, g = [s EXCEPT !.limit = n]
    PROVE  /\ PagesOK(g) /\ g.limit = n /\ g.paged = s.paged /\ g.ok = s.ok
           /\ g.flat = s.flat /\ g.shared = s.shared
<1>1. /\ g \in SegmentSet /\ g.limit = n /\ g.paged = s.paged
      /\ g.flat = s.flat /\ g.shared = s.shared /\ g.reserved = s.reserved
      /\ g.bitmap = s.bitmap
  BY DEF PagesOK, SegmentSet
<1>2. g.ok = s.ok
  BY DEF PagesOK, SegmentSet
<1> QED BY <1>1, <1>2 DEF PagesOK

(* grow_paged: the limit is where the pages end.                           *)
LEMMA PagedGrows ==
    ASSUME NEW s, PagesOK(s), NEW n \in Nat, NEW g, g = grow_paged(s, n)
    PROVE  /\ PagesOK(g) /\ g.limit = g.paged
           /\ g.ok => /\ s.ok /\ Whole(n) /\ g.flat = s.flat
                      /\ g.paged = s.paged + n
<1> DEFINE i == grow_paged_internal(s, n)
<1>1. /\ PagesOK(i)
      /\ i.ok => /\ s.ok /\ Whole(n) /\ Grown(s, i)
                 /\ i.paged = s.paged + n /\ i.limit = s.limit
  BY InternalGrows
<1>2. g = [i EXCEPT !.limit = i.paged]
  BY DEF grow_paged
<1> HIDE DEF i
<1>3. i.paged \in Nat
  BY <1>1 DEF PagesOK, SegmentSet
<1>4. /\ PagesOK(g) /\ g.limit = i.paged /\ g.paged = i.paged /\ g.ok = i.ok
      /\ g.flat = i.flat /\ g.shared = i.shared
  BY <1>1, <1>2, <1>3, LimitSet
<1> QED BY <1>1, <1>4 DEF Grown

(* grow_bytes keeps a segment well-formed: as many pages as it needs.      *)
LEMMA BytesGrow ==
    ASSUME NEW s, PagesOK(s), s.ok => Well(s), NEW n \in Nat, NEW g, g = grow_bytes(s, n)
    PROVE  /\ PagesOK(g)
           /\ g.ok => s.ok /\ Well(g) /\ Grown(s, g) /\ g.limit = s.limit + n
<1>1. s.limit \in Nat /\ s.paged \in Nat /\ s.reserved \in Nat
  BY DEF PagesOK, SegmentSet
<1>2. CASE n + s.limit > s.reserved
  <2>1. g = [s EXCEPT !.ok = FALSE]
    BY <1>2 DEF grow_bytes
  <2> QED BY <2>1, FailedPages
<1>3. CASE ~(n + s.limit > s.reserved)
  <2> DEFINE need == n + s.limit
             i == IF need > s.paged
                  THEN grow_paged_internal(s, PageUp(need) - s.paged) ELSE s
  <2>1. g = [i EXCEPT !.limit = i.limit + n]
    <3>1. g = [i EXCEPT !.limit = @ + n]
      BY <1>3, Zenon DEF grow_bytes
    <3> HIDE DEF i
    <3> QED BY <3>1
  <2>2. need \in Nat /\ PageUp(need) \in Nat /\ need <= PageUp(need)
    <3>1. need \in Nat
      BY <1>1
    <3> HIDE DEF need, i
    <3> QED BY <3>1, PageUpFacts DEF Whole
  <2>3. PagesOK(i) /\ (i.ok => s.ok /\ Grown(s, i) /\ i.limit = s.limit /\ i.paged = PageUp(need))
    <3>1. CASE need > s.paged
      <4> DEFINE m == PageUp(need) - s.paged
      <4>1. m \in Nat /\ s.paged + m = PageUp(need)
        BY <1>1, <2>2, <3>1
      <4>2. i = grow_paged_internal(s, m)
        BY <3>1
      <4> HIDE DEF m, i, need
      <4> QED BY <4>1, <4>2, InternalGrows
    <3>2. CASE ~(need > s.paged)
      <4>1. i = s
        BY <3>2
      <4>2. ASSUME s.ok PROVE s.paged = PageUp(need)
        <5>1. s.paged = PageUp(s.limit) /\ Whole(s.paged)
          BY <4>2, PageUpFacts, <1>1 DEF Well
        <5>2. PageUp(need) <= s.paged
          BY <1>1, <2>2, <3>2, <5>1, PageUpFacts
        <5>3. s.limit <= need
          BY <1>1
        <5>4. s.limit <= PageUp(need) /\ Whole(PageUp(need))
          BY <1>1, <2>2, <5>3, PageUpFacts
        <5>5. PageUp(s.limit) <= PageUp(need)
          BY <1>1, <2>2, <5>4, PageUpFacts
        <5> QED BY <1>1, <2>2, <5>1, <5>2, <5>5
      <4>3. Grown(s, s)
        BY <1>1 DEF Grown
      <4> HIDE DEF i, need
      <4> QED BY <4>1, <4>2, <4>3
    <3> QED BY <3>1, <3>2
  <2> HIDE DEF i
  <2>4. i.limit \in Nat /\ i.limit + n \in Nat
    BY <2>3 DEF PagesOK, SegmentSet
  <2>5. /\ PagesOK(g) /\ g.limit = i.limit + n /\ g.paged = i.paged /\ g.ok = i.ok
        /\ g.flat = i.flat /\ g.shared = i.shared
    BY <2>1, <2>3, <2>4, LimitSet
  <2>6. ASSUME g.ok PROVE s.ok /\ Well(g) /\ Grown(s, g) /\ g.limit = s.limit + n
    <3>1. /\ s.ok /\ Grown(s, i) /\ i.limit = s.limit /\ i.paged = PageUp(need) /\ i.ok
      BY <2>3, <2>5, <2>6
    <3>2. g.limit = need /\ g.limit = s.limit + n
      BY <1>1, <2>5, <3>1
    <3>3. Well(g)
      BY <2>5, <2>6, <3>1, <3>2 DEF Well
    <3>4. Grown(s, g)
      BY <1>1, <2>5, <3>1, <3>2 DEF Grown
    <3> QED BY <3>1, <3>2, <3>3, <3>4
  <2> QED BY <2>5, <2>6
<1> QED BY <1>2, <1>3

(* GrowTo makes it at least that large.                                    *)
LEMMA GrowToGrows ==
    ASSUME NEW s, PagesOK(s), s.ok => Well(s), NEW size \in Nat, NEW g, g = GrowTo(s, size)
    PROVE  /\ PagesOK(g)
           /\ g.ok => /\ s.ok /\ Well(g) /\ Grown(s, g)
                      /\ g.limit = IF size > s.limit THEN size ELSE s.limit
<1>1. s.limit \in Nat /\ s.paged \in Nat
  BY DEF PagesOK, SegmentSet
<1>2. CASE size > s.limit
  <2>1. size - s.limit \in Nat /\ s.limit + (size - s.limit) = size
    BY <1>1, <1>2
  <2>2. g = grow_bytes(s, size - s.limit)
    BY <1>2 DEF GrowTo
  <2> QED BY <1>2, <2>1, <2>2, BytesGrow
<1>3. CASE ~(size > s.limit)
  <2>1. g = s /\ Grown(s, s)
    BY <1>1, <1>3 DEF GrowTo, Grown
  <2> QED BY <1>3, <2>1
<1> QED BY <1>2, <1>3

-----------------------------------------------------------------------------
(* Descriptors and entries.                                                *)

(* Reach is a number.                                                      *)
LEMMA ReachInt ==
    ASSUME NEW n \in Nat, NEW e \in EntrySet(n)
    PROVE  Reach(e) \in Int
<1>1. e.limit \in Int /\ e.pages \in BOOLEAN
  BY DEF EntrySet
<1>2. e.limit % Mega1 \in Int /\ (e.limit + 1) * Page \in Int
  BY <1>1, SegmentAssumption
<1> QED BY <1>1, <1>2 DEF Reach

(* The entry written for a segment reaches to the end of its pages, unless *)
(* there is none, and no byte of the segment is out of reach.              *)
LEMMA EntryFacts ==
    ASSUME NEW n \in Nat, NEW sd \in SdSet(n), NEW s, Well(s),
           NEW e, e = update_descriptors(sd, s)
    PROVE  /\ e \in EntrySet(n) /\ e.seg = sd.seg /\ e.access = sd.access
           /\ s.limit <= Reach(e)
           /\ e.limit >= 0 => Reach(e) = s.paged
<1>1. Page \in Nat \ {0} /\ Kilo64 \in Nat \ {0} /\ Mega1 \in Nat \ {0} /\ Kilo64 < Mega1
  BY SegmentAssumption
<1>2. s.limit \in Nat /\ s.paged \in Nat /\ s.limit <= s.paged /\ s.paged <= Mega1 * Page
  BY WellFacts DEF SegmentSet
<1>3. s.paged = PageUp(s.limit) /\ Whole(s.paged)
  BY WellFacts DEF Well
<1>4. sd.seg \in 0 .. n /\ sd.access \in Access
  BY DEF SdSet
<1>5. CASE s.limit > Kilo64
  <2> DEFINE q == s.paged \div Page
  <2>1. q \in Nat /\ s.paged = q * Page
    BY <1>2, <1>3, WholeDiv
  <2>2. e = [seg |-> sd.seg, access |-> sd.access, limit |-> q - 1, pages |-> TRUE]
    BY <1>3, <1>5 DEF update_descriptors
  <2> HIDE DEF q
  <2>3. q # 0
    BY <1>1, <1>2, <1>5, <2>1
  <2>4. q <= Mega1
    <3> SUFFICES ASSUME q > Mega1 PROVE FALSE
      BY <1>1, <2>1
    <3>1. (q - Mega1) * Page >= Page /\ (q - Mega1) * Page = q * Page - Mega1 * Page
      BY <1>1, <2>1
    <3>2. Mega1 * Page \in Nat /\ q * Page \in Nat
      BY <1>1, <2>1
    <3> QED BY <1>1, <1>2, <2>1, <3>1, <3>2
  <2>5. q - 1 \in 0 .. Mega1 - 1 /\ (q - 1) + 1 = q
    BY <1>1, <2>1, <2>3, <2>4
  <2>6. e.seg = sd.seg /\ e.access = sd.access /\ e.limit = q - 1 /\ e.pages
    BY <2>2
  <2>7. e \in EntrySet(n)
    BY <1>1, <1>4, <2>2, <2>5 DEF EntrySet
  <2>8. Reach(e) = s.paged
    BY <2>1, <2>5, <2>6 DEF Reach
  <2> QED BY <1>2, <2>6, <2>7, <2>8
<1>6. CASE ~(s.limit > Kilo64)
  <2>1. s.paged <= Kilo64
    <3>1. Whole(Kilo64)
      BY <1>1, WholeDiv, SegmentAssumption
    <3> QED BY <1>1, <1>2, <1>3, <1>6, <3>1, PageUpFacts
  <2>2. e = [seg |-> sd.seg, access |-> sd.access, limit |-> s.paged - 1, pages |-> FALSE]
    BY <1>6 DEF update_descriptors
  <2>3. e.seg = sd.seg /\ e.access = sd.access /\ e.limit = s.paged - 1 /\ e.pages = FALSE
    BY <2>2
  <2>4. s.paged - 1 \in -1 .. Mega1 - 1
    BY <1>1, <1>2, <2>1
  <2>5. e \in EntrySet(n)
    BY <1>4, <2>2, <2>4 DEF EntrySet
  <2>6. Reach(e) = ((s.paged - 1) % Mega1) + 1
    BY <2>3 DEF Reach
  <2>7. CASE s.paged = 0
    <3>1. (s.paged - 1) % Mega1 \in Nat
      BY <1>1, <2>7
    <3> QED BY <1>2, <2>3, <2>5, <2>6, <2>7, <3>1
  <2>8. CASE s.paged # 0
    <3> DEFINE p == s.paged - 1
    <3>1. p \in Nat /\ p \in 0 .. Mega1 - 1 /\ 0 * Mega1 + p = p
      BY <1>1, <1>2, <2>1, <2>8
    <3> HIDE DEF p
    <3>2. p % Mega1 = p
      BY <1>1, <3>1, DivUnique
    <3>3. Reach(e) = p + 1
      BY <2>6, <3>2 DEF p
    <3>4. Reach(e) = s.paged
      BY <1>2, <3>3 DEF p
    <3> QED BY <1>2, <2>3, <2>5, <3>4
  <2> QED BY <2>7, <2>8
<1> QED BY <1>5, <1>6

-----------------------------------------------------------------------------
(* The tables.                                                             *)

(* One element of a sequence is replaced.                                  *)
LEMMA SeqExcept ==
    ASSUME NEW T, NEW s \in Seq(T), NEW k \in 1 .. Len(s), NEW g \in T,
           NEW t, t = [s EXCEPT ![k] = g]
    PROVE  /\ t \in Seq(T) /\ Len(t) = Len(s) /\ t[k] = g
           /\ \A m \in 1 .. Len(s) : m # k => t[m] = s[m]
<1>1. Len(s) \in Nat /\ DOMAIN s = 1 .. Len(s) /\ s \in [1 .. Len(s) -> T]
  OBVIOUS
<1>2. t \in [1 .. Len(s) -> T]
  BY <1>1
<1>3. t[k] = g /\ \A m \in 1 .. Len(s) : m # k => t[m] = s[m]
  BY <1>1
<1> QED BY <1>1, <1>2, <1>3

(* More segments, which have no descriptor yet.                            *)
LEMMA Extends ==
    ASSUME NEW ss, NEW sd, NEW ld, Sound(ss, sd, ld),
           NEW new \in Seq(SegmentSet), \A k \in 1 .. Len(new) : Well(new[k])
    PROVE  Sound(ss \o new, sd, ld)
<1> DEFINE tt == ss \o new
<1>1. ss \in Seq(SegmentSet) /\ Len(ss) \in Nat /\ Len(new) \in Nat
  BY DEF Sound, TablesOK
<1>2. /\ tt \in Seq(SegmentSet) /\ Len(tt) = Len(ss) + Len(new)
      /\ \A k \in 1 .. Len(ss) : tt[k] = ss[k]
      /\ \A k \in 1 .. Len(new) : tt[Len(ss) + k] = new[k]
  BY <1>1
<1> HIDE DEF tt
<1>3. 0 .. Len(ss) \subseteq 0 .. Len(tt)
  BY <1>1, <1>2
<1>4. \A i \in Ids : /\ sd[i].seg \in 0 .. Len(ss) /\ ld[i].seg \in 0 .. Len(ss)
                     /\ sd[i] # NoSd => sd[i].seg \in 1 .. Len(ss)
                     /\ ld[i].seg # 0 => ld[i].seg \in 1 .. Len(ss)
  BY <1>1 DEF Sound, TablesOK, SdSet, EntrySet
<1>5. TablesOK(tt, sd, ld)
  <2>1. sd \in [Ids -> SdSet(Len(ss))] /\ ld \in [Ids -> EntrySet(Len(ss))]
    BY DEF Sound, TablesOK
  <2>2. SdSet(Len(ss)) \subseteq SdSet(Len(tt)) /\ EntrySet(Len(ss)) \subseteq EntrySet(Len(tt))
    BY <1>3 DEF SdSet, EntrySet
  <2>3. sd \in [Ids -> SdSet(Len(tt))] /\ ld \in [Ids -> EntrySet(Len(tt))]
    BY <2>1, <2>2
  <2>4. \A i \in Ids : sd[i] # NoSd => sd[i].seg # 0
    BY DEF Sound, TablesOK
  <2> QED BY <1>2, <2>3, <2>4 DEF TablesOK
<1>6. ASSUME NEW k \in 1 .. Len(tt) PROVE Well(tt[k])
  <2>1. CASE k <= Len(ss)
    <3>1. k \in 1 .. Len(ss)
      BY <1>1, <2>1
    <3> QED BY <1>2, <3>1 DEF Sound
  <2>2. CASE k > Len(ss)
    <3>1. k - Len(ss) \in 1 .. Len(new) /\ Len(ss) + (k - Len(ss)) = k
      BY <1>1, <1>2, <2>2
    <3> QED BY <1>2, <3>1
  <2> QED BY <1>1, <2>1, <2>2
<1>7. Alone(tt, sd)
  BY <1>2, <1>4 DEF Sound, Alone
<1>8. Backed(tt, ld)
  BY <1>2, <1>4 DEF Sound, Backed
<1>9. UpToDate(tt, sd, ld)
  BY <1>2, <1>4 DEF Sound, UpToDate
<1>10. Installed(sd, ld)
  BY DEF Sound
<1>11. Sound(tt, sd, ld)
  BY <1>5, <1>6, <1>7, <1>8, <1>9, <1>10 DEF Sound
<1> QED BY <1>11 DEF tt

(* No descriptor but i is of the segment g that d is for, or g is flat.    *)
Owns(sd, i, d, g) ==
    g.flat \/ \A j \in Ids : j # i /\ sd[j] # NoSd => sd[j].seg # d.seg

(* A descriptor is made, changed or brought up to date, after its segment  *)
(* may have grown: no other descriptor is of that segment, or it is flat.  *)
LEMMA Installs ==
    ASSUME NEW ss, NEW sd, NEW ld, Sound(ss, sd, ld),
           NEW i \in Ids, NEW d \in SdSet(Len(ss)), d.seg # 0,
           NEW g, Well(g), Grown(ss[d.seg], g),
           Owns(sd, i, d, g),
           NEW tt, tt = [ss EXCEPT ![d.seg] = g],
           NEW sd2, sd2 = [sd EXCEPT ![i] = d],
           NEW ld2, ld2 = [ld EXCEPT ![i] = update_descriptors(d, g)]
    PROVE  Sound(tt, sd2, ld2)
<1> DEFINE k == d.seg
           e == update_descriptors(d, g)
<1>1. ss \in Seq(SegmentSet) /\ Len(ss) \in Nat
  BY DEF Sound, TablesOK
<1>2. k \in 1 .. Len(ss) /\ g \in SegmentSet
  BY <1>1, WellFacts DEF SdSet
<1>3. /\ e \in EntrySet(Len(ss)) /\ e.seg = k
      /\ e.access = d.access /\ (e.limit >= 0 => Reach(e) = g.paged)
  BY <1>1, EntryFacts
<1>4. tt = [ss EXCEPT ![k] = g] /\ ld2 = [ld EXCEPT ![i] = e]
  OBVIOUS
<1>5. Grown(ss[k], g)
  OBVIOUS
<1>6. g.flat \/ \A j \in Ids : j # i /\ sd[j] # NoSd => sd[j].seg # k
  BY DEF Owns
<1>7. ld2[i] = e /\ e = update_descriptors(d, g)
  BY DEF Sound, TablesOK
<1>8. d # NoSd /\ d.seg = k
  <2>1. NoSd.seg = 0
    BY DEF NoSd
  <2> QED BY <2>1
<1> HIDE DEF k, e
<1>9. tt \in Seq(SegmentSet) /\ Len(tt) = Len(ss) /\ tt[k] = g
      /\ \A m \in 1 .. Len(ss) : m # k => tt[m] = ss[m]
  <2>1. ss \in Seq(SegmentSet) /\ k \in 1 .. Len(ss) /\ g \in SegmentSet
        /\ tt = [ss EXCEPT ![k] = g]
    BY <1>1, <1>2, <1>4
  <2>2. tt \in Seq(SegmentSet)
    <3>1. DOMAIN ss = 1 .. Len(ss) /\ ss \in [1 .. Len(ss) -> SegmentSet]
      BY <2>1
    <3>2. tt \in [1 .. Len(ss) -> SegmentSet]
      BY <2>1, <3>1
    <3> QED BY <1>1, <3>2
  <2>3. Len(tt) = Len(ss)
    BY <2>1, SeqExcept
  <2>4. tt[k] = g
    BY <2>1, SeqExcept
  <2>5. \A m \in 1 .. Len(ss) : m # k => tt[m] = ss[m]
    BY <2>1, SeqExcept
  <2> QED BY <2>2, <2>3, <2>4, <2>5
<1>10. sd2[i] = d /\ \A j \in Ids : j # i => sd2[j] = sd[j] /\ ld2[j] = ld[j]
  BY <1>4 DEF Sound, TablesOK
<1>11. \A m \in 1 .. Len(ss) : tt[m].flat = ss[m].flat /\ ss[m].paged <= tt[m].paged
  <2>1. \A m \in 1 .. Len(ss) : ss[m].paged \in Nat
    BY WellFacts DEF Sound, SegmentSet
  <2> QED BY <1>2, <1>5, <1>9, <2>1 DEF Grown
<1>12. \A j \in Ids : /\ sd[j] # NoSd => sd[j].seg \in 1 .. Len(ss)
                      /\ ld[j].seg # 0 => ld[j].seg \in 1 .. Len(ss)
  BY <1>1 DEF Sound, TablesOK, SdSet, EntrySet
<1>13. TablesOK(tt, sd2, ld2)
  <2>1. sd2 \in [Ids -> SdSet(Len(tt))]
    BY <1>9 DEF Sound, TablesOK
  <2>2. ld2 \in [Ids -> EntrySet(Len(tt))]
    BY <1>3, <1>4, <1>9 DEF Sound, TablesOK
  <2>3. \A j \in Ids : sd2[j] # NoSd => sd2[j].seg # 0
    BY <1>10 DEF Sound, TablesOK
  <2> QED BY <1>9, <2>1, <2>2, <2>3 DEF TablesOK
<1>14. \A m \in 1 .. Len(tt) : Well(tt[m])
  BY <1>9 DEF Sound
<1>15. Alone(tt, sd2)
  <2> SUFFICES ASSUME NEW a \in Ids, NEW b \in Ids, sd2[a] # NoSd, sd2[b] # NoSd,
                      a # b, sd2[a].seg = sd2[b].seg
               PROVE  tt[sd2[a].seg].flat
    BY DEF Alone
  <2>1. CASE a = i
    BY <1>6, <1>8, <1>9, <1>10, <2>1
  <2>2. CASE b = i
    BY <1>6, <1>8, <1>9, <1>10, <2>2
  <2>3. CASE a # i /\ b # i
    BY <1>10, <1>11, <1>12, <2>3 DEF Sound, Alone
  <2> QED BY <2>1, <2>2, <2>3
<1>16. Backed(tt, ld2)
  <2> SUFFICES ASSUME NEW j \in Ids, ld2[j].seg # 0, ld2[j].limit >= 0
               PROVE  Reach(ld2[j]) <= tt[ld2[j].seg].paged
    BY DEF Backed
  <2>1. CASE j = i
    <3>1. ld2[j] = e /\ e.limit >= 0
      BY <1>7, <2>1
    <3>2. g.paged \in Nat
      BY <1>2 DEF SegmentSet
    <3> QED BY <1>3, <1>9, <3>1, <3>2
  <2>2. CASE j # i
    <3> DEFINE m == ld[j].seg
    <3>1. ld2[j] = ld[j] /\ m \in 1 .. Len(ss)
      BY <1>10, <1>12, <2>2
    <3>2. Reach(ld[j]) <= ss[m].paged
      BY <3>1 DEF Sound, Backed
    <3>3. ss[m].paged \in Nat /\ tt[m].paged \in Nat /\ ss[m].paged <= tt[m].paged
      <4>1. ss[m] \in SegmentSet /\ tt[m] \in SegmentSet
        BY <1>1, <1>9, <3>1
      <4> QED BY <1>11, <3>1, <4>1 DEF SegmentSet
    <3>4. Reach(ld[j]) \in Int
      <4>1. ld[j] \in EntrySet(Len(ss))
        BY DEF Sound, TablesOK
      <4> QED BY <1>1, <4>1, ReachInt
    <3> HIDE DEF m
    <3>5. Reach(ld[j]) <= tt[m].paged
      BY <3>2, <3>3, <3>4
    <3> QED BY <3>1, <3>5 DEF m
  <2> QED BY <2>1, <2>2
<1>17. Installed(sd2, ld2)
  <2> SUFFICES ASSUME NEW j \in Ids, sd2[j] # NoSd
               PROVE  ld2[j].seg = sd2[j].seg /\ ld2[j].access = sd2[j].access
    BY DEF Installed
  <2> QED BY <1>3, <1>7, <1>8, <1>10 DEF Sound, Installed
<1>18. UpToDate(tt, sd2, ld2)
  <2> SUFFICES ASSUME NEW j \in Ids, sd2[j] # NoSd, ~tt[sd2[j].seg].flat
               PROVE  ld2[j] = update_descriptors(sd2[j], tt[sd2[j].seg])
    BY DEF UpToDate
  <2>1. CASE j = i
    BY <1>7, <1>8, <1>9, <1>10, <2>1
  <2>2. CASE j # i
    <3>1. sd2[j] = sd[j] /\ ld2[j] = ld[j] /\ sd[j].seg \in 1 .. Len(ss)
      BY <1>10, <1>12, <2>2
    <3>2. sd[j].seg # k
      BY <1>6, <1>9, <2>2, <3>1
    <3>3. tt[sd[j].seg] = ss[sd[j].seg]
      BY <1>9, <3>1, <3>2
    <3> QED BY <3>1, <3>3 DEF Sound, UpToDate
  <2> QED BY <2>1, <2>2
<1> QED BY <1>13, <1>14, <1>15, <1>16, <1>17, <1>18 DEF Sound

-----------------------------------------------------------------------------
(* Images.                                                                 *)

(* The sum that ImageSize is has a value for every header.                 *)
LEMMA ImageSizeNat ==
    ASSUME NEW sizes \in Seq(Nat)
    PROVE  ImageSize(sizes) \in Nat
<1> DEFINE Upto(g, n) ==
              g = [i \in 0 .. n |-> IF i = 0 THEN 0 ELSE g[i - 1] + PageUp(sizes[i])]
           S == {n \in Nat : \E g : Upto(g, n)}
<1>1. 0 \in S
  <2> DEFINE g == [i \in 0 .. 0 |-> 0]
  <2>1. Upto(g, 0)
    OBVIOUS
  <2> QED BY <2>1
<1>2. ASSUME NEW n \in Nat, n \in S PROVE n + 1 \in S
  <2>1. PICK g : Upto(g, n)
    BY <1>2
  <2> DEFINE k == [i \in 0 .. n + 1 |->
                      IF i = n + 1 THEN g[n] + PageUp(sizes[n + 1]) ELSE g[i]]
  <2>2. \A i \in 0 .. n + 1 :
            k[i] = IF i = 0 THEN 0 ELSE k[i - 1] + PageUp(sizes[i])
    BY <2>1
  <2>3. k = [i \in 0 .. n + 1 |-> IF i = 0 THEN 0 ELSE k[i - 1] + PageUp(sizes[i])]
    BY <2>2
  <2> HIDE DEF k
  <2>4. \E x : Upto(x, n + 1)
    BY <2>3
  <2> QED BY <2>4, SMTT(30)
<1> HIDE DEF S
<1>3. Len(sizes) \in S
  BY <1>1, <1>2, NatSetInduction
<1>4. \E g : Upto(g, Len(sizes))
  BY <1>3 DEF S
<1> DEFINE size == CHOOSE g : Upto(g, Len(sizes))
<1>5. Upto(size, Len(sizes))
  BY <1>4, Zenon
<1>6. ImageSize(sizes) = size[Len(sizes)]
  BY DEF ImageSize
<1>7. \A i \in 0 .. Len(sizes) : size[i] = IF i = 0 THEN 0 ELSE size[i - 1] + PageUp(sizes[i])
  BY <1>5
<1> HIDE DEF size
<1> DEFINE V == {n \in Nat : n <= Len(sizes) => size[n] \in Nat}
<1>8. 0 \in V
  BY <1>7
<1>9. ASSUME NEW n \in Nat, n \in V PROVE n + 1 \in V
  <2> SUFFICES ASSUME n + 1 <= Len(sizes) PROVE size[n + 1] \in Nat
    OBVIOUS
  <2>1. n + 1 \in 1 .. Len(sizes) /\ size[n] \in Nat /\ sizes[n + 1] \in Nat
    BY <1>9
  <2>2. PageUp(sizes[n + 1]) \in Nat
    BY <2>1, PageUpFacts DEF Whole
  <2>3. size[n + 1] = size[n] + PageUp(sizes[n + 1])
    BY <1>7, <2>1
  <2> QED BY <2>1, <2>2, <2>3
<1> HIDE DEF V
<1>10. Len(sizes) \in V
  BY <1>8, <1>9, NatSetInduction
<1> QED BY <1>6, <1>10 DEF V

(* The one segment of a flat program, and where its stack and heap are.    *)
LEMMA FlatFacts ==
    ASSUME NEW h, HeaderOK(h), Loaded(FlatImage(h)), NEW im, im = FlatImage(h)
    PROVE  /\ im.segs \in Seq(SegmentSet) /\ Len(im.segs) = 1
           /\ Well(im.segs[1]) /\ im.segs[1].flat
           /\ im.of = [i \in DOMAIN h.sizes |-> 1]
           /\ im.heap_start \in Nat /\ im.stack_low + im.stack_size <= im.heap_start
<1> DEFINE base  == PageUp(h.base)
           stack == PageUp(h.stack)
           size == ImageSize(h.sizes)
           new == [NewSegment(FlatReserve) EXCEPT !.flat = TRUE]
           guard == skip_paged(new, base - stack)
           low == grow_paged(guard, stack)
           data  == grow_paged(low, size)
           s == grow_paged(data, h.heap)
<1>1. base \in Nat /\ stack \in Nat /\ size \in Nat /\ h.heap \in Nat
  <2>1. h.base \in Nat /\ h.stack \in Nat /\ h.heap \in Nat /\ h.sizes \in Seq(Nat)
    BY DEF HeaderOK
  <2>2. base \in Nat
    BY <2>1, PageUpFacts DEF Whole
  <2>3. stack \in Nat
    BY <2>1, PageUpFacts DEF Whole
  <2> QED BY <2>1, <2>2, <2>3, ImageSizeNat
<1>2. ~(stack + Page > base)
  <2> SUFFICES ASSUME stack + Page > base PROVE FALSE
    OBVIOUS
  <2>1. FlatImage(h) = [segs |-> <<>>, ok |-> FALSE]
    BY DEF FlatImage
  <2> QED BY <2>1 DEF Loaded
<1>3. im = [segs |-> <<s>>, of |-> [i \in DOMAIN h.sizes |-> 1],
            stack_low |-> base - stack, stack_size |-> stack,
            heap_start |-> data.limit, entry |-> base + h.entry, ok |-> TRUE]
  BY <1>2, Zenon DEF FlatImage
<1>4. base - stack \in Nat /\ (base - stack) + stack = base
  BY <1>1, <1>2, SegmentAssumption
<1>5. PagesOK(new) /\ new.ok /\ new.flat
  <2>1. FlatReserve \in 0 .. Mega1 * Page
    BY SegmentAssumption
  <2> DEFINE n == NewSegment(FlatReserve)
  <2>2. Well(n)
    BY <2>1, NewWell
  <2> HIDE DEF n
  <2>3. PagesOK(n) /\ n.ok /\ n \in SegmentSet
    BY <2>2 DEF Well, PagesOK
  <2> QED BY <2>3 DEF n, PagesOK, SegmentSet
<1> DEFINE gap == base - stack
<1>6. gap \in Nat /\ gap + stack = base
  BY <1>4
<1>7. guard = skip_paged(new, gap)
  OBVIOUS
<1> HIDE DEF base, stack, size, new, guard, low, data, s, gap
<1>8. PagesOK(guard) /\ (guard.ok => guard.flat = new.flat /\ guard.paged = new.paged + gap)
  BY <1>5, <1>6, <1>7, SkipGrows DEF Grown
<1>9. PagesOK(low) /\ low.limit = low.paged
      /\ (low.ok => guard.ok /\ low.flat = guard.flat /\ low.paged = guard.paged + stack)
  BY <1>1, <1>8, PagedGrows DEF low
<1>10. PagesOK(data) /\ data.limit = data.paged
      /\ (data.ok => low.ok /\ data.flat = low.flat /\ data.paged = low.paged + size)
  BY <1>1, <1>9, PagedGrows DEF data
<1>11. PagesOK(s) /\ s.limit = s.paged /\ (s.ok => data.ok /\ s.flat = data.flat)
  BY <1>1, <1>10, PagedGrows DEF s
<1>12. im.segs = <<s>> /\ im.of = [i \in DOMAIN h.sizes |-> 1]
       /\ im.heap_start = data.limit /\ im.stack_low = gap /\ im.stack_size = stack
  BY <1>3 DEF gap
<1>13. s.ok
  <2>1. \A i \in DOMAIN im.segs : im.segs[i].ok
    BY DEF Loaded
  <2>2. DOMAIN im.segs = {1} /\ im.segs[1] = s
    BY <1>12
  <2> QED BY <2>1, <2>2
<1>14. s.flat /\ data.paged = ((new.paged + gap) + stack) + size
  BY <1>5, <1>8, <1>9, <1>10, <1>11, <1>13
<1>15. s \in SegmentSet /\ data \in SegmentSet /\ new \in SegmentSet
  BY <1>5, <1>10, <1>11 DEF PagesOK
<1>16. s.paged \in Nat /\ data.paged \in Nat /\ new.paged \in Nat
  BY <1>15 DEF SegmentSet
<1>17. Well(s)
  <2>1. Len(s.bitmap) \in Nat /\ s.paged = Len(s.bitmap) * Page
    BY <1>11, <1>15 DEF PagesOK, SegmentSet
  <2>2. Whole(s.paged)
    BY <1>16, <2>1 DEF Whole
  <2>3. PageUp(s.paged) = s.paged
    BY <1>16, <2>2, PageUpFacts
  <2> QED BY <1>11, <1>13, <2>3 DEF Well
<1>18. gap + stack <= data.limit /\ data.limit \in Nat
  BY <1>1, <1>6, <1>10, <1>14, <1>16
<1>19. <<s>> \in Seq(SegmentSet) /\ Len(<<s>>) = 1 /\ <<s>>[1] = s
  BY <1>15
<1> QED BY <1>12, <1>14, <1>17, <1>18, <1>19

(* grow_bytes_64capped grows by what it is asked for within 64 KiB.        *)
LEMMA CappedGrows ==
    ASSUME NEW s, PagesOK(s), s.ok => Well(s), NEW n \in Nat,
           NEW g, g = grow_bytes_64capped(s, n)
    PROVE  /\ PagesOK(g)
           /\ g.ok => /\ s.ok /\ Well(g) /\ Grown(s, g)
                      /\ s.limit + n <= Kilo64 => g.limit = s.limit + n
<1> DEFINE size == Min({s.limit + n, Kilo64})
<1>1. s.limit \in Nat /\ Kilo64 \in Nat
  BY SegmentAssumption DEF PagesOK, SegmentSet
<1>2. size = IF s.limit + n <= Kilo64 THEN s.limit + n ELSE Kilo64
  BY <1>1, MinOfTwo
<1>3. g = GrowTo(s, size)
  BY DEF grow_bytes_64capped
<1> HIDE DEF size
<1>4. size \in Nat
  BY <1>1, <1>2
<1>5. /\ PagesOK(g)
      /\ g.ok => /\ s.ok /\ Well(g) /\ Grown(s, g)
                 /\ g.limit = IF size > s.limit THEN size ELSE s.limit
  BY <1>3, <1>4, GrowToGrows
<1>6. s.limit + n <= Kilo64 => (IF size > s.limit THEN size ELSE s.limit) = s.limit + n
  BY <1>1, <1>2
<1> QED BY <1>5, <1>6

(* The segments of a program that is not flat: the heap starts above the   *)
(* stack where they share one.                                             *)
LEMMA SegmentFacts ==
    ASSUME NEW h, HeaderOK(h), NEW slib \in BOOLEAN, Loaded(SegmentImage(h, slib)),
           NEW im, im = SegmentImage(h, slib)
    PROVE  /\ im.segs \in Seq(SegmentSet) /\ Len(im.segs) = Len(h.sizes)
           /\ \A i \in 1 .. Len(h.sizes) : Well(im.segs[i])
           /\ im.of = [i \in DOMAIN h.sizes |-> i]
           /\ im.heap_start \in Nat
           /\ h.stackIx = h.heapIx /\ im.stack_low + im.stack_size <= Kilo64 =>
                im.stack_low + im.stack_size <= im.heap_start
<1> DEFINE reservation == IF ~h.b32 THEN Kilo64
                          ELSE IF slib THEN SlibReserve ELSE SegReserve
           plain(i) == grow_bytes(NewSegment(reservation), h.sizes[i])
           stacked(i) == IF i # h.stackIx THEN plain(i)
                         ELSE grow_bytes_64capped(plain(i), h.stack)
           heaped(i) == IF i # h.heapIx THEN stacked(i)
                        ELSE grow_bytes_64capped(stacked(i), h.heap)
           new == NewSegment(reservation)
<1>1. /\ h.sizes \in Seq(Nat) /\ Len(h.sizes) \in Nat /\ DOMAIN h.sizes = 1 .. Len(h.sizes)
      /\ h.stack \in Nat /\ h.heap \in Nat
      /\ h.stackIx \in 1 .. Len(h.sizes) /\ h.heapIx \in 1 .. Len(h.sizes)
  BY DEF HeaderOK
<1>2. /\ im.segs = [i \in DOMAIN h.sizes |-> heaped(i)]
      /\ im.of = [i \in DOMAIN h.sizes |-> i]
      /\ im.stack_low = plain(h.stackIx).limit /\ im.stack_size = h.stack
      /\ im.heap_start = stacked(h.heapIx).limit
  BY DEF SegmentImage
<1>3. \A i \in DOMAIN im.segs : im.segs[i].ok
  BY DEF Loaded
<1>4. reservation \in 0 .. Mega1 * Page
  <2>1. Kilo64 \in 0 .. Mega1 * Page
    <3>1. Page \in Nat /\ Page >= 1 /\ Mega1 \in Nat /\ Kilo64 \in Nat /\ Kilo64 < Mega1
      BY SegmentAssumption
    <3>2. Mega1 * Page >= Mega1
      BY <3>1
    <3> QED BY <3>1, <3>2
  <2> QED BY <2>1, SegmentAssumption
<1>5. Well(new) /\ new.limit = 0 /\ PagesOK(new) /\ new.ok
  <2> HIDE DEF reservation
  <2>1. Well(new)
    BY <1>4, NewWell
  <2>2. new.limit = 0
    BY DEF NewSegment
  <2> HIDE DEF new
  <2> QED BY <2>1, <2>2 DEF Well
<1>6. ASSUME NEW i \in 1 .. Len(h.sizes)
      PROVE  /\ PagesOK(plain(i)) /\ (plain(i).ok => Well(plain(i)))
             /\ PagesOK(stacked(i)) /\ (stacked(i).ok => Well(stacked(i)))
             /\ PagesOK(heaped(i)) /\ (heaped(i).ok => Well(heaped(i)) /\ stacked(i).ok)
             /\ i = h.stackIx /\ stacked(i).ok /\ plain(i).limit + h.stack <= Kilo64 =>
                    stacked(i).limit = plain(i).limit + h.stack
  <2>1. h.sizes[i] \in Nat
    BY <1>1
  <2> DEFINE p == plain(i)
             st == stacked(i)
             hp == heaped(i)
  <2>2. p = grow_bytes(new, h.sizes[i])
    OBVIOUS
  <2>3. st = IF i # h.stackIx THEN p ELSE grow_bytes_64capped(p, h.stack)
    OBVIOUS
  <2>4. hp = IF i # h.heapIx THEN st ELSE grow_bytes_64capped(st, h.heap)
    OBVIOUS
  <2> SUFFICES /\ PagesOK(p) /\ (p.ok => Well(p))
               /\ PagesOK(st) /\ (st.ok => Well(st))
               /\ PagesOK(hp) /\ (hp.ok => Well(hp) /\ st.ok)
               /\ i = h.stackIx /\ st.ok /\ p.limit + h.stack <= Kilo64 =>
                    st.limit = p.limit + h.stack
    OBVIOUS
  <2> HIDE DEF p, st, hp, new
  <2>5. PagesOK(p) /\ (p.ok => Well(p))
    BY <1>5, <2>1, <2>2, BytesGrow
  <2>6. PagesOK(st) /\ (st.ok => Well(st))
        /\ (i = h.stackIx /\ st.ok /\ p.limit + h.stack <= Kilo64 =>
               st.limit = p.limit + h.stack)
    <3>1. CASE i # h.stackIx
      BY <2>3, <2>5, <3>1
    <3>2. CASE i = h.stackIx
      <4>1. st = grow_bytes_64capped(p, h.stack)
        BY <2>3, <3>2
      <4> QED BY <1>1, <2>5, <4>1, CappedGrows
    <3> QED BY <3>1, <3>2
  <2>7. PagesOK(hp) /\ (hp.ok => Well(hp) /\ st.ok)
    <3>1. CASE i # h.heapIx
      BY <2>4, <2>6, <3>1
    <3>2. CASE i = h.heapIx
      <4>1. hp = grow_bytes_64capped(st, h.heap)
        BY <2>4, <3>2
      <4> QED BY <1>1, <2>6, <4>1, CappedGrows
    <3> QED BY <3>1, <3>2
  <2> QED BY <2>5, <2>6, <2>7
<1> HIDE DEF plain, stacked, heaped, new, reservation
<1>7. DOMAIN im.segs = 1 .. Len(h.sizes) /\ \A i \in 1 .. Len(h.sizes) : im.segs[i] = heaped(i)
  BY <1>1, <1>2
<1>8. \A i \in 1 .. Len(h.sizes) : heaped(i).ok
  BY <1>3, <1>7
<1>9. \A i \in 1 .. Len(h.sizes) : Well(im.segs[i]) /\ heaped(i) \in SegmentSet
  BY <1>6, <1>7, <1>8, WellFacts
<1>10. im.segs \in Seq(SegmentSet) /\ Len(im.segs) = Len(h.sizes)
  <2>1. im.segs \in [1 .. Len(h.sizes) -> SegmentSet]
    BY <1>1, <1>2, <1>9, ZenonT(40)
  <2>2. \A n \in Nat : \A f \in [1 .. n -> SegmentSet] : f \in Seq(SegmentSet) /\ Len(f) = n
    OBVIOUS
  <2> QED BY <1>1, <2>1, <2>2, Zenon
<1>11. im.heap_start \in Nat
  <2>1. stacked(h.heapIx) \in SegmentSet
    BY <1>1, <1>6 DEF PagesOK
  <2> QED BY <1>2, <2>1 DEF SegmentSet
<1>12. ASSUME h.stackIx = h.heapIx, im.stack_low + im.stack_size <= Kilo64
       PROVE  im.stack_low + im.stack_size <= im.heap_start
  <2>1. stacked(h.stackIx).ok
    BY <1>1, <1>6, <1>8
  <2>2. stacked(h.stackIx).limit = plain(h.stackIx).limit + h.stack
    BY <1>1, <1>2, <1>6, <1>12, <2>1
  <2>3. im.heap_start = im.stack_low + im.stack_size
    BY <1>2, <1>12, <2>2
  <2> QED BY <1>11, <2>3
<1> QED BY <1>2, <1>9, <1>10, <1>11, <1>12

(* Either loader's image.                                                  *)
LEMMA ImageFacts ==
    ASSUME NEW h, HeaderOK(h), NEW slib \in BOOLEAN, NEW im, im = Image(h, slib), Loaded(im)
    PROVE  /\ im.segs \in Seq(SegmentSet) /\ \A k \in 1 .. Len(im.segs) : Well(im.segs[k])
           /\ \A i \in 1 .. Len(h.sizes) : im.of[i] \in 1 .. Len(im.segs)
           /\ h.flat => \A k \in 1 .. Len(im.segs) : im.segs[k].flat
           /\ ~h.flat => \A i \in 1 .. Len(h.sizes) : im.of[i] = i
           /\ im.heap_start \in Nat
           /\ h.flat \/ (h.stackIx = h.heapIx /\ im.stack_low + im.stack_size <= Kilo64) =>
                im.stack_low + im.stack_size <= im.heap_start
<1>1. DOMAIN h.sizes = 1 .. Len(h.sizes) /\ Len(h.sizes) \in Nat
  BY DEF HeaderOK
<1>2. CASE h.flat
  <2>1. im = FlatImage(h)
    BY <1>2 DEF Image
  <2>2. /\ im.segs \in Seq(SegmentSet) /\ Len(im.segs) = 1
        /\ Well(im.segs[1]) /\ im.segs[1].flat
        /\ im.of = [i \in DOMAIN h.sizes |-> 1]
        /\ im.heap_start \in Nat /\ im.stack_low + im.stack_size <= im.heap_start
    BY <2>1, FlatFacts
  <2>3. \A i \in 1 .. Len(h.sizes) : im.of[i] = 1
    BY <1>1, <2>2
  <2>4. \A k \in 1 .. Len(im.segs) : k = 1
    BY <2>2
  <2>5. 1 \in 1 .. Len(im.segs)
    BY <2>2
  <2> QED BY <1>2, <2>2, <2>3, <2>4, <2>5
<1>3. CASE ~h.flat
  <2>1. im = SegmentImage(h, slib)
    BY <1>3 DEF Image
  <2>2. /\ im.segs \in Seq(SegmentSet) /\ Len(im.segs) = Len(h.sizes)
        /\ \A i \in 1 .. Len(h.sizes) : Well(im.segs[i])
        /\ im.of = [i \in DOMAIN h.sizes |-> i]
        /\ im.heap_start \in Nat
        /\ h.stackIx = h.heapIx /\ im.stack_low + im.stack_size <= Kilo64 =>
                im.stack_low + im.stack_size <= im.heap_start
    BY <2>1, SegmentFacts
  <2>3. \A i \in 1 .. Len(h.sizes) : im.of[i] = i
    BY <1>1, <2>2
  <2> QED BY <1>3, <2>2, <2>3
<1> QED BY <1>2, <1>3

-----------------------------------------------------------------------------
(* Giving descriptors out.                                                 *)

(* The tables on the way, when there are n segments.                       *)
TableSet(n) == [sds : [Ids -> SdSet(n)], ldt : [Ids -> EntrySet(n)],
                ids : Seq(Ids), ok : BOOLEAN]

(* The segment of a descriptor is one that it may have.                    *)
Unshared(ss, sd, d) ==
    ss[d.seg].flat \/ \A j \in Ids : sd[j] # NoSd => sd[j].seg # d.seg

(* The tables u are t with the descriptor d at i.                          *)
Placed(t, u, i, d, ss) ==
    /\ u.sds[i] = d /\ u.ldt[i] = update_descriptors(d, ss[d.seg])
    /\ \A j \in Ids : j # i => u.sds[j] = t.sds[j] /\ u.ldt[j] = t.ldt[j]
    /\ Len(u.ids) = Len(t.ids) + 1 /\ u.ids[Len(t.ids) + 1] = i
    /\ \A j \in 1 .. Len(t.ids) : u.ids[j] = t.ids[j]

(* emplace changes the tables there.                                       *)
LEMMA EmplaceFields ==
    ASSUME NEW n \in Nat, NEW t \in TableSet(n), NEW i \in Ids, NEW d \in SdSet(n),
           NEW ss, Well(ss[d.seg]), NEW u, u = emplace(t, i, d, ss)
    PROVE  u \in TableSet(n) /\ u.ok = t.ok /\ Placed(t, u, i, d, ss)
<1> DEFINE e == update_descriptors(d, ss[d.seg])
<1>1. e \in EntrySet(n)
  BY EntryFacts
<1>2. u = [t EXCEPT !.sds[i] = d, !.ldt[i] = e, !.ids = Append(@, i)]
  BY Zenon DEF emplace
<1>3. t.sds \in [Ids -> SdSet(n)] /\ t.ldt \in [Ids -> EntrySet(n)]
      /\ t.ids \in Seq(Ids) /\ t.ok \in BOOLEAN
  BY DEF TableSet
<1> HIDE DEF e
<1> DEFINE s2 == [t.sds EXCEPT ![i] = d]
           l2 == [t.ldt EXCEPT ![i] = e]
           i2 == Append(t.ids, i)
<1>4. s2 \in [Ids -> SdSet(n)] /\ l2 \in [Ids -> EntrySet(n)] /\ i2 \in Seq(Ids)
  BY <1>1, <1>3
<1>5. u.sds = s2 /\ u.ldt = l2 /\ u.ids = i2
  BY <1>2 DEF TableSet
<1>6. u = [sds |-> s2, ldt |-> l2, ids |-> i2, ok |-> t.ok]
  BY <1>2 DEF TableSet
<1>7. s2[i] = d /\ l2[i] = e /\ \A j \in Ids : j # i => s2[j] = t.sds[j] /\ l2[j] = t.ldt[j]
  BY <1>3
<1>8. Len(i2) = Len(t.ids) + 1 /\ i2[Len(t.ids) + 1] = i
      /\ \A j \in 1 .. Len(t.ids) : i2[j] = t.ids[j]
  BY <1>3
<1> HIDE DEF s2, l2, i2
<1>9. u \in TableSet(n)
  BY <1>3, <1>4, <1>6 DEF TableSet
<1>10. u.ok = t.ok
  BY <1>6
<1>11. Placed(t, u, i, d, ss)
  BY <1>5, <1>7, <1>8 DEF Placed, e
<1> QED BY <1>9, <1>10, <1>11

(* A descriptor is put in a free place: the tables stay sound if it is the *)
(* only one of its segment, or that is flat.                               *)
LEMMA Emplaces ==
    ASSUME NEW ss, NEW t \in TableSet(Len(ss)), Sound(ss, t.sds, t.ldt),
           NEW i \in Ids, t.sds[i] = NoSd,
           NEW d \in SdSet(Len(ss)), d.seg # 0,
           Unshared(ss, t.sds, d), NEW u, u = emplace(t, i, d, ss)
    PROVE  u \in TableSet(Len(ss)) /\ Sound(ss, u.sds, u.ldt) /\ Placed(t, u, i, d, ss)
<1> DEFINE g == ss[d.seg]
<1>1. ss \in Seq(SegmentSet) /\ Len(ss) \in Nat
  BY DEF Sound, TablesOK
<1>2. d.seg \in 1 .. Len(ss)
  BY <1>1 DEF SdSet
<1>3. Well(g)
  BY <1>2 DEF Sound
<1>4. u \in TableSet(Len(ss)) /\ Placed(t, u, i, d, ss)
  BY <1>1, <1>3, EmplaceFields
<1>5. Grown(g, g)
  <2>1. g.limit \in Nat /\ g.paged \in Nat
    BY <1>3, WellFacts DEF SegmentSet
  <2> QED BY <2>1 DEF Grown
<1>6. ss = [ss EXCEPT ![d.seg] = g]
  BY <1>1, <1>2
<1>7. /\ t.sds \in [Ids -> SdSet(Len(ss))] /\ t.ldt \in [Ids -> EntrySet(Len(ss))]
      /\ u.sds \in [Ids -> SdSet(Len(ss))] /\ u.ldt \in [Ids -> EntrySet(Len(ss))]
  BY <1>4 DEF TableSet
<1>8. u.sds = [t.sds EXCEPT ![i] = d] /\ u.ldt = [t.ldt EXCEPT ![i] = update_descriptors(d, g)]
  BY <1>4, <1>7 DEF Placed
<1>9. Owns(t.sds, i, d, g)
  BY DEF Unshared, Owns
<1>10. Grown(ss[d.seg], g)
  BY <1>5
<1> HIDE DEF g
<1>11. Sound(ss, u.sds, u.ldt)
  BY <1>3, <1>6, <1>8, <1>9, <1>10, Installs
<1> QED BY <1>4, <1>11

(* alloc_any finds a place, or fails.                                      *)
LEMMA AllocAny ==
    ASSUME NEW n, NEW t \in TableSet(n), NEW d, NEW ss, NEW u, u = alloc_any(t, d, ss), u.ok
    PROVE  \E i \in Ids : t.sds[i] = NoSd /\ u = emplace(t, i, d, ss)
<1> DEFINE free == {i \in Ids : t.sds[i] = NoSd}
<1>1. u = IF free = {} THEN [t EXCEPT !.ok = FALSE] ELSE emplace(t, Min(free), d, ss)
  BY DEF alloc_any
<1>2. free # {}
  <2> SUFFICES ASSUME free = {} PROVE FALSE
    OBVIOUS
  <2>1. u = [t EXCEPT !.ok = FALSE]
    BY <1>1
  <2> QED BY <2>1 DEF TableSet
<1>3. free \in SUBSET Nat
  BY DEF Ids
<1>4. Min(free) \in free
  <2> HIDE DEF free
  <2> QED BY <1>2, <1>3, MinOfNats
<1>5. u = emplace(t, Min(free), d, ss)
  BY <1>1, <1>2
<1> QED BY <1>4, <1>5

(* The descriptor of a header's segment.                                   *)
SdOf(h, im, i) == [seg |-> Len(segs) + im.of[i], access |-> h.types[i]]

(* Tables that begin as ours and in which the first n segments of a header *)
(* have been given descriptors, in that order.                             *)
Given(h, im, t, n) ==
    /\ t \in TableSet(Len(segs \o im.segs))
    /\ Sound(segs \o im.segs, t.sds, t.ldt)
    /\ Len(t.ids) = n
    /\ \A j \in 1 .. n : t.sds[t.ids[j]] = SdOf(h, im, j)
    /\ \A i \in Ids : sds[i] # NoSd => t.sds[i] = sds[i]
    /\ \A i \in Ids : t.sds[i] # NoSd =>
          t.sds[i].seg <= Len(segs) \/ \E j \in 1 .. n : t.sds[i].seg = Len(segs) + im.of[j]

(* An image that fits its header, as ImageFacts shows of a loaded one.     *)
ImageOK(h, im) ==
    /\ im.segs \in Seq(SegmentSet) /\ \A k \in 1 .. Len(im.segs) : Well(im.segs[k])
    /\ \A i \in 1 .. Len(h.sizes) : im.of[i] \in 1 .. Len(im.segs)
    /\ h.flat => \A k \in 1 .. Len(im.segs) : im.segs[k].flat
    /\ ~h.flat => \A i \in 1 .. Len(h.sizes) : im.of[i] = i

(* One more descriptor.                                                    *)
LEMMA GivesOne ==
    ASSUME Sound(segs, sds, ldt), NEW h, HeaderOK(h), NEW im, ImageOK(h, im),
           NEW n \in Nat, n + 1 <= Len(h.sizes), NEW t, Given(h, im, t, n),
           NEW u, u = alloc_any(t, SdOf(h, im, n + 1), segs \o im.segs), u.ok
    PROVE  Given(h, im, u, n + 1)
<1> DEFINE all == segs \o im.segs
           d == SdOf(h, im, n + 1)
           k == im.of[n + 1]
<1>1. segs \in Seq(SegmentSet) /\ Len(segs) \in Nat /\ im.segs \in Seq(SegmentSet)
  BY DEF Sound, TablesOK, ImageOK
<1>2. /\ Len(all) = Len(segs) + Len(im.segs) /\ Len(im.segs) \in Nat
      /\ \A m \in 1 .. Len(im.segs) : all[Len(segs) + m] = im.segs[m]
  BY <1>1
<1>3. n + 1 \in 1 .. Len(h.sizes) /\ k \in 1 .. Len(im.segs)
  <2>1. n + 1 \in 1 .. Len(h.sizes)
    BY DEF HeaderOK
  <2> QED BY <2>1 DEF ImageOK
<1>4. d = [seg |-> Len(segs) + k, access |-> h.types[n + 1]] /\ h.types[n + 1] \in Access
  <2>1. h.types \in Seq(Access) /\ n + 1 \in 1 .. Len(h.types)
    BY <1>3 DEF HeaderOK
  <2> QED BY <2>1 DEF SdOf
<1> HIDE DEF k
<1>5. d \in SdSet(Len(all)) /\ d.seg = Len(segs) + k /\ d.seg # 0
  <2>1. Len(segs) + k \in 0 .. Len(all) /\ Len(segs) + k # 0
    BY <1>1, <1>2, <1>3
  <2> QED BY <1>4, <2>1 DEF SdSet
<1>6. t \in TableSet(Len(all)) /\ Sound(all, t.sds, t.ldt)
  BY DEF Given
<1>7. u = alloc_any(t, d, all) /\ d = SdOf(h, im, n + 1)
  OBVIOUS
<1> HIDE DEF all, d
<1>8. PICK i \in Ids : t.sds[i] = NoSd /\ u = emplace(t, i, d, all)
  BY <1>6, <1>7, AllocAny
<1>9. Unshared(all, t.sds, d)
  <2> USE DEF Unshared
  <2>1. CASE h.flat
    <3>1. im.segs[k].flat
      BY <1>3, <2>1 DEF ImageOK
    <3> QED BY <1>2, <1>3, <1>5, <3>1
  <2>2. CASE ~h.flat
    <3> SUFFICES ASSUME NEW j \in Ids, t.sds[j] # NoSd PROVE t.sds[j].seg # d.seg
      OBVIOUS
    <3>1. k = n + 1
      BY <1>3, <2>2 DEF ImageOK, k
    <3>2. t.sds[j].seg <= Len(segs) \/ \E m \in 1 .. n : t.sds[j].seg = Len(segs) + im.of[m]
      BY DEF Given
    <3>3. \A m \in 1 .. n : im.of[m] = m
      <4>1. \A m \in 1 .. n : m \in 1 .. Len(h.sizes)
        BY <1>3 DEF HeaderOK
      <4> QED BY <2>2, <4>1 DEF ImageOK
    <3>4. CASE t.sds[j].seg <= Len(segs)
      BY <1>1, <1>5, <3>1, <3>4
    <3>5. CASE \E m \in 1 .. n : t.sds[j].seg = Len(segs) + im.of[m]
      <4>1. PICK m \in 1 .. n : t.sds[j].seg = Len(segs) + m
        BY <3>3, <3>5
      <4> QED BY <1>1, <1>5, <3>1, <4>1
    <3> QED BY <3>2, <3>4, <3>5
  <2> QED BY <2>1, <2>2
<1>10. u \in TableSet(Len(all)) /\ Sound(all, u.sds, u.ldt) /\ Placed(t, u, i, d, all)
  <2>1. /\ t \in TableSet(Len(all)) /\ Sound(all, t.sds, t.ldt) /\ t.sds[i] = NoSd
        /\ d \in SdSet(Len(all)) /\ d.seg # 0 /\ u = emplace(t, i, d, all)
    BY <1>5, <1>6, <1>8
  <2> DEFINE v == emplace(t, i, d, all)
  <2>2. v \in TableSet(Len(all)) /\ Sound(all, v.sds, v.ldt) /\ Placed(t, v, i, d, all)
    BY <1>9, <2>1, Emplaces
  <2>3. u = v
    BY <2>1
  <2> HIDE DEF v
  <2> QED BY <2>2, <2>3
<1>11. t.sds \in [Ids -> SdSet(Len(all))] /\ t.ids \in Seq(Ids) /\ Len(t.ids) = n
  BY <1>6 DEF TableSet, Given
<1>12. u.sds[i] = d /\ \A j \in Ids : j # i => u.sds[j] = t.sds[j]
  BY <1>10 DEF Placed
<1>13. Len(u.ids) = n + 1 /\ u.ids[n + 1] = i
       /\ \A j \in 1 .. n : u.ids[j] = t.ids[j] /\ t.ids[j] \in Ids
  BY <1>10, <1>11 DEF Placed
<1>14. d # NoSd
  BY <1>5 DEF NoSd
<1>15. ASSUME NEW j \in 1 .. n + 1 PROVE u.sds[u.ids[j]] = SdOf(h, im, j)
  <2>1. CASE j = n + 1
    BY <1>7, <1>12, <1>13, <2>1
  <2>2. CASE j \in 1 .. n
    <3>1. t.sds[t.ids[j]] = SdOf(h, im, j) /\ t.ids[j] \in Ids /\ u.ids[j] = t.ids[j]
      BY <1>13, <2>2 DEF Given
    <3>2. SdOf(h, im, j) # NoSd
      <4>1. j \in 1 .. Len(h.sizes)
        BY <1>3, <2>2 DEF HeaderOK
      <4>2. im.of[j] \in 1 .. Len(im.segs)
        BY <4>1 DEF ImageOK
      <4>3. Len(segs) + im.of[j] # 0
        BY <1>1, <1>2, <4>2
      <4> QED BY <4>3 DEF SdOf, NoSd
    <3>3. t.ids[j] # i
      BY <1>8, <3>1, <3>2
    <3> QED BY <1>12, <3>1, <3>3
  <2> QED BY <2>1, <2>2
<1>16. ASSUME NEW j \in Ids, sds[j] # NoSd PROVE u.sds[j] = sds[j]
  <2>1. t.sds[j] = sds[j]
    BY <1>16 DEF Given
  <2> QED BY <1>8, <1>12, <1>16, <2>1
<1>17. ASSUME NEW j \in Ids, u.sds[j] # NoSd
       PROVE  \/ u.sds[j].seg <= Len(segs)
              \/ \E m \in 1 .. n + 1 : u.sds[j].seg = Len(segs) + im.of[m]
  <2>1. CASE j = i
    <3>1. u.sds[j].seg = Len(segs) + im.of[n + 1] /\ n + 1 \in 1 .. n + 1
      BY <1>5, <1>12, <2>1 DEF k
    <3> QED BY <3>1
  <2>2. CASE j # i
    <3>1. u.sds[j] = t.sds[j] /\ t.sds[j] # NoSd
      BY <1>12, <1>17, <2>2
    <3>2. t.sds[j].seg <= Len(segs) \/ \E m \in 1 .. n : t.sds[j].seg = Len(segs) + im.of[m]
      BY <3>1 DEF Given
    <3>3. 1 .. n \subseteq 1 .. n + 1
      OBVIOUS
    <3> QED BY <3>1, <3>2, <3>3
  <2> QED BY <2>1, <2>2
<1> QED BY <1>10, <1>13, <1>15, <1>16, <1>17 DEF Given, all

(* A load gives all of them, or fails.                                     *)
LEMMA DescribedGives ==
    ASSUME Sound(segs, sds, ldt), NEW h, HeaderOK(h), NEW im, ImageOK(h, im),
           NEW u, u = Described(h, im), u.ok
    PROVE  Given(h, im, u, Len(h.sizes))
<1> DEFINE N == Len(h.sizes)
           all == segs \o im.segs
           Nxt(t, i) == IF t.ok THEN alloc_any(t, SdOf(h, im, i), all) ELSE t
           Upto(g, n) ==
              g = [i \in 0 .. n |-> IF i = 0 THEN Tables ELSE Nxt(g[i - 1], i)]
           S == {n \in Nat : \E g : Upto(g, n)}
<1>1. N \in Nat
  BY DEF HeaderOK
<1>2. 0 \in S
  <2> DEFINE g == [i \in 0 .. 0 |-> Tables]
  <2>1. Upto(g, 0)
    OBVIOUS
  <2> QED BY <2>1
<1>3. ASSUME NEW n \in Nat, n \in S PROVE n + 1 \in S
  <2>1. PICK g : Upto(g, n)
    BY <1>3
  <2> HIDE DEF Nxt
  <2> DEFINE k == [i \in 0 .. n + 1 |-> IF i = n + 1 THEN Nxt(g[n], n + 1) ELSE g[i]]
  <2>2. \A i \in 0 .. n + 1 : k[i] = IF i = 0 THEN Tables ELSE Nxt(k[i - 1], i)
    BY <2>1
  <2>3. k = [i \in 0 .. n + 1 |-> IF i = 0 THEN Tables ELSE Nxt(k[i - 1], i)]
    BY <2>2
  <2> HIDE DEF k
  <2>4. \E x : Upto(x, n + 1)
    BY <2>3
  <2> QED BY <2>4
<1> HIDE DEF S
<1>4. N \in S
  BY <1>1, <1>2, <1>3, NatSetInduction
<1>5. \E g : Upto(g, N)
  BY <1>4 DEF S
<1> DEFINE tables == CHOOSE g : Upto(g, N)
<1>6. Upto(tables, N)
  BY <1>5, Zenon
<1>7. u = tables[N]
  BY DEF Described, SdOf
<1>8. \A i \in 0 .. N : tables[i] = IF i = 0 THEN Tables ELSE Nxt(tables[i - 1], i)
  <2> HIDE DEF Nxt
  <2> QED BY <1>6
<1> HIDE DEF tables
<1> DEFINE V == {n \in Nat : n <= N /\ tables[n].ok => Given(h, im, tables[n], n)}
<1>9. 0 \in V
  <2>1. tables[0] = Tables
    BY <1>1, <1>8
  <2>2. im.segs \in Seq(SegmentSet) /\ \A k \in 1 .. Len(im.segs) : Well(im.segs[k])
    BY DEF ImageOK
  <2>3. Sound(all, sds, ldt)
    BY <2>2, Extends
  <2>4. Tables.sds = sds /\ Tables.ldt = ldt /\ Tables.ids = <<>>
    BY DEF Tables
  <2>5. Tables \in TableSet(Len(all))
    BY <2>3 DEF Tables, TableSet, Sound, TablesOK
  <2>6. \A i \in Ids : sds[i].seg <= Len(segs)
    BY DEF Sound, TablesOK, SdSet
  <2>7. Len(<<>>) = 0 /\ 1 .. 0 = {}
    OBVIOUS
  <2>8. Given(h, im, Tables, 0)
    BY <2>3, <2>4, <2>5, <2>6, <2>7 DEF Given
  <2> QED BY <2>1, <2>8
<1>10. ASSUME NEW n \in Nat, n \in V PROVE n + 1 \in V
  <2> SUFFICES ASSUME n + 1 <= N, tables[n + 1].ok PROVE Given(h, im, tables[n + 1], n + 1)
    OBVIOUS
  <2>1. n + 1 \in 0 .. N /\ n + 1 # 0 /\ (n + 1) - 1 = n /\ n <= N
    BY <1>1
  <2>2. tables[n + 1] = Nxt(tables[n], n + 1)
    <3> HIDE DEF Nxt
    <3> QED BY <1>8, <2>1
  <2>3. tables[n].ok
    BY <2>2
  <2>4. tables[n + 1] = alloc_any(tables[n], SdOf(h, im, n + 1), all)
    BY <2>2, <2>3
  <2>5. Given(h, im, tables[n], n)
    BY <1>10, <2>1, <2>3
  <2> QED BY <2>4, <2>5, GivesOne
<1> HIDE DEF V
<1>11. N \in V
  BY <1>1, <1>9, <1>10, NatSetInduction
<1> QED BY <1>1, <1>7, <1>11 DEF V

(* The descriptors of a header's segments are in use, and different where  *)
(* the segments are.                                                       *)
IdsOK(h, ids, sd) ==
    /\ \A a \in 1 .. Len(h.sizes) : ids[a] \in Ids /\ sd[ids[a]] # NoSd
    /\ ~h.flat => \A a, b \in 1 .. Len(h.sizes) : ids[a] = ids[b] => a = b

(* What was given, and is not given twice.                                 *)
LEMMA GivenIds ==
    ASSUME NEW h, HeaderOK(h), NEW im, ImageOK(h, im), Len(segs) \in Nat,
           NEW t, Given(h, im, t, Len(h.sizes))
    PROVE  IdsOK(h, t.ids, t.sds)
<1>1. ASSUME NEW a \in 1 .. Len(h.sizes)
      PROVE  /\ t.ids[a] \in Ids /\ t.sds[t.ids[a]] = SdOf(h, im, a)
             /\ im.of[a] \in 1 .. Len(im.segs)
             /\ SdOf(h, im, a).seg = Len(segs) + im.of[a]
  <2>1. t.ids \in Seq(Ids) /\ Len(t.ids) = Len(h.sizes)
    BY DEF Given, TableSet
  <2>2. t.ids[a] \in Ids
    BY <2>1
  <2> QED BY <2>2 DEF Given, ImageOK, SdOf
<1>2. ASSUME NEW a \in 1 .. Len(h.sizes) PROVE t.sds[t.ids[a]] # NoSd
  <2>1. Len(segs) + im.of[a] # 0
    BY <1>1 DEF ImageOK
  <2> QED BY <1>1, <2>1 DEF NoSd
<1>3. ASSUME ~h.flat, NEW a \in 1 .. Len(h.sizes), NEW b \in 1 .. Len(h.sizes), t.ids[a] = t.ids[b]
      PROVE  a = b
  <2>1. Len(segs) + im.of[a] = Len(segs) + im.of[b]
    BY <1>1, <1>3
  <2>2. im.of[a] = a /\ im.of[b] = b
    BY <1>3 DEF ImageOK
  <2>3. Len(h.sizes) \in Nat
    BY DEF HeaderOK
  <2> QED BY <2>1, <2>2, <2>3
<1> QED BY <1>1, <1>2, <1>3 DEF IdsOK

-----------------------------------------------------------------------------
(* What the guest was told.                                                *)

(* It stays true when segments grow and descriptors stay.                  *)
LEMMA GrantedStays ==
    ASSUME NEW ss, NEW sd, NEW ld, Sound(ss, sd, ld),
           NEW tt, NEW sd2, NEW ld2, Sound(tt, sd2, ld2), Len(ss) <= Len(tt),
           \A m \in 1 .. Len(ss) : ss[m].limit <= tt[m].limit,
           \A i \in Ids : sd[i] # NoSd => sd2[i] # NoSd /\ sd2[i].seg = sd[i].seg,
           NEW gr, GrantedFits(ss, sd, gr)
    PROVE  GrantedFits(tt, sd2, gr)
<1>1. gr \in [Ids -> Nat] /\ Len(ss) \in Nat /\ Len(tt) \in Nat
  BY DEF GrantedFits, Sound, TablesOK
<1>2. ASSUME NEW i \in Ids, sd2[i] # NoSd PROVE gr[i] <= tt[sd2[i].seg].limit
  <2>1. sd2[i].seg \in 1 .. Len(tt)
    BY <1>1, <1>2 DEF Sound, TablesOK, SdSet
  <2>2. tt[sd2[i].seg].limit \in Nat
    BY <2>1, WellFacts DEF Sound, SegmentSet
  <2>3. CASE sd[i] = NoSd
    <3>1. gr[i] <= 0 /\ gr[i] \in Nat
      BY <1>1, <2>3 DEF GrantedFits
    <3> QED BY <2>2, <3>1
  <2>4. CASE sd[i] # NoSd
    <3>1. gr[i] <= ss[sd[i].seg].limit /\ gr[i] \in Nat /\ sd2[i].seg = sd[i].seg
      BY <1>1, <2>4 DEF GrantedFits
    <3>2. sd[i].seg \in 1 .. Len(ss)
      BY <1>1, <2>4 DEF Sound, TablesOK, SdSet
    <3>3. ss[sd[i].seg].limit \in Nat
      BY <3>2, WellFacts DEF Sound, SegmentSet
    <3>4. ss[sd[i].seg].limit <= tt[sd[i].seg].limit
      BY <3>2
    <3> QED BY <2>2, <3>1, <3>3, <3>4
  <2> QED BY <2>3, <2>4
<1>3. ASSUME NEW i \in Ids, sd2[i] = NoSd PROVE gr[i] <= 0
  <2>1. sd[i] = NoSd
    BY <1>3
  <2> QED BY <2>1 DEF GrantedFits
<1> QED BY <1>1, <1>2, <1>3 DEF GrantedFits

(* A new answer.                                                           *)
LEMMA GrantedSet ==
    ASSUME NEW ss, NEW sd, NEW gr, GrantedFits(ss, sd, gr),
           NEW i \in Ids, NEW n \in Nat,
           n <= IF sd[i] # NoSd THEN ss[sd[i].seg].limit ELSE 0
    PROVE  GrantedFits(ss, sd, [gr EXCEPT ![i] = n])
<1> DEFINE g2 == [gr EXCEPT ![i] = n]
<1>1. g2 \in [Ids -> Nat] /\ g2[i] = n /\ \A j \in Ids : j # i => g2[j] = gr[j]
  BY DEF GrantedFits
<1> HIDE DEF g2
<1>2. ASSUME NEW j \in Ids PROVE g2[j] <= IF sd[j] # NoSd THEN ss[sd[j].seg].limit ELSE 0
  <2>1. CASE j = i
    BY <1>1, <2>1
  <2>2. CASE j # i
    BY <1>1, <2>2 DEF GrantedFits
  <2> QED BY <2>1, <2>2
<1>3. GrantedFits(ss, sd, g2)
  BY <1>1, <1>2 DEF GrantedFits
<1> QED BY <1>3 DEF g2

-----------------------------------------------------------------------------
(* The steps.                                                              *)

(* At the beginning there is nothing.                                      *)
LEMMA InitInv == Init => IInv
<1> SUFFICES ASSUME Init PROVE IInv
  OBVIOUS
<1>1. segs = <<>> /\ Len(segs) = 0 /\ segs \in Seq(SegmentSet)
  BY DEF Init
<1>2. \A i \in Ids : sds[i] = NoSd /\ ldt[i] = NoEntry /\ ldt[i].seg = 0
  BY DEF Init, NoEntry
<1>3. TablesOK(segs, sds, ldt)
  <2>1. NoSd \in SdSet(0)
    BY DEF NoSd, SdSet, Access
  <2>2. NoEntry \in EntrySet(0)
    <3>1. 0 \in -1 .. Mega1 - 1
      BY SegmentAssumption
    <3> QED BY <3>1 DEF NoEntry, EntrySet, Access
  <2>3. sds \in [Ids -> SdSet(0)] /\ ldt \in [Ids -> EntrySet(0)]
    BY <2>1, <2>2 DEF Init
  <2> QED BY <1>1, <1>2, <2>3 DEF TablesOK
<1>4. Sound(segs, sds, ldt)
  BY <1>1, <1>2, <1>3 DEF Sound, Alone, Backed, Installed, UpToDate
<1>5. InfoOK
  <2>1. info = NoInfo /\ phase = "exec"
    BY DEF Init
  <2>2. 0 \in Ids
    BY SegmentAssumption DEF Ids
  <2>3. /\ NoInfo.ss = 0 /\ NoInfo.ds = 0 /\ NoInfo.heap_start = 0 /\ NoInfo.b32 = FALSE
        /\ {"data", "brk"} \subseteq DOMAIN NoInfo
    BY DEF NoInfo
  <2>4. NoInfo.b32 \in BOOLEAN
    BY <2>3, Zenon
  <2> QED BY <2>1, <2>2, <2>3, <2>4 DEF InfoOK
<1>6. GrantedFits(segs, sds, granted)
  BY <1>2 DEF Init, GrantedFits
<1> QED BY <1>4, <1>5, <1>6 DEF IInv

(* An aborted process has the tables it had.                               *)
LEMMA AbortStep ==
    ASSUME IInv, Abort
    PROVE  IInv'
<1>1. Sound(segs, sds, ldt)' /\ GrantedFits(segs, sds, granted)'
  BY DEF IInv, Abort
<1>2. InfoOK'
  BY DEF IInv, Abort, InfoOK
<1> QED BY <1>1, <1>2 DEF IInv

(* A load: the tables stay sound and what was there stays.                 *)
LEMMA LoadStep ==
    ASSUME IInv, NEW h \in Execs \cup Libs, NEW slib \in BOOLEAN, loader_load(h, slib),
           NEW im, im = Image(h, slib), NEW D, D = Described(h, im)
    PROVE  /\ Sound(segs, sds, ldt)' /\ GrantedFits(segs, sds, granted)'
           /\ \A i \in Ids : sds[i] # NoSd => sds'[i] = sds[i]
           /\ IdsOK(h, D.ids, sds')
           /\ im.heap_start \in Nat
           /\ h.flat \/ (h.stackIx = h.heapIx /\ im.stack_low + im.stack_size <= Kilo64) =>
                im.stack_low + im.stack_size <= im.heap_start
<1>1. HeaderOK(h)
  BY HeaderAssumption
<1>2. /\ Loaded(im) /\ D.ok /\ segs' = segs \o im.segs
      /\ sds' = D.sds /\ ldt' = D.ldt /\ granted' = granted
  BY DEF loader_load
<1>3. Sound(segs, sds, ldt) /\ Len(segs) \in Nat /\ segs \in Seq(SegmentSet)
  BY DEF IInv, Sound, TablesOK
<1>4. /\ ImageOK(h, im) /\ im.heap_start \in Nat
      /\ h.flat \/ (h.stackIx = h.heapIx /\ im.stack_low + im.stack_size <= Kilo64) =>
           im.stack_low + im.stack_size <= im.heap_start
  BY <1>1, <1>2, ImageFacts DEF ImageOK
<1>5. Given(h, im, D, Len(h.sizes))
  BY <1>1, <1>2, <1>3, <1>4, DescribedGives
<1>6. /\ Sound(segs \o im.segs, D.sds, D.ldt)
      /\ \A i \in Ids : sds[i] # NoSd => D.sds[i] = sds[i]
  BY <1>5 DEF Given
<1>7. IdsOK(h, D.ids, D.sds)
  BY <1>1, <1>3, <1>4, <1>5, GivenIds
<1>8. GrantedFits(segs \o im.segs, D.sds, granted)
  <2> DEFINE all == segs \o im.segs
  <2>1. im.segs \in Seq(SegmentSet)
    BY <1>4 DEF ImageOK
  <2>2. Len(segs) <= Len(all) /\ \A m \in 1 .. Len(segs) : all[m] = segs[m]
    BY <1>3, <2>1
  <2>3. \A m \in 1 .. Len(segs) : segs[m].limit <= all[m].limit
    <3>1. \A m \in 1 .. Len(segs) : segs[m].limit \in Nat
      BY <1>3, WellFacts, SMTT(30) DEF Sound, SegmentSet
    <3> QED BY <2>2, <3>1
  <2>4. Sound(all, D.sds, D.ldt)
    BY <1>6
  <2> HIDE DEF all
  <2>5. \A i \in Ids : sds[i] # NoSd => D.sds[i] # NoSd /\ D.sds[i].seg = sds[i].seg
    BY <1>6
  <2>6. GrantedFits(segs, sds, granted)
    BY DEF IInv
  <2>7. GrantedFits(all, D.sds, granted)
    BY <1>3, <2>2, <2>3, <2>4, <2>5, <2>6, GrantedStays
  <2> QED BY <2>7 DEF all
<1> QED BY <1>2, <1>4, <1>6, <1>7, <1>8

(* The executable: where the stack and the heap are.                       *)
LEMMA ExecutableStep ==
    ASSUME IInv, NEW h \in Execs, load_executable(h)
    PROVE  IInv'
<1>1. CASE loader_fails(h, FALSE)
  BY <1>1, AbortStep DEF loader_fails
<1>2. CASE ~loader_fails(h, FALSE)
  <2> DEFINE im == Image(h, FALSE)
             D == Described(h, im)
  <2>1. /\ loader_load(h, FALSE) /\ phase' = "libs"
        /\ info' = [NoInfo EXCEPT
                    !.b32 = h.b32, !.flat = h.flat, !.entry = im.entry,
                    !.ss = D.ids[h.stackIx], !.ds = D.ids[h.heapIx],
                    !.stack_low = im.stack_low, !.stack_size = im.stack_size,
                    !.heap_start = im.heap_start]
    BY <1>2 DEF load_executable
  <2> HIDE DEF im, D
  <2>2. /\ Sound(segs, sds, ldt)' /\ GrantedFits(segs, sds, granted)'
        /\ \A a \in 1 .. Len(h.sizes) : D.ids[a] \in Ids /\ sds'[D.ids[a]] # NoSd
        /\ ~h.flat => \A a, b \in 1 .. Len(h.sizes) : D.ids[a] = D.ids[b] => a = b
        /\ im.heap_start \in Nat
        /\ h.flat \/ (h.stackIx = h.heapIx /\ im.stack_low + im.stack_size <= Kilo64) =>
                im.stack_low + im.stack_size <= im.heap_start
    <3>1. h \in Execs \cup Libs /\ FALSE \in BOOLEAN
      OBVIOUS
    <3>2. im = Image(h, FALSE) /\ D = Described(h, im)
      BY DEF im, D
    <3>3. loader_load(h, FALSE)
      BY <2>1
    <3>4. Sound(segs, sds, ldt)' /\ GrantedFits(segs, sds, granted)'
      BY <3>1, <3>2, <3>3, LoadStep
    <3>5. IdsOK(h, D.ids, sds')
      BY <3>1, <3>2, <3>3, LoadStep
    <3>6. /\ \A a \in 1 .. Len(h.sizes) : D.ids[a] \in Ids /\ sds'[D.ids[a]] # NoSd
          /\ ~h.flat => \A a, b \in 1 .. Len(h.sizes) : D.ids[a] = D.ids[b] => a = b
      BY <3>5 DEF IdsOK
    <3>7. im.heap_start \in Nat
      BY <3>1, <3>2, <3>3, LoadStep
    <3>8. h.flat \/ (h.stackIx = h.heapIx /\ im.stack_low + im.stack_size <= Kilo64) =>
                im.stack_low + im.stack_size <= im.heap_start
      BY <3>1, <3>2, <3>3, LoadStep
    <3> QED BY <3>4, <3>6, <3>7, <3>8
  <2>3. h.stackIx \in 1 .. Len(h.sizes) /\ h.heapIx \in 1 .. Len(h.sizes) /\ h.b32 \in BOOLEAN
    BY HeaderAssumption DEF HeaderOK
  <2>4. /\ info'.ss = D.ids[h.stackIx] /\ info'.ds = D.ids[h.heapIx]
        /\ info'.stack_low = im.stack_low /\ info'.stack_size = im.stack_size
        /\ info'.heap_start = im.heap_start
        /\ DOMAIN info' = DOMAIN NoInfo
    BY <2>1 DEF NoInfo
  <2>5. info'.flat = h.flat
    BY <2>1 DEF NoInfo
  <2>6. info'.b32 = h.b32
    BY <2>1 DEF NoInfo
  <2>7. {"data", "brk"} \subseteq DOMAIN info'
    BY <2>4 DEF NoInfo
  <2>8. /\ info'.ss \in Ids /\ info'.ds \in Ids /\ sds'[info'.ss] # NoSd
    BY <2>2, <2>3, <2>4
  <2>9. ASSUME info'.ss = info'.ds,
               info'.flat \/ info'.stack_low + info'.stack_size <= Kilo64
        PROVE  info'.stack_low + info'.stack_size <= info'.heap_start
    <3>1. CASE h.flat
      BY <2>2, <2>4, <3>1
    <3>2. CASE ~h.flat
      <4>1. h.stackIx = h.heapIx
        BY <2>2, <2>3, <2>4, <2>9, <3>2
      <4> QED BY <2>2, <2>4, <2>5, <2>9, <3>2, <4>1
    <3> QED BY <3>1, <3>2
  <2>10. info'.b32 \in BOOLEAN /\ info'.heap_start \in Nat
    BY <2>2, <2>3, <2>4, <2>6
  <2>11. InfoOK'
    BY <2>1, <2>7, <2>8, <2>9, <2>10 DEF InfoOK, Live
  <2> QED BY <2>2, <2>11 DEF IInv
<1> QED BY <1>1, <1>2

(* A library.                                                              *)
LEMMA LibraryStep ==
    ASSUME IInv, NEW h \in Libs, load_library(h)
    PROVE  IInv'
<1>1. CASE loader_fails(h, TRUE)
  BY <1>1, AbortStep DEF loader_fails
<1>2. CASE ~loader_fails(h, TRUE)
  <2>1. loader_load(h, TRUE) /\ info' = info /\ phase' = phase /\ phase = "libs"
    BY <1>2 DEF load_library
  <2>2. /\ Sound(segs, sds, ldt)' /\ GrantedFits(segs, sds, granted)'
        /\ \A i \in Ids : sds[i] # NoSd => sds'[i] = sds[i]
    <3>1. h \in Execs \cup Libs /\ TRUE \in BOOLEAN
      OBVIOUS
    <3> QED BY <2>1, <3>1, LoadStep
  <2>3. InfoOK'
    BY <2>1, <2>2 DEF IInv, InfoOK, Live
  <2> QED BY <2>2, <2>3 DEF IInv
<1> QED BY <1>1, <1>2

(* Running, the guest's break stays within the data segment when segments  *)
(* are only added or grown.                                                *)
LEMMA RunningInfo ==
    ASSUME IInv, phase = "run", UNCHANGED <<info, phase>>, Sound(segs, sds, ldt)',
           Len(segs) <= Len(segs'),
           \A m \in 1 .. Len(segs) : segs[m].limit <= segs'[m].limit
    PROVE  InfoOK'
<1>1. Len(segs) \in Nat /\ Len(segs') \in Nat
  BY DEF IInv, Sound, TablesOK
<1> DEFINE k == info.data
<1>2. k \in 1 .. Len(segs) /\ info.brk \in Nat /\ info.brk <= segs[k].limit
  BY DEF IInv, InfoOK
<1>3. k \in 1 .. Len(segs')
  BY <1>1, <1>2
<1>4. segs[k].limit \in Nat
  BY <1>2, WellFacts DEF IInv, Sound, SegmentSet
<1>5. segs'[k].limit \in Nat
  <2>1. Well(segs'[k])
    BY <1>3 DEF Sound
  <2> QED BY <2>1, WellFacts DEF SegmentSet
<1>6. info.brk <= segs'[k].limit
  BY <1>2, <1>4, <1>5
<1> QED BY <1>2, <1>3, <1>6 DEF IInv, InfoOK

(* proc_segment_alloc.                                                     *)
LEMMA AllocStep ==
    ASSUME IInv, NEW n \in Sizes, proc_segment_alloc(n)
    PROVE  IInv'
<1> DEFINE nbytes == IF info.b32 THEN n ELSE n % (2 * Kilo64)
           new == NewSegment(Mega1)
           s == grow_bytes(new, nbytes)
           d == [seg |-> Len(segs) + 1, access |-> "rw"]
           all == Append(segs, s)
           t == alloc_any(Tables, d, all)
<1>1. CASE Abort
  BY <1>1, AbortStep
<1>2. CASE ~Abort
  <2>1. /\ phase = "run" /\ s.ok /\ t.ok /\ segs' = all /\ sds' = t.sds /\ ldt' = t.ldt
        /\ granted' = [granted EXCEPT ![t.ids[1]] = s.limit]
        /\ UNCHANGED <<info, phase>>
    BY <1>2 DEF proc_segment_alloc
  <2>2. nbytes \in Nat
    <3>1. n \in Nat /\ 2 * Kilo64 \in Nat \ {0}
      BY SegmentAssumption
    <3>2. n % (2 * Kilo64) \in Nat
      BY <3>1, DivMod
    <3> QED BY <3>1, <3>2
  <2>3. Well(new) /\ PagesOK(new)
    <3>1. Mega1 \in 0 .. Mega1 * Page
      <4>1. Page \in Nat /\ Page >= 1 /\ Mega1 \in Nat
        BY SegmentAssumption
      <4> QED BY <4>1
    <3>2. Well(new)
      BY <3>1, NewWell
    <3> HIDE DEF new
    <3> QED BY <3>2 DEF Well
  <2> HIDE DEF nbytes, new
  <2>4. Well(s) /\ s \in SegmentSet
    <3>1. Well(s)
      BY <2>1, <2>2, <2>3, BytesGrow
    <3> HIDE DEF s
    <3> QED BY <3>1, WellFacts
  <2> HIDE DEF s
  <2>5. Sound(segs, sds, ldt) /\ segs \in Seq(SegmentSet) /\ Len(segs) \in Nat
    BY DEF IInv, Sound, TablesOK
  <2>6. /\ all = segs \o <<s>> /\ <<s>> \in Seq(SegmentSet) /\ Len(<<s>>) = 1
        /\ Len(all) = Len(segs) + 1 /\ all[Len(segs) + 1] = s
        /\ \A m \in 1 .. Len(segs) : all[m] = segs[m]
    BY <2>4, <2>5
  <2>7. Sound(all, sds, ldt)
    <3>1. \A m \in 1 .. Len(<<s>>) : Well(<<s>>[m])
      BY <2>4
    <3>2. Sound(segs \o <<s>>, sds, ldt)
      BY <2>5, <2>6, <3>1, Extends
    <3> HIDE DEF all
    <3> QED BY <2>6, <3>2
  <2>8. Tables \in TableSet(Len(all)) /\ Tables.sds = sds /\ Tables.ldt = ldt /\ Len(Tables.ids) = 0
    <3> HIDE DEF all
    <3> QED BY <2>7 DEF Tables, TableSet, Sound, TablesOK
  <2>9. d \in SdSet(Len(all)) /\ d.seg = Len(segs) + 1 /\ d.seg # 0
    <3> HIDE DEF all
    <3> QED BY <2>5, <2>6 DEF SdSet, Access
  <2>10. \A i \in Ids : sds[i].seg \in 0 .. Len(segs)
    BY <2>5 DEF Sound, TablesOK, SdSet
  <2> HIDE DEF all, d
  <2>11. t = alloc_any(Tables, d, all) /\ t.ok
    BY <2>1
  <2> HIDE DEF t
  <2>12. PICK i \in Ids : sds[i] = NoSd /\ t = emplace(Tables, i, d, all)
    BY <2>8, <2>11, AllocAny
  <2>13. Unshared(all, sds, d)
    BY <2>5, <2>9, <2>10 DEF Unshared
  <2>14. t \in TableSet(Len(all)) /\ Sound(all, t.sds, t.ldt) /\ Placed(Tables, t, i, d, all)
    <3> DEFINE v == emplace(Tables, i, d, all)
    <3>1. v \in TableSet(Len(all)) /\ Sound(all, v.sds, v.ldt) /\ Placed(Tables, v, i, d, all)
      BY <2>7, <2>8, <2>9, <2>12, <2>13, Emplaces
    <3>2. t = v
      BY <2>12
    <3> HIDE DEF v
    <3> QED BY <3>1, <3>2
  <2>15. t.sds[i] = d /\ t.ids[1] = i /\ \A j \in Ids : j # i => t.sds[j] = sds[j]
    BY <2>8, <2>14 DEF Placed
  <2>16. d # NoSd
    BY <2>9 DEF NoSd
  <2>17. Len(segs) <= Len(all) /\ \A m \in 1 .. Len(segs) : segs[m].limit <= all[m].limit
    <3>1. \A m \in 1 .. Len(segs) : segs[m].limit \in Nat
      BY <2>5, WellFacts, SMTT(30) DEF Sound, SegmentSet
    <3> QED BY <2>5, <2>6, <3>1
  <2>18. GrantedFits(all, t.sds, granted)
    <3>1. \A j \in Ids : sds[j] # NoSd => t.sds[j] # NoSd /\ t.sds[j].seg = sds[j].seg
      BY <2>12, <2>15
    <3>2. GrantedFits(segs, sds, granted)
      BY DEF IInv
    <3> QED BY <2>5, <2>14, <2>17, <3>1, <3>2, GrantedStays
  <2>19. GrantedFits(all, t.sds, [granted EXCEPT ![i] = s.limit])
    <3>1. s.limit \in Nat
      BY <2>4 DEF SegmentSet
    <3>2. t.sds[i] # NoSd /\ all[t.sds[i].seg].limit = s.limit
      BY <2>6, <2>9, <2>15, <2>16
    <3>3. s.limit <= IF t.sds[i] # NoSd THEN all[t.sds[i].seg].limit ELSE 0
      BY <3>1, <3>2
    <3> QED BY <2>18, <3>1, <3>3, GrantedSet
  <2>20. Sound(segs, sds, ldt)' /\ GrantedFits(segs, sds, granted)'
    BY <2>1, <2>14, <2>15, <2>19
  <2>21. InfoOK'
    <3>1. Len(segs) <= Len(segs') /\ \A m \in 1 .. Len(segs) : segs[m].limit <= segs'[m].limit
      BY <2>1, <2>17
    <3> QED BY <2>1, <2>20, <3>1, RunningInfo
  <2> QED BY <2>20, <2>21 DEF IInv
<1> QED BY <1>1, <1>2

(* proc_segment_realloc: a segment that is not flat has no other           *)
(* descriptor.                                                             *)
LEMMA ReallocStep ==
    ASSUME IInv, NEW i \in Ids, NEW n \in Sizes, proc_segment_realloc(i, n)
    PROVE  IInv'
<1> DEFINE d == sds[i]
           k == d.seg
           s == GrowTo(segs[k], n)
<1>1. CASE Abort
  BY <1>1, AbortStep
<1>2. CASE ~Abort
  <2>1. /\ phase = "run" /\ d # NoSd /\ s.ok /\ segs' = [segs EXCEPT ![k] = s]
        /\ ldt' = IF n > segs[k].limit
                  THEN [ldt EXCEPT ![i] = update_descriptors(d, s)] ELSE ldt
        /\ granted' = [granted EXCEPT ![i] = s.limit]
        /\ sds' = sds /\ UNCHANGED <<info, phase>>
    BY <1>2 DEF proc_segment_realloc, Live
  <2>2. n \in Nat
    BY SegmentAssumption
  <2>3. /\ Sound(segs, sds, ldt) /\ segs \in Seq(SegmentSet) /\ Len(segs) \in Nat
        /\ sds \in [Ids -> SdSet(Len(segs))] /\ GrantedFits(segs, sds, granted)
    BY DEF IInv, Sound, TablesOK
  <2>4. d \in SdSet(Len(segs)) /\ k \in 1 .. Len(segs) /\ k # 0
    <3>1. d \in SdSet(Len(segs)) /\ k # 0
      BY <2>1, <2>3 DEF Sound, TablesOK
    <3> QED BY <2>3, <3>1 DEF SdSet
  <2>5. Well(segs[k]) /\ PagesOK(segs[k]) /\ segs[k].limit \in Nat
    <3>1. Well(segs[k])
      BY <2>3, <2>4 DEF Sound
    <3>2. segs[k].limit \in Nat
      BY <3>1, WellFacts DEF SegmentSet
    <3> QED BY <3>1, <3>2 DEF Well
  <2>6. Well(s) /\ Grown(segs[k], s) /\ s \in SegmentSet
    <3>1. Well(s) /\ Grown(segs[k], s)
      BY <2>1, <2>2, <2>5, GrowToGrows
    <3> HIDE DEF s
    <3> QED BY <3>1, WellFacts
  <2>7. n > segs[k].limit \/ s = segs[k]
    BY DEF GrowTo
  <2> HIDE DEF s
  <2>8. s.limit \in Nat /\ segs[k].limit <= s.limit
    BY <2>6 DEF Grown, SegmentSet
  <2>9. /\ segs' \in Seq(SegmentSet) /\ Len(segs') = Len(segs) /\ segs'[k] = s
        /\ \A m \in 1 .. Len(segs) : m # k => segs'[m] = segs[m]
    BY <2>1, <2>3, <2>4, <2>6, SeqExcept
  <2>10. Sound(segs', sds, ldt')
    <3>1. CASE n > segs[k].limit
      <4>1. s.flat \/ \A j \in Ids : j # i /\ sds[j] # NoSd => sds[j].seg # k
        BY <2>1, <2>3, <2>6 DEF Sound, Alone, Grown
      <4>2. sds = [sds EXCEPT ![i] = d]
        BY <2>3
      <4>3. ldt' = [ldt EXCEPT ![i] = update_descriptors(d, s)]
        BY <2>1, <3>1
      <4>4. segs' = [segs EXCEPT ![d.seg] = s] /\ Grown(segs[d.seg], s) /\ d.seg # 0
        BY <2>1, <2>4, <2>6
      <4>5. Owns(sds, i, d, s)
        BY <4>1 DEF Owns
      <4> HIDE DEF d, k
      <4> QED BY <2>3, <2>4, <2>6, <4>2, <4>3, <4>4, <4>5, Installs
    <3>2. CASE ~(n > segs[k].limit)
      <4>1. s = segs[k] /\ ldt' = ldt
        BY <2>1, <2>7, <3>2
      <4>2. segs' = segs
        BY <2>1, <2>3, <2>4, <4>1
      <4> QED BY <2>3, <4>1, <4>2
    <3> QED BY <3>1, <3>2
  <2>11. \A m \in 1 .. Len(segs) : segs[m].limit <= segs'[m].limit
    <3>1. \A m \in 1 .. Len(segs) : segs[m].limit \in Nat
      BY <2>3, WellFacts DEF Sound, SegmentSet
    <3> QED BY <2>4, <2>8, <2>9, <3>1
  <2>12. GrantedFits(segs', sds, granted)
    <3>1. Len(segs) <= Len(segs')
      BY <2>3, <2>9
    <3>2. \A j \in Ids : sds[j] # NoSd => sds[j] # NoSd /\ sds[j].seg = sds[j].seg
      OBVIOUS
    <3> QED BY <2>3, <2>10, <2>11, <3>1, <3>2, GrantedStays
  <2>13. GrantedFits(segs', sds, [granted EXCEPT ![i] = s.limit])
    <3>1. s.limit <= IF sds[i] # NoSd THEN segs'[sds[i].seg].limit ELSE 0
      BY <2>1, <2>8, <2>9
    <3> QED BY <2>8, <2>12, <3>1, GrantedSet
  <2>14. Sound(segs, sds, ldt)' /\ GrantedFits(segs, sds, granted)'
    BY <2>1, <2>10, <2>13
  <2>15. InfoOK'
    <3>1. Len(segs) <= Len(segs')
      BY <2>3, <2>9
    <3> QED BY <2>1, <2>11, <2>14, <3>1, RunningInfo
  <2> QED BY <2>14, <2>15 DEF IInv
<1> QED BY <1>1, <1>2

(* proc_segment_free: the entry stays, and reaches no further than it did. *)
LEMMA FreeStep ==
    ASSUME IInv, NEW i \in Ids, proc_segment_free(i)
    PROVE  IInv'
<1>1. /\ phase = "run" /\ sds' = [sds EXCEPT ![i] = NoSd] /\ granted' = [granted EXCEPT ![i] = 0]
      /\ segs' = segs /\ ldt' = ldt /\ UNCHANGED <<info, phase>>
  BY DEF proc_segment_free
<1>2. /\ Sound(segs, sds, ldt) /\ segs \in Seq(SegmentSet) /\ Len(segs) \in Nat
      /\ sds \in [Ids -> SdSet(Len(segs))] /\ GrantedFits(segs, sds, granted)
  BY DEF IInv, Sound, TablesOK
<1>3. sds'[i] = NoSd /\ \A j \in Ids : j # i => sds'[j] = sds[j]
  BY <1>1, <1>2
<1>4. \A j \in Ids : sds'[j] # NoSd => sds'[j] = sds[j]
  BY <1>3
<1>5. TablesOK(segs, sds', ldt)
  <2>1. NoSd \in SdSet(Len(segs))
    BY <1>2 DEF NoSd, SdSet, Access
  <2>2. sds' \in [Ids -> SdSet(Len(segs))]
    BY <1>1, <1>2, <2>1
  <2> QED BY <1>2, <1>4, <2>2 DEF Sound, TablesOK
<1>6. Alone(segs, sds') /\ Installed(sds', ldt) /\ UpToDate(segs, sds', ldt)
  <2>1. Alone(segs, sds')
    BY <1>2, <1>4 DEF Sound, Alone
  <2>2. Installed(sds', ldt)
    BY <1>2, <1>4 DEF Sound, Installed
  <2>3. UpToDate(segs, sds', ldt)
    BY <1>2, <1>4 DEF Sound, UpToDate
  <2> QED BY <2>1, <2>2, <2>3
<1>7. Sound(segs, sds', ldt)
  BY <1>2, <1>5, <1>6 DEF Sound
<1>8. GrantedFits(segs, sds', granted')
  <2>1. granted' \in [Ids -> Nat] /\ granted'[i] = 0 /\ \A j \in Ids : j # i => granted'[j] = granted[j]
    BY <1>1, <1>2 DEF GrantedFits
  <2>2. ASSUME NEW j \in Ids
        PROVE  granted'[j] <= IF sds'[j] # NoSd THEN segs[sds'[j].seg].limit ELSE 0
    <3>1. CASE j = i
      BY <1>3, <2>1, <3>1
    <3>2. CASE j # i
      BY <1>2, <1>3, <2>1, <3>2 DEF GrantedFits
    <3> QED BY <3>1, <3>2
  <2> QED BY <2>1, <2>2 DEF GrantedFits
<1>9. Sound(segs, sds, ldt)' /\ GrantedFits(segs, sds, granted)'
  BY <1>1, <1>7, <1>8
<1>10. InfoOK'
  <2>1. Len(segs) <= Len(segs') /\ \A m \in 1 .. Len(segs) : segs[m].limit <= segs'[m].limit
    <3>1. \A m \in 1 .. Len(segs) : segs[m].limit \in Nat
      BY <1>2, WellFacts DEF Sound, SegmentSet
    <3> QED BY <1>1, <1>2, <3>1
  <2> QED BY <1>1, <1>9, <2>1, RunningInfo
<1> QED BY <1>9, <1>10 DEF IInv

(* proc_segment_flags.                                                     *)
LEMMA FlagsStep ==
    ASSUME IInv, NEW i \in Ids, NEW access \in Accesses, proc_segment_flags(i, access)
    PROVE  IInv'
<1> DEFINE d == [sds[i] EXCEPT !.access = access]
           k == sds[i].seg
           g == segs[k]
<1>1. /\ Sound(segs, sds, ldt) /\ segs \in Seq(SegmentSet) /\ Len(segs) \in Nat
      /\ sds \in [Ids -> SdSet(Len(segs))] /\ GrantedFits(segs, sds, granted)
  BY DEF IInv, Sound, TablesOK
<1>2. /\ phase = "run" /\ sds[i] # NoSd /\ sds' = [sds EXCEPT ![i] = d]
      /\ ldt' = [ldt EXCEPT ![i] = update_descriptors(sds'[i], g)]
      /\ segs' = segs /\ granted' = granted /\ UNCHANGED <<info, phase>>
  BY DEF proc_segment_flags, Live
<1>3. sds[i] \in SdSet(Len(segs)) /\ k # 0
  BY <1>1, <1>2 DEF Sound, TablesOK
<1>4. d \in SdSet(Len(segs)) /\ d.seg = k /\ k \in 1 .. Len(segs)
  <2>1. access \in Access
    BY HeaderAssumption
  <2> QED BY <1>1, <1>3, <2>1 DEF SdSet
<1>5. sds'[i] = d /\ \A j \in Ids : j # i => sds'[j] = sds[j]
  BY <1>1, <1>2
<1> HIDE DEF d
<1>6. Well(g) /\ Grown(g, g)
  <2>1. Well(g)
    BY <1>1, <1>4 DEF Sound
  <2>2. g.limit \in Nat /\ g.paged \in Nat
    BY <2>1, WellFacts DEF SegmentSet
  <2> QED BY <2>1, <2>2 DEF Grown
<1>7. Owns(sds, i, d, g)
  BY <1>1, <1>2, <1>4 DEF Sound, Alone, Owns
<1>8. segs = [segs EXCEPT ![d.seg] = g] /\ Grown(segs[d.seg], g) /\ d.seg # 0
  BY <1>1, <1>3, <1>4, <1>6
<1>9. ldt' = [ldt EXCEPT ![i] = update_descriptors(d, g)]
  BY <1>2, <1>5
<1>10. Sound(segs, sds', ldt')
  <2>1. sds' = [sds EXCEPT ![i] = d]
    BY <1>2
  <2> HIDE DEF g
  <2> QED BY <1>1, <1>4, <1>6, <1>7, <1>8, <1>9, <2>1, Installs
<1>11. \A m \in 1 .. Len(segs) : segs[m].limit <= segs[m].limit
  <2>1. \A m \in 1 .. Len(segs) : segs[m].limit \in Nat
    BY <1>1, WellFacts DEF Sound, SegmentSet
  <2> QED BY <2>1
<1>12. GrantedFits(segs, sds', granted)
  <2>1. d # NoSd
    BY <1>3, <1>4 DEF NoSd
  <2>2. \A j \in Ids : sds[j] # NoSd => sds'[j] # NoSd /\ sds'[j].seg = sds[j].seg
    BY <1>4, <1>5, <2>1
  <2>3. Len(segs) <= Len(segs)
    BY <1>1
  <2> QED BY <1>1, <1>10, <1>11, <2>2, <2>3, GrantedStays
<1>13. Sound(segs, sds, ldt)' /\ GrantedFits(segs, sds, granted)'
  BY <1>2, <1>10, <1>12
<1>14. InfoOK'
  <2>1. Len(segs) <= Len(segs') /\ \A m \in 1 .. Len(segs) : segs[m].limit <= segs'[m].limit
    BY <1>1, <1>2, <1>11
  <2> QED BY <1>2, <1>13, <2>1, RunningInfo
<1> QED BY <1>13, <1>14 DEF IInv

-----------------------------------------------------------------------------
(* Startup.                                                                *)

(* Alignment.                                                              *)
LEMMA AlignNat ==
    ASSUME NEW n \in Nat, NEW a \in Nat \ {0}
    PROVE  align_up(n, a) \in Nat
<1> DEFINE q == (n + a - 1) \div a
<1>1. n + a - 1 \in Nat
  OBVIOUS
<1>2. q \in Nat
  <2> DEFINE m == n + a - 1
  <2>1. m \in Nat
    BY <1>1
  <2> HIDE DEF m
  <2>2. m \div a \in Nat
    BY <2>1, DivMod
  <2> QED BY <2>2 DEF m
<1>3. align_up(n, a) = q * a
  BY DEF align_up
<1> HIDE DEF q
<1> QED BY <1>2, <1>3

(* The break.                                                              *)
LEMMA BreakNat ==
    ASSUME IInv, NEW u \in Startups
    PROVE  Break(u) \in Nat
<1>1. u.magic \in Nat /\ u.data \in Nat /\ Align \in Nat \ {0} /\ info.heap_start \in Nat
  BY HeaderAssumption, SegmentAssumption DEF IInv, InfoOK
<1> DEFINE a == align_up(info.heap_start, Align)
           b == align_up(a + u.magic, Align)
<1>2. a \in Nat
  BY <1>1, AlignNat
<1> HIDE DEF a
<1>3. a + u.magic \in Nat
  BY <1>1, <1>2
<1>4. b \in Nat
  BY <1>1, <1>3, AlignNat
<1>5. Break(u) = align_up(b + u.data, Align)
  BY DEF Break, a
<1> HIDE DEF b
<1>6. b + u.data \in Nat
  BY <1>1, <1>4
<1> QED BY <1>1, <1>5, <1>6, AlignNat

(* The magic pointer and the time fit in a page of their own.              *)
LEMMA SmallWell ==
    ASSUME NEW size \in 1 .. Page, NEW shared \in BOOLEAN
    PROVE  Well(SmallSegment(size, shared))
<1>1. Page \in Nat \ {0} /\ Mega1 \in Nat \ {0}
  BY SegmentAssumption
<1> DEFINE new == NewSegment(Page)
           g == grow_bytes(new, size)
           s == [g EXCEPT !.shared = shared]
<1>2. Page \in 0 .. Mega1 * Page
  BY <1>1
<1>3. Well(new) /\ new.limit = 0 /\ new.paged = 0 /\ new.reserved = PageUp(Page) /\ new.ok
  BY <1>2, NewWell DEF NewSegment
<1>4. Whole(Page) /\ PageUp(Page) = Page /\ PageUp(size) = Page
  <2>1. 1 * Page = Page
    BY <1>1
  <2>2. Whole(Page)
    BY <1>1, <2>1 DEF Whole
  <2>3. PageUp(Page) = Page
    BY <1>1, <2>2, PageUpFacts
  <2>4. size \in Nat /\ size <= Page /\ size # 0
    BY <1>1
  <2>5. Whole(PageUp(size)) /\ size <= PageUp(size) /\ PageUp(size) <= Page
    BY <1>1, <2>2, <2>4, PageUpFacts
  <2>6. PICK q \in Nat : PageUp(size) = q * Page
    BY <2>5 DEF Whole
  <2>7. q # 0
    BY <1>1, <2>4, <2>5, <2>6
  <2>8. q * Page >= Page
    BY <1>1, <2>6, <2>7
  <2>9. PageUp(size) \in Nat
    BY <2>5 DEF Whole
  <2> QED BY <1>1, <2>2, <2>3, <2>5, <2>6, <2>8, <2>9
<1>5. PagesOK(new)
  BY <1>3 DEF Well
<1> HIDE DEF new
<1>6. g.ok
  <2> DEFINE i == grow_paged_internal(new, Page)
  <2>1. size + new.limit = size /\ ~(size + new.limit > new.reserved) /\ size + new.limit > new.paged
        /\ PageUp(size) - new.paged = Page
    BY <1>1, <1>3, <1>4
  <2>2. g = [i EXCEPT !.limit = @ + size]
    BY <2>1, Zenon DEF grow_bytes
  <2>3. Page % Page = 0 /\ Page # 0 /\ ~(Page + new.paged > new.reserved)
    BY <1>1, <1>3, <1>4, WholeDiv
  <2>4. i = [new EXCEPT !.paged = @ + Page, !.bitmap = @ \o Pages(Page, TRUE)]
    BY <2>3, Zenon DEF grow_paged_internal
  <2>5. Page \in Nat /\ Page % Page = 0 /\ Page + new.paged <= new.reserved
    BY <1>1, <1>3, <1>4, <2>3
  <2>6. PagesOK(i) /\ i.ok = new.ok
    BY <1>5, <2>4, <2>5, MorePages
  <2> HIDE DEF i
  <2>7. g.ok = i.ok
    BY <2>2, <2>6 DEF PagesOK, SegmentSet
  <2> QED BY <1>3, <2>6, <2>7
<1>7. Well(g)
  <2>1. size \in Nat
    BY <1>1
  <2> QED BY <1>3, <1>5, <1>6, <2>1, BytesGrow
<1>8. SmallSegment(size, shared) = s
  BY DEF SmallSegment, new
<1> HIDE DEF g
<1>9. /\ s \in SegmentSet /\ s.limit = g.limit /\ s.paged = g.paged
      /\ s.reserved = g.reserved /\ s.bitmap = g.bitmap
  BY <1>7 DEF Well, PagesOK, SegmentSet
<1>10. s.ok = g.ok
  BY <1>7 DEF Well, PagesOK, SegmentSet
<1> HIDE DEF s
<1>11. Well(s)
  BY <1>7, <1>9, <1>10 DEF Well, PagesOK
<1> QED BY <1>8, <1>11

(* The segments after startup: the data segment has grown, and there are   *)
(* two more.  Its descriptor is as if written before the others are made.  *)
LEMMA StartupSegments ==
    ASSUME IInv, NEW u \in Startups, phase = "libs",
           NEW x, x = info.ss, NEW k, k = sds[x].seg,
           NEW ss, ss = StartupSegs(u), ss[k].ok
    PROVE  /\ sds[x] # NoSd /\ k \in 1 .. Len(segs) /\ Len(ss) = Len(segs) + 2
           /\ \A m \in 1 .. Len(segs) : segs[m].limit <= ss[m].limit
           /\ Break(u) <= ss[k].limit
           /\ Sound(ss, sds, [ldt EXCEPT ![x] = update_descriptors(sds[x], ss[k])])
<1> DEFINE d == sds[x]
           g == GrowTo(segs[k], Break(u))
           one == [segs EXCEPT ![k] = g]
           m1 == SmallSegment(PtrSize, info.b32)
           m2 == SmallSegment(TimeSize, FALSE)
           two == <<m1, m2>>
           ld2 == [ldt EXCEPT ![x] = update_descriptors(d, g)]
<1>1. x \in Ids /\ d # NoSd /\ info.b32 \in BOOLEAN
  BY DEF IInv, InfoOK, Live
<1>2. /\ Sound(segs, sds, ldt) /\ segs \in Seq(SegmentSet) /\ Len(segs) \in Nat
      /\ sds \in [Ids -> SdSet(Len(segs))]
  BY DEF IInv, Sound, TablesOK
<1>3. d \in SdSet(Len(segs)) /\ k \in 1 .. Len(segs) /\ k # 0 /\ d.seg = k
  <2>1. d \in SdSet(Len(segs)) /\ k # 0
    BY <1>1, <1>2 DEF Sound, TablesOK
  <2> QED BY <1>2, <2>1 DEF SdSet
<1>4. Well(segs[k]) /\ PagesOK(segs[k])
  <2>1. Well(segs[k])
    BY <1>2, <1>3 DEF Sound
  <2> QED BY <2>1 DEF Well
<1>5. ss = one \o two
  <2>1. info.ss = x /\ sds[info.ss].seg = k
    OBVIOUS
  <2> QED BY <2>1 DEF StartupSegs
<1>6. Break(u) \in Nat
  BY BreakNat
<1>7. PagesOK(g) /\ (g.ok => Well(g) /\ Grown(segs[k], g) /\
         g.limit = IF Break(u) > segs[k].limit THEN Break(u) ELSE segs[k].limit)
  BY <1>4, <1>6, GrowToGrows
<1>8. Well(m1) /\ Well(m2)
  <2>1. PtrSize \in 1 .. Page /\ TimeSize \in 1 .. Page /\ FALSE \in BOOLEAN
    BY SegmentAssumption
  <2>2. Well(m1)
    BY <1>1, <2>1, SmallWell
  <2>3. Well(m2)
    BY <2>1, SmallWell
  <2> QED BY <2>2, <2>3
<1> HIDE DEF g, m1, m2
<1>9. g \in SegmentSet /\ m1 \in SegmentSet /\ m2 \in SegmentSet
  <2>1. g \in SegmentSet
    BY <1>7 DEF PagesOK
  <2>2. m1 \in SegmentSet
    BY <1>8, WellFacts
  <2>3. m2 \in SegmentSet
    BY <1>8, WellFacts
  <2> QED BY <2>1, <2>2, <2>3
<1>10. /\ one \in Seq(SegmentSet) /\ Len(one) = Len(segs) /\ one[k] = g
       /\ \A m \in 1 .. Len(segs) : m # k => one[m] = segs[m]
  BY <1>2, <1>3, <1>9, SeqExcept
<1>11. two \in Seq(SegmentSet) /\ Len(two) = 2 /\ two[1] = m1 /\ two[2] = m2
  BY <1>9
<1>12. one = [segs EXCEPT ![k] = g]
  OBVIOUS
<1> HIDE DEF one, two
<1>13. Len(ss) = Len(segs) + 2 /\ \A m \in 1 .. Len(segs) : ss[m] = one[m]
  <2> DEFINE v == one \o two
  <2>1. Len(v) = Len(segs) + 2 /\ \A m \in 1 .. Len(segs) : v[m] = one[m]
    <3>1. \A p, q \in Seq(SegmentSet) :
              Len(p \o q) = Len(p) + Len(q) /\ \A m \in 1 .. Len(p) : (p \o q)[m] = p[m]
      OBVIOUS
    <3>2. Len(v) = Len(one) + Len(two) /\ \A m \in 1 .. Len(one) : v[m] = one[m]
      BY <1>10, <1>11, <3>1, Zenon
    <3> HIDE DEF v
    <3> QED BY <1>10, <1>11, <3>2
  <2>2. ss = v
    BY <1>5
  <2> HIDE DEF v
  <2> QED BY <2>1, <2>2
<1>14. ss[k] = g /\ g.ok
  BY <1>3, <1>10, <1>13
<1>15. Well(g) /\ Grown(segs[k], g)
       /\ g.limit = IF Break(u) > segs[k].limit THEN Break(u) ELSE segs[k].limit
  BY <1>7, <1>14
<1>16. Sound(one, sds, ld2)
  <2>1. Owns(sds, x, d, g)
    BY <1>1, <1>2, <1>3, <1>15 DEF Sound, Alone, Grown, Owns
  <2>2. sds = [sds EXCEPT ![x] = d]
    BY <1>2
  <2>3. one = [segs EXCEPT ![d.seg] = g] /\ Grown(segs[d.seg], g) /\ d.seg # 0
    BY <1>3, <1>12, <1>15
  <2>4. ld2 = [ldt EXCEPT ![x] = update_descriptors(d, g)]
    OBVIOUS
  <2>5. ASSUME NEW y \in Ids, y = x PROVE Sound(one, sds, ld2)
    <3>1. /\ Owns(sds, y, d, g)
          /\ sds = [sds EXCEPT ![y] = d] /\ ld2 = [ldt EXCEPT ![y] = update_descriptors(d, g)]
      BY <2>1, <2>2, <2>4, <2>5
    <3>2. d \in SdSet(Len(segs)) /\ Well(g) /\ Sound(segs, sds, ldt)
      BY <1>2, <1>3, <1>15
    <3> HIDE DEF d, g, one, ld2
    <3> QED BY <2>3, <3>1, <3>2, Installs
  <2> QED BY <1>1, <2>5
<1>17. Sound(ss, sds, ld2)
  <2>1. \A m \in 1 .. Len(two) : Well(two[m])
    <3>1. \A m \in 1 .. Len(two) : m = 1 \/ m = 2
      BY <1>11
    <3> QED BY <1>8, <1>11, <3>1
  <2> HIDE DEF ld2
  <2>2. Sound(one \o two, sds, ld2)
    BY <1>11, <1>16, <2>1, Extends
  <2> QED BY <1>5, <2>2
<1>18. \A m \in 1 .. Len(segs) : segs[m].limit \in Nat
  BY <1>2, WellFacts, SMTT(30) DEF Sound, SegmentSet
<1>19. ASSUME NEW m \in 1 .. Len(segs) PROVE segs[m].limit <= ss[m].limit
  <2>1. CASE m = k
    BY <1>14, <1>15, <2>1 DEF Grown
  <2>2. CASE m # k
    BY <1>10, <1>13, <1>18, <2>2
  <2> QED BY <2>1, <2>2
<1>20. Break(u) <= ss[k].limit
  BY <1>3, <1>6, <1>14, <1>15, <1>18
<1>21. ld2 = [ldt EXCEPT ![x] = update_descriptors(sds[x], ss[k])]
  BY <1>14
<1> HIDE DEF ld2
<1> QED BY <1>1, <1>3, <1>13, <1>17, <1>19, <1>20, <1>21

(* The tables after startup: the three entries are of different            *)
(* descriptors, and could have been written in any order.                  *)
LEMMA StartupDescriptors ==
    ASSUME IInv, NEW u \in Startups, phase = "libs",
           NEW x, x = info.ss, NEW k, k = sds[x].seg,
           NEW ss, ss = StartupSegs(u), ss[k].ok,
           NEW t, t = StartupTables(u), t.ok
    PROVE  /\ Sound(ss, t.sds, t.ldt)
           /\ \A i \in Ids : sds[i] # NoSd => t.sds[i] = sds[i]
<1> DEFINE N == Len(ss)
           e == update_descriptors(sds[x], ss[k])
           ld2 == [ldt EXCEPT ![x] = e]
           d1 == [seg |-> Len(segs) + 1, access |-> "ro"]
           d2 == [seg |-> Len(segs) + 2, access |-> "ro"]
           magic == alloc_exactly_at(Tables, MagicId, d1, ss)
           time == alloc_any(magic, d2, ss)
           T0 == [sds |-> sds, ldt |-> ld2, ids |-> <<>>, ok |-> TRUE]
<1>1. /\ sds[x] # NoSd /\ k \in 1 .. Len(segs) /\ N = Len(segs) + 2 /\ Sound(ss, sds, ld2)
  BY StartupSegments
<1>2. x \in Ids /\ MagicId \in Ids
  BY SegmentAssumption DEF IInv, InfoOK, Ids
<1>3. Sound(segs, sds, ldt) /\ Len(segs) \in Nat /\ N \in Nat
  BY <1>1 DEF IInv, Sound, TablesOK
<1>4. \A i \in Ids : sds[i].seg \in 0 .. Len(segs)
  BY <1>3 DEF Sound, TablesOK, SdSet
<1>5. /\ sds \in [Ids -> SdSet(N)] /\ ld2 \in [Ids -> EntrySet(N)] /\ ldt \in [Ids -> EntrySet(N)]
  <2>1. sds \in [Ids -> SdSet(N)] /\ ld2 \in [Ids -> EntrySet(N)]
    BY <1>1 DEF Sound, TablesOK
  <2>2. ldt \in [Ids -> EntrySet(Len(segs))]
    BY <1>3 DEF Sound, TablesOK
  <2>3. EntrySet(Len(segs)) \subseteq EntrySet(N)
    <3>1. 0 .. Len(segs) \subseteq 0 .. N
      BY <1>1, <1>3
    <3> QED BY <3>1 DEF EntrySet
  <2> QED BY <2>1, <2>2, <2>3
<1>6. /\ d1 \in SdSet(N) /\ d1.seg = Len(segs) + 1 /\ d1.seg # 0 /\ d1 # NoSd
      /\ d2 \in SdSet(N) /\ d2.seg = Len(segs) + 2 /\ d2.seg # 0
  <2>1. Len(segs) + 1 \in 0 .. N /\ Len(segs) + 2 \in 0 .. N /\ Len(segs) + 1 # 0 /\ Len(segs) + 2 # 0
    BY <1>1, <1>3
  <2> QED BY <2>1 DEF SdSet, Access, NoSd
<1>7. Well(ss[d1.seg]) /\ Well(ss[d2.seg])
  <2>1. Len(segs) + 1 \in 1 .. N /\ Len(segs) + 2 \in 1 .. N
    BY <1>1, <1>3
  <2> QED BY <1>1, <1>6, <2>1 DEF Sound
<1>8. /\ magic.ok /\ time.ok /\ t = [time EXCEPT !.ldt[x] = e]
  <2>1. t = IF magic.ok /\ time.ok THEN [time EXCEPT !.ldt[x] = e] ELSE [magic EXCEPT !.ok = FALSE]
    BY DEF StartupTables
  <2> HIDE DEF time, e
  <2>2. ASSUME ~(magic.ok /\ time.ok) PROVE FALSE
    <3>1. t = [magic EXCEPT !.ok = FALSE]
      BY <2>1, <2>2
    <3> DEFINE w == [magic EXCEPT !.ok = FALSE]
    <3>2. w.ok \in {FALSE, magic.ok} /\ ("ok" \in DOMAIN magic => w.ok = FALSE)
      <4> HIDE DEF magic
      <4> QED OBVIOUS
    <3>3. "ok" \in DOMAIN magic
      BY DEF alloc_exactly_at, emplace, Tables
    <3> QED BY <3>1, <3>2, <3>3
  <2> QED BY <2>1, <2>2
<1>9. Tables \in TableSet(N) /\ Tables.sds = sds /\ Tables.ldt = ldt
  <2> HIDE DEF N
  <2> QED BY <1>5 DEF Tables, TableSet
<1>10. T0 \in TableSet(N) /\ T0.sds = sds /\ T0.ldt = ld2
  <2> HIDE DEF N, ld2
  <2> QED BY <1>5 DEF TableSet
<1>11. sds[MagicId] = NoSd /\ magic = emplace(Tables, MagicId, d1, ss)
  <2>1. magic = IF sds[MagicId] # NoSd THEN [Tables EXCEPT !.ok = FALSE]
                ELSE emplace(Tables, MagicId, d1, ss)
    BY <1>9 DEF alloc_exactly_at
  <2> HIDE DEF magic, d1, N
  <2>2. sds[MagicId] = NoSd
    <3> SUFFICES ASSUME sds[MagicId] # NoSd PROVE FALSE
      OBVIOUS
    <3>1. magic = [Tables EXCEPT !.ok = FALSE]
      BY <2>1
    <3>2. [Tables EXCEPT !.ok = FALSE].ok = FALSE
      BY DEF Tables
    <3> QED BY <1>8, <3>1, <3>2
  <2> QED BY <2>1, <2>2
<1> HIDE DEF N, e, ld2, d1, d2, magic, T0
<1>12. magic \in TableSet(N) /\ Placed(Tables, magic, MagicId, d1, ss)
  BY <1>2, <1>3, <1>6, <1>7, <1>9, <1>11, EmplaceFields
<1>13. PICK j \in Ids : magic.sds[j] = NoSd /\ time = emplace(magic, j, d2, ss)
  BY <1>8, <1>12, AllocAny
<1> HIDE DEF time
<1>14. time \in TableSet(N) /\ Placed(magic, time, j, d2, ss)
  BY <1>3, <1>6, <1>7, <1>12, <1>13, EmplaceFields
<1> DEFINE T1 == emplace(T0, MagicId, d1, ss)
           T2 == emplace(T1, j, d2, ss)
<1>15. T1 \in TableSet(N) /\ Sound(ss, T1.sds, T1.ldt) /\ Placed(T0, T1, MagicId, d1, ss)
  <2>1. Unshared(ss, T0.sds, d1)
    <3>1. \A i \in Ids : sds[i].seg # d1.seg
      BY <1>3, <1>4, <1>6
    <3> QED BY <1>10, <3>1 DEF Unshared
  <2>2. T0 \in TableSet(Len(ss)) /\ d1 \in SdSet(Len(ss)) /\ Sound(ss, T0.sds, T0.ldt)
        /\ T0.sds[MagicId] = NoSd
    BY <1>1, <1>6, <1>10, <1>11 DEF N
  <2>3. T1 \in TableSet(Len(ss)) /\ Sound(ss, T1.sds, T1.ldt) /\ Placed(T0, T1, MagicId, d1, ss)
    BY <1>2, <1>6, <2>1, <2>2, Emplaces
  <2> HIDE DEF T1
  <2> QED BY <2>3 DEF N
<1> HIDE DEF T1
<1>16. /\ T1.sds[MagicId] = d1 /\ magic.sds[MagicId] = d1
       /\ T1.ldt[MagicId] = magic.ldt[MagicId]
       /\ \A i \in Ids : i # MagicId =>
             /\ T1.sds[i] = sds[i] /\ magic.sds[i] = sds[i]
             /\ T1.ldt[i] = ld2[i] /\ magic.ldt[i] = ldt[i]
  BY <1>9, <1>10, <1>12, <1>15 DEF Placed
<1>17. T1.sds[j] = NoSd
  BY <1>13, <1>16
<1>18. T2 \in TableSet(N) /\ Sound(ss, T2.sds, T2.ldt) /\ Placed(T1, T2, j, d2, ss)
  <2>1. Unshared(ss, T1.sds, d2)
    <3>1. \A i \in Ids : T1.sds[i].seg # d2.seg
      <4>1. \A i \in Ids : i # MagicId => T1.sds[i].seg \in 0 .. Len(segs)
        BY <1>4, <1>16
      <4>2. T1.sds[MagicId].seg = Len(segs) + 1
        BY <1>6, <1>16
      <4> QED BY <1>3, <1>6, <4>1, <4>2
    <3> QED BY <3>1 DEF Unshared
  <2>2. T1 \in TableSet(Len(ss)) /\ d2 \in SdSet(Len(ss)) /\ Sound(ss, T1.sds, T1.ldt)
    BY <1>6, <1>15 DEF N
  <2>3. T2 \in TableSet(Len(ss)) /\ Sound(ss, T2.sds, T2.ldt) /\ Placed(T1, T2, j, d2, ss)
    BY <1>6, <1>17, <2>1, <2>2, Emplaces
  <2> HIDE DEF T2
  <2> QED BY <2>3 DEF N
<1> HIDE DEF T2
<1>19. /\ T2.sds[j] = d2 /\ time.sds[j] = d2 /\ T2.ldt[j] = time.ldt[j]
       /\ \A i \in Ids : i # j =>
             /\ T2.sds[i] = T1.sds[i] /\ time.sds[i] = magic.sds[i]
             /\ T2.ldt[i] = T1.ldt[i] /\ time.ldt[i] = magic.ldt[i]
  BY <1>14, <1>18 DEF Placed
<1>20. x # MagicId /\ x # j
  <2>1. x # MagicId
    BY <1>1, <1>11
  <2>2. magic.sds[x] = sds[x]
    BY <1>2, <1>16, <2>1
  <2> QED BY <1>1, <1>13, <2>1, <2>2
<1>21. /\ time.sds \in [Ids -> SdSet(N)] /\ time.ldt \in [Ids -> EntrySet(N)]
       /\ T2.sds \in [Ids -> SdSet(N)] /\ T2.ldt \in [Ids -> EntrySet(N)]
  BY <1>14, <1>18 DEF TableSet
<1>22. t.sds = time.sds /\ t.ldt = [time.ldt EXCEPT ![x] = e]
  BY <1>8, <1>14 DEF TableSet
<1>23. t.sds = T2.sds
  <2>1. \A i \in Ids : time.sds[i] = T2.sds[i]
    BY <1>16, <1>19
  <2>2. time.sds = T2.sds
    BY <1>21, <2>1
  <2> QED BY <1>22, <2>2
<1>24. t.ldt = T2.ldt
  <2> DEFINE w == [time.ldt EXCEPT ![x] = e]
  <2>1. DOMAIN w = Ids /\ w[x] = e /\ \A i \in Ids : i # x => w[i] = time.ldt[i]
    BY <1>2, <1>21
  <2>2. ld2[x] = e /\ \A i \in Ids : i # x => ld2[i] = ldt[i]
    BY <1>2, <1>5 DEF ld2
  <2>3. w = [i \in Ids |-> w[i]] /\ T2.ldt = [i \in Ids |-> T2.ldt[i]]
    BY <1>21
  <2>4. t.ldt = w
    BY <1>22
  <2> HIDE DEF w
  <2>5. ASSUME NEW i \in Ids PROVE w[i] = T2.ldt[i]
    <3>1. CASE i = x
      BY <1>2, <1>16, <1>19, <1>20, <2>1, <2>2, <3>1
    <3>2. CASE i # x
      BY <1>16, <1>19, <2>1, <2>2, <3>2
    <3> QED BY <3>1, <3>2
  <2>6. w = T2.ldt
    BY <2>3, <2>5
  <2> QED BY <2>4, <2>6
<1>25. ASSUME NEW i \in Ids, sds[i] # NoSd PROVE t.sds[i] = sds[i]
  <2>1. i # MagicId
    BY <1>11, <1>25
  <2>2. T1.sds[i] = sds[i]
    BY <1>16, <2>1
  <2>3. i # j
    BY <1>17, <1>25, <2>2
  <2> QED BY <1>19, <1>23, <2>2, <2>3
<1> QED BY <1>18, <1>23, <1>24, <1>25

(* setup_startup_context.                                                  *)
LEMMA StartupStep ==
    ASSUME IInv, NEW u \in Startups, setup_startup_context(u)
    PROVE  IInv'
<1> DEFINE x == info.ss
           k == sds[x].seg
           ss == StartupSegs(u)
           t == StartupTables(u)
<1>1. /\ phase = "libs" /\ ss[k].ok /\ t.ok /\ segs' = ss /\ sds' = t.sds /\ ldt' = t.ldt
      /\ info' = [info EXCEPT !.data = k, !.brk = Break(u)]
      /\ granted' = [granted EXCEPT ![x] = segs'[k].limit] /\ phase' = "run"
  BY DEF setup_startup_context, CanStart
<1>2. x = info.ss /\ k = sds[x].seg /\ ss = StartupSegs(u) /\ t = StartupTables(u)
  OBVIOUS
<1>3. x \in Ids /\ {"data", "brk"} \subseteq DOMAIN info
  BY DEF IInv, InfoOK
<1> HIDE DEF x, k, ss, t
<1>4. /\ sds[x] # NoSd /\ k \in 1 .. Len(segs) /\ Len(ss) = Len(segs) + 2
      /\ \A m \in 1 .. Len(segs) : segs[m].limit <= ss[m].limit
      /\ Break(u) <= ss[k].limit
  BY <1>1, <1>2, StartupSegments
<1>5. Sound(ss, t.sds, t.ldt) /\ \A i \in Ids : sds[i] # NoSd => t.sds[i] = sds[i]
  BY <1>1, <1>2, StartupDescriptors
<1>6. Sound(segs, sds, ldt) /\ Len(segs) \in Nat /\ GrantedFits(segs, sds, granted)
  BY DEF IInv, Sound, TablesOK
<1>7. GrantedFits(ss, t.sds, granted)
  <2>1. Len(segs) <= Len(ss)
    BY <1>4, <1>6
  <2>2. \A i \in Ids : sds[i] # NoSd => t.sds[i] # NoSd /\ t.sds[i].seg = sds[i].seg
    BY <1>5
  <2> QED BY <1>4, <1>5, <1>6, <2>1, <2>2, GrantedStays
<1>8. ss[k].limit \in Nat /\ k \in 1 .. Len(ss)
  <2>1. k \in 1 .. Len(ss)
    BY <1>4, <1>6
  <2>2. Well(ss[k])
    BY <1>5, <2>1 DEF Sound
  <2> QED BY <2>1, <2>2, WellFacts DEF SegmentSet
<1>9. GrantedFits(ss, t.sds, [granted EXCEPT ![x] = ss[k].limit])
  <2>1. t.sds[x] # NoSd /\ t.sds[x].seg = k
    BY <1>2, <1>3, <1>4, <1>5
  <2>2. ss[k].limit <= IF t.sds[x] # NoSd THEN ss[t.sds[x].seg].limit ELSE 0
    BY <1>8, <2>1
  <2> QED BY <1>3, <1>7, <1>8, <2>2, GrantedSet
<1>10. Sound(segs, sds, ldt)' /\ GrantedFits(segs, sds, granted)'
  BY <1>1, <1>5, <1>9
<1>11. InfoOK'
  <2>1. /\ info'.ss = info.ss /\ info'.ds = info.ds /\ DOMAIN info' = DOMAIN info
        /\ info'.heap_start = info.heap_start
        /\ info'.stack_low = info.stack_low /\ info'.stack_size = info.stack_size
        /\ info'.data = k /\ info'.brk = Break(u)
    BY <1>1, <1>3
  <2>2. info'.flat = info.flat
    BY <1>1, <1>3
  <2>3. info'.b32 = info.b32
    BY <1>1, <1>3
  <2>4. Break(u) \in Nat
    BY BreakNat
  <2>5. info'.data \in 1 .. Len(segs') /\ info'.brk \in Nat /\ info'.brk <= segs'[info'.data].limit
    BY <1>1, <1>4, <1>8, <2>1, <2>4
  <2>6. info'.b32 \in BOOLEAN
    BY <2>3, Zenon DEF IInv, InfoOK
  <2>7. ASSUME info'.ss = info'.ds, info'.flat \/ info'.stack_low + info'.stack_size <= Kilo64
        PROVE  info'.stack_low + info'.stack_size <= info'.heap_start
    <3>1. info.flat \/ info.stack_low + info.stack_size <= Kilo64
      BY <2>1, <2>2, <2>7
    <3>2. info.stack_low + info.stack_size <= info.heap_start
      BY <1>1, <2>1, <2>7, <3>1 DEF IInv, InfoOK
    <3> QED BY <2>1, <3>2
  <2>8. /\ info'.ss \in Ids /\ info'.ds \in Ids /\ {"data", "brk"} \subseteq DOMAIN info'
        /\ info'.heap_start \in Nat
    BY <2>1 DEF IInv, InfoOK
  <2> QED BY <1>1, <2>5, <2>6, <2>7, <2>8 DEF InfoOK
<1> QED BY <1>10, <1>11 DEF IInv

-----------------------------------------------------------------------------
(* check_bounds.                                                           *)

(* Pages follow each other.                                                *)
LEMMA PageOrder ==
    ASSUME NEW p \in Nat, NEW q \in Nat, p < q
    PROVE  p * Page + Page <= q * Page
<1>1. Page \in Nat \ {0}
  BY SegmentAssumption
<1>2. (q - p) * Page >= Page /\ (q - p) * Page = q * Page - p * Page
  BY <1>1
<1>3. p * Page \in Nat /\ q * Page \in Nat
  BY <1>1
<1> QED BY <1>1, <1>2, <1>3

(* The page a byte is in.                                                  *)
LEMMA PageOf ==
    ASSUME NEW b \in Nat
    PROVE  b \div Page \in Nat /\ (b \div Page) * Page <= b /\ b < (b \div Page) * Page + Page
<1>1. Page \in Nat \ {0}
  BY SegmentAssumption
<1> DEFINE q == b \div Page
           r == b % Page
<1>2. q \in Nat /\ r \in 0 .. Page - 1 /\ b = q * Page + r
  BY <1>1, DivMod
<1> HIDE DEF q, r
<1>3. q * Page \in Nat
  BY <1>1, <1>2
<1>4. q * Page <= b /\ b < q * Page + Page
  BY <1>1, <1>2, <1>3
<1> QED BY <1>2, <1>4 DEF q

(* On pages or on bytes, the answer is the same for any range that is not  *)
(* empty.                                                                  *)
LEMMA BoundsAgree ==
    ASSUME NEW s, Well(s), NEW offset \in Nat, NEW n \in Nat \ {0}
    PROVE  check_bounds(s, offset, n) <=>
               \A b \in offset .. offset + n - 1 :
                   b < s.paged /\ s.bitmap[b \div Page + 1]
<1> DEFINE m == offset + n
           o == offset \div Page
           top == PageUp(m) \div Page
<1>1. Page \in Nat \ {0} /\ s.paged \in Nat
  BY WellFacts, SegmentAssumption DEF SegmentSet
<1>2. m \in Nat /\ offset <= m - 1
  OBVIOUS
<1>3. o \in Nat /\ o * Page <= offset /\ offset < o * Page + Page
  BY PageOf
<1>4. top \in Nat /\ m <= top * Page /\ top * Page < m + Page
  <2> HIDE DEF m
  <2>1. Whole(PageUp(m)) /\ m <= PageUp(m) /\ PageUp(m) < m + Page
    BY <1>2, PageUpFacts
  <2>2. PageUp(m) \in Nat
    BY <2>1 DEF Whole
  <2>3. top \in Nat /\ PageUp(m) = top * Page
    BY <2>1, <2>2, WholeDiv
  <2> QED BY <2>1, <2>3
<1>5. check_bounds(s, offset, n) <=>
         offset < s.paged /\ n <= s.paged - offset /\ \A p \in o .. top - 1 : s.bitmap[p + 1]
  BY DEF check_bounds
<1>6. o * Page \in Nat /\ top * Page \in Nat
  BY <1>1, <1>3, <1>4
<1> HIDE DEF o, top
<1>7. ASSUME offset < s.paged, n <= s.paged - offset, \A p \in o .. top - 1 : s.bitmap[p + 1],
             NEW b \in offset .. offset + n - 1
      PROVE  b < s.paged /\ s.bitmap[b \div Page + 1]
  <2> DEFINE c == b \div Page
  <2>1. b \in Nat /\ b < s.paged /\ b < m /\ offset <= b
    BY <1>1, <1>7
  <2>2. c \in Nat /\ c * Page <= b /\ b < c * Page + Page
    BY <2>1, PageOf
  <2> HIDE DEF c
  <2>3. c * Page \in Nat
    BY <1>1, <2>2
  <2>4. o <= c
    <3> SUFFICES ASSUME c < o PROVE FALSE
      BY <1>3, <2>2
    <3>1. c * Page + Page <= o * Page
      BY <1>3, <2>2, PageOrder
    <3> QED BY <1>1, <1>3, <1>6, <2>1, <2>2, <2>3, <3>1
  <2>5. c < top
    <3> SUFFICES ASSUME ~(c < top) PROVE FALSE
      OBVIOUS
    <3>1. top = c \/ top < c
      BY <1>4, <2>2
    <3>2. top * Page <= c * Page
      <4>1. CASE top = c
        BY <1>6, <4>1
      <4>2. CASE top < c
        <5>1. top * Page + Page <= c * Page
          BY <1>4, <2>2, <4>2, PageOrder
        <5> QED BY <1>1, <1>6, <2>3, <5>1
      <4> QED BY <3>1, <4>1, <4>2
    <3> QED BY <1>2, <1>4, <1>6, <2>1, <2>2, <2>3, <3>2
  <2>6. c \in o .. top - 1
    BY <1>3, <1>4, <2>2, <2>4, <2>5
  <2>7. s.bitmap[c + 1]
    BY <1>7, <2>6
  <2> QED BY <2>1, <2>7 DEF c
<1>8. ASSUME \A b \in offset .. offset + n - 1 : b < s.paged /\ s.bitmap[b \div Page + 1]
      PROVE  offset < s.paged /\ n <= s.paged - offset /\ \A p \in o .. top - 1 : s.bitmap[p + 1]
  <2>1. offset \in offset .. offset + n - 1 /\ offset + n - 1 \in offset .. offset + n - 1
    OBVIOUS
  <2>2. offset < s.paged /\ offset + n - 1 < s.paged
    BY <1>8, <2>1
  <2>3. n <= s.paged - offset
    BY <1>1, <2>2
  <2>4. ASSUME NEW p \in o .. top - 1 PROVE s.bitmap[p + 1]
    <3>1. p \in Nat /\ p < top /\ p * Page \in Nat
      BY <1>1, <1>3, <1>4
    <3>2. CASE p = o
      <4>1. s.bitmap[offset \div Page + 1]
        BY <1>8, <2>1
      <4> QED BY <3>2, <4>1 DEF o
    <3>3. CASE p # o
      <4>1. o < p
        BY <1>3, <3>1, <3>3
      <4>2. o * Page + Page <= p * Page
        BY <1>3, <3>1, <4>1, PageOrder
      <4>3. p * Page + Page <= top * Page
        BY <1>4, <3>1, PageOrder
      <4>4. offset < p * Page /\ p * Page < m
        BY <1>1, <1>2, <1>3, <1>4, <1>6, <3>1, <4>2, <4>3
      <4>5. p * Page \in offset .. offset + n - 1
        BY <3>1, <4>4
      <4>6. (p * Page) \div Page = p
        BY <3>1, WholeDiv
      <4> QED BY <1>8, <4>5, <4>6
    <3> QED BY <3>2, <3>3
  <2> QED BY <2>2, <2>3, <2>4
<1> QED BY <1>5, <1>7, <1>8

-----------------------------------------------------------------------------
(* The invariant and what it is for.                                       *)

(* Every step keeps it.                                                    *)
THEOREM Invariance == Spec => []IInv
<1>1. Init => IInv
  BY InitInv
<1>2. IInv /\ [Next]_vars => IInv'
  <2> SUFFICES ASSUME IInv, [Next]_vars PROVE IInv'
    OBVIOUS
  <2>1. CASE \E h \in Execs : load_executable(h)
    BY <2>1, ExecutableStep
  <2>2. CASE \E h \in Libs : load_library(h)
    BY <2>2, LibraryStep
  <2>3. CASE \E u \in Startups : setup_startup_context(u)
    BY <2>3, StartupStep
  <2>4. CASE \E u \in Startups : setup_fails(u)
    BY <2>4, AbortStep DEF setup_fails
  <2>5. CASE \E n \in Sizes : proc_segment_alloc(n)
    BY <2>5, AllocStep
  <2>6. CASE \E i \in Ids, n \in Sizes : proc_segment_realloc(i, n)
    BY <2>6, ReallocStep
  <2>7. CASE \E i \in Ids : proc_segment_free(i)
    BY <2>7, FreeStep
  <2>8. CASE \E i \in Ids, access \in Accesses : proc_segment_flags(i, access)
    BY <2>8, FlagsStep
  <2>9. CASE UNCHANGED vars
    <3>1. Sound(segs, sds, ldt)' /\ GrantedFits(segs, sds, granted)'
      BY <2>9 DEF vars, IInv
    <3>2. InfoOK'
      BY <2>9 DEF vars, IInv, InfoOK, Live
    <3> QED BY <3>1, <3>2 DEF IInv
  <2> QED BY <2>1, <2>2, <2>3, <2>4, <2>5, <2>6, <2>7, <2>8, <2>9 DEF Next
<1> QED BY <1>1, <1>2, PTL DEF Spec

(* Segments stay within their pages and these within their reservation,    *)
(* and the tables have the types of m_segment_descriptors and of the       *)
(* host's table (Segment, SegmentDescriptor).                              *)
THEOREM TypeCorrect == Spec => []TypeOK
<1>1. IInv => TypeOK
  <2> SUFFICES ASSUME IInv PROVE TypeOK
    OBVIOUS
  <2>1. Sound(segs, sds, ldt) /\ TablesOK(segs, sds, ldt) /\ InfoOK
    BY DEF IInv, Sound
  <2>2. DOMAIN segs = 1 .. Len(segs)
    BY <2>1 DEF TablesOK
  <2>3. \A k \in DOMAIN segs : SegmentOK(segs[k])
    <3> TAKE k \in DOMAIN segs
    <3>1. Well(segs[k])
      BY <2>1, <2>2 DEF Sound
    <3> QED BY <3>1, WellFacts
  <2>4. /\ sds \in [Ids -> [seg : 0 .. Len(segs), access : Access]]
        /\ ldt \in [Ids -> [seg : 0 .. Len(segs), access : Access,
                            limit : -1 .. Mega1 - 1, pages : BOOLEAN]]
    BY <2>1 DEF TablesOK, SdSet, EntrySet
  <2>5. /\ info.ss \in Ids /\ info.ds \in Ids
        /\ phase \in {"exec", "libs", "run", "ended"}
    BY <2>1 DEF InfoOK
  <2>6. granted \in [Ids -> Nat]
    BY DEF IInv, GrantedFits
  <2> QED BY <2>3, <2>4, <2>5, <2>6 DEF TypeOK
<1> QED BY <1>1, Invariance, PTL

(* However segments grow and descriptors are reused, no entry of the       *)
(* host's table lets the guest past the pages of its segment               *)
(* (update_descriptors, with every path to it).                            *)
THEOREM EntriesAlwaysBacked == Spec => []EntriesBacked
<1>1. IInv => EntriesBacked
  BY DEF IInv, Sound, Backed, EntriesBacked
<1> QED BY <1>1, Invariance, PTL

(* A descriptor the emulator knows is the one the guest has (IdMap,        *)
(* create_segment_descriptor_at).                                          *)
THEOREM AlwaysInstalled == Spec => []DescriptorsInstalled
<1>1. IInv => DescriptorsInstalled
  BY DEF IInv, Sound, Installed, DescriptorsInstalled, Live
<1> QED BY <1>1, Invariance, PTL

(* A guest can use every byte it was told it has (proc_segment_alloc and   *)
(* proc_segment_realloc, whichever kind of limit the size needs).          *)
THEOREM GrantedAlwaysReachable == Spec => []GrantedReachable
<1>1. IInv => GrantedReachable
  <2> SUFFICES ASSUME IInv, NEW i \in Ids, sds[i] # NoSd, ~segs[sds[i].seg].flat
               PROVE  granted[i] <= Reach(ldt[i])
    BY DEF GrantedReachable, Live
  <2> DEFINE s == segs[sds[i].seg]
             n == Len(segs)
  <2>1. Sound(segs, sds, ldt) /\ n \in Nat /\ sds[i] \in SdSet(n) /\ ldt[i] \in EntrySet(n)
    BY DEF IInv, Sound, TablesOK
  <2>2. sds[i].seg \in 1 .. n
    BY <2>1 DEF Sound, TablesOK, SdSet
  <2>3. Well(s)
    BY <2>1, <2>2 DEF Sound
  <2>4. ldt[i] = update_descriptors(sds[i], s)
    BY <2>1 DEF Sound, UpToDate
  <2>5. granted[i] \in Nat /\ granted[i] <= s.limit
    BY DEF IInv, GrantedFits
  <2> HIDE DEF s, n
  <2>6. s.limit \in Nat
    BY <2>3, WellFacts DEF SegmentSet
  <2>7. s.limit <= Reach(ldt[i])
    BY <2>1, <2>3, <2>4, EntryFacts
  <2>8. Reach(ldt[i]) \in Int
    BY <2>1, ReachInt
  <2> QED BY <2>5, <2>6, <2>7, <2>8
<1> QED BY <1>1, Invariance, PTL

(* A pointer the guest passes is accepted exactly when each of its bytes   *)
(* is backed (Segment::check_bounds, which looks at pages).                *)
THEOREM BoundsAlwaysExact == Spec => []BoundsExact
<1>1. IInv => BoundsExact
  <2> SUFFICES ASSUME IInv, NEW k \in DOMAIN segs, NEW offset \in 0 .. segs[k].paged,
                      NEW n \in {1, Page, Page + 1}
               PROVE  check_bounds(segs[k], offset, n) <=>
                        \A b \in offset .. offset + n - 1 :
                            b < segs[k].paged /\ segs[k].bitmap[b \div Page + 1]
    BY DEF BoundsExact
  <2> DEFINE s == segs[k]
  <2>1. Well(s)
    BY DEF IInv, Sound, TablesOK
  <2>2. s.paged \in Nat
    <3> HIDE DEF s
    <3> QED BY <2>1, WellFacts DEF SegmentSet
  <2>3. offset \in Nat /\ n \in Nat \ {0}
    BY <2>2, SegmentAssumption
  <2>4. check_bounds(s, offset, n) <=>
           \A b \in offset .. offset + n - 1 : b < s.paged /\ s.bitmap[b \div Page + 1]
    <3> HIDE DEF s
    <3> QED BY <2>1, <2>3, BoundsAgree
  <2> QED BY <2>4
<1> QED BY <1>1, Invariance, PTL

(* What startup puts in the data segment is above the stack and within the *)
(* segment, for every header and every size of arguments and environment   *)
(* (finalize_segments, StartupSbrk).                                       *)
THEOREM StartupAlwaysApart == Spec => []StartupApart
<1>1. IInv => StartupApart
  BY DEF IInv, InfoOK, StartupApart
<1> QED BY <1>1, Invariance, PTL
=============================================================================
