------------------------------ MODULE Induction -----------------------------
(***************************************************************************)
(* Least elements and induction over the naturals and over sequences, for  *)
(* a set and not for an operator, as the proofs of this project use them,  *)
(* and what they show: of FlattenSeq, of functions defined by a loop over  *)
(* a sequence (IsLoop), and of prefixes of sequences.                      *)
(***************************************************************************)
EXTENDS Integers, SequencesExt, SequenceTheorems, WellFoundedInduction, TLAPS

(* A set of naturals has a least element.                                  *)
LEMMA LeastNat ==
  ASSUME NEW S, S \subseteq Nat, S # {}
  PROVE  \E m \in S : \A n \in S : m <= n
<1> DEFINE R == {ss \in Nat \X Nat : ss[1] < ss[2]}
<1>1. IsWellFoundedOn(R, Nat)
    BY NatLessThanWellFounded DEF OpToRel
<1>2. \A a, b \in Nat : a < b => <<a, b>> \in R
    OBVIOUS
<1> HIDE DEF R
<1>3. PICK m \in S : \A n \in S : ~(<<n, m>> \in R)
    BY <1>1, WFMin
<1>4. ASSUME NEW n \in S PROVE m <= n
  <2>1. n \in Nat /\ m \in Nat /\ ~(<<n, m>> \in R)
      BY <1>3
  <2>2. ~(n < m)
      BY <1>2, <2>1, Zenon
  <2> QED BY <2>1, <2>2
<1> QED BY <1>4

(* Induction: a set with 0 and with the successor of each natural in it    *)
(* has all of them.                                                        *)
LEMMA NatSetInduction ==
  ASSUME NEW S, 0 \in S, \A n \in Nat : n \in S => n + 1 \in S
  PROVE  Nat \subseteq S
<1> SUFFICES ASSUME Nat \ S # {} PROVE FALSE
    OBVIOUS
<1>1. PICK m \in Nat \ S : \A n \in Nat \ S : m <= n
    BY LeastNat
<1>2. m # 0 /\ m - 1 \in Nat
    BY <1>1
<1>3. m - 1 \in S
    BY <1>1, <1>2
<1> QED BY <1>1, <1>2, <1>3

(* The same for sequences: the empty one, and what is appended.            *)
LEMMA SeqSetInduction ==
  ASSUME NEW S, NEW P, <<>> \in P,
         \A s \in Seq(S), e \in S : s \in P => Append(s, e) \in P
  PROVE  Seq(S) \subseteq P
<1> DEFINE N == {n \in Nat : \A s \in Seq(S) : Len(s) = n => s \in P}
<1>1. 0 \in N
  <2>1. ASSUME NEW s \in Seq(S), Len(s) = 0 PROVE s = <<>>
    BY <2>1
  <2> QED BY <2>1
<1>2. ASSUME NEW n \in Nat, n \in N PROVE n + 1 \in N
  <2>1. ASSUME NEW s \in Seq(S), Len(s) = n + 1 PROVE s \in P
    <3>1. s # <<>>
      BY <2>1
    <3>2. PICK t \in Seq(S), e \in S : s = Append(t, e)
      BY <3>1, SequenceEmptyOrAppend
    <3>3. Len(t) = n
      BY <2>1, <3>2
    <3> QED BY <1>2, <3>2, <3>3
  <2> QED BY <2>1
<1> HIDE DEF N
<1>3. Nat \subseteq N
  BY <1>1, <1>2, NatSetInduction
<1>4. \A s \in Seq(S) : Len(s) \in N
  BY <1>3
<1> QED BY <1>4 DEF N

(* A bounded set of naturals has a largest element, which is what Max is.  *)
LEMMA MaxOfBounded ==
  ASSUME NEW S \in SUBSET Nat, S # {}, NEW top \in Nat, S \subseteq 0 .. top
  PROVE  Max(S) \in S /\ \A x \in S : x <= Max(S)
<1> DEFINE Up == {b \in Nat : \A x \in S : x <= b}
<1>1. top \in Up
  OBVIOUS
<1>2. PICK b \in Up : \A c \in Up : b <= c
  BY <1>1, LeastNat
<1>3. b \in S
  <2> SUFFICES ASSUME b \notin S PROVE FALSE
    OBVIOUS
  <2>1. \A x \in S : x < b
    BY <1>2
  <2>2. b > 0
    <3>1. PICK x \in S : TRUE
      OBVIOUS
    <3> QED BY <2>1, <3>1
  <2>3. b - 1 \in Up
    BY <2>1, <2>2
  <2> QED BY <2>3, <1>2
<1>4. \E m \in S : \A x \in S : m >= x
  BY <1>2, <1>3
<1> QED BY <1>4 DEF Max

(* The smallest element of a set of naturals, which is what Min is.        *)
LEMMA MinOfNats ==
  ASSUME NEW S \in SUBSET Nat, S # {}
  PROVE  Min(S) \in S /\ \A x \in S : Min(S) <= x
<1>1. \E m \in S : \A x \in S : m <= x
  BY LeastNat
<1> QED BY <1>1 DEF Min

(* The smaller of two.                                                     *)
LEMMA MinOfTwo ==
  ASSUME NEW a \in Int, NEW b \in Int
  PROVE  Min({a, b}) = IF a <= b THEN a ELSE b
<1>1. \A x \in {a, b} : (\A y \in {a, b} : x =< y) <=> x = IF a <= b THEN a ELSE b
  OBVIOUS
<1> QED BY <1>1 DEF Min

(* The larger of two.                                                      *)
LEMMA MaxOfTwo ==
  ASSUME NEW a \in Int, NEW b \in Int
  PROVE  Max({a, b}) = IF a >= b THEN a ELSE b
<1>1. \A x \in {a, b} : (\A y \in {a, b} : x >= y) <=> x = IF a >= b THEN a ELSE b
  OBVIOUS
<1> QED BY <1>1 DEF Max

(* A function defined by recursion over rounds: the first value is given,  *)
(* and each round makes the next one out of the last.                      *)
Rounds(f, I, a, g, n) ==
  /\ f \in [0 .. n -> I] /\ f[0] = a
  /\ \A k \in 1 .. n : f[k] = g[k][f[k - 1]]

(* There always is one.                                                    *)
LEMMA RoundsExist ==
  ASSUME NEW I, NEW a \in I, NEW g \in [Nat -> [I -> I]], NEW n \in Nat
  PROVE  \E f : Rounds(f, I, a, g, n)
<1> DEFINE Upto(f, m) == /\ f \in [0 .. m -> I] /\ f[0] = a
                         /\ \A k \in 1 .. m : f[k] = g[k][f[k - 1]]
           N == {m \in Nat : \E f : Upto(f, m)}
<1>1. 0 \in N
  <2> DEFINE f == [k \in 0 .. 0 |-> a]
  <2>1. Upto(f, 0)
    OBVIOUS
  <2> QED BY <2>1
<1>2. ASSUME NEW m \in Nat, m \in N PROVE m + 1 \in N
  <2>1. PICK f : Upto(f, m)
    BY <1>2
  <2> DEFINE h == [k \in 0 .. m + 1 |-> IF k = m + 1 THEN g[m + 1][f[m]] ELSE f[k]]
  <2>2. f[m] \in I /\ g[m + 1] \in [I -> I]
    BY <2>1
  <2>3. h \in [0 .. m + 1 -> I] /\ h[0] = a
    BY <2>1, <2>2
  <2>4. ASSUME NEW k \in 1 .. m + 1 PROVE h[k] = g[k][h[k - 1]]
    <3>1. k - 1 \in 0 .. m /\ h[k - 1] = f[k - 1]
      OBVIOUS
    <3>2. CASE k = m + 1
      BY <3>1, <3>2
    <3>3. CASE k # m + 1
      <4>1. k \in 1 .. m /\ h[k] = f[k]
        BY <3>3
      <4> QED BY <2>1, <3>1, <4>1
    <3> QED BY <3>2, <3>3
  <2> HIDE DEF h
  <2>5. Upto(h, m + 1)
    BY <2>3, <2>4
  <2> HIDE DEF Upto
  <2> QED BY <2>5
<1> HIDE DEF N
<1>3. n \in N
  BY <1>1, <1>2, NatSetInduction
<1> QED BY <1>3 DEF N, Rounds

(* An element appended, as a function.                                     *)
LEMMA AppendValue ==
  ASSUME NEW S, NEW s \in Seq(S), NEW x \in S
  PROVE  Append(s, x) = [k \in 1 .. Len(s) + 1 |-> IF k = Len(s) + 1 THEN x ELSE s[k]]
<1> DEFINE a == Append(s, x)
           n == Len(s)
<1>1. /\ n \in Nat /\ a \in Seq(S) /\ Len(a) = n + 1
      /\ \A k \in 1 .. n : a[k] = s[k]
      /\ a[n + 1] = x
  BY AppendProperties
<1> HIDE DEF a, n
<1>2. a = [k \in 1 .. n + 1 |-> a[k]]
  BY <1>1
<1>3. ASSUME NEW k \in 1 .. n + 1 PROVE a[k] = IF k = n + 1 THEN x ELSE s[k]
  <2>1. k = n + 1 \/ k \in 1 .. n
    BY <1>1
  <2> QED BY <1>1, <2>1
<1> QED BY <1>2, <1>3 DEF a, n

(* Two sequences one after the other, as a function.                       *)
LEMMA ConcatValue ==
  ASSUME NEW S, NEW s \in Seq(S), NEW t \in Seq(S)
  PROVE  s \o t = [k \in 1 .. Len(s) + Len(t) |->
                      IF k <= Len(s) THEN s[k] ELSE t[k - Len(s)]]
<1> DEFINE a == s \o t
           n == Len(s)
           m == Len(t)
<1>1. n \in Nat /\ m \in Nat /\ a \in Seq(S) /\ Len(a) = n + m
  BY ConcatProperties
<1>2. \A k \in 1 .. n + m : a[k] = IF k <= n THEN s[k] ELSE t[k - n]
  BY <1>1
<1> HIDE DEF a, n, m
<1>3. a = [k \in 1 .. n + m |-> a[k]]
  BY <1>1
<1> QED BY <1>2, <1>3 DEF a, n, m

-----------------------------------------------------------------------------
(* FlattenSeq.                                                             *)

(* The function that FlattenSeq is defined by.                             *)
IsFlat(f, s) ==
  f = [i \in 1 .. Len(s) |-> IF i = 1 THEN s[i] ELSE f[i - 1] \o s[i]]

(* There is one for every sequence.                                        *)
LEMMA FlatExists ==
  ASSUME NEW T, NEW s \in Seq(T)
  PROVE  \E f : IsFlat(f, s)
<1> DEFINE Step(f, t) ==
              f = [i \in 1 .. Len(t) |-> IF i = 1 THEN t[i] ELSE f[i - 1] \o t[i]]
           P == {t \in Seq(T) : \E f : Step(f, t)}
<1>1. <<>> \in P
  <2>1. Step(<<>>, <<>>)
    OBVIOUS
  <2>2. <<>> \in Seq(T)
    BY EmptySeq
  <2> HIDE DEF Step
  <2> QED BY <2>1, <2>2, Zenon
<1>2. ASSUME NEW t \in Seq(T), NEW e \in T, t \in P PROVE Append(t, e) \in P
  <2>1. PICK g : Step(g, t)
    BY <1>2
  <2> DEFINE n == Len(t)
             u == Append(t, e)
  <2>2. /\ n \in Nat /\ u \in Seq(T) /\ Len(u) = n + 1
        /\ \A i \in 1 .. n : u[i] = t[i]
        /\ u[n + 1] = e
    OBVIOUS
  <2> HIDE DEF n, u
  <2> DEFINE f == [i \in 1 .. n + 1 |->
                      IF i <= n THEN g[i] ELSE IF i = 1 THEN e ELSE g[n] \o e]
  <2>3. \A i \in 1 .. n + 1 : f[i] = IF i = 1 THEN u[i] ELSE f[i - 1] \o u[i]
    <3>1. \A i \in 1 .. n : g[i] = IF i = 1 THEN t[i] ELSE g[i - 1] \o t[i]
      BY <2>1 DEF n
    <3>2. ASSUME NEW i \in 1 .. n
          PROVE  f[i] = IF i = 1 THEN u[i] ELSE f[i - 1] \o u[i]
      <4>1. i = 1 \/ i - 1 \in 1 .. n
        BY <2>2
      <4>2. f[i] = g[i] /\ (i # 1 => f[i - 1] = g[i - 1])
        BY <2>2, <4>1
      <4> QED BY <2>2, <3>1, <4>2
    <3>3. f[n + 1] = IF n + 1 = 1 THEN u[n + 1] ELSE f[n] \o u[n + 1]
      BY <2>2
    <3>4. \A i \in 1 .. n + 1 : i \in 1 .. n \/ (i = n + 1 /\ i - 1 = n)
      BY <2>2
    <3> HIDE DEF f
    <3> QED BY <3>2, <3>3, <3>4
  <2>4. f = [i \in 1 .. n + 1 |-> IF i = 1 THEN u[i] ELSE f[i - 1] \o u[i]]
    BY <2>3
  <2> HIDE DEF f
  <2>5. Step(f, u)
    BY <2>2, <2>4
  <2> QED BY <2>2, <2>5 DEF u
<1> HIDE DEF P
<1>3. s \in P
  BY <1>1, <1>2, SeqSetInduction
<1> QED BY <1>3 DEF P, IsFlat

(* FlattenSeq is the last value of it.                                     *)
LEMMA FlatValue ==
  ASSUME NEW T, NEW s \in Seq(T), Len(s) # 0
  PROVE  \E f : IsFlat(f, s) /\ FlattenSeq(s) = f[Len(s)]
<1> DEFINE Step(f) ==
             f = [i \in 1 .. Len(s) |-> IF i = 1 THEN s[i] ELSE f[i - 1] \o s[i]]
           g == CHOOSE f : Step(f)
<1>1. \E f : Step(f)
  BY FlatExists DEF IsFlat
<1>2. Step(g)
  BY <1>1, Zenon
<1>3. FlattenSeq(s) = g[Len(s)]
  BY DEF FlattenSeq
<1> QED BY <1>2, <1>3 DEF IsFlat

(* Two sequences, or functions on an interval, that begin alike.           *)
SameUpTo(s, t, m) == \A i \in 1 .. m : s[i] = t[i]

(* It depends on the elements so far only.                                 *)
LEMMA FlatAgree ==
  ASSUME NEW s, NEW t, Len(s) \in Nat, Len(t) \in Nat, NEW m \in Nat,
         m <= Len(s), m <= Len(t), SameUpTo(s, t, m),
         NEW f, NEW g, IsFlat(f, s), IsFlat(g, t)
  PROVE  SameUpTo(f, g, m)
<1> USE DEF SameUpTo
<1> DEFINE N == {n \in Nat : n \in 1 .. m => f[n] = g[n]}
<1>1. 0 \in N
  OBVIOUS
<1>2. ASSUME NEW n \in Nat, n \in N PROVE n + 1 \in N
  <2> SUFFICES ASSUME n + 1 \in 1 .. m PROVE f[n + 1] = g[n + 1]
    OBVIOUS
  <2>1. n + 1 \in 1 .. Len(s) /\ n + 1 \in 1 .. Len(t) /\ s[n + 1] = t[n + 1]
    OBVIOUS
  <2>2. /\ f[n + 1] = IF n + 1 = 1 THEN s[n + 1] ELSE f[n] \o s[n + 1]
        /\ g[n + 1] = IF n + 1 = 1 THEN t[n + 1] ELSE g[n] \o t[n + 1]
    <3>1. /\ f[n + 1] = IF n + 1 = 1 THEN s[n + 1] ELSE f[(n + 1) - 1] \o s[n + 1]
          /\ g[n + 1] = IF n + 1 = 1 THEN t[n + 1] ELSE g[(n + 1) - 1] \o t[n + 1]
      BY <2>1 DEF IsFlat
    <3>2. (n + 1) - 1 = n
      OBVIOUS
    <3> QED BY <3>1, <3>2
  <2>3. n + 1 # 1 => f[n] = g[n]
    BY <1>2
  <2> QED BY <2>1, <2>2, <2>3
<1> HIDE DEF N
<1>3. Nat \subseteq N
  BY <1>1, <1>2, NatSetInduction
<1> QED BY <1>3 DEF N

(* Nothing flattened.                                                      *)
LEMMA FlattenEmpty == FlattenSeq(<<>>) = <<>>
BY DEF FlattenSeq

(* One more sequence at the end.                                           *)
LEMMA FlattenAppend ==
  ASSUME NEW S, NEW s \in Seq(Seq(S)), NEW x \in Seq(S)
  PROVE  FlattenSeq(Append(s, x)) = FlattenSeq(s) \o x
<1> DEFINE u == Append(s, x)
           n == Len(s)
<1>1. /\ n \in Nat /\ u \in Seq(Seq(S)) /\ Len(u) = n + 1 /\ u[n + 1] = x
      /\ \A i \in 1 .. n : u[i] = s[i]
  OBVIOUS
<1> SUFFICES FlattenSeq(u) = FlattenSeq(s) \o x
  OBVIOUS
<1> HIDE DEF u
<1>2. PICK f : IsFlat(f, u) /\ FlattenSeq(u) = f[n + 1]
  BY <1>1, FlatValue
<1>3. CASE n = 0
  <2>1. s = <<>> /\ FlattenSeq(s) = <<>>
    BY <1>3, FlattenEmpty
  <2>2. f[1] = u[1] /\ u[1] = x
    BY <1>1, <1>2, <1>3 DEF IsFlat
  <2>3. <<>> \o x = x
    BY ConcatEmptySeq
  <2> QED BY <1>2, <1>3, <2>1, <2>2, <2>3
<1>4. CASE n # 0
  <2>1. PICK g : IsFlat(g, s) /\ FlattenSeq(s) = g[n]
    BY <1>4, FlatValue
  <2>2. n <= Len(s) /\ n <= Len(u) /\ \A i \in 1 .. n : u[i] = s[i]
    BY <1>1
  <2>3. f[n] = g[n]
    <3>1. \A i \in 1 .. n : f[i] = g[i]
      <4>1. /\ Len(u) \in Nat /\ Len(s) \in Nat /\ n \in Nat
            /\ n <= Len(u) /\ n <= Len(s) /\ SameUpTo(u, s, n)
            /\ IsFlat(f, u) /\ IsFlat(g, s)
        BY <1>1, <1>2, <2>1, <2>2 DEF SameUpTo
      <4> HIDE DEF n
      <4>2. SameUpTo(f, g, n)
        BY <4>1, FlatAgree, Zenon
      <4> QED BY <4>2 DEF SameUpTo
    <3> QED BY <1>1, <1>4, <3>1
  <2>4. f[n + 1] = f[n] \o x
    <3>1. n + 1 \in 1 .. Len(u) /\ n + 1 # 1 /\ (n + 1) - 1 = n
      BY <1>1, <1>4
    <3>2. f[n + 1] = IF n + 1 = 1 THEN u[n + 1] ELSE f[(n + 1) - 1] \o u[n + 1]
      BY <1>2, <3>1 DEF IsFlat
    <3> QED BY <1>1, <3>1, <3>2
  <2> QED BY <1>2, <2>1, <2>3, <2>4
<1> QED BY <1>3, <1>4

(* What is flattened is a sequence of the same things.                     *)
LEMMA FlattenType ==
  ASSUME NEW S, NEW s \in Seq(Seq(S))
  PROVE  FlattenSeq(s) \in Seq(S)
<1> DEFINE P == {t \in Seq(Seq(S)) : FlattenSeq(t) \in Seq(S)}
<1>1. <<>> \in P
  <2>1. <<>> \in Seq(Seq(S)) /\ <<>> \in Seq(S)
    BY EmptySeq
  <2> QED BY <2>1, FlattenEmpty, Zenon
<1>2. ASSUME NEW t \in Seq(Seq(S)), NEW e \in Seq(S), t \in P
      PROVE  Append(t, e) \in P
  <2>1. FlattenSeq(Append(t, e)) = FlattenSeq(t) \o e
    BY FlattenAppend
  <2>2. FlattenSeq(t) \o e \in Seq(S)
    BY <1>2, ConcatProperties
  <2>3. Append(t, e) \in Seq(Seq(S))
    OBVIOUS
  <2> QED BY <2>1, <2>2, <2>3, Zenon
<1> HIDE DEF P
<1>3. s \in P
  BY <1>1, <1>2, SeqSetInduction
<1> QED BY <1>3 DEF P

(* Something in front of what is appended to.                              *)
LEMMA ConcatAppend ==
  ASSUME NEW S, NEW s \in Seq(S), NEW t \in Seq(S), NEW e \in S
  PROVE  s \o Append(t, e) = Append(s \o t, e) /\ s \o t \in Seq(S)
<1>1. Append(t, e) = t \o <<e>> /\ <<e>> \in Seq(S)
  BY AppendIsConcat
<1>2. s \o (t \o <<e>>) = (s \o t) \o <<e>>
  BY <1>1, ConcatAssociative
<1>3. s \o t \in Seq(S)
  BY ConcatProperties
<1>4. Append(s \o t, e) = (s \o t) \o <<e>>
  BY <1>3, AppendIsConcat
<1> QED BY <1>1, <1>2, <1>3, <1>4

(* A whole sequence of sequences more.                                     *)
LEMMA FlattenConcat ==
  ASSUME NEW S, NEW s \in Seq(Seq(S)), NEW t \in Seq(Seq(S))
  PROVE  FlattenSeq(s \o t) = FlattenSeq(s) \o FlattenSeq(t)
<1> DEFINE P == {u \in Seq(Seq(S)) :
                    FlattenSeq(s \o u) = FlattenSeq(s) \o FlattenSeq(u)}
<1>1. <<>> \in P
  <2>1. FlattenSeq(s) \in Seq(S)
    BY FlattenType
  <2>2. s \o <<>> = s /\ FlattenSeq(s) \o <<>> = FlattenSeq(s)
    BY <2>1, ConcatEmptySeq
  <2>3. <<>> \in Seq(Seq(S))
    BY EmptySeq
  <2>4. FlattenSeq(s \o <<>>) = FlattenSeq(s) \o FlattenSeq(<<>>)
    BY <2>2, FlattenEmpty, Zenon
  <2> QED BY <2>3, <2>4, Zenon
<1>2. ASSUME NEW u \in Seq(Seq(S)), NEW e \in Seq(S), u \in P
      PROVE  Append(u, e) \in P
  <2>1. s \o Append(u, e) = Append(s \o u, e)
    BY ConcatAppend
  <2>2. s \o u \in Seq(Seq(S))
    BY ConcatProperties
  <2>3. FlattenSeq(Append(s \o u, e)) = FlattenSeq(s \o u) \o e
    BY <2>2, FlattenAppend
  <2>4. FlattenSeq(s) \in Seq(S) /\ FlattenSeq(u) \in Seq(S)
    BY FlattenType
  <2>5. (FlattenSeq(s) \o FlattenSeq(u)) \o e = FlattenSeq(s) \o (FlattenSeq(u) \o e)
    BY <2>4, ConcatAssociative, SMTT(30)
  <2>6. FlattenSeq(Append(u, e)) = FlattenSeq(u) \o e
    BY FlattenAppend
  <2>7. FlattenSeq(s \o u) = FlattenSeq(s) \o FlattenSeq(u)
    BY <1>2, Zenon
  <2>8. FlattenSeq(s \o Append(u, e)) = FlattenSeq(s) \o FlattenSeq(Append(u, e))
    BY <2>1, <2>3, <2>5, <2>6, <2>7, Zenon
  <2>9. Append(u, e) \in Seq(Seq(S))
    OBVIOUS
  <2> QED BY <2>8, <2>9, Zenon
<1> HIDE DEF P
<1>3. t \in P
  BY <1>1, <1>2, SeqSetInduction
<1> QED BY <1>3 DEF P

(* A loop over the elements of s, from a on, with g as its round.          *)
IsLoop(f, a, g, s) ==
    f[0] = a /\ \A k \in 1 .. Len(s) : f[k] = g[f[k - 1]][s[k]]

(* There is one.                                                           *)
LEMMA LoopExists ==
  ASSUME NEW I, NEW E, NEW a \in I, NEW g \in [I -> [E -> I]], NEW s \in Seq(E)
  PROVE  \E f : f \in [0 .. Len(s) -> I] /\ IsLoop(f, a, g, s)
<1> DEFINE Round(k, x) == IF k \in 1 .. Len(s) THEN g[x][s[k]] ELSE x
           r == [k \in Nat |-> [x \in I |-> Round(k, x)]]
<1>1. Len(s) \in Nat /\ \A k \in 1 .. Len(s) : s[k] \in E
  OBVIOUS
<1>2. ASSUME NEW k \in Nat, NEW x \in I PROVE Round(k, x) \in I
  <2>1. CASE k \in 1 .. Len(s)
    BY <1>1, <2>1
  <2>2. CASE k \notin 1 .. Len(s)
    BY <2>2
  <2> QED BY <2>1, <2>2
<1> HIDE DEF Round
<1>3. r \in [Nat -> [I -> I]]
  BY <1>2
<1>4. PICK f : Rounds(f, I, a, r, Len(s))
  <2> HIDE DEF r
  <2> QED BY <1>1, <1>3, RoundsExist
<1>5. ASSUME NEW k \in 1 .. Len(s) PROVE f[k] = g[f[k - 1]][s[k]]
  <2>1. k \in Nat /\ k - 1 \in 0 .. Len(s)
    BY <1>1
  <2>2. f[k - 1] \in I /\ f[k] = r[k][f[k - 1]]
    BY <1>4, <2>1 DEF Rounds
  <2>3. f[k] = Round(k, f[k - 1])
    BY <2>1, <2>2
  <2> QED BY <2>3 DEF Round
<1> QED BY <1>4, <1>5 DEF Rounds, IsLoop

(* Loops over sequences that start alike agree on what they have in common. *)
LEMMA LoopAgree ==
  ASSUME NEW a, NEW g, NEW s, NEW t, NEW f, NEW h, IsLoop(f, a, g, s), IsLoop(h, a, g, t),
         Len(s) \in Nat, Len(t) \in Nat, NEW n \in Nat, n <= Len(s), n <= Len(t),
         SameUpTo(s, t, n)
  PROVE  f[n] = h[n]
<1> DEFINE N == {k \in Nat : k <= n => f[k] = h[k]}
<1>1. 0 \in N
  BY DEF IsLoop
<1>2. ASSUME NEW k \in Nat, k \in N PROVE k + 1 \in N
  <2> SUFFICES ASSUME k + 1 <= n PROVE f[k + 1] = h[k + 1]
    OBVIOUS
  <2>1. /\ k + 1 \in 1 .. Len(s) /\ k + 1 \in 1 .. Len(t) /\ (k + 1) - 1 = k
        /\ k + 1 \in 1 .. n /\ k <= n
    OBVIOUS
  <2>2. f[k + 1] = g[f[k]][s[k + 1]] /\ h[k + 1] = g[h[k]][t[k + 1]]
    BY <2>1 DEF IsLoop
  <2>3. f[k] = h[k] /\ s[k + 1] = t[k + 1]
    BY <1>2, <2>1 DEF SameUpTo
  <2> QED BY <2>2, <2>3
<1> HIDE DEF N
<1>3. n \in N
  BY <1>1, <1>2, NatSetInduction
<1> QED BY <1>3 DEF N

(* One element more, one round more.                                       *)
LEMMA LoopAppend ==
  ASSUME NEW E, NEW s \in Seq(E), NEW x \in E, NEW a, NEW g, NEW f, NEW h,
         IsLoop(f, a, g, s), IsLoop(h, a, g, Append(s, x))
  PROVE  h[Len(s) + 1] = g[f[Len(s)]][x]
<1> DEFINE t == Append(s, x)
           n == Len(s)
<1>1. /\ t \in Seq(E) /\ Len(t) = n + 1 /\ n \in Nat /\ t[n + 1] = x
      /\ \A k \in 1 .. n : t[k] = s[k]
  OBVIOUS
<1>2. IsLoop(h, a, g, t)
  OBVIOUS
<1> HIDE DEF t
<1>3. SameUpTo(s, t, n)
  BY <1>1 DEF SameUpTo
<1>4. n <= Len(s) /\ n <= Len(t) /\ Len(t) \in Nat
  BY <1>1
<1>5. f[n] = h[n]
  BY <1>1, <1>2, <1>3, <1>4, LoopAgree
<1>6. n + 1 \in 1 .. Len(t) /\ (n + 1) - 1 = n
  BY <1>1
<1>7. h[n + 1] = g[h[n]][t[n + 1]]
  BY <1>2, <1>6 DEF IsLoop
<1> QED BY <1>1, <1>5, <1>7

(* A sequence of one set is one of a larger set.                           *)
LEMMA SeqLarger ==
    ASSUME NEW S, NEW T, S \subseteq T
    PROVE  Seq(S) \subseteq Seq(T) /\ Seq(Seq(S)) \subseteq Seq(Seq(T))
<1>1. ASSUME NEW A, NEW B, A \subseteq B PROVE Seq(A) \subseteq Seq(B)
  <2> SUFFICES ASSUME NEW s \in Seq(A) PROVE s \in Seq(B)
    OBVIOUS
  <2>1. Len(s) \in Nat /\ s \in [1 .. Len(s) -> A]
    OBVIOUS
  <2>2. s \in [1 .. Len(s) -> B]
    BY <1>1, <2>1
  <2> QED BY <2>1, <2>2
<1>2. Seq(S) \subseteq Seq(T)
  BY <1>1
<1>3. Seq(Seq(S)) \subseteq Seq(Seq(T))
  BY <1>1, <1>2
<1> QED BY <1>2, <1>3

(* A function on 1 .. n is a sequence.                                     *)
LEMMA FunctionSeq ==
    ASSUME NEW T, NEW q, Len(q) \in Nat, q \in [1 .. Len(q) -> T]
    PROVE  q \in Seq(T)
OBVIOUS

(* A concatenation, and pieces of it.                                      *)
Joins(S, a, b, u) ==
    /\ u \in Seq(S) /\ Len(a) \in Nat /\ Len(b) \in Nat /\ Len(u) = Len(a) + Len(b)
    /\ \A k \in 1 .. Len(a) : u[k] = a[k]
    /\ \A k \in 1 .. Len(b) : u[Len(a) + k] = b[k]

(* What it consists of.                                                    *)
LEMMA ConcatParts ==
    ASSUME NEW S, NEW a \in Seq(S), NEW b \in Seq(S)
    PROVE  Joins(S, a, b, a \o b)
<1> DEFINE u == a \o b
           m == Len(a)
           n == Len(b)
<1>1. u \in Seq(S) /\ Len(u) = m + n /\ m \in Nat /\ n \in Nat
  OBVIOUS
<1>2. u = [k \in 1 .. m + n |-> IF k <= m THEN a[k] ELSE b[k - m]]
  BY ConcatValue
<1> HIDE DEF u, m, n
<1>3. \A k \in 1 .. m : k \in 1 .. m + n /\ k <= m
  BY <1>1
<1>4. \A k \in 1 .. m : u[k] = a[k]
  BY <1>2, <1>3
<1>5. \A k \in 1 .. n : m + k \in 1 .. m + n /\ ~ (m + k <= m) /\ (m + k) - m = k
  BY <1>1
<1>6. ASSUME NEW k \in 1 .. n PROVE u[m + k] = b[k]
  <2> DEFINE i == m + k
  <2>1. i \in 1 .. m + n /\ ~ (i <= m) /\ i - m = k
    BY <1>5
  <2> HIDE DEF i
  <2>2. u[i] = b[i - m]
    BY <1>2, <2>1
  <2> QED BY <2>1, <2>2 DEF i
<1> QED BY <1>1, <1>4, <1>6 DEF Joins, u, m, n

(* The front of it.                                                        *)
LEMMA FrontOf ==
    ASSUME NEW S, NEW a \in Seq(S), NEW b \in Seq(S),
           NEW i \in Nat \ {0}, NEW j \in Nat, i <= j + 1, j <= Len(a)
    PROVE  SubSeq(a \o b, i, j) = SubSeq(a, i, j)
<1> DEFINE u == a \o b
<1>1. /\ u \in Seq(S) /\ Len(u) = Len(a) + Len(b) /\ Len(a) \in Nat /\ Len(b) \in Nat
      /\ \A k \in 1 .. Len(a) : u[k] = a[k]
  BY ConcatParts DEF Joins
<1> HIDE DEF u
<1>2. SubSeq(u, i, j) = [k \in 1 .. (1 + j) - i |-> u[(k + i) - 1]]
  OBVIOUS
<1>3. SubSeq(a, i, j) = [k \in 1 .. (1 + j) - i |-> a[(k + i) - 1]]
  OBVIOUS
<1>4. \A k \in 1 .. (1 + j) - i : (k + i) - 1 \in 1 .. Len(a)
  BY <1>1
<1> QED BY <1>1, <1>2, <1>3, <1>4 DEF u

(* The back of it.                                                         *)
LEMMA BackOf ==
    ASSUME NEW S, NEW a \in Seq(S), NEW b \in Seq(S)
    PROVE  SubSeq(a \o b, Len(a) + 1, Len(a) + Len(b)) = b
<1> DEFINE u == a \o b
           m == Len(a)
           n == Len(b)
<1>1. /\ m \in Nat /\ n \in Nat /\ \A k \in 1 .. n : u[m + k] = b[k]
      /\ b = [k \in 1 .. n |-> b[k]]
  <2>1. Joins(S, a, b, u)
    BY ConcatParts
  <2> QED BY <2>1 DEF Joins
<1> HIDE DEF u, m, n
<1>2. SubSeq(u, m + 1, m + n) = [k \in 1 .. (1 + (m + n)) - (m + 1) |-> u[(k + (m + 1)) - 1]]
  <2>1. ASSUME NEW i \in Nat, NEW j \in Nat
        PROVE  SubSeq(u, i, j) = [k \in 1 .. (1 + j) - i |-> u[(k + i) - 1]]
    OBVIOUS
  <2>2. m + 1 \in Nat /\ m + n \in Nat
    BY <1>1
  <2> QED BY <2>1, <2>2, Zenon
<1>3. (1 + (m + n)) - (m + 1) = n /\ \A k \in 1 .. n : (k + (m + 1)) - 1 = m + k
  BY <1>1
<1>4. SubSeq(u, m + 1, m + n) = b
  <2>1. SubSeq(u, m + 1, m + n) = [k \in 1 .. n |-> u[m + k]]
    <3>1. [k \in 1 .. n |-> u[(k + (m + 1)) - 1]] = [k \in 1 .. n |-> u[m + k]]
      BY <1>3
    <3> QED BY <1>2, <1>3, <3>1
  <2> QED BY <1>1, <2>1
<1> QED BY <1>4 DEF u, m, n

(* What is left of a concatenation from a place in the first of the two    *)
(* on, or from one in the second.                                          *)
LEMMA SuffixOf ==
    ASSUME NEW S, NEW a \in Seq(S), NEW b \in Seq(S), NEW i \in 1 .. Len(a) + Len(b)
    PROVE  LET rest == SubSeq(a \o b, i, Len(a) + Len(b))
           IN  /\ i <= Len(a) => rest = SubSeq(a, i, Len(a)) \o b
               /\ i > Len(a) => rest = SubSeq(b, i - Len(a), Len(b))
<1> DEFINE u == a \o b
           m == Len(a)
           n == Len(b)
           r == SubSeq(u, i, m + n)
<1>1. Joins(S, a, b, u)
  BY ConcatParts
<1>2. m \in Nat /\ n \in Nat /\ i \in Nat /\ i >= 1 /\ i <= m + n /\ m + n \in Nat
  OBVIOUS
<1> HIDE DEF u, m, n
<1>3. r = [k \in 1 .. (1 + (m + n)) - i |-> u[(k + i) - 1]]
  BY <1>2
<1>4. /\ \A k \in 1 .. m : u[k] = a[k]
      /\ \A k \in 1 .. n : u[m + k] = b[k]
  BY <1>1 DEF Joins, m, n
<1> HIDE DEF r
<1>5. CASE i <= m
  <2> DEFINE c == SubSeq(a, i, m)
             l == (1 + m) - i
  <2>1. c = [k \in 1 .. l |-> a[(k + i) - 1]]
    BY <1>2
  <2>2. c \in Seq(S) /\ Len(c) = l
    <3>1. i \in 1 .. Len(a) + 1 /\ m \in i - 1 .. Len(a)
      BY <1>2, <1>5 DEF m
    <3> QED BY <1>2, <3>1, SubSeqProperties DEF m
  <2>3. l \in Nat /\ l >= 1 /\ (1 + (m + n)) - i = l + n /\ m = (l + i) - 1
    BY <1>2, <1>5
  <2> HIDE DEF c, l
  <2>4. c \o b = [k \in 1 .. l + n |-> IF k <= l THEN c[k] ELSE b[k - l]]
    <3>1. c \o b = [k \in 1 .. Len(c) + Len(b) |->
                       IF k <= Len(c) THEN c[k] ELSE b[k - Len(c)]]
      BY <2>2, ConcatValue
    <3> QED BY <2>2, <3>1 DEF n
  <2>5. ASSUME NEW k \in 1 .. l + n PROVE u[(k + i) - 1] = IF k <= l THEN c[k] ELSE b[k - l]
    <3>1. CASE k <= l
      <4>1. (k + i) - 1 \in 1 .. m /\ k \in 1 .. l
        BY <1>2, <2>3, <3>1
      <4>2. u[(k + i) - 1] = a[(k + i) - 1]
        BY <1>4, <4>1
      <4>3. c[k] = a[(k + i) - 1]
        BY <2>1, <4>1
      <4> QED BY <3>1, <4>2, <4>3
    <3>2. CASE ~ (k <= l)
      <4>1. k - l \in 1 .. n /\ (k + i) - 1 = m + (k - l)
        BY <1>2, <2>3, <3>2
      <4>2. u[m + (k - l)] = b[k - l]
        BY <1>4, <4>1
      <4> QED BY <3>2, <4>1, <4>2
    <3> QED BY <3>1, <3>2
  <2>6. r = c \o b
    BY <1>3, <2>3, <2>4, <2>5
  <2>7. r = SubSeq(a, i, m) \o b
    BY <2>6 DEF c
  <2> QED BY <1>2, <1>5, <2>7 DEF r, u, m, n
<1>6. CASE i > m
  <2> DEFINE j == i - m
             c == SubSeq(b, j, n)
  <2>1. j \in Nat /\ (1 + (m + n)) - i = (1 + n) - j /\ i = m + j /\ j >= 1
    BY <1>2, <1>6
  <2> HIDE DEF j
  <2>2. c = [k \in 1 .. (1 + n) - j |-> b[(k + j) - 1]]
    BY <1>2, <2>1
  <2> HIDE DEF c
  <2>3. ASSUME NEW k \in 1 .. (1 + n) - j PROVE u[(k + i) - 1] = b[(k + j) - 1]
    <3>1. (k + j) - 1 \in 1 .. n /\ (k + i) - 1 = m + ((k + j) - 1)
      BY <1>2, <2>1
    <3>2. u[m + ((k + j) - 1)] = b[(k + j) - 1]
      BY <1>4, <3>1
    <3> QED BY <3>1, <3>2
  <2>4. r = c
    BY <1>3, <2>1, <2>2, <2>3
  <2>5. r = SubSeq(b, i - m, n)
    BY <2>4 DEF c, j
  <2> QED BY <1>2, <1>6, <2>5 DEF r, u, m, n
<1> QED BY <1>2, <1>5, <1>6

(* A prefix of a sequence, by its elements.                                *)
LEMMA PrefixIs ==
    ASSUME NEW S, NEW a \in Seq(S), NEW t \in Seq(S)
    PROVE  IsPrefix(a, t) <=> Len(a) <= Len(t) /\ SameUpTo(a, t, Len(a))
<1> DEFINE n == Len(a)
<1>1. n \in Nat
  OBVIOUS
<1>2. SubSeq(a, 1, n) = [k \in 1 .. n |-> a[k]]
  <2>1. SubSeq(a, 1, n) = [k \in 1 .. (1 + n) - 1 |-> a[(k + 1) - 1]]
    OBVIOUS
  <2>2. (1 + n) - 1 = n /\ \A k \in 1 .. n : (k + 1) - 1 = k
    BY <1>1
  <2> QED BY <2>1, <2>2
<1>3. SubSeq(t, 1, n) = [k \in 1 .. n |-> t[k]]
  <2>1. SubSeq(t, 1, n) = [k \in 1 .. (1 + n) - 1 |-> t[(k + 1) - 1]]
    OBVIOUS
  <2>2. (1 + n) - 1 = n /\ \A k \in 1 .. n : (k + 1) - 1 = k
    BY <1>1
  <2> QED BY <2>1, <2>2
<1> HIDE DEF n
<1>4. [k \in 1 .. n |-> a[k]] = [k \in 1 .. n |-> t[k]] <=> \A k \in 1 .. n : a[k] = t[k]
  OBVIOUS
<1> QED BY <1>2, <1>3, <1>4 DEF IsPrefix, SameUpTo, n

(* Of two prefixes of a sequence, one is a prefix of the other.            *)
LEMMA PrefixesCompare ==
    ASSUME NEW S, NEW a \in Seq(S), NEW b \in Seq(S), NEW t \in Seq(S),
           IsPrefix(a, t), IsPrefix(b, t)
    PROVE  IsPrefix(a, b) \/ IsPrefix(b, a)
<1>1. /\ Len(a) <= Len(t) /\ SameUpTo(a, t, Len(a))
      /\ Len(b) <= Len(t) /\ SameUpTo(b, t, Len(b))
  BY PrefixIs
<1>2. Len(a) \in Nat /\ Len(b) \in Nat
  OBVIOUS
<1>3. CASE Len(a) <= Len(b)
  <2>1. SameUpTo(a, b, Len(a))
    BY <1>1, <1>2, <1>3 DEF SameUpTo
  <2> QED BY <1>3, <2>1, PrefixIs
<1>4. CASE Len(b) <= Len(a)
  <2>1. SameUpTo(b, a, Len(b))
    BY <1>1, <1>2, <1>4 DEF SameUpTo
  <2> QED BY <1>4, <2>1, PrefixIs
<1> QED BY <1>2, <1>3, <1>4

(* What a concatenation starts with.                                       *)
LEMMA PrefixOfConcat ==
    ASSUME NEW S, NEW a \in Seq(S), NEW b \in Seq(S)
    PROVE  IsPrefix(a, a \o b) /\ a \o b \in Seq(S)
<1> DEFINE u == a \o b
<1>1. Joins(S, a, b, u)
  BY ConcatParts
<1> HIDE DEF u
<1>2. u \in Seq(S) /\ Len(a) <= Len(u) /\ SameUpTo(a, u, Len(a))
  BY <1>1 DEF Joins, SameUpTo
<1>3. IsPrefix(a, u)
  BY <1>2, PrefixIs
<1> QED BY <1>2, <1>3 DEF u

(* A prefix and what is behind it are all of a sequence.                   *)
LEMMA PrefixAndRest ==
    ASSUME NEW S, NEW a \in Seq(S), NEW t \in Seq(S), IsPrefix(a, t)
    PROVE  a \o SubSeq(t, Len(a) + 1, Len(t)) = t
<1> DEFINE m == Len(a)
           n == Len(t)
           r == SubSeq(t, m + 1, n)
<1>1. m \in Nat /\ n \in Nat /\ m <= n /\ \A k \in 1 .. m : a[k] = t[k]
  BY PrefixIs DEF SameUpTo
<1>2. t = [k \in 1 .. n |-> t[k]]
  OBVIOUS
<1>3. r \in Seq(S) /\ Len(r) = n - m
  <2>1. m + 1 \in 1 .. Len(t) + 1 /\ n \in (m + 1) - 1 .. Len(t)
    BY <1>1
  <2> QED BY <1>1, <2>1, SubSeqProperties
<1> HIDE DEF m, n
<1>4. r = [k \in 1 .. (1 + n) - (m + 1) |-> t[(k + (m + 1)) - 1]]
  BY <1>1
<1> HIDE DEF r
<1>5. a \o r = [k \in 1 .. m + (n - m) |-> IF k <= m THEN a[k] ELSE r[k - m]]
  <2>1. a \o r = [k \in 1 .. Len(a) + Len(r) |-> IF k <= Len(a) THEN a[k] ELSE r[k - Len(a)]]
    BY <1>3, ConcatValue
  <2> QED BY <1>3, <2>1 DEF m
<1>6. m + (n - m) = n
  BY <1>1
<1>7. ASSUME NEW k \in 1 .. n PROVE t[k] = IF k <= m THEN a[k] ELSE r[k - m]
  <2>1. CASE k <= m
    BY <1>1, <2>1
  <2>2. CASE ~ (k <= m)
    <3>1. k - m \in 1 .. (1 + n) - (m + 1) /\ ((k - m) + (m + 1)) - 1 = k
      BY <1>1, <2>2
    <3>2. r[k - m] = t[((k - m) + (m + 1)) - 1]
      BY <1>4, <3>1
    <3> QED BY <2>2, <3>1, <3>2
  <2> QED BY <2>1, <2>2
<1>8. a \o r = t
  BY <1>2, <1>5, <1>6, <1>7
<1> QED BY <1>8 DEF r, m, n
=============================================================================
