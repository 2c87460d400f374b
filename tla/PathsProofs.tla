----------------------------- MODULE PathsProofs ----------------------------
(***************************************************************************)
(* Proofs about Paths, for any characters, any maps of prefixes, any host  *)
(* tree and any requests.                                                  *)
(*                                                                         *)
(* A path is looked at as the sequence of names between its slashes: what  *)
(* the loops of Split, Join and normalize_path compute is shown by         *)
(* induction over the rounds of the loop.  On that rest what path_starts   *)
(* and the two translations of PathMapper give, and the results: what      *)
(* guests make and open is below a configured directory (WithinTrees), a   *)
(* path told to a guest leads back (LeadsBack), and readlink and stat agree*)
(* on the length of a link (LinkSizes).  The inductive invariant PathState *)
(* says of each path that is kept where it lies and what it is made of.    *)
(***************************************************************************)
EXTENDS Paths, Induction

-----------------------------------------------------------------------------
(* Paths as sequences of names.                                            *)

(* What may be between two slashes, what is between them in a path that    *)
(* has no two in a row, and what is left by normalize_path.                *)
SlashFree == Seq(Char \ {"/"})
Name == SlashFree \ {<<>>}
Plain == Name \ {<<".">>, <<".", ".">>}

(* The round of Split, by what it has and by the next character.           *)
MoreOf == [w \in Seq(Seq(Char)) \ {<<>>} |-> [c \in Char |->
              IF c = "/" THEN Append(w, <<>>)
              ELSE [w EXCEPT ![Len(w)] = Append(@, c)]]]

(* It makes a sequence of strings, which is not empty.                     *)
LEMMA MoreType ==
    MoreOf \in [Seq(Seq(Char)) \ {<<>>} -> [Char -> Seq(Seq(Char)) \ {<<>>}]]
<1> SUFFICES ASSUME NEW w \in Seq(Seq(Char)) \ {<<>>}, NEW c \in Char
             PROVE  MoreOf[w][c] \in Seq(Seq(Char)) \ {<<>>}
  BY DEF MoreOf
<1>1. CASE c = "/"
  <2>1. <<>> \in Seq(Char)
    BY EmptySeq
  <2>2. Append(w, <<>>) \in Seq(Seq(Char)) /\ Append(w, <<>>) # <<>>
    BY <2>1
  <2> QED BY <1>1, <2>2 DEF MoreOf
<1>2. CASE c # "/"
  <2> DEFINE v == [w EXCEPT ![Len(w)] = Append(@, c)]
  <2>1. Len(w) \in 1 .. Len(w) /\ w[Len(w)] \in Seq(Char) /\ Len(w) \in Nat
    OBVIOUS
  <2>2. Append(w[Len(w)], c) \in Seq(Char)
    BY <2>1
  <2>3. v \in [1 .. Len(w) -> Seq(Char)] /\ Len(v) = Len(w)
    BY <2>1, <2>2
  <2>4. v \in Seq(Seq(Char)) /\ v # <<>>
    BY <2>1, <2>3, FunctionSeq
  <2> QED BY <1>2, <2>4 DEF MoreOf
<1> QED BY <1>1, <1>2

(* Split is the loop with this round.                                      *)
LEMMA SplitLoop ==
    ASSUME NEW s \in Seq(Char)
    PROVE  \E f : /\ f \in [0 .. Len(s) -> Seq(Seq(Char)) \ {<<>>}]
                  /\ IsLoop(f, << <<>> >>, MoreOf, s)
                  /\ Split(s) = f[Len(s)]
<1> DEFINE More(w, c) == IF c = "/" THEN Append(w, <<>>)
                         ELSE [w EXCEPT ![Len(w)] = Append(@, c)]
           Walk(f) == f = [k \in 0 .. Len(s) |->
                             IF k = 0 THEN << <<>> >> ELSE More(f[k - 1], s[k])]
           walk == CHOOSE f : Walk(f)
           I == Seq(Seq(Char)) \ {<<>>}
<1>1. << <<>> >> \in I
  <2>1. <<>> \in Seq(Char)
    BY EmptySeq
  <2> QED BY <2>1
<1>2. PICK f : f \in [0 .. Len(s) -> I] /\ IsLoop(f, << <<>> >>, MoreOf, s)
  <2> HIDE DEF I
  <2>1. MoreOf \in [I -> [Char -> I]]
    BY MoreType DEF I
  <2> QED BY <1>1, <2>1, LoopExists
<1>3. \A w \in I, c \in Char : MoreOf[w][c] = More(w, c)
  BY DEF MoreOf
<1> HIDE DEF More, I
<1>4. ASSUME NEW h, Walk(h) PROVE h = f
  <2> DEFINE N == {n \in Nat : n <= Len(s) => h[n] = f[n]}
  <2>1. 0 \in N
    BY <1>4, <1>2 DEF IsLoop
  <2>2. ASSUME NEW n \in Nat, n \in N PROVE n + 1 \in N
    <3> SUFFICES ASSUME n + 1 <= Len(s) PROVE h[n + 1] = f[n + 1]
      OBVIOUS
    <3>1. n + 1 \in 1 .. Len(s) /\ n \in 0 .. Len(s) /\ (n + 1) - 1 = n /\ n + 1 # 0
          /\ n + 1 \in 0 .. Len(s) /\ s[n + 1] \in Char /\ h[n] = f[n]
      BY <2>2
    <3>2. h[n + 1] = More(h[n], s[n + 1])
      BY <1>4, <3>1
    <3>3. f[n + 1] = MoreOf[f[n]][s[n + 1]] /\ f[n] \in I
      BY <1>2, <3>1 DEF IsLoop
    <3> QED BY <1>3, <3>1, <3>2, <3>3
  <2> HIDE DEF N
  <2>3. Nat \subseteq N
    BY <2>1, <2>2, NatSetInduction
  <2>4. \A n \in 0 .. Len(s) : h[n] = f[n]
    BY <2>3 DEF N
  <2> QED BY <1>2, <1>4, <2>4
<1>5. Walk(f)
  <2>1. ASSUME NEW k \in 0 .. Len(s)
        PROVE  f[k] = IF k = 0 THEN << <<>> >> ELSE More(f[k - 1], s[k])
    <3>1. CASE k = 0
      BY <1>2, <3>1 DEF IsLoop
    <3>2. CASE k # 0
      <4>1. k \in 1 .. Len(s) /\ k - 1 \in 0 .. Len(s) /\ s[k] \in Char
        BY <3>2
      <4>2. f[k] = MoreOf[f[k - 1]][s[k]] /\ f[k - 1] \in I
        BY <1>2, <4>1 DEF IsLoop
      <4> QED BY <1>3, <3>2, <4>1, <4>2
    <3> QED BY <3>1, <3>2
  <2> QED BY <1>2, <2>1
<1>6. Walk(walk)
  <2> HIDE DEF Walk
  <2> QED BY <1>5, Zenon
<1>7. walk = f
  <2> HIDE DEF Walk, walk
  <2> QED BY <1>4, <1>6
<1>8. Split(s) = walk[Len(s)]
  BY DEF Split, More
<1> QED BY <1>2, <1>7, <1>8 DEF I

(* Nothing split, and one character more.                                  *)
LEMMA SplitAppend ==
    /\ Split(<<>>) = << <<>> >>
    /\ \A s \in Seq(Char) :
          /\ Split(s) \in Seq(Seq(Char)) \ {<<>>}
          /\ \A c \in Char : Split(Append(s, c)) = MoreOf[Split(s)][c]
<1>1. Split(<<>>) = << <<>> >>
  <2> DEFINE e == <<>>
  <2>1. e \in Seq(Char) /\ Len(e) = 0
    BY EmptySeq
  <2> HIDE DEF e
  <2>2. PICK f : IsLoop(f, << <<>> >>, MoreOf, e) /\ Split(e) = f[Len(e)]
    BY <2>1, SplitLoop
  <2>3. Split(e) = << <<>> >>
    BY <2>1, <2>2 DEF IsLoop
  <2> QED BY <2>3 DEF e
<1>2. ASSUME NEW s \in Seq(Char)
      PROVE  Split(s) \in Seq(Seq(Char)) \ {<<>>}
  BY SplitLoop
<1>3. ASSUME NEW s \in Seq(Char), NEW c \in Char
      PROVE  Split(Append(s, c)) = MoreOf[Split(s)][c]
  <2> DEFINE t == Append(s, c)
  <2>1. t \in Seq(Char) /\ Len(t) = Len(s) + 1
    OBVIOUS
  <2> HIDE DEF t
  <2>2. PICK f : IsLoop(f, << <<>> >>, MoreOf, s) /\ Split(s) = f[Len(s)]
    BY SplitLoop
  <2>3. PICK h : IsLoop(h, << <<>> >>, MoreOf, t) /\ Split(t) = h[Len(t)]
    BY <2>1, SplitLoop
  <2>4. h[Len(s) + 1] = MoreOf[f[Len(s)]][c]
    <3>1. IsLoop(h, << <<>> >>, MoreOf, Append(s, c))
      BY <2>3 DEF t
    <3> QED BY <2>2, <3>1, LoopAppend, SMTT(30)
  <2>5. Split(t) = MoreOf[Split(s)][c]
    BY <2>1, <2>2, <2>3, <2>4
  <2> QED BY <2>5 DEF t
<1> QED BY <1>1, <1>2, <1>3

(* What was appended to is no longer empty.                                *)
LEMMA AppendOne ==
    ASSUME NEW S, NEW w \in Seq(S), NEW x \in S
    PROVE  Append(w, x) \in Seq(S) \ {<<>>}
<1>1. Append(w, x) \in Seq(S) /\ Len(Append(w, x)) = Len(w) + 1 /\ Len(w) \in Nat
  BY AppendProperties
<1>2. Len(Append(w, x)) # 0
  BY <1>1
<1> QED BY <1>1, <1>2

(* A slash starts a name, and another character goes on with it.           *)
LEMMA MoreAt ==
    ASSUME NEW u \in Seq(Seq(Char)), NEW x \in Seq(Char)
    PROVE  /\ MoreOf[Append(u, x)]["/"] = Append(Append(u, x), <<>>)
           /\ \A c \in Char \ {"/"} :
                 MoreOf[Append(u, x)][c] = Append(u, Append(x, c))
<1> DEFINE w == Append(u, x)
           n == Len(u)
<1>1. /\ w \in Seq(Seq(Char)) \ {<<>>} /\ Len(w) = n + 1 /\ n \in Nat
      /\ w = [k \in 1 .. n + 1 |-> IF k = n + 1 THEN x ELSE u[k]]
  BY AppendValue
<1>2. "/" \in Char
  BY PathsAssumption
<1>3. MoreOf[w]["/"] = Append(w, <<>>)
  BY <1>1, <1>2 DEF MoreOf
<1>4. ASSUME NEW c \in Char \ {"/"} PROVE MoreOf[w][c] = Append(u, Append(x, c))
  <2> DEFINE y == Append(x, c)
  <2>1. y \in Seq(Char)
    OBVIOUS
  <2> HIDE DEF y
  <2>2. Append(u, y) = [k \in 1 .. n + 1 |-> IF k = n + 1 THEN y ELSE u[k]]
    BY <2>1, AppendValue
  <2> HIDE DEF n, w
  <2>3. MoreOf[w][c] = [w EXCEPT ![n + 1] = Append(@, c)]
    <3>1. MoreOf[w][c] = [w EXCEPT ![Len(w)] = Append(@, c)]
      BY <1>1 DEF MoreOf
    <3> QED BY <1>1, <3>1
  <2>4. [w EXCEPT ![n + 1] = Append(@, c)]
          = [k \in 1 .. n + 1 |-> IF k = n + 1 THEN y ELSE u[k]]
    <3>1. n + 1 \in 1 .. n + 1 /\ w[n + 1] = x
      BY <1>1
    <3>2. DOMAIN w = 1 .. n + 1
      BY <1>1
    <3>3. \A k \in 1 .. n + 1 : k # n + 1 => w[k] = u[k]
      BY <1>1
    <3> QED BY <3>1, <3>2, <3>3 DEF y
  <2> QED BY <2>2, <2>3, <2>4 DEF n, y
<1> QED BY <1>3, <1>4

(* A string between slashes is a string.                                   *)
LEMMA NameString ==
    /\ SlashFree \subseteq Seq(Char) /\ Name \subseteq SlashFree /\ Plain \subseteq Name
    /\ Seq(Plain) \subseteq Seq(Name) /\ Seq(Name) \subseteq Seq(SlashFree)
    /\ Seq(SlashFree) \subseteq Seq(Seq(Char))
    /\ <<>> \in SlashFree /\ <<"/">> \in Seq(Char)
<1>1. SlashFree \subseteq Seq(Char)
  BY SeqLarger DEF SlashFree
<1>2. Name \subseteq SlashFree /\ Plain \subseteq Name
  BY DEF Name, Plain
<1>3. /\ Seq(Plain) \subseteq Seq(Name) /\ Seq(Name) \subseteq Seq(SlashFree)
      /\ Seq(SlashFree) \subseteq Seq(Seq(Char))
  BY <1>1, <1>2, SeqLarger, Zenon
<1>4. <<>> \in SlashFree
  BY EmptySeq DEF SlashFree
<1>5. <<"/">> \in Seq(Char)
  BY PathsAssumption
<1> QED BY <1>1, <1>2, <1>3, <1>4, <1>5

(* No slash is left between two slashes.                                   *)
LEMMA SplitType ==
    ASSUME NEW s \in Seq(Char)
    PROVE  Split(s) \in Seq(SlashFree) \ {<<>>}
<1> DEFINE P == {t \in Seq(Char) : Split(t) \in Seq(SlashFree) \ {<<>>}}
<1>1. <<>> \in P
  <2>1. << <<>> >> \in Seq(SlashFree) /\ << <<>> >> # <<>> /\ <<>> \in Seq(Char)
    BY NameString, EmptySeq
  <2> QED BY <2>1, SplitAppend, Zenon
<1>2. ASSUME NEW t \in Seq(Char), NEW c \in Char, t \in P PROVE Append(t, c) \in P
  <2> DEFINE w == Split(t)
  <2>1. w \in Seq(SlashFree) /\ w # <<>>
    BY <1>2
  <2> HIDE DEF w
  <2>2. PICK u \in Seq(SlashFree), x \in SlashFree : w = Append(u, x)
    BY <2>1, SequenceEmptyOrAppend
  <2>3. Split(Append(t, c)) = MoreOf[w][c]
    BY SplitAppend DEF w
  <2>4. u \in Seq(Seq(Char)) /\ x \in Seq(Char)
    BY NameString, Zenon
  <2>7. Append(t, c) \in Seq(Char)
    OBVIOUS
  <2>5. CASE c = "/"
    <3>1. MoreOf[w][c] = Append(w, <<>>)
      BY <2>2, <2>4, <2>5, MoreAt, Zenon
    <3>2. Append(w, <<>>) \in Seq(SlashFree) \ {<<>>}
      BY <2>1, NameString, AppendOne, Zenon
    <3> QED BY <2>3, <2>7, <3>1, <3>2, Zenon
  <2>6. CASE c # "/"
    <3>1. MoreOf[w][c] = Append(u, Append(x, c))
      BY <2>2, <2>4, <2>6, MoreAt
    <3>2. Append(x, c) \in SlashFree
      BY <2>6 DEF SlashFree
    <3>3. Append(u, Append(x, c)) \in Seq(SlashFree) \ {<<>>}
      BY <3>2, AppendOne, Zenon
    <3> QED BY <2>3, <2>7, <3>1, <3>3, Zenon
  <2> QED BY <2>5, <2>6
<1> HIDE DEF P
<1>3. s \in P
  BY <1>1, <1>2, SeqSetInduction
<1> QED BY <1>3 DEF P

(* A name behind a slash is one part more; what has no slash is one part.  *)
LEMMA SplitName ==
    ASSUME NEW p \in SlashFree
    PROVE  /\ Split(p) = <<p>>
           /\ \A s \in Seq(Char) : Split(s \o (Slash \o p)) = Append(Split(s), p)
<1> DEFINE P == {t \in SlashFree :
                    /\ Split(t) = <<t>>
                    /\ \A s \in Seq(Char) :
                          Split(s \o (Slash \o t)) = Append(Split(s), t)}
<1>1. <<>> \in P
  <2>1. <<>> \in SlashFree /\ Split(<<>>) = << <<>> >>
    BY NameString, SplitAppend
  <2>2. ASSUME NEW s \in Seq(Char) PROVE Split(s \o (Slash \o <<>>)) = Append(Split(s), <<>>)
    <3>1. s \o (Slash \o <<>>) = Append(s, "/")
      <4>1. Slash \o <<>> = <<"/">> /\ <<"/">> \in Seq(Char) /\ "/" \in Char
        BY NameString, PathsAssumption, ConcatEmptySeq DEF Slash
      <4>2. s \o <<"/">> = Append(s, "/")
        BY <4>1, AppendIsConcat
      <4> QED BY <4>1, <4>2
    <3>2. Split(Append(s, "/")) = MoreOf[Split(s)]["/"] /\ Split(s) \in Seq(Seq(Char)) \ {<<>>}
      BY PathsAssumption, SplitAppend
    <3>3. PICK u \in Seq(Seq(Char)), x \in Seq(Char) : Split(s) = Append(u, x)
      BY <3>2, SequenceEmptyOrAppend
    <3>4. MoreOf[Split(s)]["/"] = Append(Split(s), <<>>)
      BY <3>3, MoreAt, Zenon
    <3> QED BY <3>1, <3>2, <3>4
  <2> QED BY <2>1, <2>2
<1>2. ASSUME NEW t \in Seq(Char \ {"/"}), NEW c \in Char \ {"/"}, t \in P
      PROVE  Append(t, c) \in P
  <2>1. /\ Append(t, c) \in SlashFree /\ t \in Seq(Char) /\ t \in SlashFree
        /\ <<>> \in Seq(Seq(Char)) /\ Slash \in Seq(Char)
    BY NameString, EmptySeq DEF SlashFree, Slash
  <2>2. Split(Append(t, c)) = <<Append(t, c)>>
    <3>1. Split(Append(t, c)) = MoreOf[<<t>>][c]
      BY <1>2, <2>1, SplitAppend
    <3>2. <<t>> = Append(<<>>, t) /\ <<Append(t, c)>> = Append(<<>>, Append(t, c))
      OBVIOUS
    <3>3. MoreOf[Append(<<>>, t)][c] = Append(<<>>, Append(t, c))
      BY <2>1, MoreAt, Zenon
    <3> QED BY <3>1, <3>2, <3>3, Zenon
  <2>3. ASSUME NEW s \in Seq(Char)
        PROVE  Split(s \o (Slash \o Append(t, c))) = Append(Split(s), Append(t, c))
    <3> DEFINE v == s \o (Slash \o t)
    <3>1. v \in Seq(Char) /\ Slash \o t \in Seq(Char)
      BY <2>1, ConcatProperties
    <3>2. s \o (Slash \o Append(t, c)) = Append(v, c)
      <4>1. /\ Append(t, c) = t \o <<c>> /\ <<c>> \in Seq(Char)
            /\ Append(v, c) = v \o <<c>>
        BY <2>1, <3>1, AppendIsConcat
      <4>2. Slash \o (t \o <<c>>) = (Slash \o t) \o <<c>>
        BY <2>1, <4>1, ConcatAssociative
      <4>3. s \o ((Slash \o t) \o <<c>>) = v \o <<c>>
        BY <3>1, <4>1, ConcatAssociative
      <4> QED BY <4>1, <4>2, <4>3, Zenon
    <3>3. Split(Append(v, c)) = MoreOf[Split(v)][c]
      BY <3>1, SplitAppend
    <3>4. Split(v) = Append(Split(s), t)
      BY <1>2
    <3>5. Split(s) \in Seq(Seq(Char))
      BY SplitAppend
    <3> HIDE DEF v
    <3>6. MoreOf[Append(Split(s), t)][c] = Append(Split(s), Append(t, c))
      BY <2>1, <3>5, MoreAt, Zenon
    <3> QED BY <3>2, <3>3, <3>4, <3>6, Zenon
  <2> QED BY <2>1, <2>2, <2>3
<1> HIDE DEF P
<1>3. p \in P
  BY <1>1, <1>2, SeqSetInduction DEF SlashFree
<1> QED BY <1>3 DEF P

-----------------------------------------------------------------------------
(* normalize_path.                                                         *)

(* The round of Kept, by what is kept and by the next part.                *)
AddOf == [kept \in Seq(Plain) |-> [part \in SlashFree |-> AddPart(part, kept)]]

(* It keeps names that are not dots.                                       *)
LEMMA AddType == AddOf \in [Seq(Plain) -> [SlashFree -> Seq(Plain)]]
<1> SUFFICES ASSUME NEW kept \in Seq(Plain), NEW part \in SlashFree
             PROVE  AddPart(part, kept) \in Seq(Plain)
  BY DEF AddOf
<1>1. CASE part \in {<<>>, <<".">>}
  BY <1>1 DEF AddPart
<1>2. CASE part \notin {<<>>, <<".">>} /\ part # <<".", ".">>
  <2>1. part \in Plain
    BY <1>2 DEF Plain, Name
  <2>2. Append(kept, part) \in Seq(Plain)
    BY <2>1
  <2> QED BY <1>2, <2>2 DEF AddPart
<1>3. CASE part \notin {<<>>, <<".">>} /\ part = <<".", ".">>
  <2>1. kept # <<>> => SubSeq(kept, 1, Len(kept) - 1) \in Seq(Plain)
    <3> SUFFICES ASSUME kept # <<>> PROVE SubSeq(kept, 1, Len(kept) - 1) \in Seq(Plain)
      OBVIOUS
    <3>1. Len(kept) \in Nat /\ Len(kept) >= 1
      OBVIOUS
    <3>2. 1 \in 1 .. Len(kept) + 1 /\ Len(kept) - 1 \in 0 .. Len(kept)
      BY <3>1
    <3> QED BY <3>2, SubSeqProperties
  <2> QED BY <1>3, <2>1 DEF AddPart, Front
<1> QED BY <1>1, <1>2, <1>3

(* Kept is the loop with this round.                                       *)
LEMMA KeptLoop ==
    ASSUME NEW parts \in Seq(SlashFree)
    PROVE  \E f : /\ f \in [0 .. Len(parts) -> Seq(Plain)]
                  /\ IsLoop(f, <<>>, AddOf, parts)
                  /\ Kept(parts) = f[Len(parts)]
<1> DEFINE Walk(f) == f = [k \in 0 .. Len(parts) |->
                             IF k = 0 THEN <<>> ELSE AddPart(parts[k], f[k - 1])]
           walk == CHOOSE f : Walk(f)
           I == Seq(Plain)
<1>1. <<>> \in I
  BY EmptySeq
<1>2. PICK f : f \in [0 .. Len(parts) -> I] /\ IsLoop(f, <<>>, AddOf, parts)
  <2> HIDE DEF I
  <2>1. AddOf \in [I -> [SlashFree -> I]]
    BY AddType DEF I
  <2> QED BY <1>1, <2>1, LoopExists
<1>3. \A kept \in I, part \in SlashFree : AddOf[kept][part] = AddPart(part, kept)
  BY DEF AddOf
<1> HIDE DEF I
<1>4. ASSUME NEW h, Walk(h) PROVE h = f
  <2> DEFINE N == {n \in Nat : n <= Len(parts) => h[n] = f[n]}
  <2>1. 0 \in N
    BY <1>4, <1>2 DEF IsLoop
  <2>2. ASSUME NEW n \in Nat, n \in N PROVE n + 1 \in N
    <3> SUFFICES ASSUME n + 1 <= Len(parts) PROVE h[n + 1] = f[n + 1]
      OBVIOUS
    <3>1. /\ n + 1 \in 1 .. Len(parts) /\ n \in 0 .. Len(parts) /\ (n + 1) - 1 = n
          /\ n + 1 # 0 /\ n + 1 \in 0 .. Len(parts)
          /\ parts[n + 1] \in SlashFree /\ h[n] = f[n]
      BY <2>2
    <3>2. h[n + 1] = AddPart(parts[n + 1], h[n])
      BY <1>4, <3>1
    <3>3. f[n + 1] = AddOf[f[n]][parts[n + 1]] /\ f[n] \in I
      BY <1>2, <3>1 DEF IsLoop
    <3> QED BY <1>3, <3>1, <3>2, <3>3
  <2> HIDE DEF N
  <2>3. Nat \subseteq N
    BY <2>1, <2>2, NatSetInduction
  <2>4. \A n \in 0 .. Len(parts) : h[n] = f[n]
    BY <2>3 DEF N
  <2> QED BY <1>2, <1>4, <2>4
<1>5. Walk(f)
  <2>1. ASSUME NEW k \in 0 .. Len(parts)
        PROVE  f[k] = IF k = 0 THEN <<>> ELSE AddPart(parts[k], f[k - 1])
    <3>1. CASE k = 0
      BY <1>2, <3>1 DEF IsLoop
    <3>2. CASE k # 0
      <4>1. k \in 1 .. Len(parts) /\ k - 1 \in 0 .. Len(parts) /\ parts[k] \in SlashFree
        BY <3>2
      <4>2. f[k] = AddOf[f[k - 1]][parts[k]] /\ f[k - 1] \in I
        BY <1>2, <4>1 DEF IsLoop
      <4> QED BY <1>3, <3>2, <4>1, <4>2
    <3> QED BY <3>1, <3>2
  <2> QED BY <1>2, <2>1
<1>6. Walk(walk)
  <2> HIDE DEF Walk
  <2> QED BY <1>5, Zenon
<1>7. walk = f
  <2> HIDE DEF Walk, walk
  <2> QED BY <1>4, <1>6
<1>8. Kept(parts) = walk[Len(parts)]
  BY DEF Kept
<1> QED BY <1>2, <1>7, <1>8 DEF I

(* Nothing to keep, and one part more.                                     *)
LEMMA KeptAppend ==
    /\ Kept(<<>>) = <<>>
    /\ \A parts \in Seq(SlashFree) :
          /\ Kept(parts) \in Seq(Plain)
          /\ \A p \in SlashFree : Kept(Append(parts, p)) = AddPart(p, Kept(parts))
<1>1. Kept(<<>>) = <<>>
  <2> DEFINE e == <<>>
  <2>1. e \in Seq(SlashFree) /\ Len(e) = 0
    BY EmptySeq
  <2> HIDE DEF e
  <2>2. PICK f : IsLoop(f, <<>>, AddOf, e) /\ Kept(e) = f[Len(e)]
    BY <2>1, KeptLoop
  <2>3. Kept(e) = <<>>
    BY <2>1, <2>2 DEF IsLoop
  <2> QED BY <2>3 DEF e
<1>2. ASSUME NEW parts \in Seq(SlashFree) PROVE Kept(parts) \in Seq(Plain)
  BY KeptLoop
<1>3. ASSUME NEW parts \in Seq(SlashFree), NEW p \in SlashFree
      PROVE  Kept(Append(parts, p)) = AddPart(p, Kept(parts))
  <2> DEFINE t == Append(parts, p)
  <2>1. t \in Seq(SlashFree) /\ Len(t) = Len(parts) + 1
    OBVIOUS
  <2> HIDE DEF t
  <2>2. PICK f : IsLoop(f, <<>>, AddOf, parts) /\ Kept(parts) = f[Len(parts)]
    BY KeptLoop
  <2>3. PICK h : IsLoop(h, <<>>, AddOf, t) /\ Kept(t) = h[Len(t)]
    BY <2>1, KeptLoop
  <2>4. h[Len(parts) + 1] = AddOf[f[Len(parts)]][p]
    <3>1. IsLoop(h, <<>>, AddOf, Append(parts, p))
      BY <2>3 DEF t
    <3> QED BY <2>2, <3>1, LoopAppend, SMTT(30)
  <2>5. Kept(t) = AddOf[Kept(parts)][p]
    BY <2>1, <2>2, <2>3, <2>4
  <2>6. AddOf[Kept(parts)][p] = AddPart(p, Kept(parts))
    BY <1>2 DEF AddOf
  <2> QED BY <2>5, <2>6 DEF t
<1> QED BY <1>1, <1>2, <1>3

(* Names that are not dots are all kept.                                   *)
LEMMA KeptPlain ==
    ASSUME NEW ps \in Seq(Plain)
    PROVE  Kept(<< <<>> >> \o ps) = ps
<1> DEFINE E == << <<>> >>
           P == {t \in Seq(Plain) : Kept(E \o t) = t}
<1>1. E \in Seq(SlashFree)
  BY NameString
<1>2. <<>> \in P
  <2>1. <<>> \in Seq(Plain) /\ <<>> \in Seq(SlashFree) /\ E \o <<>> = E
    BY <1>1, EmptySeq, ConcatEmptySeq
  <2>2. E = Append(<<>>, <<>>)
    OBVIOUS
  <2>3. Kept(E) = AddPart(<<>>, Kept(<<>>))
    BY <2>1, <2>2, NameString, KeptAppend, Zenon
  <2>4. AddPart(<<>>, <<>>) = <<>>
    BY DEF AddPart
  <2> HIDE DEF E
  <2> QED BY <2>1, <2>3, <2>4, KeptAppend
<1>3. ASSUME NEW t \in Seq(Plain), NEW p \in Plain, t \in P PROVE Append(t, p) \in P
  <2> HIDE DEF E
  <2>1. t \in Seq(SlashFree) /\ p \in SlashFree
    BY NameString, Zenon
  <2>2. E \o Append(t, p) = Append(E \o t, p) /\ E \o t \in Seq(SlashFree)
    BY <1>1, <2>1, ConcatAppend
  <2>3. Kept(Append(E \o t, p)) = AddPart(p, Kept(E \o t))
    BY <2>1, <2>2, KeptAppend, Zenon
  <2>4. AddPart(p, t) = Append(t, p)
    BY DEF AddPart, Plain, Name
  <2>5. Append(t, p) \in Seq(Plain)
    OBVIOUS
  <2> QED BY <1>3, <2>2, <2>3, <2>4, <2>5
<1> HIDE DEF P
<1>4. ps \in P
  BY <1>2, <1>3, SeqSetInduction
<1> QED BY <1>4 DEF P

-----------------------------------------------------------------------------
(* Trees of names.                                                         *)

(* Names with a slash before each, and the absolute path that they are.    *)
Trunk(ps) == FlattenSeq([k \in 1 .. Len(ps) |-> Slash \o ps[k]])
Tree(ps) == IF ps = <<>> THEN Slash ELSE Trunk(ps)

(* A name more.                                                            *)
LEMMA TrunkAppend ==
    /\ Trunk(<<>>) = <<>>
    /\ \A ps \in Seq(SlashFree), p \in SlashFree :
          Trunk(Append(ps, p)) = Trunk(ps) \o (Slash \o p)
    /\ \A ps \in Seq(SlashFree) : Trunk(ps) \in Seq(Char)
    /\ \A p \in SlashFree : Slash \o p \in Seq(Char)
<1> DEFINE All(ps) == [k \in 1 .. Len(ps) |-> Slash \o ps[k]]
<1>1. All(<<>>) = <<>>
  OBVIOUS
<1>2. ASSUME NEW p \in SlashFree PROVE Slash \o p \in Seq(Char)
  BY NameString, ConcatProperties DEF Slash
<1>3. ASSUME NEW ps \in Seq(SlashFree) PROVE All(ps) \in Seq(Seq(Char)) /\ Len(All(ps)) = Len(ps)
  <2>1. Len(ps) \in Nat /\ \A k \in 1 .. Len(ps) : ps[k] \in SlashFree
    OBVIOUS
  <2>2. All(ps) \in [1 .. Len(ps) -> Seq(Char)] /\ Len(All(ps)) = Len(ps)
    BY <1>2, <2>1
  <2> HIDE DEF All
  <2> QED BY <2>1, <2>2, FunctionSeq
<1>4. ASSUME NEW ps \in Seq(SlashFree), NEW p \in SlashFree
      PROVE  All(Append(ps, p)) = Append(All(ps), Slash \o p)
  <2> DEFINE n == Len(ps)
             a == All(ps)
             x == Slash \o p
             u == Append(ps, p)
  <2>1. a \in Seq(Seq(Char)) /\ Len(a) = n /\ x \in Seq(Char) /\ n \in Nat
    BY <1>2, <1>3
  <2>2. \A k \in 1 .. n : a[k] = Slash \o ps[k]
    OBVIOUS
  <2>3. u = [k \in 1 .. n + 1 |-> IF k = n + 1 THEN p ELSE ps[k]] /\ Len(u) = n + 1
    BY AppendValue
  <2>4. All(u) = [k \in 1 .. n + 1 |-> Slash \o u[k]]
    BY <2>3
  <2> HIDE DEF a, x, u
  <2>5. Append(a, x) = [k \in 1 .. n + 1 |-> IF k = n + 1 THEN x ELSE a[k]]
    BY <2>1, AppendValue
  <2> HIDE DEF n, All
  <2>6. ASSUME NEW k \in 1 .. n + 1 PROVE Slash \o u[k] = IF k = n + 1 THEN x ELSE a[k]
    <3>1. CASE k = n + 1
      BY <2>3, <3>1 DEF x
    <3>2. CASE k # n + 1
      <4>1. k \in 1 .. n
        BY <2>1, <3>2
      <4> QED BY <2>2, <2>3, <3>2, <4>1
    <3> QED BY <3>1, <3>2
  <2>7. All(u) = Append(a, x)
    BY <2>4, <2>5, <2>6
  <2> QED BY <2>7 DEF a, x, u
<1> HIDE DEF All
<1>5. \A ps : Trunk(ps) = FlattenSeq(All(ps))
  BY DEF Trunk, All
<1>6. \A ps \in Seq(SlashFree), p \in SlashFree :
         Trunk(Append(ps, p)) = Trunk(ps) \o (Slash \o p)
  BY <1>2, <1>3, <1>4, <1>5, FlattenAppend
<1>7. \A ps \in Seq(SlashFree) : Trunk(ps) \in Seq(Char)
  BY <1>3, <1>5, FlattenType
<1> QED BY <1>1, <1>2, <1>5, <1>6, <1>7, FlattenEmpty

(* Names behind names.                                                     *)
LEMMA TrunkConcat ==
    ASSUME NEW ps \in Seq(SlashFree), NEW qs \in Seq(SlashFree)
    PROVE  Trunk(ps \o qs) = Trunk(ps) \o Trunk(qs)
<1> DEFINE P == {t \in Seq(SlashFree) : Trunk(ps \o t) = Trunk(ps) \o Trunk(t)}
<1>1. <<>> \in P
  <2>1. ps \o <<>> = ps /\ Trunk(ps) \o <<>> = Trunk(ps) /\ <<>> \in Seq(SlashFree)
    BY TrunkAppend, ConcatEmptySeq, EmptySeq
  <2>2. Trunk(ps \o <<>>) = Trunk(ps) \o Trunk(<<>>)
    BY <2>1, TrunkAppend, Zenon
  <2> QED BY <2>1, <2>2
<1>2. ASSUME NEW t \in Seq(SlashFree), NEW p \in SlashFree, t \in P PROVE Append(t, p) \in P
  <2> DEFINE a == Trunk(ps)
             b == Trunk(t)
             x == Slash \o p
  <2>1. ps \o Append(t, p) = Append(ps \o t, p) /\ ps \o t \in Seq(SlashFree)
    BY ConcatAppend
  <2>2. Trunk(Append(ps \o t, p)) = Trunk(ps \o t) \o x /\ Trunk(Append(t, p)) = b \o x
    BY <2>1, TrunkAppend, Zenon
  <2>3. Trunk(ps \o t) = a \o b
    BY <1>2
  <2>4. a \in Seq(Char) /\ b \in Seq(Char) /\ x \in Seq(Char)
    BY TrunkAppend
  <2>5. Append(t, p) \in Seq(SlashFree)
    OBVIOUS
  <2> HIDE DEF a, b, x
  <2>6. (a \o b) \o x = a \o (b \o x)
    BY <2>4, ConcatAssociative
  <2>7. Trunk(ps \o Append(t, p)) = a \o Trunk(Append(t, p))
    BY <2>1, <2>2, <2>3, <2>6, Zenon
  <2> QED BY <2>5, <2>7 DEF a
<1> HIDE DEF P
<1>3. qs \in P
  BY <1>1, <1>2, SeqSetInduction
<1> QED BY <1>3 DEF P

(* Split gives the names back, behind an empty one.                        *)
LEMMA SplitTrunk ==
    ASSUME NEW ps \in Seq(SlashFree)
    PROVE  Split(Trunk(ps)) = << <<>> >> \o ps
<1> DEFINE E == << <<>> >>
           P == {t \in Seq(SlashFree) : Split(Trunk(t)) = E \o t}
<1>1. E \in Seq(SlashFree)
  BY NameString
<1>2. Split(<<>>) = E
  BY SplitAppend
<1> HIDE DEF E
<1>3. <<>> \in P
  BY <1>1, <1>2, TrunkAppend, EmptySeq, ConcatEmptySeq
<1>4. ASSUME NEW t \in Seq(SlashFree), NEW p \in SlashFree, t \in P PROVE Append(t, p) \in P
  <2>1. Trunk(Append(t, p)) = Trunk(t) \o (Slash \o p) /\ Trunk(t) \in Seq(Char)
    BY TrunkAppend
  <2>2. Split(Trunk(t) \o (Slash \o p)) = Append(Split(Trunk(t)), p)
    BY <2>1, SplitName, Zenon
  <2>3. E \o Append(t, p) = Append(E \o t, p)
    BY <1>1, ConcatAppend
  <2>4. Append(t, p) \in Seq(SlashFree)
    OBVIOUS
  <2> QED BY <1>4, <2>1, <2>2, <2>3, <2>4
<1> HIDE DEF P
<1>5. ps \in P
  BY <1>3, <1>4, SeqSetInduction
<1> QED BY <1>5 DEF P, E

(* Join leaves the first slash out.                                        *)
LEMMA JoinTrunk ==
    ASSUME NEW ps \in Seq(SlashFree)
    PROVE  Join(ps) \in Seq(Char) /\ Slash \o Join(ps) = Tree(ps)
<1> DEFINE One(p, k) == IF k = 1 THEN p ELSE Slash \o p
           All(t) == [k \in DOMAIN t |-> One(t[k], k)]
           P == {t \in Seq(SlashFree) : Slash \o Join(t) = Tree(t)}
<1>1. \A t : Join(t) = FlattenSeq(All(t))
  BY DEF Join
<1>2. ASSUME NEW p \in SlashFree, NEW k PROVE One(p, k) \in Seq(Char)
  BY NameString, TrunkAppend
<1>3. ASSUME NEW t \in Seq(SlashFree)
      PROVE  /\ All(t) \in Seq(Seq(Char)) /\ Len(All(t)) = Len(t)
             /\ \A p \in SlashFree : All(Append(t, p)) = Append(All(t), One(p, Len(t) + 1))
  <2> HIDE DEF One
  <2>1. Len(t) \in Nat /\ DOMAIN t = 1 .. Len(t) /\ \A k \in 1 .. Len(t) : t[k] \in SlashFree
    OBVIOUS
  <2>2. All(t) \in [1 .. Len(t) -> Seq(Char)] /\ Len(All(t)) = Len(t)
    BY <1>2, <2>1
  <2>3. ASSUME NEW p \in SlashFree PROVE All(Append(t, p)) = Append(All(t), One(p, Len(t) + 1))
    <3> DEFINE n == Len(t)
               a == All(t)
               x == One(p, n + 1)
               u == Append(t, p)
    <3>1. a \in Seq(Seq(Char)) /\ Len(a) = n /\ x \in Seq(Char) /\ n \in Nat
      <4>1. a \in [1 .. Len(a) -> Seq(Char)] /\ Len(a) \in Nat /\ Len(a) = n
        BY <2>1, <2>2
      <4> HIDE DEF a, n
      <4> QED BY <4>1, <1>2, FunctionSeq
    <3>2. \A k \in 1 .. n : a[k] = One(t[k], k)
      BY <2>1
    <3>3. u = [k \in 1 .. n + 1 |-> IF k = n + 1 THEN p ELSE t[k]] /\ Len(u) = n + 1
      BY AppendValue
    <3>4. All(u) = [k \in 1 .. n + 1 |-> One(u[k], k)]
      BY <3>3
    <3> HIDE DEF a, x, u, n, All
    <3>5. Append(a, x) = [k \in 1 .. n + 1 |-> IF k = n + 1 THEN x ELSE a[k]]
      <4>1. Append(a, x) = [k \in 1 .. Len(a) + 1 |-> IF k = Len(a) + 1 THEN x ELSE a[k]]
        <5> DEFINE S == Seq(Char)
        <5>1. a \in Seq(S) /\ x \in S
          BY <3>1
        <5> HIDE DEF S
        <5> QED BY <5>1, AppendValue
      <4> QED BY <3>1, <4>1
    <3>6. ASSUME NEW k \in 1 .. n + 1 PROVE One(u[k], k) = IF k = n + 1 THEN x ELSE a[k]
      <4>1. CASE k = n + 1
        BY <3>3, <4>1 DEF x
      <4>2. CASE k # n + 1
        <5>1. k \in 1 .. n
          BY <3>1, <4>2
        <5> QED BY <3>2, <3>3, <4>2, <5>1
      <4> QED BY <4>1, <4>2
    <3>7. All(u) = Append(a, x)
      BY <3>4, <3>5, <3>6
    <3> QED BY <3>7 DEF a, x, u, n
  <2> HIDE DEF All
  <2> QED BY <2>1, <2>2, <2>3, FunctionSeq
<1> HIDE DEF All
<1>4. \A t \in Seq(SlashFree) : Join(t) \in Seq(Char)
  BY <1>1, <1>3, FlattenType
<1>5. ASSUME NEW t \in Seq(SlashFree), NEW p \in SlashFree
      PROVE  Join(Append(t, p)) = Join(t) \o One(p, Len(t) + 1)
  <2> HIDE DEF One
  <2> QED BY <1>1, <1>2, <1>3, FlattenAppend
<1>6. Join(<<>>) = <<>>
  <2>1. All(<<>>) = <<>>
    BY DEF All
  <2> QED BY <1>1, <2>1, FlattenEmpty
<1>7. Slash \in Seq(Char)
  BY NameString DEF Slash
<1>8. <<>> \in P
  <2>1. <<>> \in Seq(SlashFree) /\ Slash \o <<>> = Slash
    BY <1>7, EmptySeq, ConcatEmptySeq
  <2> QED BY <1>6, <2>1 DEF Tree
<1>9. ASSUME NEW t \in Seq(SlashFree), NEW p \in SlashFree, t \in P PROVE Append(t, p) \in P
  <2>1. Append(t, p) \in Seq(SlashFree) /\ Append(t, p) # <<>>
    OBVIOUS
  <2>2. Tree(Append(t, p)) = Trunk(t) \o (Slash \o p)
    BY <2>1, TrunkAppend DEF Tree
  <2>3. CASE t = <<>>
    <3>1. Len(t) + 1 = 1 /\ <<>> \o p = p /\ <<>> \o (Slash \o p) = Slash \o p
      BY <2>3, NameString, TrunkAppend, ConcatEmptySeq
    <3>2. Join(Append(t, p)) = p
      BY <1>5, <1>6, <2>3, <3>1
    <3>3. Trunk(t) = <<>>
      BY <2>3, TrunkAppend
    <3> QED BY <2>1, <2>2, <3>1, <3>2, <3>3
  <2>4. CASE t # <<>>
    <3>1. Len(t) + 1 # 1
      BY <2>4
    <3>2. Join(Append(t, p)) = Join(t) \o (Slash \o p)
      BY <1>5, <3>1
    <3>3. Slash \o Join(t) = Trunk(t)
      BY <1>9, <2>4 DEF Tree
    <3>4. Join(t) \in Seq(Char) /\ Slash \o p \in Seq(Char)
      BY <1>4, TrunkAppend
    <3>5. Slash \o (Join(t) \o (Slash \o p)) = (Slash \o Join(t)) \o (Slash \o p)
      <4> DEFINE a == Join(t)
                 b == Slash \o p
      <4> HIDE DEF a, b
      <4>1. Slash \o (a \o b) = (Slash \o a) \o b
        BY <1>7, <3>4, ConcatAssociative, SMTT(30) DEF a, b
      <4> QED BY <4>1 DEF a, b
    <3>6. Slash \o Join(Append(t, p)) = Tree(Append(t, p))
      BY <2>2, <3>2, <3>3, <3>5, Zenon
    <3> QED BY <2>1, <3>6
  <2> QED BY <2>3, <2>4
<1> HIDE DEF P
<1>10. ps \in P
  BY <1>8, <1>9, SeqSetInduction
<1> QED BY <1>4, <1>10 DEF P

(* No two slashes in a row, one at the beginning and none at the end.      *)
Tidied(s) ==
    /\ \A k \in 1 .. Len(s) : k + 1 \in 1 .. Len(s) => s[k] # "/" \/ s[k + 1] # "/"
    /\ s # <<>> => s[1] = "/" /\ s[Len(s)] # "/"

(* A name more leaves it so.                                               *)
LEMMA TidyName ==
    ASSUME NEW s \in Seq(Char), Tidied(s), NEW p \in Name
    PROVE  Tidied(s \o (Slash \o p))
<1> DEFINE x == Slash \o p
           u == s \o x
           m == Len(s)
           n == Len(x)
<1>1. x \in Seq(Char) /\ p \in Seq(Char) /\ Slash \in Seq(Char) /\ p \in SlashFree
  BY NameString, TrunkAppend DEF Slash
<1>2. /\ n \in Nat /\ n >= 2 /\ x[1] = "/"
      /\ \A k \in 2 .. n : x[k] # "/"
  <2>1. Joins(Char, Slash, p, x)
    BY <1>1, ConcatParts
  <2>2. Len(Slash) = 1 /\ Slash[1] = "/"
    BY DEF Slash
  <2>3. Len(p) \in Nat /\ Len(p) >= 1 /\ \A k \in 1 .. Len(p) : p[k] # "/"
    BY <1>1 DEF Name, SlashFree
  <2> HIDE DEF x
  <2>4. n = 1 + Len(p) /\ x[1] = "/" /\ \A k \in 1 .. Len(p) : x[1 + k] = p[k]
    BY <2>1, <2>2 DEF Joins
  <2>5. ASSUME NEW k \in 2 .. n PROVE x[k] # "/"
    <3>1. k - 1 \in 1 .. Len(p) /\ 1 + (k - 1) = k
      BY <2>3, <2>4
    <3> QED BY <2>3, <2>4, <3>1
  <2> QED BY <2>3, <2>4, <2>5
<1>3. /\ m \in Nat /\ Len(u) = m + n
      /\ \A k \in 1 .. m : u[k] = s[k]
      /\ \A k \in 1 .. n : u[m + k] = x[k]
  <2>1. Joins(Char, s, x, u)
    BY <1>1, ConcatParts
  <2> QED BY <2>1 DEF Joins
<1>4. m > 0 => s # <<>>
  OBVIOUS
<1>5. m = 0 => s = <<>>
  OBVIOUS
<1> HIDE DEF u, n, m, x
<1>6. ASSUME NEW k \in 1 .. m + n, k + 1 \in 1 .. m + n PROVE u[k] # "/" \/ u[k + 1] # "/"
  <2>1. CASE k + 1 <= m
    <3>1. k \in 1 .. m /\ k + 1 \in 1 .. m
      BY <1>3, <2>1
    <3>2. s[k] # "/" \/ s[k + 1] # "/"
      BY <3>1 DEF Tidied, m
    <3> QED BY <1>3, <3>1, <3>2
  <2>2. CASE k = m
    <3>1. m \in 1 .. m /\ m > 0
      BY <2>2
    <3>2. s[m] # "/"
      BY <1>4, <3>1 DEF Tidied, m
    <3> QED BY <1>3, <2>2, <3>1, <3>2
  <2>3. CASE k > m
    <3>1. (k + 1) - m \in 2 .. n /\ m + ((k + 1) - m) = k + 1 /\ (k + 1) - m \in 1 .. n
      BY <1>2, <1>3, <1>6, <2>3
    <3>2. u[k + 1] = x[(k + 1) - m]
      BY <1>3, <3>1
    <3> QED BY <1>2, <3>1, <3>2
  <2> QED BY <1>3, <2>1, <2>2, <2>3
<1>7. u[1] = "/"
  <2>1. CASE m = 0
    <3>1. 1 \in 1 .. n /\ m + 1 = 1
      BY <1>2, <2>1
    <3> QED BY <1>2, <1>3, <3>1
  <2>2. CASE m > 0
    <3>1. 1 \in 1 .. m
      BY <1>3, <2>2
    <3>2. s[1] = "/"
      BY <1>4, <2>2 DEF Tidied
    <3> QED BY <1>3, <3>1, <3>2
  <2> QED BY <1>3, <2>1, <2>2
<1>8. u[m + n] # "/"
  <2>1. n \in 2 .. n /\ n \in 1 .. n
    BY <1>2
  <2> QED BY <1>2, <1>3, <2>1
<1>9. Tidied(u)
  BY <1>3, <1>6, <1>7, <1>8 DEF Tidied
<1> QED BY <1>9 DEF u, x

(* Names with a slash before each are so.                                  *)
LEMMA TidyTrunk ==
    ASSUME NEW ps \in Seq(Name)
    PROVE  Tidied(Trunk(ps)) /\ Trunk(ps) \in Seq(Char) /\ (ps # <<>> => Trunk(ps) # <<>>)
<1> DEFINE P == {t \in Seq(Name) : /\ Tidied(Trunk(t)) /\ Trunk(t) \in Seq(Char)
                                   /\ t # <<>> => Trunk(t) # <<>>}
<1>1. <<>> \in P
  <2>1. <<>> \in Seq(Name) /\ <<>> \in Seq(Char) /\ Len(<<>>) = 0
    BY EmptySeq
  <2>2. Tidied(<<>>)
    BY DEF Tidied
  <2> QED BY <2>1, <2>2, TrunkAppend
<1>2. ASSUME NEW t \in Seq(Name), NEW p \in Name, t \in P PROVE Append(t, p) \in P
  <2>1. t \in Seq(SlashFree) /\ p \in SlashFree
    BY NameString, Zenon
  <2> DEFINE s == Trunk(t)
             x == Slash \o p
  <2>2. Trunk(Append(t, p)) = s \o x /\ s \in Seq(Char) /\ x \in Seq(Char)
    BY <2>1, TrunkAppend
  <2>3. Tidied(s \o x)
    BY <1>2, <2>2, TidyName
  <2>4. x # <<>>
    BY <2>1, NameString DEF Slash
  <2>5. Append(t, p) \in Seq(Name)
    OBVIOUS
  <2> HIDE DEF s, x
  <2>6. s \o x \in Seq(Char) /\ s \o x # <<>>
    BY <2>2, <2>4
  <2> QED BY <2>2, <2>3, <2>5, <2>6
<1> HIDE DEF P
<1>3. ps \in P
  BY <1>1, <1>2, SeqSetInduction
<1> QED BY <1>3 DEF P

(* What may be left of a path behind a slash: names, of which the first    *)
(* may have been cut.                                                      *)
Rest(r) ==
    /\ r \in Seq(Char) /\ Split(r) \in Seq(Name) \ {<<>>}
    /\ Slash \o r = Trunk(Split(r))
    /\ \A k \in 2 .. Len(Split(r)) : Split(r)[k] \in Plain

(* One name, and another one behind it.                                    *)
LEMMA RestName ==
    /\ \A p \in Name : Rest(p)
    /\ \A r, p : Rest(r) /\ p \in Plain => Rest(r \o (Slash \o p))
<1>1. ASSUME NEW p \in Name PROVE Rest(p)
  <2>1. p \in SlashFree /\ p \in Seq(Char)
    BY NameString, Zenon
  <2>2. Split(p) = <<p>>
    BY <2>1, SplitName
  <2>3. <<p>> \in Seq(Name) \ {<<>>} /\ Len(<<p>>) = 1
    OBVIOUS
  <2>4. Trunk(<<p>>) = Slash \o p
    <3>1. <<p>> = Append(<<>>, p) /\ <<>> \in Seq(SlashFree)
      BY EmptySeq
    <3>2. Trunk(Append(<<>>, p)) = Trunk(<<>>) \o (Slash \o p)
      BY <2>1, <3>1, TrunkAppend, Zenon
    <3>3. <<>> \o (Slash \o p) = Slash \o p
      BY <2>1, TrunkAppend, ConcatEmptySeq
    <3> QED BY <3>1, <3>2, <3>3, TrunkAppend, Zenon
  <2> QED BY <2>1, <2>2, <2>3, <2>4 DEF Rest
<1>2. ASSUME NEW r, NEW p, Rest(r), p \in Plain PROVE Rest(r \o (Slash \o p))
  <2> DEFINE x == Slash \o p
             t == Split(r)
             u == r \o x
  <2>1. p \in SlashFree /\ p \in Name
    BY <1>2, NameString, Zenon
  <2>2. /\ r \in Seq(Char) /\ t \in Seq(Name) /\ t # <<>> /\ Slash \o r = Trunk(t)
        /\ \A k \in 2 .. Len(t) : t[k] \in Plain
    BY <1>2 DEF Rest
  <2>3. x \in Seq(Char) /\ Slash \in Seq(Char)
    BY <2>1, NameString, TrunkAppend DEF Slash
  <2>4. Split(u) = Append(t, p)
    BY <2>1, <2>2, SplitName, Zenon
  <2>5. t \in Seq(SlashFree)
    BY <2>2, NameString, Zenon
  <2> HIDE DEF t
  <2>6. Trunk(Append(t, p)) = Trunk(t) \o x
    BY <2>1, <2>5, TrunkAppend
  <2> HIDE DEF x
  <2>7. Slash \o u = (Slash \o r) \o x /\ u \in Seq(Char)
    <3>1. r \in Seq(Char)
      BY <2>2
    <3> QED BY <2>3, <3>1, ConcatAssociative, ConcatProperties
  <2>8. Slash \o u = Trunk(Append(t, p))
    BY <2>2, <2>6, <2>7
  <2> HIDE DEF u
  <2>9. Append(t, p) \in Seq(Name) \ {<<>>}
    BY <2>1, <2>2, AppendOne
  <2>10. ASSUME NEW k \in 2 .. Len(Append(t, p)) PROVE Append(t, p)[k] \in Plain
    <3>1. Append(t, p) = [i \in 1 .. Len(t) + 1 |-> IF i = Len(t) + 1 THEN p ELSE t[i]]
          /\ Len(Append(t, p)) = Len(t) + 1 /\ Len(t) \in Nat
      BY <2>1, <2>2, AppendValue
    <3>2. k \in 1 .. Len(t) + 1 /\ (k # Len(t) + 1 => k \in 2 .. Len(t))
      BY <3>1
    <3> QED BY <1>2, <2>2, <3>1, <3>2
  <2>11. Rest(u)
    BY <2>4, <2>7, <2>8, <2>9, <2>10 DEF Rest
  <2> QED BY <2>11 DEF u, x
<1> QED BY <1>1, <1>2

(* What is left of names with a slash before each, from another character  *)
(* on.                                                                     *)
LEMMA TrunkSuffix ==
    ASSUME NEW ps \in Seq(Plain), NEW i \in 1 .. Len(Trunk(ps)), Trunk(ps)[i] # "/"
    PROVE  Rest(SubSeq(Trunk(ps), i, Len(Trunk(ps))))
<1> DEFINE From(s) == \A j \in 1 .. Len(s) : s[j] # "/" => Rest(SubSeq(s, j, Len(s)))
           P == {t \in Seq(Plain) : From(Trunk(t))}
<1>1. <<>> \in P
  <2>1. <<>> \in Seq(Plain) /\ Trunk(<<>>) = <<>>
    BY EmptySeq, TrunkAppend
  <2>2. From(<<>>)
    OBVIOUS
  <2> HIDE DEF From
  <2> QED BY <2>1, <2>2
<1>2. ASSUME NEW t \in Seq(Plain), NEW p \in Plain, t \in P PROVE Append(t, p) \in P
  <2> DEFINE a == Trunk(t)
             x == Slash \o p
             u == a \o x
             b == a \o Slash
  <2>1. p \in SlashFree /\ p \in Name /\ t \in Seq(SlashFree) /\ p \in Seq(Char)
    BY NameString, Zenon
  <2>2. Trunk(Append(t, p)) = u /\ a \in Seq(Char) /\ x \in Seq(Char) /\ Slash \in Seq(Char)
    BY <2>1, NameString, TrunkAppend DEF Slash
  <2>3. From(a)
    BY <1>2
  <2>4. Append(t, p) \in Seq(Plain)
    OBVIOUS
  <2>5. u = b \o p /\ b \in Seq(Char)
    <3> HIDE DEF a
    <3> QED BY <2>1, <2>2, ConcatAssociative, ConcatProperties, SMTT(30)
  <2>6. /\ Len(b) = Len(a) + 1 /\ b[Len(a) + 1] = "/" /\ Len(a) \in Nat
        /\ \A k \in 1 .. Len(a) : b[k] = a[k]
    <3> HIDE DEF a
    <3>1. Len(Slash) = 1 /\ Slash[1] = "/"
      BY DEF Slash
    <3>2. Joins(Char, a, Slash, b)
      BY <2>2, ConcatParts
    <3> QED BY <3>1, <3>2 DEF Joins
  <2>7. /\ Len(u) = Len(b) + Len(p) /\ Len(p) \in Nat
        /\ \A k \in 1 .. Len(b) : u[k] = b[k]
    <3> HIDE DEF b, u
    <3>1. Joins(Char, b, p, u)
      BY <2>1, <2>5, ConcatParts
    <3> QED BY <3>1 DEF Joins
  <2>8. Len(u) = Len(a) + Len(x) /\ Len(x) \in Nat
    <3> HIDE DEF a, x
    <3>1. Joins(Char, a, x, u)
      BY <2>2, ConcatParts
    <3> QED BY <3>1 DEF Joins
  <2>9. ASSUME NEW j \in 1 .. Len(u), u[j] # "/" PROVE Rest(SubSeq(u, j, Len(u)))
    <3>1. CASE j <= Len(a)
      <4> HIDE DEF a, b, x
      <4>1. j \in 1 .. Len(a) /\ j \in 1 .. Len(b) /\ j \in 1 .. Len(a) + Len(x)
        BY <2>6, <2>8, <2>9, <3>1
      <4>2. a[j] # "/"
        BY <2>6, <2>7, <2>9, <4>1
      <4> DEFINE r == SubSeq(a, j, Len(a))
      <4>3. Rest(r)
        BY <2>3, <4>1, <4>2
      <4>4. SubSeq(u, j, Len(u)) = r \o x
        BY <2>2, <2>8, <3>1, <4>1, SuffixOf
      <4>5. Rest(r \o x)
        <5> HIDE DEF r
        <5> QED BY <4>3, RestName, Zenon DEF x
      <4> QED BY <4>4, <4>5
    <3>2. CASE j = Len(a) + 1
      <4>1. j \in 1 .. Len(b)
        BY <2>6, <3>2
      <4> HIDE DEF a, b, u
      <4> QED BY <2>6, <2>7, <2>9, <3>2, <4>1
    <3>3. CASE j > Len(b)
      <4> HIDE DEF a, b, x
      <4>1. j \in 1 .. Len(b) + Len(p) /\ Len(b) \in Nat
        BY <2>5, <2>7, <2>9
      <4>2. SubSeq(u, j, Len(u)) = SubSeq(p, j - Len(b), Len(p))
        BY <2>1, <2>5, <2>7, <3>3, <4>1, SuffixOf
      <4>3. j - Len(b) \in 1 .. Len(p)
        BY <2>7, <3>3, <4>1
      <4>4. SubSeq(p, j - Len(b), Len(p)) \in Name
        <5> DEFINE w == j - Len(b)
                   S == Char \ {"/"}
        <5>1. w \in 1 .. Len(p) /\ p \in Seq(S)
          BY <2>1, <4>3 DEF SlashFree
        <5> HIDE DEF w, S
        <5>2. /\ SubSeq(p, w, Len(p)) \in Seq(S)
              /\ Len(SubSeq(p, w, Len(p))) = (Len(p) - w) + 1
          <6>1. Len(p) \in Nat /\ w \in 1 .. Len(p) + 1 /\ Len(p) \in w - 1 .. Len(p)
            BY <2>7, <5>1
          <6> QED BY <5>1, <6>1, SubSeqProperties
        <5>3. SubSeq(p, w, Len(p)) # <<>>
          <6>1. (Len(p) - w) + 1 # 0
            BY <2>7, <5>1
          <6> QED BY <5>2, <6>1
        <5> QED BY <5>2, <5>3 DEF Name, SlashFree, S, w
      <4> QED BY <4>2, <4>4, RestName
    <3> QED BY <2>6, <3>1, <3>2, <3>3
  <2> HIDE DEF u
  <2>10. From(u)
    BY <2>9
  <2> HIDE DEF From
  <2> QED BY <2>2, <2>4, <2>10
<1> HIDE DEF P
<1>3. ps \in P
  BY <1>1, <1>2, SeqSetInduction
<1> QED BY <1>3 DEF P

-----------------------------------------------------------------------------
(* Canonical paths.                                                        *)

(* An absolute path with no two slashes in a row and none at its end, and  *)
(* one that has no dots for a name either.                                 *)
Tidy(s) == \E ps \in Seq(Name) : s = Tree(ps)
Clear(s) == \E ps \in Seq(Plain) : s = Tree(ps)

(* The second is the first, and both are absolute.                         *)
LEMMA TreeFacts ==
    /\ \A s : Clear(s) => Tidy(s)
    /\ \A s : Tidy(s) => /\ s \in Seq(Char) /\ s # <<>> /\ is_abs(s) /\ s[1] = "/"
                         /\ s = Slash \/ Tidied(s)
<1>1. \A s : Clear(s) => Tidy(s)
  BY NameString DEF Clear, Tidy
<1>2. ASSUME NEW s, Tidy(s)
      PROVE  /\ s \in Seq(Char) /\ s # <<>> /\ is_abs(s) /\ s[1] = "/"
             /\ s = Slash \/ Tidied(s)
  <2>1. PICK ps \in Seq(Name) : s = Tree(ps)
    BY <1>2 DEF Tidy
  <2>2. CASE ps = <<>>
    BY <2>1, <2>2, NameString DEF Tree, Slash, is_abs
  <2>3. CASE ps # <<>>
    <3>1. s = Trunk(ps)
      BY <2>1, <2>3 DEF Tree
    <3>2. Tidied(s) /\ s \in Seq(Char) /\ s # <<>>
      BY <2>3, <3>1, TidyTrunk
    <3>3. s[1] = "/"
      BY <3>2 DEF Tidied
    <3>4. Head(s) = s[1]
      BY <3>2
    <3> QED BY <3>2, <3>3, <3>4 DEF is_abs
  <2> QED BY <2>2, <2>3
<1> QED BY <1>1, <1>2

(* An absolute path is made clear by normalize_path.                       *)
LEMMA NormalForm ==
    ASSUME NEW s \in Seq(Char), is_abs(s)
    PROVE  /\ Kept(Split(s)) \in Seq(Plain)
           /\ normalize_path(s) = Tree(Kept(Split(s))) /\ Clear(normalize_path(s))
<1>1. Split(s) \in Seq(SlashFree)
  BY SplitType
<1> DEFINE ps == Kept(Split(s))
<1>2. ps \in Seq(Plain)
  BY <1>1, KeptAppend
<1>3. normalize_path(s) = Slash \o Join(ps)
  BY DEF normalize_path
<1> HIDE DEF ps
<1>4. ps \in Seq(SlashFree)
  BY <1>2, NameString, Zenon
<1>5. normalize_path(s) = Tree(ps)
  BY <1>3, <1>4, JoinTrunk
<1> QED BY <1>2, <1>5 DEF ps, Clear

(* The parts of a clear path.                                              *)
LEMMA ClearParts ==
    ASSUME NEW ps \in Seq(Plain)
    PROVE  /\ Kept(Split(Tree(ps))) = ps
           /\ \A part \in Range(Split(Tree(ps))) : part # <<".", ".">>
<1> DEFINE dots == <<".", ".">>
           E == << <<>> >>
<1>1. dots # <<>> /\ E \in Seq(SlashFree)
  BY NameString
<1>2. CASE ps = <<>>
  <2>1. Tree(ps) = Slash
    BY <1>2 DEF Tree
  <2>2. Split(Slash) = Append(E, <<>>)
    <3>1. <<>> \o (Slash \o <<>>) = Slash
      BY NameString, ConcatEmptySeq DEF Slash
    <3>2. <<>> \in SlashFree /\ <<>> \in Seq(Char)
      BY NameString, EmptySeq
    <3>3. Split(<<>> \o (Slash \o <<>>)) = Append(Split(<<>>), <<>>)
      BY <3>2, SplitName, Zenon
    <3> QED BY <3>1, <3>3, SplitAppend, Zenon
  <2>3. Kept(Append(E, <<>>)) = AddPart(<<>>, Kept(E))
    BY <1>1, NameString, KeptAppend, Zenon
  <2>4. Kept(E) = <<>>
    <3>1. <<>> \in Seq(Plain) /\ E \o <<>> = E
      BY <1>1, EmptySeq, ConcatEmptySeq
    <3>2. Kept(E \o <<>>) = <<>>
      BY <3>1, KeptPlain
    <3> QED BY <3>1, <3>2
  <2>5. AddPart(<<>>, <<>>) = <<>>
    BY DEF AddPart
  <2>6. \A part \in Range(Append(E, <<>>)) : part = <<>>
    BY DEF Range
  <2> HIDE DEF E
  <2> QED BY <1>1, <1>2, <2>1, <2>2, <2>3, <2>4, <2>5, <2>6
<1>3. CASE ps # <<>>
  <2>1. ps \in Seq(SlashFree)
    BY NameString, Zenon
  <2>2. Tree(ps) = Trunk(ps)
    BY <1>3 DEF Tree
  <2>3. Split(Trunk(ps)) = E \o ps
    BY <2>1, SplitTrunk
  <2>4. Kept(E \o ps) = ps
    BY KeptPlain
  <2>5. ASSUME NEW part \in Range(E \o ps) PROVE part # dots
    <3>1. PICK k \in DOMAIN (E \o ps) : part = (E \o ps)[k]
      BY DEF Range
    <3>2. Joins(SlashFree, E, ps, E \o ps)
      <4> HIDE DEF E
      <4> QED BY <1>1, <2>1, ConcatParts
    <3>3. Len(E) = 1 /\ E[1] = <<>>
      OBVIOUS
    <3> DEFINE u == E \o ps
    <3> HIDE DEF E, u, dots
    <3>4. Len(u) = 1 + Len(ps) /\ u[1] = <<>> /\ Len(ps) \in Nat
          /\ (\A j \in 1 .. Len(ps) : u[1 + j] = ps[j]) /\ DOMAIN u = 1 .. Len(u)
      BY <3>2, <3>3 DEF Joins, u
    <3>5. k \in 1 .. 1 + Len(ps) /\ part = u[k]
      BY <3>1, <3>4 DEF u
    <3>6. CASE k = 1
      BY <1>1, <3>4, <3>5, <3>6
    <3>7. CASE k # 1
      <4>1. k - 1 \in 1 .. Len(ps) /\ 1 + (k - 1) = k
        BY <3>4, <3>5, <3>7
      <4>2. part = ps[k - 1]
        BY <3>4, <3>5, <4>1
      <4>3. part \in Plain
        BY <4>1, <4>2
      <4> QED BY <4>3 DEF Plain, dots
    <3> QED BY <3>6, <3>7
  <2> HIDE DEF E
  <2> QED BY <2>2, <2>3, <2>4, <2>5
<1> QED BY <1>2, <1>3

(* The clear paths are the canonical ones.                                 *)
LEMMA CanonicalClear ==
    /\ \A s : Clear(s) => Canonical(s) /\ normalize_path(s) = s
    /\ \A s \in Seq(Char) : Canonical(s) => Clear(s)
<1>1. ASSUME NEW s, Clear(s) PROVE Canonical(s) /\ normalize_path(s) = s
  <2>1. PICK ps \in Seq(Plain) : s = Tree(ps)
    BY <1>1 DEF Clear
  <2>2. s \in Seq(Char) /\ is_abs(s)
    BY <1>1, TreeFacts
  <2>3. normalize_path(s) = Tree(Kept(Split(s)))
    BY <2>2, NormalForm
  <2>4. Kept(Split(s)) = ps /\ \A part \in Range(Split(s)) : part # <<".", ".">>
    BY <2>1, ClearParts
  <2> QED BY <2>1, <2>2, <2>3, <2>4 DEF Canonical
<1>2. ASSUME NEW s \in Seq(Char), Canonical(s) PROVE Clear(s)
  <2>1. is_abs(s) /\ s = normalize_path(s)
    BY <1>2 DEF Canonical
  <2> QED BY <2>1, NormalForm
<1> QED BY <1>1, <1>2

-----------------------------------------------------------------------------
(* change_prefix.                                                          *)

(* Where the path goes on with something else than slashes.                *)
GoesOn(from, path, i) ==
    /\ i \in from + 1 .. Len(path) /\ path[i] # "/"
    /\ \A k \in from + 1 .. i - 1 : path[k] = "/"

(* What is common is what is there, if the path goes on.                   *)
LEMMA CommonIs ==
    ASSUME NEW prefix, Len(prefix) \in Nat, NEW path \in Seq(Char)
    PROVE  /\ \A i : GoesOn(Len(prefix), path, i) =>
                        Common(prefix, path) = SubSeq(path, i, Len(path))
           /\ \/ Common(prefix, path) = <<>>
              \/ \E i : GoesOn(Len(prefix), path, i)
           /\ (\A k \in Len(prefix) + 1 .. Len(path) : path[k] = "/") =>
                    Common(prefix, path) = <<>>
<1> DEFINE m == Len(prefix)
           from == {k \in m + 1 .. Len(path) : path[k] # "/"}
<1>1. from \subseteq Nat /\ m \in Nat /\ Len(path) \in Nat
  OBVIOUS
<1>2. Common(prefix, path) = IF from = {} THEN <<>> ELSE SubSeq(path, Min(from), Len(path))
  BY DEF Common
<1> HIDE DEF m
<1>3. from # {} => /\ Min(from) \in from /\ \A k \in from : Min(from) <= k
  <2> HIDE DEF from
  <2> QED BY <1>1, MinOfNats
<1>4. ASSUME NEW i, GoesOn(m, path, i) PROVE from # {} /\ Min(from) = i
  <2>1. i \in from /\ from # {} /\ i \in Nat
    BY <1>1, <1>4 DEF GoesOn
  <2>2. Min(from) \in from /\ Min(from) <= i /\ Min(from) \in Nat
    BY <1>1, <1>3, <2>1
  <2> DEFINE l == Min(from)
  <2>3. l \in m + 1 .. Len(path) /\ path[l] # "/"
    BY <2>2
  <2> HIDE DEF l
  <2>4. ~ (l < i)
    <3> SUFFICES ASSUME l < i PROVE FALSE
      OBVIOUS
    <3>1. l \in m + 1 .. i - 1
      BY <1>1, <2>1, <2>3
    <3> QED BY <1>4, <2>3, <3>1 DEF GoesOn
  <2>5. l <= i /\ l \in Nat
    BY <2>2 DEF l
  <2>6. l = i
    BY <2>1, <2>4, <2>5
  <2> QED BY <2>1, <2>6 DEF l
<1>5. ASSUME from # {} PROVE \E i : GoesOn(m, path, i)
  <2> DEFINE l == Min(from)
  <2>1. l \in from /\ \A k \in from : l <= k
    BY <1>3, <1>5
  <2> HIDE DEF l
  <2>2. l \in m + 1 .. Len(path) /\ path[l] # "/"
    BY <2>1
  <2>3. ASSUME NEW k \in m + 1 .. l - 1 PROVE path[k] = "/"
    <3>1. k \in m + 1 .. Len(path) /\ ~ (l <= k)
      BY <1>1, <2>2
    <3> QED BY <2>1, <3>1
  <2>4. GoesOn(m, path, l)
    BY <2>2, <2>3 DEF GoesOn
  <2> QED BY <2>4
<1>6. (\A k \in m + 1 .. Len(path) : path[k] = "/") => from = {}
  OBVIOUS
<1> HIDE DEF from
<1> QED BY <1>2, <1>4, <1>5, <1>6 DEF m

(* It is a string that does not start with a slash.                        *)
LEMMA CommonString ==
    ASSUME NEW prefix, Len(prefix) \in Nat, NEW path \in Seq(Char)
    PROVE  LET r == Common(prefix, path)
           IN  r \in Seq(Char) /\ (r # <<>> => r[1] # "/")
<1> DEFINE r == Common(prefix, path)
<1>1. CASE r = <<>>
  BY <1>1, EmptySeq
<1>2. CASE r # <<>>
  <2>1. PICK i : GoesOn(Len(prefix), path, i)
    BY <1>2, CommonIs
  <2>2. r = SubSeq(path, i, Len(path))
    BY <2>1, CommonIs
  <2>3. i \in 1 .. Len(path) /\ path[i] # "/" /\ Len(path) \in Nat
    BY <2>1 DEF GoesOn
  <2>4. i \in 1 .. Len(path) + 1 /\ Len(path) \in i - 1 .. Len(path)
    BY <2>3
  <2>5. /\ SubSeq(path, i, Len(path)) \in Seq(Char)
        /\ SubSeq(path, i, Len(path)) = [k \in 1 .. (1 + Len(path)) - i |-> path[(k + i) - 1]]
    BY <2>3, <2>4, SubSeqProperties
  <2>6. 1 \in 1 .. (1 + Len(path)) - i /\ (1 + i) - 1 = i
    BY <2>3
  <2>7. SubSeq(path, i, Len(path))[1] = path[i]
    BY <2>5, <2>6
  <2> HIDE DEF r
  <2>8. r \in Seq(Char) /\ r[1] # "/"
    BY <2>2, <2>3, <2>5, <2>7
  <2> QED BY <2>8 DEF r
<1> QED BY <1>1, <1>2

(* Of a clear path it is names, of which the first may have been cut.      *)
LEMMA CommonRest ==
    ASSUME NEW prefix, Len(prefix) \in Nat, NEW path, Clear(path)
    PROVE  Common(prefix, path) = <<>> \/ Rest(Common(prefix, path))
<1>1. path \in Seq(Char)
  BY TreeFacts
<1> SUFFICES ASSUME Common(prefix, path) # <<>> PROVE Rest(Common(prefix, path))
  OBVIOUS
<1>2. PICK i : GoesOn(Len(prefix), path, i)
  BY <1>1, CommonIs
<1>3. Common(prefix, path) = SubSeq(path, i, Len(path))
  BY <1>1, <1>2, CommonIs
<1>4. i \in 1 .. Len(path) /\ path[i] # "/" /\ Len(path) \in Nat
  BY <1>1, <1>2 DEF GoesOn
<1>5. PICK ps \in Seq(Plain) : path = Tree(ps)
  BY DEF Clear
<1>6. ps # <<>>
  <2> SUFFICES ASSUME ps = <<>> PROVE FALSE
    OBVIOUS
  <2>1. path = <<"/">>
    BY <1>5 DEF Tree, Slash
  <2>2. i = 1 /\ path[1] = "/"
    BY <1>4, <2>1
  <2> QED BY <1>4, <2>2
<1>7. path = Trunk(ps)
  BY <1>5, <1>6 DEF Tree
<1> QED BY <1>3, <1>4, <1>7, TrunkSuffix

(* A directory ends with a slash only if it is the root.                   *)
LEMMA LastOfTidy ==
    ASSUME NEW d, Tidy(d)
    PROVE  Last(d) = "/" <=> d = Slash
<1>1. d \in Seq(Char) /\ d # <<>> /\ (d = Slash \/ Tidied(d))
  BY TreeFacts
<1>2. Tidied(d) => Last(d) # "/"
  BY <1>1 DEF Tidied, Last
<1>3. d = Slash => Last(d) = "/"
  BY DEF Last, Slash
<1> QED BY <1>1, <1>2, <1>3

(* What is in a directory.                                                 *)
LEMMA UnderIs ==
    ASSUME NEW d, Tidy(d), NEW r \in Seq(Char)
    PROVE  /\ r = <<>> => Under(d, r) = d
           /\ r # <<>> => Under(d, r) = (IF d = Slash THEN d ELSE d \o Slash) \o r
<1>1. d \in Seq(Char)
  BY TreeFacts
<1>2. d \o <<>> = d
  BY <1>1, ConcatEmptySeq
<1>3. CASE r = <<>>
  BY <1>2, <1>3 DEF Under
<1>4. CASE r # <<>>
  BY <1>2, <1>4, LastOfTidy DEF Under
<1> QED BY <1>3, <1>4

(* The names there are those of the directory and those of the rest.       *)
LEMMA UnderTree ==
    ASSUME NEW hs \in Seq(Name), NEW r, Rest(r)
    PROVE  Under(Tree(hs), r) = Tree(hs \o Split(r)) /\ hs \o Split(r) \in Seq(Name)
<1> DEFINE d == Tree(hs)
           t == Split(r)
<1>1. /\ r \in Seq(Char) /\ t \in Seq(Name) /\ t # <<>>
  BY DEF Rest
<1>2. Slash \o r = Trunk(t)
  BY DEF Rest
<1>3. r # <<>>
  <2> SUFFICES ASSUME r = <<>> PROVE FALSE
    OBVIOUS
  <2>1. t = << <<>> >>
    BY SplitAppend
  <2>2. t[1] = <<>> /\ Len(t) = 1
    BY <2>1
  <2>3. t[1] \in Name
    BY <1>1, <2>2
  <2> QED BY <2>2, <2>3 DEF Name
<1>4. Tidy(d)
  BY DEF Tidy
<1>5. Under(d, r) = (IF d = Slash THEN d ELSE d \o Slash) \o r
  BY <1>1, <1>3, <1>4, UnderIs
<1>6. hs \o t \in Seq(Name) /\ hs \o t # <<>>
  <2> HIDE DEF t
  <2> QED BY <1>1
<1>7. t \in Seq(SlashFree) /\ hs \in Seq(SlashFree)
  BY <1>1, NameString, Zenon
<1>8. Tree(hs \o t) = Trunk(hs) \o Trunk(t)
  <2> HIDE DEF t
  <2> QED BY <1>6, <1>7, TrunkConcat DEF Tree
<1>9. Trunk(t) \in Seq(Char) /\ Slash \in Seq(Char) /\ d \in Seq(Char)
  BY <1>4, <1>7, TrunkAppend, NameString, TreeFacts DEF Slash
<1>10. CASE hs = <<>>
  <2>1. d = Slash
    BY <1>10 DEF Tree
  <2>2. <<>> \o Trunk(t) = Trunk(t)
    BY <1>9, ConcatEmptySeq
  <2>3. Trunk(hs) = <<>>
    BY <1>10, TrunkAppend
  <2> QED BY <1>2, <1>5, <1>6, <1>8, <2>1, <2>2, <2>3
<1>11. CASE hs # <<>>
  <2>1. d = Trunk(hs)
    BY <1>11 DEF Tree
  <2>2. d # Slash
    <3>1. Tidied(d) /\ d # <<>>
      BY <1>11, <2>1, TidyTrunk
    <3>2. d[Len(d)] # "/"
      BY <3>1 DEF Tidied
    <3> QED BY <3>2 DEF Slash
  <2> HIDE DEF d, t
  <2>3. (d \o Slash) \o r = d \o (Slash \o r)
    BY <1>1, <1>9, ConcatAssociative, SMTT(30)
  <2>4. Under(d, r) = d \o Trunk(t)
    BY <1>2, <1>5, <2>2, <2>3
  <2> QED BY <1>6, <1>8, <2>1, <2>4 DEF d, t
<1> QED BY <1>10, <1>11

(* The first part of what is left is one or two dots.                      *)
Dotted(r) == r # <<>> /\ Split(r)[1] \in {<<".">>, <<".", ".">>}

(* In a directory there are tidy paths, and clear ones but for a name that *)
(* was cut before dots.                                                    *)
LEMMA UnderTidy ==
    ASSUME NEW d, NEW r, r = <<>> \/ Rest(r)
    PROVE  /\ Tidy(d) => Tidy(Under(d, r))
           /\ Clear(d) /\ ~ Dotted(r) => Clear(Under(d, r))
<1>1. CASE r = <<>>
  <2>1. r \in Seq(Char)
    BY <1>1, EmptySeq
  <2>2. Tidy(d) => Under(d, r) = d
    BY <1>1, <2>1, UnderIs
  <2> QED BY <2>2, TreeFacts
<1>2. CASE Rest(r) /\ r # <<>>
  <2>1. ASSUME Tidy(d) PROVE Tidy(Under(d, r))
    <3>1. PICK hs \in Seq(Name) : d = Tree(hs)
      BY <2>1 DEF Tidy
    <3>2. Under(d, r) = Tree(hs \o Split(r)) /\ hs \o Split(r) \in Seq(Name)
      BY <1>2, <3>1, UnderTree
    <3> QED BY <3>2 DEF Tidy
  <2>2. ASSUME Clear(d), ~ Dotted(r) PROVE Clear(Under(d, r))
    <3>1. PICK hs \in Seq(Plain) : d = Tree(hs)
      BY <2>2 DEF Clear
    <3>2. hs \in Seq(Name)
      BY NameString, Zenon
    <3>3. Under(d, r) = Tree(hs \o Split(r))
      BY <1>2, <3>1, <3>2, UnderTree
    <3> DEFINE t == Split(r)
    <3>4. t \in Seq(Name) /\ t # <<>> /\ \A k \in 2 .. Len(t) : t[k] \in Plain
      BY <1>2 DEF Rest
    <3>5. t[1] \notin {<<".">>, <<".", ".">>}
      BY <1>2, <2>2 DEF Dotted
    <3> HIDE DEF t
    <3>6. Len(t) \in Nat /\ t \in [1 .. Len(t) -> Name] /\ Len(t) >= 1
      BY <3>4
    <3>7. t[1] \in Plain
      BY <3>5, <3>6 DEF Plain
    <3>8. \A k \in 1 .. Len(t) : k = 1 \/ k \in 2 .. Len(t)
      BY <3>6
    <3>9. t \in [1 .. Len(t) -> Plain]
      BY <3>4, <3>6, <3>7, <3>8
    <3>10. t \in Seq(Plain)
      BY <3>6, <3>9, FunctionSeq
    <3>11. hs \o t \in Seq(Plain)
      BY <3>10, ConcatProperties
    <3> QED BY <3>3, <3>11 DEF Clear, t
  <2> QED BY <2>1, <2>2
<1> QED BY <1>1, <1>2

(* What is in a directory is beneath it, and starts with it.               *)
LEMMA UnderBeneath ==
    ASSUME NEW d, Tidy(d), NEW r \in Seq(Char)
    PROVE  /\ Beneath(Under(d, r), d) /\ IsPrefix(d, Under(d, r))
           /\ Under(d, r) \in Seq(Char)
<1>1. d \in Seq(Char) /\ Slash \in Seq(Char)
  BY TreeFacts, NameString DEF Slash
<1>2. CASE r = <<>>
  <2>1. Under(d, r) = d
    BY <1>2, UnderIs
  <2>2. IsPrefix(d, d)
    BY DEF IsPrefix
  <2> QED BY <1>1, <2>1, <2>2 DEF Beneath
<1>3. CASE r # <<>>
  <2> DEFINE b == IF d = Slash THEN d ELSE d \o Slash
             u == Under(d, r)
  <2>1. u = b \o r
    BY <1>3, UnderIs
  <2>2. b \in Seq(Char) /\ IsPrefix(d, b)
    <3>1. IsPrefix(d, d)
      BY DEF IsPrefix
    <3>2. IsPrefix(d, d \o Slash) /\ d \o Slash \in Seq(Char)
      BY <1>1, PrefixOfConcat
    <3> QED BY <1>1, <3>1, <3>2
  <2>3. b = IF Last(d) = "/" THEN d ELSE d \o Slash
    BY LastOfTidy
  <2> HIDE DEF b
  <2>4. IsPrefix(b, b \o r) /\ b \o r \in Seq(Char)
    BY <2>2, PrefixOfConcat
  <2> HIDE DEF u
  <2>5. IsPrefix(b, u) /\ u \in Seq(Char)
    BY <2>1, <2>4
  <2>6. IsPrefix(d, u)
    <3>1. Len(d) <= Len(b) /\ SameUpTo(d, b, Len(d))
      BY <1>1, <2>2, PrefixIs
    <3>2. Len(b) <= Len(u) /\ SameUpTo(b, u, Len(b))
      BY <2>2, <2>5, PrefixIs
    <3>3. Len(d) \in Nat /\ Len(b) \in Nat /\ Len(u) \in Nat
      BY <1>1, <2>2, <2>5
    <3>4. Len(d) <= Len(u) /\ SameUpTo(d, u, Len(d))
      BY <3>1, <3>2, <3>3 DEF SameUpTo
    <3> QED BY <1>1, <2>5, <3>4, PrefixIs
  <2>7. Beneath(u, d)
    BY <2>3, <2>5 DEF Beneath
  <2> QED BY <2>5, <2>6, <2>7 DEF u
<1> QED BY <1>2, <1>3

(* There and back: what is in a directory, from the directory on.          *)
LEMMA CommonUnder ==
    ASSUME NEW d, Tidy(d), NEW r \in Seq(Char), r # <<>> => r[1] # "/"
    PROVE  Common(d, Under(d, r)) = r
<1>1. d \in Seq(Char) /\ Slash \in Seq(Char) /\ Len(d) \in Nat
  BY TreeFacts, NameString DEF Slash
<1>2. CASE r = <<>>
  <2>1. Under(d, r) = d
    BY <1>2, UnderIs
  <2>2. \A k \in Len(d) + 1 .. Len(d) : d[k] = "/"
    BY <1>1
  <2>3. Common(d, d) = <<>>
    BY <1>1, <2>2, CommonIs
  <2> QED BY <1>2, <2>1, <2>3
<1>3. CASE r # <<>>
  <2> DEFINE b == IF d = Slash THEN d ELSE d \o Slash
             u == b \o r
  <2>1. Under(d, r) = u
    BY <1>3, UnderIs
  <2>2. /\ b \in Seq(Char) /\ Len(b) \in Nat /\ Len(d) <= Len(b)
        /\ \A k \in Len(d) + 1 .. Len(b) : b[k] = "/"
    <3>1. CASE d = Slash
      BY <1>1, <3>1
    <3>2. CASE d # Slash
      <4>1. b = d \o Slash
        BY <3>2
      <4>2. Joins(Char, d, Slash, b)
        BY <1>1, <4>1, ConcatParts
      <4>3. Len(Slash) = 1 /\ Slash[1] = "/"
        BY DEF Slash
      <4> HIDE DEF b
      <4>4. Len(b) = Len(d) + 1 /\ b[Len(d) + 1] = "/" /\ b \in Seq(Char)
        BY <4>2, <4>3 DEF Joins
      <4>5. \A k \in Len(d) + 1 .. Len(b) : k = Len(d) + 1
        BY <1>1, <4>4
      <4> QED BY <1>1, <4>4, <4>5
    <3> QED BY <3>1, <3>2
  <2> HIDE DEF b
  <2>3. Joins(Char, b, r, u) /\ SubSeq(u, Len(b) + 1, Len(b) + Len(r)) = r
    BY <2>2, ConcatParts, BackOf
  <2> HIDE DEF u
  <2>4. /\ u \in Seq(Char) /\ Len(u) = Len(b) + Len(r) /\ Len(r) \in Nat
        /\ \A k \in 1 .. Len(b) : u[k] = b[k]
        /\ \A k \in 1 .. Len(r) : u[Len(b) + k] = r[k]
    BY <2>3 DEF Joins
  <2>5. Len(r) >= 1
    BY <1>3
  <2>6. GoesOn(Len(d), u, Len(b) + 1)
    <3>1. 1 \in 1 .. Len(r) /\ Len(b) + 1 \in Len(d) + 1 .. Len(u)
      BY <1>1, <2>2, <2>4, <2>5
    <3>2. u[Len(b) + 1] # "/"
      BY <1>3, <2>4, <3>1
    <3>3. ASSUME NEW k \in Len(d) + 1 .. (Len(b) + 1) - 1 PROVE u[k] = "/"
      <4>1. k \in 1 .. Len(b) /\ k \in Len(d) + 1 .. Len(b)
        BY <1>1, <2>2
      <4> QED BY <2>2, <2>4, <4>1
    <3> QED BY <3>1, <3>2, <3>3 DEF GoesOn
  <2>7. Common(d, u) = SubSeq(u, Len(b) + 1, Len(u))
    BY <1>1, <2>4, <2>6, CommonIs
  <2> QED BY <2>1, <2>3, <2>4, <2>7
<1> QED BY <1>2, <1>3

(* And back and there: what is beneath a directory is in it by what it has *)
(* behind the directory's path.                                            *)
LEMMA UnderCommon ==
    ASSUME NEW d, Tidy(d), NEW h, Tidy(h), Beneath(h, d)
    PROVE  Under(d, Common(d, h)) = h
<1>1. /\ d \in Seq(Char) /\ Slash \in Seq(Char) /\ Len(d) \in Nat
      /\ h \in Seq(Char) /\ h # <<>> /\ h[1] = "/" /\ (h = Slash \/ Tidied(h))
      /\ d # <<>> /\ Len(h) \in Nat
  BY TreeFacts, NameString DEF Slash
<1>2. CASE h = d
  <2>1. \A k \in Len(d) + 1 .. Len(d) : d[k] = "/"
    BY <1>1
  <2>2. Common(d, d) = <<>>
    BY <1>1, <2>1, CommonIs
  <2>3. Under(d, <<>>) = d
    BY EmptySeq, UnderIs
  <2> QED BY <1>2, <2>2, <2>3
<1>3. CASE h # d
  <2> DEFINE b == IF d = Slash THEN d ELSE d \o Slash
  <2>1. IsPrefix(b, h)
    BY <1>3, LastOfTidy DEF Beneath
  <2>2. /\ b \in Seq(Char) /\ Len(b) \in Nat /\ Len(d) <= Len(b) /\ Len(b) >= 1
        /\ (\A k \in Len(d) + 1 .. Len(b) : b[k] = "/") /\ b[Len(b)] = "/"
        /\ (h = Slash => Len(b) > 1)
    <3>1. CASE d = Slash
      BY <1>1, <1>3, <3>1 DEF Slash
    <3>2. CASE d # Slash
      <4>1. b = d \o Slash
        BY <3>2
      <4>2. Joins(Char, d, Slash, b)
        BY <1>1, <4>1, ConcatParts
      <4>3. Len(Slash) = 1 /\ Slash[1] = "/"
        BY DEF Slash
      <4>4. Len(d) >= 1
        BY <1>1
      <4> HIDE DEF b
      <4>5. Len(b) = Len(d) + 1 /\ b[Len(d) + 1] = "/" /\ b \in Seq(Char)
        BY <4>2, <4>3 DEF Joins
      <4>6. \A k \in Len(d) + 1 .. Len(b) : k = Len(d) + 1
        BY <1>1, <4>5
      <4> QED BY <1>1, <4>4, <4>5, <4>6
    <3> QED BY <3>1, <3>2
  <2>3. b = IF d = Slash THEN d ELSE d \o Slash
    OBVIOUS
  <2> HIDE DEF b
  <2>4. Len(b) <= Len(h) /\ \A k \in 1 .. Len(b) : b[k] = h[k]
    BY <1>1, <2>1, <2>2, PrefixIs DEF SameUpTo
  <2>5. h # Slash
    <3>1. h = Slash => Len(h) = 1
      BY DEF Slash
    <3> QED BY <2>2, <2>4, <3>1
  <2>6. Tidied(h)
    BY <1>1, <2>5
  <2>7. h[Len(b)] = "/" /\ h[Len(h)] # "/" /\ Len(b) \in 1 .. Len(h)
    <3>1. Len(b) \in 1 .. Len(b) /\ Len(b) \in 1 .. Len(h)
      BY <1>1, <2>2, <2>4
    <3> QED BY <1>1, <2>2, <2>4, <2>6, <3>1 DEF Tidied
  <2>8. Len(b) + 1 \in 1 .. Len(h)
    <3>1. Len(b) # Len(h)
      BY <2>7
    <3> QED BY <1>1, <2>2, <2>4, <3>1
  <2>9. h[Len(b) + 1] # "/"
    BY <2>6, <2>7, <2>8 DEF Tidied
  <2>10. GoesOn(Len(d), h, Len(b) + 1)
    <3>1. Len(b) + 1 \in Len(d) + 1 .. Len(h)
      BY <1>1, <2>2, <2>8
    <3>2. ASSUME NEW k \in Len(d) + 1 .. (Len(b) + 1) - 1 PROVE h[k] = "/"
      <4>1. k \in 1 .. Len(b) /\ k \in Len(d) + 1 .. Len(b)
        BY <1>1, <2>2
      <4> QED BY <2>2, <2>4, <4>1
    <3> QED BY <2>9, <3>1, <3>2 DEF GoesOn
  <2> DEFINE r == SubSeq(h, Len(b) + 1, Len(h))
  <2>11. Common(d, h) = r
    BY <1>1, <2>10, CommonIs
  <2>12. b \o r = h
    BY <1>1, <2>1, <2>2, PrefixAndRest
  <2>13. r \in Seq(Char) /\ r # <<>>
    <3>1. Len(b) + 1 \in 1 .. Len(h) + 1 /\ Len(h) \in (Len(b) + 1) - 1 .. Len(h)
      BY <1>1, <2>2, <2>8
    <3>2. r \in Seq(Char) /\ Len(r) = (Len(h) - (Len(b) + 1)) + 1
      BY <1>1, <3>1, SubSeqProperties
    <3>3. (Len(h) - (Len(b) + 1)) + 1 # 0
      BY <1>1, <2>2, <2>8
    <3> HIDE DEF r
    <3> QED BY <3>2, <3>3
  <2> HIDE DEF r
  <2>14. Under(d, r) = b \o r
    BY <2>3, <2>13, UnderIs
  <2> QED BY <2>11, <2>12, <2>14
<1> QED BY <1>2, <1>3

(* A prefix that ends with a component leaves no dots.                     *)
LEMMA WholeNames ==
    ASSUME NEW d, Clear(d), NEW q, Clear(q), Beneath(q, d)
    PROVE  ~ Dotted(Common(d, q))
<1> DEFINE r == Common(d, q)
           t == Split(r)
<1> SUFFICES ASSUME Dotted(r) PROVE FALSE
  OBVIOUS
<1>1. Tidy(d) /\ Tidy(q) /\ Len(d) \in Nat /\ q \in Seq(Char)
  BY TreeFacts
<1>2. r # <<>> /\ Rest(r)
  BY <1>1, CommonRest DEF Dotted
<1>3. Under(d, r) = q
  BY <1>1, UnderCommon
<1>4. PICK hs \in Seq(Name) : d = Tree(hs)
  BY <1>1 DEF Tidy
<1>5. PICK ps \in Seq(Plain) : q = Tree(ps)
  BY DEF Clear
<1>6. t \in Seq(Name) /\ t # <<>> /\ t[1] \notin Plain
  BY <1>2 DEF Rest, Dotted, Plain
<1>7. q = Tree(hs \o t) /\ hs \o t \in Seq(Name)
  BY <1>2, <1>3, <1>4, UnderTree
<1> DEFINE all == hs \o t
<1> HIDE DEF r, t
<1>8. /\ Len(all) = Len(hs) + Len(t) /\ Len(hs) \in Nat /\ Len(t) \in Nat
      /\ Len(t) >= 1 /\ all[Len(hs) + 1] = t[1] /\ all # <<>>
  BY <1>6
<1>9. all \in Seq(Name)
  BY <1>7
<1>10. q = Trunk(all)
  BY <1>7, <1>8 DEF Tree
<1> HIDE DEF all
<1>11. ps # <<>>
  <2>1. Tidied(q) /\ q # <<>>
    BY <1>8, <1>9, <1>10, TidyTrunk
  <2>2. q[Len(q)] # "/"
    BY <2>1 DEF Tidied
  <2>3. Len(Slash) = 1 /\ Slash[1] = "/"
    BY DEF Slash
  <2>4. q # Slash
    BY <2>2, <2>3
  <2> QED BY <1>5, <2>4 DEF Tree
<1>12. q = Trunk(ps)
  BY <1>5, <1>11 DEF Tree
<1>13. all \in Seq(SlashFree) /\ ps \in Seq(SlashFree)
  BY <1>9, NameString, Zenon
<1>14. << <<>> >> \o all = << <<>> >> \o ps
  BY <1>10, <1>12, <1>13, SplitTrunk
<1>15. all = ps
  <2> DEFINE e == << <<>> >>
  <2>1. e \in Seq(SlashFree) /\ Len(e) = 1
    <3>1. <<>> \in SlashFree
      BY EmptySeq DEF SlashFree
    <3> QED BY <3>1
  <2> HIDE DEF e
  <2>2. Joins(SlashFree, e, all, e \o all) /\ Joins(SlashFree, e, ps, e \o ps)
    BY <1>13, <2>1, ConcatParts
  <2>3. e \o all = e \o ps
    BY <1>14 DEF e
  <2>4. Len(all) = Len(ps) /\ Len(ps) \in Nat
    BY <1>13, <2>1, <2>2, <2>3 DEF Joins
  <2>5. \A k \in 1 .. Len(ps) : all[k] = ps[k]
    BY <2>1, <2>2, <2>3, <2>4 DEF Joins
  <2> QED BY <1>13, <2>4, <2>5
<1>16. Len(hs) + 1 \in 1 .. Len(ps)
  BY <1>8, <1>15
<1>17. t[1] \in Plain
  BY <1>8, <1>15, <1>16
<1> QED BY <1>6, <1>17

-----------------------------------------------------------------------------
(* PathMapper.                                                             *)

(* The maps as add_map makes them.                                         *)
ClearPath == {s \in Seq(Char) : Clear(s)}
Exec == {"qnx", "host"} \cup {m.exec : m \in Maps}
Entry == [qnx : ClearPath, host : ClearPath, exec : Exec]
MapsOK == root \in Entry /\ root.qnx = Slash /\ prefixes \in Seq(Entry)

(* The paths of an entry.                                                  *)
LEMMA EntryPaths ==
    ASSUME NEW p \in Entry
    PROVE  /\ p.qnx \in Seq(Char) /\ Clear(p.qnx) /\ Tidy(p.qnx) /\ Len(p.qnx) \in Nat
           /\ p.host \in Seq(Char) /\ Clear(p.host) /\ Tidy(p.host) /\ Len(p.host) \in Nat
<1>1. p.qnx \in ClearPath /\ p.host \in ClearPath
  BY DEF Entry
<1> QED BY <1>1, TreeFacts DEF ClearPath

(* The prefixes that start a QNX path.                                     *)
Found(q) == {p \in Range(prefixes) : path_starts_with(q, p.qnx)}

(* The prefix of a QNX path is one that starts it, or the root.            *)
LEMMA PrefixOfQnxIs ==
    ASSUME MapsOK, NEW q \in Seq(Char)
    PROVE  /\ PrefixOfQnx(q) \in Entry
           /\ Found(q) = {} => PrefixOfQnx(q) = root
           /\ Found(q) # {} => PrefixOfQnx(q) \in Found(q)
<1>1. /\ root \in Entry /\ \A k \in DOMAIN prefixes : prefixes[k] \in Entry
  BY DEF MapsOK
<1>2. Range(prefixes) \subseteq Entry
  BY <1>1 DEF Range
<1> DEFINE F == Found(q)
<1>3. F \subseteq Entry /\ \A p \in F : IsPrefix(p.qnx, q)
  BY <1>2 DEF Found, path_starts_with
<1>4. PrefixOfQnx(q) = IF F = {} THEN root
                       ELSE CHOOSE p \in F : \A o \in F : Len(o.qnx) <= Len(p.qnx)
  BY DEF PrefixOfQnx, Found
<1> HIDE DEF F
<1>5. F # {} => \E p \in F : \A o \in F : Len(o.qnx) <= Len(p.qnx)
  <2> SUFFICES ASSUME F # {} PROVE \E p \in F : \A o \in F : Len(o.qnx) <= Len(p.qnx)
    OBVIOUS
  <2> DEFINE L == {Len(p.qnx) : p \in F}
  <2>1. ASSUME NEW p \in F PROVE Len(p.qnx) \in Nat /\ Len(p.qnx) <= Len(q)
    <3>1. p.qnx \in Seq(Char) /\ IsPrefix(p.qnx, q)
      BY <1>3, EntryPaths
    <3> QED BY <3>1, PrefixIs
  <2>2. Len(q) \in Nat /\ L \subseteq 0 .. Len(q) /\ L # {} /\ L \in SUBSET Nat
    <3>1. Len(q) \in Nat
      OBVIOUS
    <3>2. \A p \in F : Len(p.qnx) \in 0 .. Len(q)
      BY <2>1, <3>1
    <3>3. L \subseteq 0 .. Len(q) /\ L # {}
      BY <3>2
    <3> HIDE DEF L
    <3> QED BY <3>1, <3>3
  <2>3. \A p \in F : Len(p.qnx) \in L
    OBVIOUS
  <2>4. \A l \in L : \E p \in F : l = Len(p.qnx)
    OBVIOUS
  <2> HIDE DEF L
  <2>5. Max(L) \in L /\ \A x \in L : x <= Max(L)
    BY <2>2, MaxOfBounded
  <2> QED BY <2>3, <2>4, <2>5
<1>6. F # {} => PrefixOfQnx(q) \in F
  BY <1>4, <1>5
<1>7. F = {} => PrefixOfQnx(q) = root
  BY <1>4
<1> QED BY <1>1, <1>3, <1>6, <1>7 DEF F

(* Where a canonical QNX path is on the host.                              *)
LEMMA HostOf ==
    ASSUME MapsOK, NEW q, Clear(q)
    PROVE  LET h == map_path_to_host(q)
               p == PrefixOfQnx(q)
           IN  /\ Tidy(h) /\ h \in Seq(Char) /\ is_abs(h)
               /\ Beneath(h, p.host) /\ IsPrefix(p.host, h) /\ p.host \in Trees
               /\ ~ Cut(q) => Clear(h)
<1> DEFINE p == PrefixOfQnx(q)
           r == Common(p.qnx, q)
           h == map_path_to_host(q)
<1>1. q \in Seq(Char)
  BY TreeFacts
<1>2. /\ p \in Entry /\ (Found(q) = {} => p = root) /\ (Found(q) # {} => p \in Found(q))
  BY <1>1, PrefixOfQnxIs
<1>3. p \in Range(prefixes) \/ p = root
  BY <1>2 DEF Found
<1>4. p.host \in Trees
  BY <1>3 DEF Trees
<1>5. h = Under(p.host, r)
  BY DEF map_path_to_host, change_prefix
<1>6. Cut(q) <=> Dotted(r) /\ ~ Beneath(q, p.qnx)
  BY DEF Cut, Dotted
<1> HIDE DEF p
<1>7. Len(p.qnx) \in Nat /\ Tidy(p.host) /\ Clear(p.host) /\ Clear(p.qnx)
  BY <1>2, EntryPaths
<1>8. (r = <<>> \/ Rest(r)) /\ r \in Seq(Char)
  BY <1>1, <1>7, CommonRest, CommonString
<1> HIDE DEF r
<1>9. Tidy(Under(p.host, r)) /\ (~ Dotted(r) => Clear(Under(p.host, r)))
  BY <1>7, <1>8, UnderTidy
<1>10. Beneath(Under(p.host, r), p.host) /\ IsPrefix(p.host, Under(p.host, r))
  BY <1>7, <1>8, UnderBeneath
<1>a. Beneath(q, p.qnx) => ~ Dotted(r)
  BY <1>7, WholeNames DEF r
<1> HIDE DEF h
<1>11. Tidy(h) /\ (~ Cut(q) => Clear(h)) /\ Beneath(h, p.host) /\ IsPrefix(p.host, h)
  BY <1>5, <1>6, <1>9, <1>10, <1>a
<1>12. h \in Seq(Char) /\ is_abs(h)
  BY <1>11, TreeFacts
<1> QED BY <1>4, <1>11, <1>12 DEF h, p

(* The prefix of a host path is one that starts it.                        *)
LEMMA PrefixOfHostIs ==
    ASSUME MapsOK, NEW h \in Seq(Char), HasPrefix(h)
    PROVE  LET p == PrefixOfHost(h)
           IN  /\ p \in Entry /\ IsPrefix(p.host, h)
               /\ IsPrefix(root.host, h) => p = root
               /\ ~ IsPrefix(root.host, h) => \E k \in DOMAIN prefixes : p = prefixes[k]
<1> DEFINE found == {k \in DOMAIN prefixes : path_starts_with(h, prefixes[k].host)}
           shortest == {k \in found : \A j \in found :
                           Len(prefixes[k].qnx) <= Len(prefixes[j].qnx)}
<1>1. /\ root \in Entry /\ \A k \in DOMAIN prefixes : prefixes[k] \in Entry
      /\ DOMAIN prefixes = 1 .. Len(prefixes) /\ Len(prefixes) \in Nat
  BY DEF MapsOK
<1>2. PrefixOfHost(h) = IF path_starts_with(h, root.host) THEN root
                        ELSE prefixes[Min(shortest)]
  BY DEF PrefixOfHost
<1>3. CASE path_starts_with(h, root.host)
  BY <1>1, <1>2, <1>3 DEF path_starts_with
<1>4. CASE ~ path_starts_with(h, root.host)
  <2>1. found # {}
    BY <1>4 DEF HasPrefix, Range
  <2>2. \A k \in found : prefixes[k] \in Entry /\ IsPrefix(prefixes[k].host, h) /\ k \in Nat
    BY <1>1 DEF path_starts_with
  <2>3. shortest = {k \in found : \A j \in found :
                           Len(prefixes[k].qnx) <= Len(prefixes[j].qnx)}
    OBVIOUS
  <2> HIDE DEF found, shortest
  <2>4. \A k \in found : Len(prefixes[k].qnx) \in Nat
    BY <2>2, EntryPaths
  <2>5. shortest # {}
    <3> DEFINE L == {Len(prefixes[k].qnx) : k \in found}
    <3>1. L \subseteq Nat /\ L # {}
      BY <2>1, <2>4
    <3>2. PICK l \in L : \A x \in L : l <= x
      <4> HIDE DEF L
      <4> QED BY <3>1, LeastNat
    <3>3. PICK k \in found : l = Len(prefixes[k].qnx)
      BY <3>2
    <3>4. \A j \in found : Len(prefixes[j].qnx) \in L
      OBVIOUS
    <3>5. \A j \in found : Len(prefixes[k].qnx) <= Len(prefixes[j].qnx)
      BY <3>2, <3>3, <3>4
    <3> QED BY <2>3, <3>3, <3>5
  <2>6. shortest \subseteq Nat /\ shortest \subseteq found
    BY <2>2, <2>3
  <2>7. Min(shortest) \in shortest
    BY <2>5, <2>6, MinOfNats
  <2>8. Min(shortest) \in DOMAIN prefixes
    BY <2>6, <2>7 DEF found
  <2> QED BY <1>2, <1>4, <2>2, <2>6, <2>7, <2>8 DEF path_starts_with
<1> QED BY <1>3, <1>4

(* The QNX path of a host path is an absolute path.                        *)
LEMMA QnxOf ==
    ASSUME MapsOK, NEW h \in Seq(Char)
    PROVE  map_path_to_qnx(h) \in Seq(Char) /\ is_abs(map_path_to_qnx(h))
<1>1. CASE HasPrefix(h)
  <2> DEFINE p == PrefixOfHost(h)
             r == Common(p.host, h)
             q == map_path_to_qnx(h)
  <2>1. q = Under(p.qnx, r)
    BY <1>1 DEF map_path_to_qnx, change_prefix
  <2>2. p \in Entry
    BY <1>1, PrefixOfHostIs
  <2> HIDE DEF p
  <2>3. Tidy(p.qnx) /\ Len(p.host) \in Nat /\ p.qnx \in Seq(Char)
    BY <2>2, EntryPaths
  <2>4. r \in Seq(Char)
    BY <2>3, CommonString
  <2> HIDE DEF r
  <2>5. IsPrefix(p.qnx, Under(p.qnx, r)) /\ Under(p.qnx, r) \in Seq(Char)
    BY <2>3, <2>4, UnderBeneath
  <2> HIDE DEF q
  <2>6. IsPrefix(p.qnx, q) /\ q \in Seq(Char)
    BY <2>1, <2>5
  <2>7. p.qnx # <<>> /\ p.qnx[1] = "/"
    BY <2>3, TreeFacts
  <2>8. Len(p.qnx) <= Len(q) /\ \A k \in 1 .. Len(p.qnx) : p.qnx[k] = q[k]
    BY <2>3, <2>6, PrefixIs DEF SameUpTo
  <2>9. Len(p.qnx) \in Nat /\ Len(p.qnx) >= 1
    BY <2>3, <2>7
  <2>10. q # <<>> /\ q[1] = "/"
    BY <2>6, <2>7, <2>8, <2>9
  <2> QED BY <2>6, <2>10 DEF is_abs, q
<1>2. CASE ~ HasPrefix(h)
  <2> DEFINE a == <<"/", "unmapped", "/">>
  <2>1. map_path_to_qnx(h) = a \o h
    BY <1>2 DEF map_path_to_qnx
  <2>2. a \in Seq(Char) /\ Len(a) = 3 /\ a[1] = "/"
    BY PathsAssumption
  <2> HIDE DEF a
  <2> DEFINE u == a \o h
  <2>3. Joins(Char, a, h, u)
    BY <2>2, ConcatParts
  <2> HIDE DEF u
  <2>4. u \in Seq(Char) /\ Len(u) >= 3 /\ u[1] = "/"
    BY <2>2, <2>3 DEF Joins
  <2>5. u # <<>> /\ Head(u) = "/"
    BY <2>4
  <2> QED BY <2>1, <2>4, <2>5 DEF is_abs, u
<1> QED BY <1>1, <1>2

(* A path leads back if its QNX name is taken by the prefix it was made    *)
(* with.                                                                   *)
LEMMA BackAgain ==
    ASSUME MapsOK, NEW h, Tidy(h), Unshadowed(h)
    PROVE  map_path_to_host(map_path_to_qnx(h)) = h
<1> DEFINE p == PrefixOfHost(h)
           r == Common(p.host, h)
           q == map_path_to_qnx(h)
<1>1. h \in Seq(Char)
  BY TreeFacts
<1>2. HasPrefix(h) /\ Beneath(h, p.host) /\ PrefixOfQnx(q) = p
  BY DEF Unshadowed
<1>3. p \in Entry
  BY <1>1, <1>2, PrefixOfHostIs
<1>4. q = Under(p.qnx, r)
  BY <1>2 DEF map_path_to_qnx, change_prefix
<1>5. map_path_to_host(q) = Under(p.host, Common(p.qnx, q))
  BY <1>2 DEF map_path_to_host, change_prefix
<1> HIDE DEF p, q
<1>6. Tidy(p.qnx) /\ Tidy(p.host) /\ Len(p.host) \in Nat
  BY <1>3, EntryPaths
<1>7. r \in Seq(Char) /\ (r # <<>> => r[1] # "/")
  BY <1>1, <1>6, CommonString
<1>8. Under(p.host, r) = h
  BY <1>2, <1>6, UnderCommon
<1> HIDE DEF r
<1>9. Common(p.qnx, Under(p.qnx, r)) = r
  BY <1>6, <1>7, CommonUnder
<1>10. map_path_to_host(q) = h
  BY <1>4, <1>5, <1>8, <1>9
<1> QED BY <1>10 DEF q

(* What it means that the prefixes are apart.                              *)
LEMMA ApartIs ==
    ASSUME MapsOK, Apart, NEW k \in DOMAIN prefixes
    PROVE  /\ ~ IsPrefix(root.host, prefixes[k].host)
           /\ ~ IsPrefix(prefixes[k].host, root.host)
           /\ \A j \in DOMAIN prefixes : j # k =>
                 /\ ~ IsPrefix(prefixes[j].host, prefixes[k].host)
                 /\ ~ IsPrefix(prefixes[j].qnx, prefixes[k].qnx)
<1> DEFINE one == <<root>>
           all == one \o prefixes
           n == Len(prefixes)
<1>1. /\ one \in Seq(Entry) /\ prefixes \in Seq(Entry) /\ Len(one) = 1 /\ one[1] = root
      /\ DOMAIN prefixes = 1 .. n /\ n \in Nat
  BY DEF MapsOK
<1>2. \A i, j \in DOMAIN all : i # j =>
         /\ ~ IsPrefix(all[j].host, all[i].host)
         /\ j # 1 => ~ IsPrefix(all[j].qnx, all[i].qnx)
  BY DEF Apart, path_starts_with
<1> HIDE DEF one
<1>3. Joins(Entry, one, prefixes, all)
  BY <1>1, ConcatParts
<1> HIDE DEF all, n
<1>4. /\ all[1] = root /\ DOMAIN all = 1 .. 1 + n
      /\ \A j \in 1 .. n : all[1 + j] = prefixes[j]
  BY <1>1, <1>3 DEF Joins, n
<1>5. \A j \in 1 .. n : 1 + j \in DOMAIN all /\ 1 + j # 1
  BY <1>1, <1>4
<1>6. 1 \in DOMAIN all /\ k \in 1 .. n /\ \A j \in 1 .. n : j # k => 1 + j # 1 + k
  BY <1>1, <1>4
<1>7. ~ IsPrefix(all[1].host, all[1 + k].host) /\ ~ IsPrefix(all[1 + k].host, all[1].host)
  BY <1>2, <1>5, <1>6
<1>8. ASSUME NEW j \in 1 .. n, j # k
      PROVE  /\ ~ IsPrefix(all[1 + j].host, all[1 + k].host)
             /\ ~ IsPrefix(all[1 + j].qnx, all[1 + k].qnx)
  BY <1>2, <1>5, <1>6, <1>8
<1> QED BY <1>1, <1>4, <1>6, <1>7, <1>8

(* So it is if the prefixes are apart, for what a canonical QNX path       *)
(* stands for.                                                             *)
LEMMA ApartUnshadowed ==
    ASSUME MapsOK, Apart, NEW q, Clear(q)
    PROVE  Unshadowed(map_path_to_host(q))
<1> DEFINE p == PrefixOfQnx(q)
           r == Common(p.qnx, q)
           h == map_path_to_host(q)
           g == map_path_to_qnx(h)
<1>1. q \in Seq(Char) /\ q[1] = "/" /\ q # <<>> /\ Tidy(q)
  BY TreeFacts
<1>2. /\ p \in Entry /\ (Found(q) = {} => p = root) /\ (Found(q) # {} => p \in Found(q))
  BY <1>1, PrefixOfQnxIs
<1>3. h \in Seq(Char) /\ IsPrefix(p.host, h) /\ Beneath(h, p.host)
  BY HostOf
<1>4. h = Under(p.host, r)
  BY DEF map_path_to_host, change_prefix
<1>5. /\ \A k \in DOMAIN prefixes : prefixes[k] \in Entry
      /\ root \in Entry /\ root.qnx = Slash
  BY DEF MapsOK
<1>6. p = root \/ \E k \in DOMAIN prefixes : p = prefixes[k]
  BY <1>2 DEF Found, Range
<1>7. HasPrefix(h)
  BY <1>3, <1>6 DEF HasPrefix, Range, path_starts_with
<1>8. (p.qnx \in Seq(Char) /\ Len(p.qnx) \in Nat /\ Tidy(p.qnx)
      /\ p.host \in Seq(Char) /\ Tidy(p.host))
  <2> HIDE DEF p
  <2> QED BY <1>2, EntryPaths
<1>9. r \in Seq(Char) /\ (r # <<>> => r[1] # "/")
  <2> HIDE DEF p
  <2> QED BY <1>1, <1>8, CommonString
<1>10. Common(p.host, h) = r
  <2>1. Common(p.host, Under(p.host, r)) = r
    <3> HIDE DEF p, r
    <3> QED BY <1>8, <1>9, CommonUnder
  <2> QED BY <1>4, <2>1
<1>11. PrefixOfHost(h) = p => g = Under(p.qnx, r)
  <2> SUFFICES ASSUME PrefixOfHost(h) = p PROVE g = Under(p.qnx, r)
    OBVIOUS
  <2>1. g = Under(PrefixOfHost(h).qnx, Common(PrefixOfHost(h).host, h))
    BY <1>7 DEF map_path_to_qnx, change_prefix
  <2> HIDE DEF g, h, p, r
  <2> QED BY <1>10, <2>1
<1>12. PrefixOfHost(h) = p /\ PrefixOfQnx(g) = p => Unshadowed(h)
  BY <1>3, <1>7 DEF Unshadowed
<1> HIDE DEF h, g, r
<1>13. CASE Found(q) = {}
  <2>1. p = root
    BY <1>2, <1>13
  <2>2. PrefixOfHost(h) = p
    BY <1>3, <2>1 DEF PrefixOfHost, path_starts_with
  <2>3. p.qnx = Slash /\ r = Common(Slash, q)
    BY <1>5, <2>1 DEF r
  <2>4. Beneath(q, Slash) /\ Tidy(Slash)
    <3>1. Slash \in Seq(Char) /\ Len(Slash) = 1 /\ Slash[1] = "/"
      BY NameString DEF Slash
    <3>2. Len(q) \in Nat /\ Len(q) >= 1
      BY <1>1
    <3>3. SameUpTo(Slash, q, 1)
      BY <1>1, <3>1 DEF SameUpTo
    <3>4. IsPrefix(Slash, q)
      BY <1>1, <3>1, <3>2, <3>3, PrefixIs
    <3>5. Last(Slash) = "/"
      BY <3>1 DEF Last
    <3> QED BY <1>8, <2>3, <3>4, <3>5 DEF Beneath
  <2>5. Under(Slash, Common(Slash, q)) = q
    BY <1>1, <2>4, UnderCommon
  <2>6. g = q
    BY <1>11, <2>2, <2>3, <2>5
  <2>7. PrefixOfQnx(g) = p
    BY <2>6
  <2> QED BY <1>12, <2>2, <2>7 DEF h
<1>14. CASE Found(q) # {}
  <2>1. PICK k \in DOMAIN prefixes : p = prefixes[k]
    BY <1>2, <1>14 DEF Found, Range
  <2> HIDE DEF p
  <2>2. /\ ~ IsPrefix(root.host, p.host) /\ ~ IsPrefix(p.host, root.host)
        /\ \A j \in DOMAIN prefixes : j # k =>
              /\ ~ IsPrefix(prefixes[j].host, p.host) /\ ~ IsPrefix(p.host, prefixes[j].host)
              /\ ~ IsPrefix(prefixes[j].qnx, p.qnx) /\ ~ IsPrefix(p.qnx, prefixes[j].qnx)
    BY <2>1, ApartIs
  <2>3. ~ IsPrefix(root.host, h)
    <3>1. root.host \in Seq(Char)
      BY <1>5, EntryPaths
    <3> QED BY <1>3, <1>8, <2>2, <3>1, PrefixesCompare
  <2>4. PICK j \in DOMAIN prefixes : PrefixOfHost(h) = prefixes[j] /\ IsPrefix(prefixes[j].host, h)
    BY <1>3, <1>7, <2>3, PrefixOfHostIs
  <2>5. j = k
    <3>1. prefixes[j].host \in Seq(Char)
      BY <1>5, EntryPaths
    <3>2. IsPrefix(prefixes[j].host, p.host) \/ IsPrefix(p.host, prefixes[j].host)
      BY <1>3, <1>8, <2>4, <3>1, PrefixesCompare
    <3> QED BY <2>2, <3>2
  <2>6. PrefixOfHost(h) = p
    BY <2>1, <2>4, <2>5
  <2>7. IsPrefix(p.qnx, g) /\ g \in Seq(Char)
    <3>1. IsPrefix(p.qnx, Under(p.qnx, r)) /\ Under(p.qnx, r) \in Seq(Char)
      BY <1>8, <1>9, UnderBeneath
    <3> QED BY <1>11, <2>6, <3>1
  <2>8. p \in Found(g)
    BY <2>1, <2>7 DEF Found, Range, path_starts_with
  <2>9. PrefixOfQnx(g) \in Found(g)
    BY <2>7, <2>8, PrefixOfQnxIs
  <2>10. PICK i \in DOMAIN prefixes : PrefixOfQnx(g) = prefixes[i] /\ IsPrefix(prefixes[i].qnx, g)
    BY <2>9 DEF Found, Range, path_starts_with
  <2>11. i = k
    <3>1. prefixes[i].qnx \in Seq(Char)
      BY <1>5, EntryPaths
    <3>2. IsPrefix(prefixes[i].qnx, p.qnx) \/ IsPrefix(p.qnx, prefixes[i].qnx)
      BY <1>8, <2>7, <2>10, <3>1, PrefixesCompare
    <3> QED BY <2>2, <3>2
  <2>12. PrefixOfQnx(g) = p
    BY <2>1, <2>10, <2>11
  <2> QED BY <1>12, <2>6, <2>12 DEF h
<1> QED BY <1>13, <1>14

-----------------------------------------------------------------------------
(* The inductive invariant.                                                *)

(* A host path that one of the names stands for, and one that any          *)
(* canonical QNX path does.                                                *)
Named(h) == \E q \in Names : h = map_path_to_host(q)
Placed(h) == \E q : Clear(q) /\ h = map_path_to_host(q)

(* A file, or a link with a target that does not leave the maps.           *)
NodeOK(node) ==
    \/ node = File
    \/ \E t \in Seq(Char) \ {<<>>} :
          node = [kind |-> "link", target |-> t] /\ (is_abs(t) => Placed(t))

(* A path that qine tells a guest.                                         *)
Told(h) == Tidy(h) /\ (Clean => Placed(h))

(* Files and links are where names lead, targets and directories where     *)
(* canonical paths do.                                                     *)
Unstarted == phase = "config" => DOMAIN fs = {} /\ DOMAIN fds = {} /\ exe = NoExe
FsOK == \A h \in DOMAIN fs : Named(h) /\ NodeOK(fs[h])
FdsOK == \A n \in DOMAIN fds : Named(fds[n].host)
CwdOK == IF phase = "host" THEN Placed(cwd) ELSE cwd \in Seq(Char) /\ is_abs(cwd)
ExeOK == exe = NoExe \/ Told(exe.host)

PathState == MapsOK /\ Unstarted /\ FsOK /\ FdsOK /\ CwdOK /\ ExeOK

(* The names are canonical.                                                *)
LEMMA NamesClear ==
    /\ \A q \in Names : Clear(q)
    /\ \A q \in QnxPaths : q \in Names /\ q \in Seq(Char) /\ is_abs(q)
    /\ \A q \in RawPaths : normalize_path(q) \in Names
    /\ \A t \in Targets : t \in Seq(Char) \ {<<>>} /\ (is_abs(t) => normalize_path(t) \in Names)
<1>1. ASSUME NEW q \in QnxPaths PROVE q \in Names /\ q \in Seq(Char) /\ is_abs(q) /\ Clear(q)
  <2>1. q \in Seq(Char) /\ Canonical(q)
    BY NamesAssumption
  <2> QED BY <2>1, CanonicalClear DEF Names, Canonical
<1>2. ASSUME NEW q \in RawPaths PROVE normalize_path(q) \in Names /\ Clear(normalize_path(q))
  <2>1. q \in Seq(Char) /\ is_abs(q)
    BY NamesAssumption
  <2> QED BY <2>1, NormalForm DEF Names
<1>3. ASSUME NEW t \in Targets
      PROVE  /\ t \in Seq(Char) \ {<<>>}
             /\ is_abs(t) => normalize_path(t) \in Names /\ Clear(normalize_path(t))
  <2>1. t \in Seq(Char) \ {<<>>}
    BY NamesAssumption
  <2> QED BY <2>1, NormalForm DEF Names
<1>4. \A q \in Names : Clear(q)
  BY <1>1, <1>2, <1>3 DEF Names
<1> QED BY <1>1, <1>2, <1>3, <1>4

(* What is named is placed, and what is placed is tidy.                    *)
LEMMA PlacedFacts ==
    ASSUME MapsOK
    PROVE  /\ \A h : Named(h) => Placed(h) /\ (Clean => Clear(h))
           /\ \A h : Placed(h) => Tidy(h) /\ h \in Seq(Char) /\ is_abs(h)
           /\ \A q : Clear(q) => Placed(map_path_to_host(q))
           /\ \A q \in Names : Named(map_path_to_host(q))
<1>1. ASSUME NEW h, Named(h) PROVE Placed(h) /\ (Clean => Clear(h))
  <2>1. PICK q \in Names : h = map_path_to_host(q)
    BY <1>1 DEF Named
  <2>2. Clear(q)
    BY NamesClear
  <2>3. Clean => ~ Cut(q)
    BY DEF Clean
  <2> QED BY <2>1, <2>2, <2>3, HostOf DEF Placed
<1>2. ASSUME NEW h, Placed(h) PROVE Tidy(h) /\ h \in Seq(Char) /\ is_abs(h)
  BY <1>2, HostOf DEF Placed
<1> QED BY <1>1, <1>2 DEF Placed, Named

(* All of it holds as long as the maps stay.                               *)
LEMMA SameMaps ==
    ASSUME root' = root, prefixes' = prefixes
    PROVE  /\ MapsOK <=> MapsOK'
           /\ \A h : Named(h) <=> Named(h)'
           /\ \A h : Placed(h) <=> Placed(h)'
           /\ \A node : NodeOK(node) <=> NodeOK(node)'
           /\ \A h : Told(h) <=> Told(h)'
<1>1. \A q : PrefixOfQnx(q)' = PrefixOfQnx(q)
  BY DEF PrefixOfQnx
<1>2. \A q : map_path_to_host(q)' = map_path_to_host(q)
  BY <1>1 DEF map_path_to_host
<1>3. Clean <=> Clean'
  BY <1>1 DEF Clean, Cut, Beneath
<1>4. \A h : Placed(h) <=> Placed(h)'
  BY <1>2 DEF Placed
<1>5. \A h : Named(h) <=> Named(h)'
  BY <1>2 DEF Named
<1>6. MapsOK <=> MapsOK'
  BY DEF MapsOK
<1>7. \A node : NodeOK(node) <=> NodeOK(node)'
  BY <1>4 DEF NodeOK
<1>8. \A h : Told(h) <=> Told(h)'
  BY <1>3, <1>4 DEF Told
<1> QED BY <1>4, <1>5, <1>6, <1>7, <1>8

(* It holds when qine starts to read its options.                          *)
LEMMA InitPaths == Init => PathState
<1> SUFFICES ASSUME Init PROVE PathState
  OBVIOUS
<1>1. Clear(Slash) /\ Slash \in Seq(Char) /\ is_abs(Slash)
  <2>1. <<>> \in Seq(Plain) /\ Slash = Tree(<<>>)
    BY EmptySeq DEF Tree
  <2> QED BY <2>1, TreeFacts DEF Clear
<1>2. MapsOK
  <2>1. Slash \in ClearPath
    BY <1>1 DEF ClearPath
  <2>2. [qnx |-> Slash, host |-> Slash, exec |-> "qnx"] \in Entry
    BY <2>1 DEF Entry, Exec
  <2>3. <<>> \in Seq(Entry)
    BY EmptySeq
  <2> QED BY <2>2, <2>3 DEF Init, MapsOK
<1>3. DOMAIN fs = {} /\ DOMAIN fds = {} /\ exe = NoExe
  BY DEF Init
<1>4. CwdOK
  BY <1>1 DEF Init, CwdOK
<1> QED BY <1>2, <1>3, <1>4 DEF PathState, Unstarted, FsOK, FdsOK, ExeOK

(* An option adds a map with canonical paths.                              *)
LEMMA AddMapPaths ==
    ASSUME PathState, NEW m \in Maps, add_map(m)
    PROVE  PathState'
<1> DEFINE p == [qnx |-> normalize_path(m.qnx), host |-> normalize_path(m.host),
                 exec |-> IF m.exec # "" THEN m.exec
                          ELSE IF normalize_path(m.qnx) = Slash THEN "qnx"
                          ELSE "host"]
<1>1. /\ phase = "config" /\ UNCHANGED <<phase, fs, fds, cwd, exe>>
      /\ IF p.qnx = Slash THEN root' = p /\ UNCHANGED prefixes
         ELSE prefixes' = Append(prefixes, p) /\ UNCHANGED root
  BY DEF add_map
<1>2. p \in Entry
  <2>1. /\ m.qnx \in Seq(Char) /\ m.host \in Seq(Char)
        /\ is_abs(m.qnx) /\ is_abs(m.host)
    BY NamesAssumption
  <2>2. Clear(normalize_path(m.qnx)) /\ Clear(normalize_path(m.host))
    BY <2>1, NormalForm
  <2>3. normalize_path(m.qnx) \in ClearPath /\ normalize_path(m.host) \in ClearPath
    BY <2>2, TreeFacts DEF ClearPath
  <2>4. p.exec \in Exec
    BY DEF Exec
  <2> QED BY <2>3, <2>4 DEF Entry
<1> HIDE DEF p
<1>3. MapsOK'
  BY <1>1, <1>2 DEF PathState, MapsOK
<1>4. DOMAIN fs = {} /\ DOMAIN fds = {} /\ exe = NoExe
  BY <1>1 DEF PathState, Unstarted
<1>5. CwdOK'
  BY <1>1 DEF PathState, CwdOK
<1> QED BY <1>1, <1>3, <1>4, <1>5 DEF PathState, Unstarted, FsOK, FdsOK, ExeOK

(* A new guest is told where its program and its directory are.            *)
LEMMA StartPaths ==
    ASSUME PathState, NEW q \in RawPaths, start(q) \/ RunQine(q)
    PROVE  PathState'
<1> DEFINE h == map_path_to_host(normalize_path(q))
<1>1. MapsOK /\ normalize_path(q) \in Names
  BY NamesClear DEF PathState
<1>2. Placed(h) /\ Tidy(h) /\ h \in Seq(Char)
  BY <1>1, PlacedFacts
<1>3. root' = root /\ prefixes' = prefixes /\ UNCHANGED <<fs, fds>> /\ phase' = "guest"
      /\ exe' = Executed(h)
  BY DEF start, RunQine
<1>4. exe'.host = h
  BY <1>3 DEF Executed
<1>5. cwd' \in Seq(Char) /\ is_abs(cwd')
  <2>1. CASE start(q)
    <3>1. cwd' = map_path_to_qnx(h)
      BY <2>1 DEF start
    <3> QED BY <1>1, <1>2, <3>1, QnxOf
  <2>2. CASE RunQine(q)
    <3>1. phase = "host" /\ cwd' = map_path_to_qnx(normalize_path(cwd))
      BY <2>2 DEF RunQine
    <3>2. cwd \in Seq(Char) /\ is_abs(cwd)
      BY <1>1, <3>1, PlacedFacts DEF PathState, CwdOK
    <3>3. normalize_path(cwd) \in Seq(Char)
      BY <3>2, NormalForm, TreeFacts
    <3> QED BY <1>1, <3>1, <3>3, QnxOf
  <2> QED BY <2>1, <2>2
<1> HIDE DEF h
<1>6. MapsOK' /\ FsOK' /\ FdsOK'
  <2>1. MapsOK'
    BY <1>3, SameMaps DEF PathState
  <2>2. FsOK'
    BY <1>3, SameMaps DEF PathState, FsOK
  <2>3. FdsOK'
    BY <1>3, SameMaps DEF PathState, FdsOK
  <2> QED BY <2>1, <2>2, <2>3
<1>7. Told(exe.host)'
  <2>1. Told(h)
    BY <1>2 DEF Told
  <2> QED BY <1>3, <1>4, <2>1, SameMaps
<1>8. ExeOK' /\ CwdOK' /\ Unstarted'
  BY <1>3, <1>5, <1>7 DEF ExeOK, CwdOK, Unstarted
<1> QED BY <1>6, <1>8 DEF PathState

(* Files and links change where names lead only.                           *)
LEMMA FilePaths ==
    ASSUME PathState, phase = "guest",
           UNCHANGED <<phase, root, prefixes, cwd, exe>>, FsOK', FdsOK'
    PROVE  PathState'
<1>1. MapsOK'
  BY SameMaps DEF PathState
<1>2. CwdOK'
  BY DEF PathState, CwdOK
<1>3. ExeOK'
  BY SameMaps DEF PathState, ExeOK
<1>4. Unstarted'
  BY DEF Unstarted
<1> QED BY <1>1, <1>2, <1>3, <1>4 DEF PathState

(* io_open: the file and the FD have the same path.                        *)
LEMMA OpenPaths ==
    ASSUME PathState, NEW n \in Fd, NEW q \in QnxPaths, io_open(n, q)
    PROVE  PathState'
<1> DEFINE h == map_path_to_host(q)
<1>1. MapsOK /\ q \in Names /\ FsOK /\ FdsOK
  BY NamesClear DEF PathState
<1>2. phase = "guest" /\ UNCHANGED <<phase, root, prefixes, cwd, exe>>
  BY DEF io_open, Guest
<1>3. Named(h)
  BY <1>1, PlacedFacts
<1>4. /\ fs' = [g \in DOMAIN fs \cup {h} |-> IF g = h THEN File ELSE fs[g]]
      /\ fds' = [m \in DOMAIN fds \cup {n} |->
                   IF m = n THEN [qnx |-> q, host |-> h] ELSE fds[m]]
  BY DEF io_open, Put
<1> HIDE DEF h
<1>5. \A g \in DOMAIN fs' : Named(g) /\ NodeOK(fs'[g])
  BY <1>1, <1>3, <1>4 DEF FsOK, NodeOK
<1>6. \A m \in DOMAIN fds' : Named(fds'[m].host)
  BY <1>1, <1>3, <1>4 DEF FdsOK
<1>7. FsOK'
  BY <1>2, <1>5, SameMaps DEF FsOK
<1>8. FdsOK'
  BY <1>2, <1>6, SameMaps DEF FdsOK
<1> QED BY <1>2, <1>7, <1>8, FilePaths

(* io_close.                                                               *)
LEMMA ClosePaths ==
    ASSUME PathState, NEW n \in Fd, io_close(n)
    PROVE  PathState'
<1>1. /\ phase = "guest" /\ UNCHANGED <<phase, root, prefixes, cwd, exe>>
      /\ fs' = fs /\ fds' = [m \in DOMAIN fds \ {n} |-> fds[m]]
  BY DEF io_close, Guest, Restrict
<1>2. \A m \in DOMAIN fds' : Named(fds'[m].host)
  BY <1>1 DEF PathState, FdsOK
<1>3. FsOK'
  BY <1>1, SameMaps DEF PathState, FsOK
<1>4. FdsOK'
  BY <1>1, <1>2, SameMaps DEF FdsOK
<1> QED BY <1>1, <1>3, <1>4, FilePaths

(* The handlers that change the files and keep the FDs.                    *)
LEMMA FsPaths ==
    ASSUME PathState, phase = "guest",
           UNCHANGED <<phase, root, prefixes, fds, cwd, exe>>,
           \A g \in DOMAIN fs' : Named(g) /\ NodeOK(fs'[g])
    PROVE  PathState'
<1>1. FsOK'
  BY SameMaps DEF FsOK
<1>2. FdsOK'
  BY SameMaps DEF PathState, FdsOK
<1> QED BY <1>1, <1>2, FilePaths

(* fsys_unlink and fsys_mkspecial: a file goes, a link comes.              *)
LEMMA LinkPaths ==
    ASSUME PathState, NEW q \in Names,
           \/ fsys_unlink(q)
           \/ \E t \in Targets : fsys_mkspecial(q, t)
    PROVE  PathState'
<1> DEFINE h == map_path_to_host(q)
<1>1. MapsOK /\ FsOK
  BY DEF PathState
<1>2. Named(h)
  BY <1>1, PlacedFacts
<1>3. CASE fsys_unlink(q)
  <2>1. /\ phase = "guest" /\ UNCHANGED <<phase, root, prefixes, fds, cwd, exe>>
        /\ fs' = [g \in DOMAIN fs \ {h} |-> fs[g]]
    BY <1>3 DEF fsys_unlink, Guest, Restrict
  <2>2. \A g \in DOMAIN fs' : Named(g) /\ NodeOK(fs'[g])
    BY <1>1, <2>1 DEF FsOK
  <2> QED BY <2>1, <2>2, FsPaths
<1>4. CASE \E t \in Targets : fsys_mkspecial(q, t)
  <2>1. PICK t \in Targets : fsys_mkspecial(q, t)
    BY <1>4
  <2> DEFINE to == IF is_abs(t) THEN map_path_to_host(normalize_path(t)) ELSE t
             node == [kind |-> "link", target |-> to]
  <2>2. /\ phase = "guest" /\ UNCHANGED <<phase, root, prefixes, fds, cwd, exe>>
        /\ fs' = [g \in DOMAIN fs \cup {h} |-> IF g = h THEN node ELSE fs[g]]
    BY <2>1 DEF fsys_mkspecial, Guest, Put
  <2>3. to \in Seq(Char) \ {<<>>} /\ (is_abs(to) => Placed(to))
    <3>1. CASE is_abs(t)
      <4>1. Placed(to)
        BY <1>1, <3>1, NamesClear, PlacedFacts
      <4>2. to \in Seq(Char) /\ is_abs(to)
        BY <1>1, <4>1, PlacedFacts
      <4> QED BY <4>1, <4>2 DEF is_abs
    <3>2. CASE ~ is_abs(t)
      BY <3>2, NamesClear
    <3> QED BY <3>1, <3>2
  <2> HIDE DEF to
  <2>4. NodeOK(node)
    BY <2>3 DEF NodeOK
  <2> HIDE DEF node, h
  <2>5. \A g \in DOMAIN fs' : Named(g) /\ NodeOK(fs'[g])
    BY <1>1, <1>2, <2>2, <2>4 DEF FsOK
  <2> QED BY <2>2, <2>5, FsPaths
<1> QED BY <1>3, <1>4

(* fsys_link and io_rename: another name for what is there.                *)
LEMMA RenamePaths ==
    ASSUME PathState, NEW q \in RawPaths,
           \/ \E n \in Fd : fsys_link(n, q)
           \/ \E to \in RawPaths : io_rename(q, to)
    PROVE  PathState'
<1>1. MapsOK /\ FsOK
  BY DEF PathState
<1>2. CASE \E n \in Fd : fsys_link(n, q)
  <2>1. PICK n \in Fd : fsys_link(n, q)
    BY <1>2
  <2> DEFINE h == map_path_to_host(normalize_path(q))
             node == fs[fds[n].host]
  <2>2. Named(h)
    BY <1>1, NamesClear, PlacedFacts
  <2>3. /\ phase = "guest" /\ UNCHANGED <<phase, root, prefixes, fds, cwd, exe>>
        /\ fs' = [g \in DOMAIN fs \cup {h} |-> IF g = h THEN node ELSE fs[g]]
        /\ fds[n].host \in DOMAIN fs
    BY <2>1 DEF fsys_link, Guest, Put
  <2>4. NodeOK(node)
    BY <1>1, <2>3 DEF FsOK
  <2> HIDE DEF node, h
  <2>5. \A g \in DOMAIN fs' : Named(g) /\ NodeOK(fs'[g])
    BY <1>1, <2>2, <2>3, <2>4 DEF FsOK
  <2> QED BY <2>3, <2>5, FsPaths
<1>3. CASE \E to \in RawPaths : io_rename(q, to)
  <2>1. PICK to \in RawPaths : io_rename(q, to)
    BY <1>3
  <2> DEFINE h == map_path_to_host(normalize_path(q))
             g == map_path_to_host(normalize_path(to))
  <2>2. Named(g)
    BY <1>1, NamesClear, PlacedFacts
  <2>3. /\ phase = "guest" /\ UNCHANGED <<phase, root, prefixes, fds, cwd, exe>>
        /\ h \in DOMAIN fs
        /\ fs' = [k \in (DOMAIN fs \ {h}) \cup {g} |-> IF k = g THEN fs[h] ELSE fs[k]]
    BY <2>1 DEF io_rename, Guest
  <2> HIDE DEF g, h
  <2>4. \A k \in DOMAIN fs' : Named(k) /\ NodeOK(fs'[k])
    BY <1>1, <2>2, <2>3 DEF FsOK
  <2> QED BY <2>3, <2>4, FsPaths
<1> QED BY <1>2, <1>3

(* Another directory of the guest.                                         *)
LEMMA ChdirPaths ==
    ASSUME PathState, NEW q \in QnxPaths, io_chdir(q)
    PROVE  PathState'
<1>1. /\ phase = "guest" /\ UNCHANGED <<phase, root, prefixes, fs, fds, exe>>
      /\ cwd' = q /\ q \in Seq(Char) /\ is_abs(q)
  BY NamesClear DEF io_chdir, Guest
<1>2. MapsOK'
  BY <1>1, SameMaps DEF PathState
<1>3. FsOK'
  BY <1>1, SameMaps DEF PathState, FsOK
<1>4. FdsOK'
  BY <1>1, SameMaps DEF PathState, FdsOK
<1>5. ExeOK'
  BY <1>1, SameMaps DEF PathState, ExeOK
<1>6. CwdOK' /\ Unstarted'
  BY <1>1 DEF CwdOK, Unstarted
<1> QED BY <1>2, <1>3, <1>4, <1>5, <1>6 DEF PathState

(* Another program.                                                        *)
LEMMA ExecPaths ==
    ASSUME PathState, NEW q \in RawPaths, proc_exec(q)
    PROVE  PathState'
<1> DEFINE h == map_path_to_host(normalize_path(q))
<1>1. MapsOK /\ FsOK /\ ExeOK /\ CwdOK
  BY DEF PathState
<1>2. /\ phase = "guest" /\ UNCHANGED <<root, prefixes, fs>> /\ fds' = <<>>
      /\ \/ /\ phase' = "host" /\ cwd' = map_path_to_host(normalize_path(cwd))
            /\ UNCHANGED exe
         \/ exe' = Executed(normalize_path(h)) /\ UNCHANGED <<phase, cwd>>
  BY DEF proc_exec, Guest
<1>3. Named(h)
  BY <1>1, NamesClear, PlacedFacts
<1>4. Told(normalize_path(h))
  <2>1. Placed(h) /\ (Clean => Clear(h)) /\ h \in Seq(Char) /\ is_abs(h)
    BY <1>1, <1>3, PlacedFacts
  <2>2. Clear(normalize_path(h))
    BY <2>1, NormalForm
  <2>3. Clear(h) => normalize_path(h) = h
    BY CanonicalClear
  <2> QED BY <2>1, <2>2, <2>3, TreeFacts DEF Told
<1>5. cwd \in Seq(Char) /\ is_abs(cwd)
  BY <1>1, <1>2 DEF CwdOK
<1>6. Placed(map_path_to_host(normalize_path(cwd)))
  BY <1>1, <1>5, NormalForm, PlacedFacts
<1> DEFINE g == normalize_path(h)
           d == map_path_to_host(normalize_path(cwd))
<1>7. exe' = Executed(g) => exe'.host = g
  BY DEF Executed
<1> HIDE DEF g, d, h
<1>8. MapsOK'
  BY <1>1, <1>2, SameMaps
<1>9. FsOK'
  BY <1>1, <1>2, SameMaps DEF FsOK
<1>10. FdsOK' /\ Unstarted'
  <2>1. DOMAIN fds' = {} /\ phase' # "config"
    BY <1>2
  <2> QED BY <2>1 DEF FdsOK, Unstarted
<1>11. Told(g) /\ Placed(d)
  BY <1>4, <1>6 DEF g, d
<1>12. CASE phase' = "host" /\ cwd' = d /\ UNCHANGED exe
  <2>1. CwdOK'
    BY <1>2, <1>11, <1>12, SameMaps DEF CwdOK
  <2>2. ExeOK'
    BY <1>1, <1>2, <1>12, SameMaps DEF ExeOK
  <2> QED BY <1>8, <1>9, <1>10, <2>1, <2>2 DEF PathState
<1>13. CASE exe' = Executed(g) /\ UNCHANGED <<phase, cwd>>
  <2>1. CwdOK'
    BY <1>2, <1>5, <1>13 DEF CwdOK
  <2>2. ExeOK'
    BY <1>2, <1>7, <1>11, <1>13, SameMaps DEF ExeOK
  <2> QED BY <1>8, <1>9, <1>10, <2>1, <2>2 DEF PathState
<1> QED BY <1>2, <1>12, <1>13 DEF g, d

(* Every step keeps it.                                                    *)
LEMMA StepPaths == PathState /\ [Next]_vars => PathState'
<1> SUFFICES ASSUME PathState, [Next]_vars PROVE PathState'
  OBVIOUS
<1>1. CASE \E m \in Maps : add_map(m)
  BY <1>1, AddMapPaths
<1>2. CASE \E q \in RawPaths : start(q) \/ RunQine(q)
  BY <1>2, StartPaths
<1>3. CASE \E q \in RawPaths : proc_exec(q)
  BY <1>3, ExecPaths
<1>4. CASE \E n \in Fd : io_close(n)
  BY <1>4, ClosePaths
<1>5. CASE \E q \in QnxPaths : io_chdir(q)
  BY <1>5, ChdirPaths
<1>6. CASE \E q \in QnxPaths : fsys_unlink(q) \/ \E t \in Targets : fsys_mkspecial(q, t)
  BY <1>6, NamesClear, LinkPaths
<1>7. CASE \E q \in QnxPaths, n \in Fd : io_open(n, q)
  BY <1>7, OpenPaths
<1>8. CASE \E q \in RawPaths : \/ \E n \in Fd : fsys_link(n, q)
                               \/ \E to \in RawPaths : io_rename(q, to)
  BY <1>8, RenamePaths
<1>9. CASE UNCHANGED vars
  <2>1. UNCHANGED <<phase, root, prefixes, fs, fds, cwd, exe>>
    BY <1>9 DEF vars
  <2>2. MapsOK'
    BY <2>1, SameMaps DEF PathState
  <2>3. FsOK'
    BY <2>1, SameMaps DEF PathState, FsOK
  <2>4. FdsOK'
    BY <2>1, SameMaps DEF PathState, FdsOK
  <2>5. ExeOK'
    BY <2>1, SameMaps DEF PathState, ExeOK
  <2>6. CwdOK'
    BY <2>1, SameMaps DEF PathState, CwdOK
  <2>7. Unstarted'
    BY <2>1 DEF PathState, Unstarted
  <2> QED BY <2>2, <2>3, <2>4, <2>5, <2>6, <2>7 DEF PathState
<1> QED BY <1>1, <1>2, <1>3, <1>4, <1>5, <1>6, <1>7, <1>8, <1>9 DEF Next

-----------------------------------------------------------------------------
(* The results.                                                            *)

(* The invariant is one of the specification.                              *)
THEOREM PathsInvariance == Spec => []PathState
BY InitPaths, StepPaths, PTL DEF Spec

(* What names lead to is below a directory that was configured, and        *)
(* canonical unless a prefix cuts a name before dots.                      *)
LEMMA NamedWithin == PathState => WithinTrees
<1> SUFFICES ASSUME PathState PROVE WithinTrees
  OBVIOUS
<1>1. MapsOK /\ FsOK /\ FdsOK
  BY DEF PathState
<1>2. ASSUME NEW h, Named(h) PROVE (\E d \in Trees : Beneath(h, d)) /\ (Clean => Canonical(h))
  <2>1. PICK q \in Names : h = map_path_to_host(q)
    BY <1>2 DEF Named
  <2>2. Clear(q)
    BY NamesClear
  <2>3. \E d \in Trees : Beneath(h, d)
    BY <1>1, <2>1, <2>2, HostOf
  <2>4. Clean => Canonical(h)
    BY <1>1, <1>2, PlacedFacts, CanonicalClear
  <2> QED BY <2>3, <2>4
<1> QED BY <1>1, <1>2 DEF WithinTrees, FsOK, FdsOK

(* Whatever a guest does with paths, the files it makes, opens, renames    *)
(* and links are below a configured directory of the host, in canonical    *)
(* places unless a prefix cuts a name before dots (PathMapper              *)
(* map_path_to_host after normalize_path).                                 *)
THEOREM AlwaysWithinTrees == Spec => []WithinTrees
BY PathsInvariance, NamedWithin, PTL

(* A path leads back if its place can be told.                             *)
LEMMA ToldBack ==
    ASSUME MapsOK, NEW h, Tidy(h), (Apart /\ Placed(h)) \/ Unshadowed(h)
    PROVE  map_path_to_host(map_path_to_qnx(h)) = h
<1>1. CASE Apart /\ Placed(h)
  <2>1. PICK q : Clear(q) /\ h = map_path_to_host(q)
    BY <1>1 DEF Placed
  <2>2. Unshadowed(h)
    BY <1>1, <2>1, ApartUnshadowed
  <2> QED BY <2>2, BackAgain
<1>2. CASE Unshadowed(h)
  BY <1>2, BackAgain
<1> QED BY <1>1, <1>2

(* The targets of links and the directory are in places, and so is the     *)
(* program if no prefix cuts a name before dots.                           *)
LEMMA StateLeadsBack == PathState => LeadsBack
<1> SUFFICES ASSUME PathState PROVE LeadsBack
  OBVIOUS
<1>1. MapsOK /\ FsOK /\ ExeOK /\ CwdOK
  BY DEF PathState
<1>2. \A h : Placed(h) => Tidy(h)
  BY <1>1, PlacedFacts
<1>3. ASSUME NEW g \in DOMAIN fs, fs[g].kind = "link", is_abs(fs[g].target)
      PROVE  Placed(fs[g].target)
  <2>1. NodeOK(fs[g])
    BY <1>1 DEF FsOK
  <2>2. fs[g] # File
    BY <1>3 DEF File
  <2>3. PICK t \in Seq(Char) \ {<<>>} :
           fs[g] = [kind |-> "link", target |-> t] /\ (is_abs(t) => Placed(t))
    BY <2>1, <2>2 DEF NodeOK
  <2>4. fs[g].target = t
    BY <2>3
  <2> QED BY <1>3, <2>3, <2>4
<1> DEFINE links == {fs[h].target : h \in {g \in DOMAIN fs :
                        fs[g].kind = "link" /\ is_abs(fs[g].target)}}
           programs == IF exe = NoExe THEN {} ELSE {exe.host}
           directories == IF phase = "host" THEN {cwd} ELSE {}
<1>4. \A h \in links : Placed(h)
  BY <1>3
<1>5. \A h \in programs : Tidy(h) /\ (Clean => Placed(h))
  BY <1>1 DEF ExeOK, Told
<1>6. \A h \in directories : Placed(h)
  BY <1>1 DEF CwdOK
<1>7. LeadsBack <=> \A h \in links \cup programs \cup directories :
         (Apart /\ (h \in programs => Clean)) \/ Unshadowed(h) =>
            map_path_to_host(map_path_to_qnx(h)) = h
  BY DEF LeadsBack
<1> HIDE DEF links, programs, directories
<1>8. \A h \in links \cup programs \cup directories :
         (Apart /\ (h \in programs => Clean)) \/ Unshadowed(h) =>
            map_path_to_host(map_path_to_qnx(h)) = h
  BY <1>1, <1>2, <1>4, <1>5, <1>6, ToldBack
<1> QED BY <1>7, <1>8

(* The paths that qine tells a guest, of a link's target, of its program   *)
(* and of its directory, lead back to where they came from if the prefixes *)
(* are apart (for a program, if also none cuts a name before dots), and    *)
(* otherwise for every path whose QNX name is taken by the prefix it was   *)
(* made with (PathMapper map_path_to_qnx, then map_path_to_host).          *)
THEOREM AlwaysLeadsBack == Spec => []LeadsBack
BY PathsInvariance, StateLeadsBack, PTL

(* As many characters as there is room for.                                *)
LEMMA FirstChars ==
    ASSUME NEW s \in Seq(Char), NEW m \in Nat
    PROVE  Len(SubSeq(s, 1, Min({Len(s), m}))) = IF Len(s) <= m THEN Len(s) ELSE m
<1> DEFINE n == IF Len(s) <= m THEN Len(s) ELSE m
<1>1. Len(s) \in Nat
  OBVIOUS
<1>2. Min({Len(s), m}) = n
  BY <1>1, MinOfTwo
<1>3. n \in 0 .. Len(s) /\ 1 \in 1 .. Len(s) + 1 /\ n \in 1 - 1 .. Len(s) /\ n \in Nat
  BY <1>1
<1> HIDE DEF n
<1>4. Len(SubSeq(s, 1, n)) = n
  <2>1. Len(SubSeq(s, 1, n)) = IF 1 <= n THEN (n - 1) + 1 ELSE 0
    BY <1>3, SubSeqProperties
  <2> QED BY <1>3, <2>1
<1> QED BY <1>2, <1>4 DEF n

(* The target of a link is what is told of it, and as long.                *)
LEMMA StateLinkSizes == PathState => LinkSizes
<1> SUFFICES ASSUME PathState, NEW h \in DOMAIN fs, fs[h].kind = "link"
             PROVE  \/ io_stat(h) = Len(fsys_readlink(h))
                    \/ io_stat(h) >= PathMax /\ Len(fsys_readlink(h)) = PathMax - 1
  BY DEF LinkSizes
<1>1. MapsOK /\ FsOK
  BY DEF PathState
<1>2. NodeOK(fs[h]) /\ fs[h] # File
  BY <1>1 DEF FsOK, File
<1>3. PICK t \in Seq(Char) \ {<<>>} :
         fs[h] = [kind |-> "link", target |-> t] /\ (is_abs(t) => Placed(t))
  BY <1>2 DEF NodeOK
<1>4. fs[h].target = t
  BY <1>3
<1> DEFINE path == IF is_abs(t) THEN map_path_to_qnx(normalize_path(t)) ELSE t
<1>5. fsys_readlink(h) = SubSeq(path, 1, Min({Len(path), PathMax - 1}))
  BY <1>4 DEF fsys_readlink
<1>6. io_stat(h) = Len(path)
  BY <1>4 DEF io_stat, is_abs
<1>7. path \in Seq(Char)
  <2>1. CASE is_abs(t)
    <3>1. normalize_path(t) \in Seq(Char)
      BY <2>1, NormalForm, TreeFacts
    <3> QED BY <1>1, <2>1, <3>1, QnxOf
  <2>2. CASE ~ is_abs(t)
    BY <2>2
  <2> QED BY <2>1, <2>2
<1> HIDE DEF path
<1>8. PathMax - 1 \in Nat /\ PathMax \in Nat /\ Len(path) \in Nat
  BY <1>7, PathsAssumption
<1>9. Len(fsys_readlink(h)) = IF Len(path) <= PathMax - 1 THEN Len(path) ELSE PathMax - 1
  BY <1>5, <1>7, <1>8, FirstChars
<1> QED BY <1>6, <1>8, <1>9

(* io_stat and fsys_readlink agree on how long a link's target is, as long *)
(* as it fits into the reply of the latter.                                *)
THEOREM AlwaysLinkSizes == Spec => []LinkSizes
BY PathsInvariance, StateLinkSizes, PTL
=============================================================================
