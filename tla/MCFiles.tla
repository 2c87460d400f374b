------------------------------ MODULE MCFiles -------------------------------
EXTENDS Files

(* Areas of a given shape; the guests write two bytes, or fewer than the   *)
(* header says.                                                            *)
Shaped(lens, bytes) ==
    [k \in DOMAIN lens |->
        LET at == FoldSeq(LAMBDA a, b : a + b, 0, SubSeq(lens, 1, k - 1))
        IN  SubSeq(bytes, at + 1, at + lens[k])]

MCSent == {Shaped(w[1], <<n, w[2], "a", "b">>) : n \in Fd,
              w \in {<<<<4>>, 2>>, <<<<1, 0, 2, 1>>, 2>>, <<<<0, 3, 0>>, 2>>, <<<<2>>, 1>>}}
MCReads == {[area |-> Shaped(r[1], <<"-", "-", "-", "-">>), nbytes |-> r[2]] :
              r \in {<<<<4>>, 1>>, <<<<1, 0, 2, 1>>, 2>>, <<<<0, 3, 0>>, 2>>, <<<<2>>, 2>>}}

Open(i, acc, app, trunc) ==
    [ino |-> i, acc |-> acc, app |-> app, trunc |-> trunc]
CONSTANTS f, g
MCOpens == {Open(f, "rdwr", FALSE, FALSE), Open(f, "rdwr", TRUE, TRUE),
            Open(f, "rd", FALSE, TRUE), Open(g, "rdwr", FALSE, FALSE),
            Open(Dir, "rd", FALSE, FALSE)}

MCEntries == <<"n1", "n2", "n3", "n4">>
MCReaddirs == {[area |-> Shaped(r[1], Fill(8, "-")), ndirs |-> r[2]] :
                 r \in {<<<<8>>, 3>>, <<<<1, 2, 0, 1, 2>>, 2>>, <<<<3, 0, 2>>, 2>>}}

SpawnBytes == <<"spawn", "spawn", "p", "0", "a", "0", "b", "0", "0", "e", "0", "0">>
MCSpawns == {[area |-> Shaped(lens, SpawnBytes), path |-> <<"p">>,
              argv |-> <<<<"a">>, <<"b">>>>, envp |-> <<<<"e">>>>] :
                lens \in {<<12>>, <<2, 1, 0, 2, 7>>, <<3, 4, 5>>}}
MCBudget(open, io, lock, spawn, fd, ino) ==
    [open |-> open, io |-> io, lock |-> lock, spawn |-> spawn, fd |-> fd,
     ino |-> ino]
MCBudgets == {MCBudget(1, 3, 0, 0, {0}, {f}),
              MCBudget(2, 2, 0, 0, {0}, {f}),
              MCBudget(2, 0, 3, 0, {0, 2}, {f, g}),
              MCBudget(2, 0, 4, 0, {0, 1}, {f}),
              MCBudget(2, 3, 0, 0, {0, 1}, {Dir}),
              MCBudget(3, 1, 0, 0, {0, 1}, {g, Dir}),
              MCBudget(1, 1, 0, 1, {0}, {f, Dir})}
MCOffsets == {-1, 1}
=============================================================================
