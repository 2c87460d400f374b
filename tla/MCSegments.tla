----------------------------- MODULE MCSegments -----------------------------
(* Instances of Segments for TLC. *)
EXTENDS Segments

Header(flat, b32, sizes, stack, heap, stackIx, entry) ==
    [flat |-> flat, b32 |-> b32, sizes |-> sizes,
     types |-> [i \in DOMAIN sizes |-> IF i = 1 THEN "xr" ELSE "rw"],
     base |-> 9, stack |-> stack, heap |-> heap,
     heapIx |-> 2, stackIx |-> stackIx, entry |-> entry]

MCExecs == {
    Header(TRUE,  TRUE,  <<3, 5>>, 5, 4, 2, 1),         \* flat
    Header(TRUE,  TRUE,  <<3, 5>>, 5, 3, 2, 1),         \* its heap unaligned
    Header(TRUE,  TRUE,  <<3, 5>>, 9, 4, 2, 1),         \* its stack too large
    Header(FALSE, FALSE, <<3, 2>>, 2, 1, 2, 1),         \* 16-bit
    Header(FALSE, FALSE, <<3, 2>>, 2, 1, 2, 0),         \* entry 0
    Header(FALSE, TRUE,  <<3, 2>>, 3, 2, 2, 1),         \* 32-bit, segmented
    Header(FALSE, TRUE,  <<3, 9>>, 3, 2, 2, 1),         \* beyond 64 KiB
    Header(FALSE, TRUE,  <<3, 2, 4>>, 3, 2, 3, 1) }     \* stack elsewhere; with
                                                        \* MCLibs MagicId is taken

MCLibs == { Header(FALSE, TRUE, <<5, 2>>, 0, 0, 2, 1),
            Header(FALSE, FALSE, <<5, 0>>, 0, 0, 2, 1),         \* with an empty segment
            Header(FALSE, TRUE, <<13, 2>>, 0, 0, 2, 1) }        \* too large

MCStartups == { [magic |-> 1, data |-> 1, env |-> 2],
                [magic |-> 1, data |-> 9, env |-> 12] }
=============================================================================
