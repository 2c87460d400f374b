------------------------- MODULE MCTerminalFilter -------------------------
(* Instances of TerminalFilter for TLC. *)
EXTENDS TerminalFilter

Mouse(b) == <<"esc", "[", "M", b, "A", "A">>

(* The mouse between two keys; escape before a function key; a click, a    *)
(* motion and the release.                                                 *)
MCInputs == {
    <<"A">> \o Mouse(" ") \o Mouse("#"),
    <<"esc", "esc", "[", "A">>,
    Mouse(" ") \o Mouse("A") \o Mouse("#"),
    Mouse("!") \o <<"esc">> \o Mouse("#") }
=============================================================================
