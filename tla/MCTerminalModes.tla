--------------------------- MODULE MCTerminalModes --------------------------
EXTENDS TerminalModes

MCModes == {<<{"ECHO", "EDIT", "ISIG", "OPOST"}, {"EDIT", "ISIG"}>>,
            <<{"OPOST"}, {"OPOST"}>>}
MCSizes == {<<NoChange, 50>>, <<132, NoChange>>}
=============================================================================
