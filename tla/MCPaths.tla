------------------------------ MODULE MCPaths -------------------------------
EXTENDS Paths

Map(qnx, host, exec) == [qnx |-> qnx, host |-> host, exec |-> exec]

(* The root moved into a directory; prefixes that look like another's      *)
(* beginning, that are below another one, and that share a host path.      *)
MCMaps == {Map(<<"/">>, <<"/", "r">>, ""),
           Map(<<"/", "a", "/">>, <<"/", "b">>, "host"),
           Map(<<"/", "b">>, <<"/", "a", "/", ".", "/", "b">>, "qnx"),
           Map(<<"/", "/", "a", "/", "b">>, <<"/", "r", "b">>, ""),
           Map(<<"/", "h">>, <<"/">>, "")}

MCChar == {"/", ".", "a", "b", "h", "r", "unmapped"}

(* One that starts with the second prefix and goes on.                     *)
MCQnxPaths == {<<"/", "a", "b">>, <<"/", "a", "/", "b">>}

(* The last one starts with the third prefix and goes on with dots.        *)
MCRawPaths == {<<"/", "a", "/", ".", ".", "/", "b">>,
               <<"/", "a", "/", "b", "/", "a", "/">>,
               <<"/", ".", ".", "/", "h", "/", "r", "b">>,
               <<"/", "b", ".", ".", "/", "h">>}
MCTargets == {<<"/", "a", "/", ".", ".", "/", "b">>,
              <<"/", ".", ".", "/", "h", "/", "r", "b">>, <<"b">>}
=============================================================================
