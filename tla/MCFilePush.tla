----------------------------- MODULE MCFilePush -----------------------------
(* FilePush on two notebooks, and what may happen in each run of it.         *)
EXTENDS FilePush

CONSTANTS top, a, b

Alone == [acts |-> {"add", "copy", "move", "drop", "create", "delete", "rename"},
          happens |-> {"failure", "throttle", "lostAnswer", "crash"}, left |-> 3, troubles |-> 1]
\* A copy whose original goes, its notebook made again or not.
Copied == [acts |-> {"copy", "delete", "create", "add"}, happens |-> {"failure"}, left |-> 4, troubles |-> 3]
Shared == [acts |-> {"copy", "delete", "add", "rename"}, happens |-> {"failure", "adds", "deletes"},
           left |-> 2, troubles |-> 2]
Some == {Alone, Copied, Shared}
=============================================================================
