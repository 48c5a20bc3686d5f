------------------------ MODULE MCOutOfProcessDump -------------------------
(***************************************************************************)
(* OutOfProcessDump for TLC: two clients that ask for dumps; on Windows    *)
(* one that asks twice, or two that only come and go.                      *)
(***************************************************************************)
EXTENDS OutOfProcessDump

CONSTANT c1

Asks == [c \in Clients |-> IF c = c1 THEN 2 ELSE 1]
Comes == {[c \in {c1} |-> 2], [c \in Clients |-> 0]}

=============================================================================
