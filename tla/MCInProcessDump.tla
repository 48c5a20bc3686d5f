-------------------------- MODULE MCInProcessDump --------------------------
(***************************************************************************)
(* InProcessDump for TLC: one thread that dumps, with its own handler.     *)
(***************************************************************************)
EXTENDS InProcessDump

CONSTANT t1

OwnHandlers == [t \in Dumping |-> t]

=============================================================================
