-------------------------- MODULE MCMinidumpWriter --------------------------
(***************************************************************************)
(* MinidumpWriter for TLC: one dump, about the first thread.               *)
(***************************************************************************)
EXTENDS MinidumpWriter

CONSTANT t1

OneDumper == {"dump"}
AboutFirst == [d \in {"dump"} |-> t1]

=============================================================================
