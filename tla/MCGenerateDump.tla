--------------------------- MODULE MCGenerateDump ---------------------------
(***************************************************************************)
(* GenerateDump for TLC: which handler each thread dumps with.             *)
(***************************************************************************)
EXTENDS GenerateDump

OwnHandlers == [t \in Threads |-> t]
SharedHandler == [t \in Threads |-> "shared"]

=============================================================================
