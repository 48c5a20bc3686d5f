-------------------------- MODULE MCSequentialParts --------------------------
(***************************************************************************)
(* SequentialParts for TLC.  In a file: an object, a list of two elements, *)
(* and a block of memory that is longer than a page.                       *)
(***************************************************************************)
EXTENDS SequentialParts

SomeRequests == {
  [kind |-> "object",      head |-> 12, elem |-> 0,  count |-> 0],
  [kind |-> "objectArray", head |-> 4,  elem |-> 6,  count |-> 2],
  [kind |-> "array",       head |-> 0,  elem |-> 21, count |-> 1]}

=============================================================================
