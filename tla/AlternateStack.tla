--------------------------- MODULE AlternateStack ---------------------------
(***************************************************************************)
(* The alternate signal stack of the Linux handler.  The kernel keeps one  *)
(* for every thread; InstallAlternateStackLocked and RestoreAlternate-     *)
(* StackLocked keep theirs in globals of the process, under the mutex of   *)
(* the handler stack: the first handler that is created sets it for the    *)
(* thread it is created in, the last one to go takes it back from the      *)
(* thread it is destroyed in.                                              *)
(***************************************************************************)
EXTENDS Naturals

CONSTANTS
  Threads,
  None,
  Small, Large,  \* stacks of other code: too small for a signal handler, or not
  Users,      \* the threads that create and destroy handlers
  Meddlers,   \* the threads in which other code sets a stack of its own
  Allocs      \* how many stacks are ever allocated: a bound

Foreign == {Small, Large}

VARIABLES
  alt,              \* the alternate stack of each thread
  initial,          \* the one it has had from other code
  old_stack,
  new_stack,
  stack_installed,
  allocated,        \* how many stacks have been allocated
  live,             \* those that have not been freed
  handlers          \* how many handlers there are

vars == <<alt, initial, old_stack, new_stack, stack_installed, allocated, live,
          handlers>>

Init ==
  /\ alt \in [Threads -> Foreign \cup {None}]
  /\ initial = alt
  /\ old_stack = None /\ new_stack = None /\ stack_installed = FALSE
  /\ allocated = 0 /\ live = {}
  /\ handlers = 0

\* The state the functions are called in: sigaltstack may fail in any call.
InstallAlternateStackLocked(t) ==
  IF stack_installed \/ alt[t] \notin {None, Small}
  THEN UNCHANGED <<alt, old_stack, new_stack, stack_installed, allocated, live>>
  ELSE /\ allocated < Allocs
       /\ allocated' = allocated + 1
       /\ old_stack' = alt[t]
       /\ new_stack' = allocated'
       /\ \/ /\ alt' = [alt EXCEPT ![t] = new_stack']
             /\ live' = live \cup {new_stack'}
             /\ stack_installed' = TRUE
          \/ UNCHANGED <<alt, live, stack_installed>>

KeepIfNone(t) == IF alt[t] = new_stack /\ old_stack # None THEN old_stack ELSE alt[t]

\* What the thread is left with: the stack it had before, or none.
PutBack(t) == IF alt[t] = new_stack THEN old_stack ELSE alt[t]

RestoreAlternateStackLocked(t) ==
  /\ stack_installed
  /\ alt' = [alt EXCEPT ![t] = PutBack(t)]
  /\ live' = live \ {new_stack}
  /\ stack_installed' = FALSE
  /\ UNCHANGED <<old_stack, new_stack, allocated>>

\* A call of sigaltstack fails, or there is nothing to restore.
RestoresNothing ==
  UNCHANGED <<alt, old_stack, new_stack, stack_installed, allocated, live>>

\* With install_handler or without.
Construct(t) ==
  /\ handlers < 2
  /\ handlers' = handlers + 1
  /\ \/ InstallAlternateStackLocked(t)
     \/ UNCHANGED <<alt, old_stack, new_stack, stack_installed, allocated, live>>
  /\ UNCHANGED initial

Destroy(t) ==
  /\ handlers > 0
  /\ handlers' = handlers - 1
  /\ \/ handlers = 1 /\ RestoreAlternateStackLocked(t)
     \/ RestoresNothing
  /\ UNCHANGED initial

\* Other code sets a stack, and does not put back the one it found.
Meddle(t) ==
  /\ alt' \in {[alt EXCEPT ![t] = s] : s \in Foreign \cup {None}}
  /\ initial' = [initial EXCEPT ![t] = alt'[t]]
  /\ UNCHANGED <<old_stack, new_stack, stack_installed, allocated, live, handlers>>

Next ==
  \/ \E t \in Users : Construct(t) \/ Destroy(t)
  \/ \E t \in Meddlers : Meddle(t)

Spec == Init /\ [][Next]_vars

(***************************************************************************)
(* Properties.                                                             *)
(***************************************************************************)

\* Every variable has its type: the only type invariant of the module.
TypeOK ==
  /\ alt \in [Threads -> Foreign \cup {None} \cup 1..Allocs]
  /\ initial \in [Threads -> Foreign \cup {None}]
  /\ {old_stack, new_stack} \subseteq Foreign \cup {None} \cup 1..Allocs
  /\ stack_installed \in BOOLEAN
  /\ allocated \in 0..Allocs /\ live \subseteq 1..allocated
  /\ handlers \in 0..2

\* The one stack that has not been freed is the one that is installed: none is
\* freed twice, and none is lost, also when sigaltstack fails half way.
OneStackLives == live = IF stack_installed THEN {new_stack} ELSE {}

\* As long as one thread creates and destroys the handlers, no thread is left
\* with an alternate stack that has been freed; what it has instead is live, or
\* it is the one that other code gave it last.
NoFreedStack ==
  \A t \in Threads : alt[t] \in live \cup {initial[t]}

=============================================================================
