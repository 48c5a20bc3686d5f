----------------------- MODULE ExceptionHandlerChain ------------------------
(***************************************************************************)
(* SignalHandler, the constructor and the destructor implement the chain   *)
(* of handlers of HandlerChain: the mutex makes a crash atomic towards     *)
(* construction, destruction and other crashes.                            *)
(***************************************************************************)
EXTENDS ExceptionHandler

\* The thread in the loop over g_handler_stack_, which holds the mutex.
Asking ==
  IF mutex \in Threads /\ pc[mutex] \in {"loop", "dump"} THEN mutex ELSE None

Chain == INSTANCE HandlerChain WITH
  chain   <- stack,
  asking  <- Asking,
  left    <- IF Asking = None THEN <<>> ELSE SubSeq(stack, 1, idx[Asking]),
  handled <- Asking # None /\ frame[Asking].handled

\* The stack of handlers under its mutex is a chain of handlers: crashes ask
\* them newest first, skip none, stop at the first that handled the crash, and
\* never see one join or leave meanwhile.
ImplementsChain == Chain!Spec

=============================================================================
