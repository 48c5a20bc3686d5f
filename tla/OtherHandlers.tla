---------------------------- MODULE OtherHandlers ----------------------------
(***************************************************************************)
(* What the exception handlers keep for the whole process beside signals   *)
(* and their mutex: the filter and the handler threads on Windows, the     *)
(* exception port and its thread on macOS, the alternate signal stack on   *)
(* Linux.  And what the app's own hook keeps for the process: the slot     *)
(* through which malloc is called.  A behaviour is of one of them; the     *)
(* state of the others stays as it is at first.                            *)
(***************************************************************************)
EXTENDS Naturals, Sequences

CONSTANTS Threads, None, Owner, Crashers, Writers,
          WindowsThreads,                     \* the Threads of WindowsExceptionHandler
          Handlers, Consumers, Faulty,        \* as there
          Calls, Forwards, QueueLimit,        \* as in MacExceptionHandler
          Small, Large, Meddlers, Allocs,     \* as in AlternateStack
          Callers, MaxInstalls                \* as in PltHook

ASSUME HandlersAssumption ==
  /\ WindowsThreads \cap Handlers = {}
  /\ None \notin WindowsThreads \cup Handlers \cup {"HandleException"}
  /\ Owner \in Threads /\ Meddlers \subseteq Threads
  /\ {Small, Large, None} \cap Nat = {}
  /\ {Calls, QueueLimit, Allocs, MaxInstalls} \subseteq Nat

VARIABLES
  system,
  handler_stack, index, lock, filter, previous, handler_lock, start, finish,
  requester, result, pc, kind, target, action, over,
  object, installed, port, worker, message, suspensions, forwarded, writing,
  mutex, last, caller, answer, calls, ended,
  alt, initial, old_stack, new_stack, stack_installed, allocated, live, handlers,
  slot, originFunc, writable, saved, at, installer, installs, fault

Windows == INSTANCE WindowsExceptionHandler WITH Threads <- WindowsThreads
Mac == INSTANCE MacExceptionHandler
Linux == INSTANCE AlternateStack WITH Users <- {Owner}
Hook == INSTANCE PltHook

windowsVars == <<handler_stack, index, lock, filter, previous, handler_lock, start,
                 finish, requester, result, pc, kind, target, action, over>>
macVars == <<object, installed, port, worker, message, suspensions, forwarded,
             writing, mutex, last, caller, answer, calls, ended>>
linuxVars == <<alt, initial, old_stack, new_stack, stack_installed, allocated,
               live, handlers>>
hookVars == <<slot, originFunc, writable, saved, at, installer, installs, fault>>
vars == <<system, windowsVars, macVars, linuxVars, hookVars>>

Init ==
  /\ system \in {"windows", "mac", "linux", "malloc"}
  /\ Windows!Init
  /\ Mac!Init
  /\ Linux!Init
  /\ system = "linux" \/ alt = [t \in Threads |-> None]
  /\ Hook!Init
  /\ system = "malloc" \/ ~writable

OnWindows(A) ==
  system = "windows" /\ ~over /\ A /\ UNCHANGED <<system, macVars, linuxVars, hookVars>>
OnMac(A) ==
  system = "mac" /\ ~ended /\ A /\ UNCHANGED <<system, windowsVars, linuxVars, hookVars>>
OnLinux(A) ==
  system = "linux" /\ A /\ UNCHANGED <<system, windowsVars, macVars, hookVars>>
OnMalloc(A) ==
  system = "malloc" /\ A /\ UNCHANGED <<system, windowsVars, macVars, linuxVars>>

Next ==
  \/ OnWindows(Windows!Step)
  \/ OnMac(Mac!Step)
  \/ OnLinux(Linux!Next)
  \/ OnMalloc(Hook!Step)

Spec == Init /\ [][Next]_vars

\* As in the modules, of which only one has steps in a behaviour.
FairSpec ==
  /\ Spec
  /\ \A a \in WindowsThreads \cup Handlers : SF_vars(OnWindows(Windows!Proceed(a)))
  /\ \A h \in Handlers : WF_vars(OnWindows(Windows!HandlerThread(h)))
  /\ \A t \in Threads : WF_vars(OnMac(Mac!Proceed(t)))
  /\ WF_vars(OnMac(Mac!Worker))

(***************************************************************************)
(* Properties.                                                             *)
(***************************************************************************)

\* Every variable has its type, on the system it belongs to.
TypeOK == Windows!TypeOK /\ Mac!TypeOK /\ Linux!TypeOK /\ Hook!TypeOK

\* What is installed for the process leads to something that is there: once
\* nobody handles an exception, the filter on Windows is Breakpad's exactly as
\* long as there is a handler to ask, and malloc, hooked once, is reached.
InstalledIsLive == Windows!FilterIsLive /\ Hook!MallocIsReached

\* The thread of a handler on Windows works for who waits for it, and the result
\* that is there to collect is for that one.
AnswersItsRequester == Windows!AnswersItsRequester

\* The handler's thread on macOS works at a request of WriteMinidump only while
\* there is the object it writes with, and when it waits for messages again it
\* has resumed all threads that it had suspended for a dump.
WritesForTheLiving == Mac!WritesForTheLiving /\ Mac!NobodyStaysSuspended

\* No alternate stack is freed twice, none is lost, and no thread is left with
\* one that has been freed, as long as one thread creates and destroys the
\* handlers.
NoFreedStack == Linux!OneStackLives /\ Linux!NoFreedStack

\* An exception does not hang: not on Windows, unless its handling raises
\* another, nor on macOS, unless the object has gone meanwhile.  And the first
\* WriteMinidump on macOS returns.
ExceptionResolved ==
  /\ Windows!ExceptionResolved
  /\ Mac!ExceptionResolved
  /\ Mac!WriteMinidumpReturns

\* Where the handler that is asked stands in the stack.
Position == CHOOSE i \in DOMAIN handler_stack : handler_stack[i] = target[lock]

Dealt ==
  /\ lock # None
  /\ \/ pc[lock] = "handled"
     \/ pc[lock] = "leave" /\ action[lock] # "search"

Chain == INSTANCE HandlerChain
  WITH Threads <- WindowsThreads \cup Handlers,
       chain   <- handler_stack,
       asking  <- lock,
       left    <- IF lock = None THEN <<>>
                  ELSE SubSeq(handler_stack, 1,
                              IF Dealt \/ (pc[lock] \in {"ask", "lock", "wait"})
                              THEN Position ELSE Position - 1),
       handled <- Dealt

\* handler_stack_index_ and the filters that the handlers have found ask the
\* handlers as HandlerChain promises, like the stack under its mutex on Linux:
\* the newest first, skipping none, until one has dealt with the exception.
ImplementsChain == Chain!Spec

=============================================================================
