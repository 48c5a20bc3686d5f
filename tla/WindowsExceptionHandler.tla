----------------------- MODULE WindowsExceptionHandler -----------------------
(***************************************************************************)
(* ExceptionHandler on Windows.  The system has one unhandled exception    *)
(* filter; every handler puts HandleException there and keeps what it      *)
(* found.  HandleException takes the lock of the handler stack, finds with *)
(* handler_stack_index_ whom to ask, and lets the thread of that handler   *)
(* write the dump, over two semaphores; a handler that declines passes the *)
(* exception to the filter it had found, which may be HandleException      *)
(* again, in the same thread: the lock is recursive.                       *)
(*                                                                         *)
(* The handler for invalid parameters and the one for pure virtual calls   *)
(* are set and reset together with the filter and go the same way, except  *)
(* that the process then exits.  Handlers are created and deleted nested,  *)
(* by one thread (the comment on the class), which is why the races on the *)
(* lazily created lock that the source names do not happen here.           *)
(*                                                                         *)
(* The variants beside a definition, which nothing refers to, are seeded   *)
(* faults, each of which must break a property.                            *)
(***************************************************************************)
EXTENDS Naturals, Sequences

CONSTANTS
  Threads,    \* the threads of the program
  Handlers,   \* ExceptionHandler objects; each stands for its thread too
  None,
  Owner,      \* the thread that creates and deletes handlers
  Crashers,   \* the threads whose exceptions arrive
  Writers,    \* the threads that call WriteMinidump
  Consumers,  \* the handlers with consume_invalid_handle_exceptions_
  Faulty      \* may writing a dump, or a callback, raise an exception itself

Actors == Threads \cup Handlers

Kinds == {"exception", "handle", "parameter", "user"}

VARIABLES
  handler_stack,    \* the handlers, oldest first
  index,            \* handler_stack_index_: how many of them are being asked
  lock,             \* who has handler_stack_critical_section_
  filter,           \* the filter: HandleException, or nobody's
  previous,         \* previous_filter_ of each handler
  handler_lock,     \* who has handler_critical_section_ of each handler
  start, finish,    \* the semaphores of each handler
  requester,        \* requesting_thread_id_
  result,           \* handler_return_value_
  pc,               \* where each thread is
  kind,             \* what each thread wants a dump for
  target,           \* the handler it asks
  action,           \* what HandleException will return to the system
  over              \* has the process ended

stackVars == <<handler_stack, index, lock, filter, previous>>
rendezvous == <<handler_lock, start, finish, requester, result>>
threadVars == <<pc, kind, target, action>>
vars == <<handler_stack, index, lock, filter, previous, handler_lock, start,
          finish, requester, result, pc, kind, target, action, over>>

InitHandlers ==
  /\ handler_stack = <<>> /\ index = 0 /\ lock = None /\ filter = None
  /\ previous = [h \in Handlers |-> None]
  /\ handler_lock = [h \in Handlers |-> None]
  /\ start = [h \in Handlers |-> 0] /\ finish = [h \in Handlers |-> 0]
  /\ requester = [h \in Handlers |-> None]
  /\ result = [h \in Handlers |-> FALSE]
  /\ pc = [a \in Actors |-> IF a \in Threads THEN "run" ELSE "none"]
  /\ kind = [a \in Actors |-> "none"]
  /\ target = [a \in Actors |-> None]
  /\ action = [a \in Actors |-> "none"]

Init == InitHandlers /\ over = FALSE

Live(h) == \E i \in DOMAIN handler_stack : handler_stack[i] = h
Newest == handler_stack[Len(handler_stack)]

GoTo(a, place) == pc' = [pc EXCEPT ![a] = place]

\* Where an actor goes on when the system resumes it.
Resumed(a) == IF a \in Threads THEN "run" ELSE "working"

(***************************************************************************)
(* The constructor and the destructor.                                     *)
(***************************************************************************)

Initialize(h) ==
  /\ pc[Owner] = "run"
  /\ ~Live(h)
  /\ lock = None
  /\ handler_stack' = Append(handler_stack, h)
  /\ previous' = [previous EXCEPT ![h] = filter]
  /\ filter' = "HandleException"
  /\ start' = [start EXCEPT ![h] = 0] /\ finish' = [finish EXCEPT ![h] = 0]
  /\ GoTo(h, "idle")
  /\ UNCHANGED <<index, lock, handler_lock, requester, result, kind, target,
                 action, over>>

\* The filter a handler leaves when it goes.
LeavesItself(h) == filter
Restored(h) == previous[h]

\* The thread of the handler is terminated wherever it is.  The caller must be
\* done with WriteMinidump; exceptions are kept off by the lock.
Destroy ==
  /\ pc[Owner] = "run"
  /\ handler_stack # <<>>
  /\ lock = None
  /\ \A t \in Threads : ~(kind[t] = "user" /\ target[t] = Newest)
  /\ filter' = Restored(Newest)
  /\ handler_stack' = SubSeq(handler_stack, 1, Len(handler_stack) - 1)
  /\ GoTo(Newest, "none")
  /\ UNCHANGED <<index, lock, previous, rendezvous, kind, target, action, over>>

(***************************************************************************)
(* Exceptions.                                                             *)
(***************************************************************************)

\* The system calls the filter; without one of Breakpad's the process ends.
Raise(a, k) ==
  /\ k # "user"
  /\ \/ a \in Crashers /\ pc[a] = "run" /\ k \in Kinds
     \/ Faulty /\ a \in Handlers /\ pc[a] = "working" /\ k = "exception"
  /\ IF filter = None
     THEN over' = TRUE /\ UNCHANGED threadVars
     ELSE /\ GoTo(a, "enter")
          /\ kind' = [kind EXCEPT ![a] = k]
          /\ UNCHANGED <<target, action, over>>
  /\ UNCHANGED <<stackVars, rendezvous>>

OldestFirst == handler_stack[index + 1]
Located == handler_stack[Len(handler_stack) - index]

\* AutoExceptionHandler.  The stack may have gone while the exception waited for
\* the lock: the null pointer ends the process.
AutoExceptionHandler(a) ==
  /\ pc[a] = "enter"
  /\ lock \in {None, a}
  /\ IF handler_stack = <<>>
     THEN over' = TRUE /\ UNCHANGED <<index, lock, filter, pc, target>>
     ELSE LET h == Located
          IN /\ index' = index + 1
             /\ lock' = a
             /\ target' = [target EXCEPT ![a] = h]
             /\ filter' = previous[h]
             /\ GoTo(a, "ask")
             /\ UNCHANGED over
  /\ UNCHANGED <<handler_stack, previous, rendezvous, kind, action>>

\* An invalid handle that the handler wants ignored: the program goes on.
Consume(a) ==
  /\ pc[a] = "ask"
  /\ kind[a] = "handle"
  /\ target[a] \in Consumers
  /\ action' = [action EXCEPT ![a] = "continue"]
  /\ GoTo(a, "leave")
  /\ UNCHANGED <<stackVars, rendezvous, kind, target, over>>

\* A debug exception is not dumped; anything else is, on the handler's thread.
Ask(a) ==
  /\ pc[a] = "ask"
  /\ ~(kind[a] = "handle" /\ target[a] \in Consumers)
  /\ \/ GoTo(a, "lock")
     \/ kind[a] = "exception" /\ GoTo(a, "declined")
  /\ UNCHANGED <<stackVars, rendezvous, kind, target, action, over>>

Handled(a) ==
  /\ pc[a] = "handled"
  /\ action' = [action EXCEPT ![a] = "execute"]
  /\ GoTo(a, "leave")
  /\ UNCHANGED <<stackVars, rendezvous, kind, target, over>>

\* The filter that the handler had found, if any, is next.
NextInChain(a) ==
  /\ pc[a] = "declined"
  /\ IF previous[target[a]] = None
     THEN GoTo(a, "leave") /\ action' = [action EXCEPT ![a] = "search"]
     ELSE GoTo(a, "enter") /\ UNCHANGED action
  /\ UNCHANGED <<stackVars, rendezvous, kind, target, over>>

KeepIndex == index
Decremented == index - 1

\* One AutoExceptionHandler goes after the other; the outermost gives up the
\* lock, and HandleException returns.  An invalid parameter ends in exit(0)
\* before any of them goes, like a pure virtual call.
Leave(a) ==
  /\ pc[a] = "leave"
  /\ IF kind[a] = "parameter"
     THEN over' = TRUE /\ UNCHANGED <<stackVars, threadVars>>
     ELSE /\ filter' = "HandleException"
          /\ index' = Decremented
          /\ IF index = 1
             THEN /\ lock' = None
                  /\ over' = (action[a] # "continue")
                  /\ GoTo(a, Resumed(a))
                  /\ kind' = [kind EXCEPT ![a] = "none"]
                  /\ action' = [action EXCEPT ![a] = "none"]
             ELSE UNCHANGED <<lock, over, pc, kind, action>>
          /\ UNCHANGED <<handler_stack, previous, target>>
  /\ UNCHANGED rendezvous

(***************************************************************************)
(* The dump: WriteMinidump, WriteMinidumpOnHandlerThread and               *)
(* ExceptionHandlerThreadMain.                                             *)
(***************************************************************************)

WriteMinidump(t, h) ==
  /\ t \in Writers
  /\ pc[t] = "run"
  /\ Live(h)
  /\ kind' = [kind EXCEPT ![t] = "user"]
  /\ target' = [target EXCEPT ![t] = h]
  /\ GoTo(t, "lock")
  /\ UNCHANGED <<stackVars, rendezvous, action, over>>

NobodyChecks(a, h) == TRUE
MayEnter(a, h) == handler_lock[h] \in {None, a}

Request(a) ==
  LET h == target[a] IN
  /\ pc[a] = "lock"
  /\ MayEnter(a, h)
  /\ handler_lock' = [handler_lock EXCEPT ![h] = a]
  /\ requester' = [requester EXCEPT ![h] = a]
  /\ start' = [start EXCEPT ![h] = 1]
  /\ GoTo(a, "wait")
  /\ UNCHANGED <<stackVars, finish, result, kind, target, action, over>>

Collect(a) ==
  LET h == target[a] IN
  /\ pc[a] = "wait"
  /\ finish[h] = 1
  /\ finish' = [finish EXCEPT ![h] = 0]
  /\ requester' = [requester EXCEPT ![h] = None]
  /\ handler_lock' = [handler_lock EXCEPT ![h] = None]
  /\ IF kind[a] = "user"
     THEN GoTo(a, "run") /\ kind' = [kind EXCEPT ![a] = "none"]
     ELSE GoTo(a, IF result[h] THEN "handled" ELSE "declined") /\ UNCHANGED kind
  /\ UNCHANGED <<stackVars, start, result, target, action, over>>

Begin(h) ==
  /\ pc[h] = "idle"
  /\ start[h] = 1
  /\ start' = [start EXCEPT ![h] = 0]
  /\ GoTo(h, "working")
  /\ UNCHANGED <<stackVars, handler_lock, finish, requester, result, kind, target,
                 action, over>>

FailsSilently(h) ==
  /\ pc[h] = "working"
  /\ \E success \in BOOLEAN :
       /\ result' = [result EXCEPT ![h] = success]
       /\ finish' = [finish EXCEPT ![h] = IF success THEN 1 ELSE @]
  /\ GoTo(h, "idle")
  /\ UNCHANGED <<stackVars, handler_lock, start, requester, kind, target, action,
                 over>>

\* WriteMinidumpWithException: the user's filter, the dump and the callback, and
\* the requesting thread may go on.
Finish(h) ==
  /\ pc[h] = "working"
  /\ \E success \in BOOLEAN : result' = [result EXCEPT ![h] = success]
  /\ finish' = [finish EXCEPT ![h] = 1]
  /\ GoTo(h, "idle")
  /\ UNCHANGED <<stackVars, handler_lock, start, requester, kind, target, action,
                 over>>

(***************************************************************************)
(* The specification.                                                      *)
(***************************************************************************)

\* What an actor that has an exception, or asks for a dump, does by itself.
Proceed(a) ==
  \/ AutoExceptionHandler(a) \/ Consume(a) \/ Ask(a) \/ Handled(a)
  \/ NextInChain(a) \/ Leave(a) \/ Request(a) \/ Collect(a)

HandlerThread(h) == Begin(h) \/ Finish(h)

Step ==
  \/ \E h \in Handlers : Initialize(h) \/ HandlerThread(h)
  \/ Destroy
  \/ \E a \in Actors, k \in Kinds : Raise(a, k)
  \/ \E a \in Actors : Proceed(a)
  \/ \E t \in Threads, h \in Handlers : WriteMinidump(t, h)

Next == ~over /\ Step

Spec == Init /\ [][Next]_vars

\* The system runs every thread, and locks and semaphores pass to who waits.
FairSpec ==
  /\ Spec
  /\ \A a \in Actors : SF_vars(~over /\ Proceed(a))
  /\ \A h \in Handlers : WF_vars(~over /\ HandlerThread(h))

(***************************************************************************)
(* Properties.                                                             *)
(***************************************************************************)

\* Every variable has its type: the only type invariant of the module.
TypeOK ==
  /\ handler_stack \in Seq(Handlers) /\ index \in 0..Len(handler_stack)
  /\ lock \in Actors \cup {None}
  /\ filter \in {None, "HandleException"}
  /\ previous \in [Handlers -> {None, "HandleException"}]
  /\ handler_lock \in [Handlers -> Actors \cup {None}]
  /\ start \in [Handlers -> 0..1] /\ finish \in [Handlers -> 0..1]
  /\ requester \in [Handlers -> Actors \cup {None}]
  /\ result \in [Handlers -> BOOLEAN]
  /\ pc \in [Actors -> {"none", "run", "idle", "working", "enter", "ask", "lock",
                        "wait", "handled", "declined", "leave"}]
  /\ kind \in [Actors -> Kinds \cup {"none"}]
  /\ target \in [Actors -> Handlers \cup {None}]
  /\ action \in [Actors -> {"none", "continue", "execute", "search"}]

\* Once nobody handles an exception, the filter is Breakpad's exactly as long as
\* there is a handler to ask: neither do exceptions pass by a live handler, nor
\* do they reach HandleException with an empty stack.
FilterIsLive ==
  lock = None => (filter = "HandleException") = (handler_stack # <<>>)

\* The thread of a handler works for who waits for it, and the result that is
\* there to collect is for that one: requests of several threads do not mix.
AnswersItsRequester ==
  \A h \in Handlers :
    start[h] + finish[h] > 0 \/ pc[h] = "working" =>
      /\ requester[h] # None
      /\ pc[requester[h]] = "wait" /\ target[requester[h]] = h

\* What a handler's thread is at when writing the dump has itself raised an
\* exception.
Faulted == \E h \in Handlers : kind[h] # "none"

\* Unless its handling raises another one, an exception is dealt with: the
\* thread goes on or the process ends, but it does not hang.
ExceptionResolved ==
  \A t \in Threads :
    pc[t] = "enter" ~> over \/ pc[t] = "run" \/ Faulted

=============================================================================
