------------------------- MODULE MacExceptionHandler -------------------------
(***************************************************************************)
(* ExceptionHandler on macOS.  The handler's own thread waits on a Mach    *)
(* port, where the kernel sends the exceptions of the process, WriteMini-  *)
(* dump its requests, and the destructor its farewell.  WriteMinidump      *)
(* waits for its dump by locking a mutex twice: the handler's thread does  *)
(* the unlocking.  While that thread writes, all others are suspended.     *)
(*                                                                         *)
(* One handler, from its constructor to its destructor, which nobody calls *)
(* while WriteMinidump is running.                                         *)
(*                                                                         *)
(* The variants beside a definition, which nothing refers to, are seeded   *)
(* faults, each of which must break a property.                            *)
(***************************************************************************)
EXTENDS Naturals, Sequences

CONSTANTS
  Threads,
  None,
  Owner,      \* the thread that creates and deletes the handler
  Writers,    \* those that call WriteMinidump
  Calls,      \* how many calls of it there are: a bound
  Crashers,   \* those whose exceptions arrive
  Forwards,   \* what the previous exception port does: none, fails, recovers
  QueueLimit  \* how many messages a Mach port takes

VARIABLES
  object,       \* is the handler new, alive or gone
  installed,    \* installed_exception_handler_, and the SIGABRT handler
  port,         \* the messages that wait at handler_port_: [what, from]
  worker,       \* where the handler's thread is in WaitForMessage
  message,      \* the message it works at
  writing,      \* use_minidump_write_mutex_
  mutex,        \* is minidump_write_mutex_ locked
  last,         \* last_minidump_write_result_
  suspensions,  \* how often the other threads are suspended
  forwarded,    \* has the previous port recovered from an exception
  caller,       \* where each thread is
  answer,       \* what its WriteMinidump has returned
  calls,        \* how many calls may still come
  ended         \* has the process ended

dumpVars == <<writing, mutex, last>>
workerVars == <<worker, message, suspensions, forwarded>>
callVars == <<caller, answer, calls>>
vars == <<object, installed, port, worker, message, suspensions, forwarded,
          writing, mutex, last, caller, answer, calls, ended>>

NoMessage == [what |-> "none", from |-> None]

InitHandler ==
  /\ object = "new" /\ installed = FALSE /\ port = <<>>
  /\ worker = "none" /\ message = NoMessage
  /\ writing = FALSE /\ mutex = FALSE /\ last = FALSE
  /\ suspensions = 0 /\ forwarded = FALSE
  /\ caller = [t \in Threads |-> "run"]
  /\ answer = [t \in Threads |-> "none"]
  /\ calls = Calls

Init == InitHandler /\ ended = FALSE

Send(what, t) == port' = Append(port, [what |-> what, from |-> t])
Full == Len(port) = QueueLimit
GoTo(t, place) == caller' = [caller EXCEPT ![t] = place]

\* A thread of the program runs only while the handler has not suspended it.
At(t, place) == caller[t] = place /\ suspensions = 0

(***************************************************************************)
(* The constructor and the destructor.                                     *)
(***************************************************************************)

Setup ==
  /\ At(Owner, "run")
  /\ object = "new"
  /\ object' = "alive"
  /\ installed' \in BOOLEAN   \* install_handler
  /\ worker' = "loop"
  /\ UNCHANGED <<port, message, suspensions, forwarded, dumpVars, callVars, ended>>

\* Teardown restores what was installed before ...
Teardown ==
  /\ At(Owner, "run")
  /\ object = "alive"
  /\ \A t \in Threads : caller[t] \notin {"set", "lock", "send", "relock"}
  /\ installed' = FALSE
  /\ GoTo(Owner, "teardown")
  /\ UNCHANGED <<object, port, workerVars, dumpVars, answer, calls, ended>>

\* ... and sends the farewell, which a full port does not take.  The object goes
\* without waiting for its thread.
SendShutdown ==
  /\ At(Owner, "teardown")
  /\ IF Full THEN UNCHANGED port ELSE Send("shutdown", Owner)
  /\ object' = "gone"
  /\ GoTo(Owner, "run")
  /\ UNCHANGED <<installed, workerVars, dumpVars, answer, calls, ended>>

(***************************************************************************)
(* WriteMinidump.                                                          *)
(***************************************************************************)

WriteMinidump(t) ==
  /\ At(t, "run")
  /\ t \in Writers
  /\ object = "alive" /\ caller[Owner] # "teardown"
  /\ calls > 0
  /\ calls' = calls - 1
  /\ IF writing
     THEN answer' = [answer EXCEPT ![t] = "false"] /\ UNCHANGED caller
     ELSE answer' = [answer EXCEPT ![t] = "none"] /\ GoTo(t, "set")
  /\ UNCHANGED <<object, installed, port, workerVars, dumpVars, ended>>

SetWriting(t) ==
  /\ At(t, "set")
  /\ writing' = TRUE
  /\ last' = FALSE
  /\ GoTo(t, "lock")
  /\ UNCHANGED <<object, installed, port, workerVars, mutex, answer, calls, ended>>

Lock(t) ==
  /\ At(t, "lock")
  /\ ~mutex
  /\ mutex' = TRUE
  /\ GoTo(t, "send")
  /\ UNCHANGED <<object, installed, port, workerVars, writing, last, answer, calls,
                 ended>>

\* If the message cannot be sent, use_minidump_write_mutex_ stays set.
SendRequest(t) ==
  /\ At(t, "send")
  /\ IF Full
     THEN /\ mutex' = FALSE
          /\ answer' = [answer EXCEPT ![t] = "false"]
          /\ GoTo(t, "run")
          /\ UNCHANGED port
     ELSE Send("dump", t) /\ GoTo(t, "relock") /\ UNCHANGED <<mutex, answer>>
  /\ UNCHANGED <<object, installed, workerVars, writing, last, calls, ended>>

\* The second lock waits for the handler's thread; nobody undoes it.
DoesNotWait == TRUE
DumpIsWritten == ~mutex

Relock(t) ==
  /\ At(t, "relock")
  /\ DumpIsWritten
  /\ mutex' = TRUE
  /\ writing' = FALSE
  /\ answer' = [answer EXCEPT ![t] = IF last THEN "true" ELSE "false"]
  /\ GoTo(t, "run")
  /\ UNCHANGED <<object, installed, port, workerVars, last, calls, ended>>

(***************************************************************************)
(* Exceptions and SIGABRT.                                                 *)
(***************************************************************************)

\* The kernel sends the exception, and the thread waits for the reply.
Raise(t) ==
  /\ At(t, "run")
  /\ t \in Crashers
  /\ installed /\ ~Full
  /\ Send("exception", t)
  /\ GoTo(t, "raised")
  /\ UNCHANGED <<object, installed, workerVars, dumpVars, answer, calls, ended>>

\* SignalHandler writes a dump in the thread that aborts, and the process ends
\* whatever comes of it.
Abort(t) ==
  /\ At(t, "run")
  /\ t \in Crashers
  /\ installed
  /\ ended' = TRUE
  /\ UNCHANGED <<object, installed, port, workerVars, dumpVars, callVars>>

(***************************************************************************)
(* The handler's thread: WaitForMessage.                                   *)
(***************************************************************************)

\* The port is read from the object.  If that has gone, the thread turns in its
\* loop for ever, on a port that is none.
Loop ==
  /\ worker = "loop"
  /\ worker' = IF object = "gone" THEN "lost" ELSE "receive"
  /\ UNCHANGED <<object, installed, port, message, suspensions, forwarded, dumpVars,
                 callVars, ended>>

Receive ==
  /\ worker = "receive"
  /\ port # <<>>
  /\ message' = Head(port)
  /\ port' = Tail(port)
  /\ worker' = IF message'.what = "shutdown" THEN "exited" ELSE "suspend"
  /\ UNCHANGED <<object, installed, suspensions, forwarded, dumpVars, callVars,
                 ended>>

SuspendThreads ==
  /\ worker = "suspend"
  /\ suspensions' = suspensions + 1
  /\ worker' = "write"
  /\ UNCHANGED <<object, installed, port, message, forwarded, dumpVars, callVars,
                 ended>>

WriteRequested ==
  /\ worker = "write"
  /\ message.what = "dump"
  /\ last' \in BOOLEAN
  /\ worker' = "resume"
  /\ UNCHANGED <<object, installed, port, message, suspensions, forwarded, writing,
                 mutex, callVars, ended>>

ResumeThreads ==
  /\ worker = "resume"
  /\ suspensions' = suspensions - 1
  /\ worker' = "unlock"
  /\ UNCHANGED <<object, installed, port, message, forwarded, dumpVars, callVars,
                 ended>>

Unlock ==
  /\ worker = "unlock"
  /\ mutex' = (mutex /\ ~writing)
  /\ worker' = "loop"
  /\ UNCHANGED <<object, installed, port, message, suspensions, forwarded, writing,
                 last, callVars, ended>>

\* If the callback says that it has handled the exception the process exits.  The
\* object of an exception that had been queued may have gone: what the thread
\* reads of it then may be what it was, or may end the process.
WriteException ==
  /\ worker = "write"
  /\ message.what = "exception"
  /\ \/ ended' = TRUE /\ UNCHANGED <<installed, worker>>
     \/ installed' = FALSE /\ worker' = "forward" /\ UNCHANGED ended
  /\ UNCHANGED <<object, port, message, suspensions, forwarded, dumpVars, callVars>>

\* ForwardException, and the reply.  Nobody resumes the threads: if the previous
\* handler recovers, all of them stay suspended.
ForwardException ==
  /\ worker = "forward"
  /\ \E how \in Forwards :
       IF how = "recovers"
       THEN /\ GoTo(message.from, "run")
            /\ worker' = "loop"
            /\ forwarded' = TRUE
            /\ UNCHANGED ended
       ELSE ended' = TRUE /\ UNCHANGED <<caller, worker, forwarded>>
  /\ UNCHANGED <<object, installed, port, message, suspensions, dumpVars, answer,
                 calls>>

(***************************************************************************)
(* The specification.                                                      *)
(***************************************************************************)

Proceed(t) == SetWriting(t) \/ Lock(t) \/ SendRequest(t) \/ Relock(t)

Worker ==
  \/ Loop \/ Receive \/ SuspendThreads \/ WriteRequested \/ ResumeThreads \/ Unlock
  \/ WriteException \/ ForwardException

Step ==
  \/ Setup \/ Teardown \/ SendShutdown
  \/ \E t \in Threads : WriteMinidump(t) \/ Proceed(t) \/ Raise(t) \/ Abort(t)
  \/ Worker

Next == ~ended /\ Step

Spec == Init /\ [][Next]_vars

\* The system runs every thread that is not suspended.
FairSpec ==
  /\ Spec
  /\ \A t \in Threads : WF_vars(~ended /\ Proceed(t))
  /\ WF_vars(~ended /\ Worker)

(***************************************************************************)
(* Properties.                                                             *)
(***************************************************************************)

\* Every variable has its type: the only type invariant of the module.
TypeOK ==
  /\ object \in {"new", "alive", "gone"}
  /\ port \in Seq([what : {"dump", "exception", "shutdown"}, from : Threads])
  /\ Len(port) <= QueueLimit
  /\ worker \in {"none", "loop", "receive", "suspend", "write", "resume", "unlock",
                 "forward", "lost", "exited"}
  /\ message \in [what : {"none", "dump", "exception", "shutdown"},
                  from : Threads \cup {None}]
  /\ {installed, writing, mutex, last, forwarded, ended} \subseteq BOOLEAN
  /\ suspensions \in Nat
  /\ caller \in [Threads -> {"run", "set", "lock", "send", "relock", "raised",
                             "teardown"}]
  /\ answer \in [Threads -> {"none", "true", "false"}]
  /\ calls \in 0..Calls

\* When the handler's thread waits for messages it has resumed all threads that
\* it had suspended, unless an exception has been forwarded in between.
NobodyStaysSuspended ==
  worker \in {"loop", "receive", "lost", "exited"} /\ ~forwarded => suspensions = 0

\* The handler's thread works at a request of WriteMinidump only while there is
\* the object it writes with: the caller waits until the thread is done with it.
WritesForTheLiving ==
  message.what = "dump" /\ worker \in {"suspend", "write", "resume", "unlock"} =>
    object = "alive" /\ caller[message.from] = "relock"

\* WriteMinidump returns: what it waits for, the handler's thread does.  An
\* exception may end the process before, or suspend the thread for ever.  It
\* holds for the first call; the mutex stays locked after it.
WriteMinidumpReturns ==
  \A t \in Threads : caller[t] = "set" ~> caller[t] = "run" \/ ended \/ forwarded

\* An exception is dealt with, the process ends or the thread goes on, unless the
\* object has gone in the meantime.
ExceptionResolved ==
  \A t \in Threads : caller[t] = "raised" ~>
    ended \/ forwarded \/ caller[t] = "run" \/ object = "gone"

=============================================================================
