-------------------------- MODULE ExceptionHandler --------------------------
(***************************************************************************)
(* The process-wide half of google_breakpad::ExceptionHandler              *)
(* (client/linux/handler/exception_handler.cc), the crash reporter that    *)
(* native_capture.cpp puts in libexample.so.                               *)
(*                                                                         *)
(* Every thread of the process shares the stack of live handler objects    *)
(* (g_handler_stack_), the mutex that guards it, one crash context         *)
(* (g_crash_context_), the dispositions saved at installation              *)
(* (old_handlers, handlers_installed) and, in the kernel, the disposition  *)
(* of every exception signal.  A step of this module is what one thread    *)
(* does between two points where another thread, or the kernel delivering  *)
(* a signal, can observe it.                                               *)
(*                                                                         *)
(* Everything the constructor, the destructor and SignalHandler do to the  *)
(* dispositions happens under the mutex, one sigaction per signal.  The    *)
(* model does the six calls in one step: the kernel reads only the         *)
(* disposition of the signal it delivers, so a delivery that lands among   *)
(* the calls is one that lands before or after the step.                   *)
(***************************************************************************)
EXTENDS Naturals, Sequences, FiniteSets

CONSTANTS
  Threads,     \* the threads of the process
  Handlers,    \* the ExceptionHandler objects it may construct, each once
  Signals,     \* the exception signals, kExceptionSignals
  Aborts,      \* the ones re-sent whatever their si_code: SIGABRT
  Passive,     \* handlers constructed with install_handler = false
  Transient,   \* handlers that are destroyed before the process ends
  Owners,      \* threads that construct and destroy handlers
  Crashers,    \* threads that raise or receive exception signals
  Simulators,  \* threads that call SimulateSignalDelivery
  Meddlers,    \* threads running code that saves and restores handlers
               \* with signal() instead of sigaction()
  None         \* no thread, no handler, no signal

ASSUME ConstantsAssumption ==
  /\ Aborts \subseteq Signals
  /\ Passive \subseteq Handlers
  /\ Transient \subseteq Handlers
  /\ Owners \subseteq Threads
  /\ Crashers \subseteq Threads
  /\ Simulators \subseteq Threads
  /\ Meddlers \subseteq Threads
  /\ None \notin Threads \cup Handlers \cup Signals

VARIABLES
  disp,         \* the kernel's disposition of each exception signal
  oldHandlers,  \* the dispositions InstallHandlersLocked saved
  installed,    \* handlers_installed
  stack,        \* g_handler_stack_: the live handlers, oldest first; <<>> is
                \* NULL, for the vector is deleted when it becomes empty
  gone,         \* the handlers already destroyed
  mutex,        \* the holder of g_handler_stack_mutex_, or None
  firstChance,  \* is g_first_chance_handler_ set
  context,      \* whose crash g_crash_context_ describes; None when zeroed
  reports,      \* the dumps taken: by which thread, handler and context
  saved,        \* what a meddler holds between its two calls of signal()
  pc,           \* where each thread is
  obj,          \* the handler a thread constructs, destroys or simulates on
  frame,        \* the arguments of the SignalHandler call of each thread
  idx,          \* the loop variable of SignalHandler, counting from 1
  death         \* "alive", or how the process ended

vars == <<disp, oldHandlers, installed, stack, gone, mutex, firstChance,
          context, reports, saved, pc, obj, frame, idx, death>>

(***************************************************************************)
(* Dispositions.  "default" is SIG_DFL, "other" a handler that is not      *)
(* Breakpad's, "breakpad" SignalHandler with SA_SIGINFO, "noinfo"          *)
(* SignalHandler without it, so that info and uc are bogus.                *)
(***************************************************************************)
Foreign == {"default", "other"}
Breakpad == {"breakpad", "noinfo"}
Dispositions == Foreign \cup Breakpad

\* "kernel" is si_code > 0, a hard fault; "user" is si_code <= 0, a kill().
Codes == {"kernel", "user"}

\* Ordinary code; the last two are inside the mutex of constructor/destructor.
Places == {"run", "ctor", "dtor"}

\* Inside SignalHandler, or about to re-enter it.
CrashStates == {"entered", "wait", "check", "loop", "dump", "reraise",
                "refault"}

\* The states of SignalHandler in which the thread holds the mutex.
HandlerLocked == {"check", "loop", "dump"}

\* A call of SignalHandler: the signal and its si_code, whether info and uc are
\* genuine, its variable handled, and where the thread was interrupted.
NoFrame == [sig |-> None, code |-> "kernel", genuine |-> TRUE,
            handled |-> FALSE, from |-> "run"]

Deaths == {"alive", "default", "other", "exit", "fault"}

Live == {stack[i] : i \in 1..Len(stack)}

Report(t, h) == [thread |-> t, handler |-> h, context |-> context]

Init ==
  /\ disp \in [Signals -> Foreign]
  /\ oldHandlers = [s \in Signals |-> "default"]
  /\ installed = FALSE
  /\ stack = <<>>
  /\ gone = {}
  /\ mutex = None
  /\ firstChance = FALSE
  /\ context = None
  /\ reports = {}
  /\ saved = [s \in Signals |-> None]
  /\ pc = [t \in Threads |-> "run"]
  /\ obj = [t \in Threads |-> None]
  /\ frame = [t \in Threads |-> NoFrame]
  /\ idx = [t \in Threads |-> 0]
  /\ death = "alive"

Goto(t, place) == pc' = [pc EXCEPT ![t] = place]

(***************************************************************************)
(* The mutex, and the installation and removal of signal handlers under    *)
(* it.  The variants beside a definition are seeded faults, each of which  *)
(* must break a property.                                                  *)
(***************************************************************************)

\* pthread_mutex_lock, blocking; the mutex is not recursive.
AcquireWithoutWaiting(t) == mutex' = t
Acquire(t) == mutex = None /\ mutex' = t

InstallAgain ==
  /\ oldHandlers' = disp
  /\ disp' = [s \in Signals |-> "breakpad"]
  /\ installed' = TRUE

InstallWithoutSigInfo ==
  /\ oldHandlers' = disp
  /\ disp' = [s \in Signals |-> "noinfo"]
  /\ installed' = TRUE

InstallHandlersLocked ==
  IF installed
  THEN UNCHANGED <<disp, oldHandlers, installed>>
  ELSE /\ oldHandlers' = disp
       /\ disp' = [s \in Signals |-> "breakpad"]
       /\ installed' = TRUE

RestoreHandlersLocked ==
  /\ IF installed THEN disp' = oldHandlers ELSE UNCHANGED disp
  /\ installed' = FALSE
  /\ UNCHANGED oldHandlers

DefaultIgnored(s) == UNCHANGED disp
InstallDefaultHandler(s) == disp' = [disp EXCEPT ![s] = "default"]

(***************************************************************************)
(* Construction and destruction.                                           *)
(***************************************************************************)

\* The handler goes on top of the stack, allocated for the first one.
PushUnder(h) == stack' = <<h>> \o stack
Push(h) == stack' = Append(stack, h)

\* The constructor takes the mutex and zeroes the crash context.
CtorEnter(t, h) ==
  /\ t \in Owners
  /\ pc[t] = "run"
  /\ h \notin Live \cup gone
  /\ \A u \in Threads : obj[u] # h
  /\ Acquire(t)
  /\ context' = None
  /\ obj' = [obj EXCEPT ![t] = h]
  /\ Goto(t, "ctor")
  /\ UNCHANGED <<disp, oldHandlers, installed, stack, gone, firstChance,
                 reports, saved, frame, idx, death>>

\* It installs the signal handlers if asked to, pushes the object on the
\* stack, which it allocates if it is the first, and releases the mutex.
CtorExit(t) ==
  /\ pc[t] = "ctor"
  /\ IF obj[t] \in Passive
     THEN UNCHANGED <<disp, oldHandlers, installed>>
     ELSE InstallHandlersLocked
  /\ Push(obj[t])
  /\ mutex' = None
  /\ obj' = [obj EXCEPT ![t] = None]
  /\ Goto(t, "run")
  /\ UNCHANGED <<gone, firstChance, context, reports, saved, frame, idx,
                 death>>

DtorEnter(t, h) ==
  /\ t \in Owners
  /\ pc[t] = "run"
  /\ h \in Live \cap Transient
  /\ \A u \in Threads : obj[u] # h
  /\ Acquire(t)
  /\ obj' = [obj EXCEPT ![t] = h]
  /\ Goto(t, "dtor")
  /\ UNCHANGED <<disp, oldHandlers, installed, stack, gone, firstChance,
                 context, reports, saved, frame, idx, death>>

\* A sequence without its i-th element.
Without(s, i) ==
  [j \in 1..(Len(s) - 1) |-> IF j < i THEN s[j] ELSE s[j + 1]]

\* The object is found on the stack and erased.  The last one deletes the
\* stack and puts the saved dispositions back.
DtorExit(t) ==
  /\ pc[t] = "dtor"
  /\ \E i \in 1..Len(stack) :
       /\ stack[i] = obj[t]
       /\ IF Len(stack) = 1
          THEN stack' = <<>> /\ RestoreHandlersLocked
          ELSE /\ stack' = Without(stack, i)
               /\ UNCHANGED <<disp, oldHandlers, installed>>
  /\ gone' = gone \cup {obj[t]}
  /\ mutex' = None
  /\ obj' = [obj EXCEPT ![t] = None]
  /\ Goto(t, "run")
  /\ UNCHANGED <<firstChance, context, reports, saved, frame, idx, death>>

\* SetFirstChanceExceptionHandler: a plain write, without the mutex.
SetFirstChance(t) ==
  /\ t \in Owners
  /\ pc[t] = "run"
  /\ firstChance' = ~firstChance
  /\ UNCHANGED <<disp, oldHandlers, installed, stack, gone, mutex, context,
                 reports, saved, pc, obj, frame, idx, death>>

(***************************************************************************)
(* Delivery of a signal by the kernel.                                     *)
(***************************************************************************)

Die(cause) ==
  /\ death' = cause
  /\ UNCHANGED <<disp, oldHandlers, installed, stack, gone, mutex,
                 firstChance, context, reports, saved, pc, obj, frame, idx>>

\* The kernel acts on the disposition it finds now.  A handler that is not
\* Breakpad's ends the process or repairs the cause and resumes the thread.
Deliver(t, s, c, from) ==
  \/ disp[s] = "default" /\ Die("default")
  \/ disp[s] = "other" /\ Die("other")
  \/ /\ disp[s] = "other"
     /\ Goto(t, from)
     /\ frame' = [frame EXCEPT ![t] = NoFrame]
     /\ UNCHANGED <<disp, oldHandlers, installed, stack, gone, mutex,
                    firstChance, context, reports, saved, obj, idx, death>>
  \/ /\ disp[s] \in Breakpad
     /\ Goto(t, "entered")
     /\ frame' = [frame EXCEPT ![t] =
          [sig |-> s, code |-> c, genuine |-> disp[s] = "breakpad",
           handled |-> FALSE, from |-> from]]
     /\ UNCHANGED <<disp, oldHandlers, installed, stack, gone, mutex,
                    firstChance, context, reports, saved, obj, idx, death>>

\* A thread faults, aborts or is sent a signal.  While it is in SignalHandler
\* the exception signals are masked for it.
Raise(t) ==
  /\ t \in Crashers
  /\ pc[t] \in Places
  /\ \E s \in Signals, c \in Codes : Deliver(t, s, c, pc[t])

\* SignalHandler has returned and the same signal hits the thread again.
Retrigger(t) ==
  /\ pc[t] = "refault"
  /\ Deliver(t, frame[t].sig, frame[t].code, frame[t].from)

(***************************************************************************)
(* SignalHandler, on the crashing thread.                                  *)
(***************************************************************************)

ReturnFrom(t) ==
  /\ Goto(t, frame[t].from)
  /\ frame' = [frame EXCEPT ![t] = NoFrame]

\* The instruction that caused a hard fault is executed again on return; a
\* signal that was sent does not come again by itself.
Repeats(t) == frame[t].code = "kernel" /\ frame[t].sig \notin Aborts

\* SignalHandler's test for sending the signal again.
ResendsAborts(t) == frame[t].sig \in Aborts
Resends(t) == frame[t].code = "user" \/ frame[t].sig \in Aborts

\* The first-chance handler is asked before anything else, without the mutex
\* and before the flags of the disposition have been checked.
FirstChanceRecovers(t) ==
  /\ pc[t] = "entered"
  /\ firstChance
  /\ frame[t].genuine
  /\ ReturnFrom(t)
  /\ UNCHANGED <<disp, oldHandlers, installed, stack, gone, mutex,
                 firstChance, context, reports, saved, obj, idx, death>>

FirstChanceFaults(t) ==
  /\ pc[t] = "entered"
  /\ firstChance
  /\ ~frame[t].genuine
  /\ Die("fault")

FirstChanceDeclines(t) ==
  /\ pc[t] = "entered"
  /\ Goto(t, "wait")
  /\ UNCHANGED <<disp, oldHandlers, installed, stack, gone, mutex,
                 firstChance, context, reports, saved, obj, frame, idx, death>>

\* pthread_mutex_lock at the head of SignalHandler.
Lock(t) ==
  /\ pc[t] = "wait"
  /\ Acquire(t)
  /\ Goto(t, "check")
  /\ UNCHANGED <<disp, oldHandlers, installed, stack, gone, firstChance,
                 context, reports, saved, obj, frame, idx, death>>

\* The disposition has lost SA_SIGINFO: reset it (or fall back to SIG_DFL),
\* unlock and return.  Nothing is re-sent here: only a hard fault comes again.
ResetFlags(t) ==
  /\ pc[t] = "check"
  /\ disp[frame[t].sig] = "noinfo"
  /\ \E d \in {"breakpad", "default"} :
       disp' = [disp EXCEPT ![frame[t].sig] = d]
  /\ mutex' = None
  /\ IF Repeats(t) THEN Goto(t, "refault") /\ UNCHANGED frame ELSE ReturnFrom(t)
  /\ UNCHANGED <<oldHandlers, installed, stack, gone, firstChance, context,
                 reports, saved, obj, idx, death>>

\* The loop starts at the newest handler.
NewestButOne == Len(stack) - 1
Newest == Len(stack)

\* g_handler_stack_->size() with every exception signal masked: a NULL
\* pointer here makes the kernel kill the process.
EnterLoop(t) ==
  /\ pc[t] = "check"
  /\ disp[frame[t].sig] # "noinfo"
  /\ IF stack = <<>>
     THEN Die("fault")
     ELSE /\ idx' = [idx EXCEPT ![t] = Newest]
          /\ Goto(t, "loop")
          /\ UNCHANGED <<disp, oldHandlers, installed, stack, gone, mutex,
                         firstChance, context, reports, saved, obj, frame,
                         death>>

FilterDeclinesPastTheEnd(t) ==
  /\ pc[t] = "loop"
  /\ ~frame[t].handled
  /\ idx' = [idx EXCEPT ![t] = @ - 1]
  /\ UNCHANGED <<disp, oldHandlers, installed, stack, gone, mutex,
                 firstChance, context, reports, saved, pc, obj, frame, death>>

\* HandleSignal: the filter of the handler declines the signal.
FilterDeclines(t) ==
  /\ pc[t] = "loop"
  /\ ~frame[t].handled
  /\ idx[t] > 0
  /\ idx' = [idx EXCEPT ![t] = @ - 1]
  /\ UNCHANGED <<disp, oldHandlers, installed, stack, gone, mutex,
                 firstChance, context, reports, saved, pc, obj, frame, death>>

\* HandleSignal: info and uc are read and copied to the crash context.  With
\* bogus arguments the read itself usually faults.
FillContext(t) ==
  /\ pc[t] = "loop"
  /\ ~frame[t].handled
  /\ idx[t] > 0
  /\ IF frame[t].genuine
     THEN /\ context' = t
          /\ Goto(t, "dump")
          /\ UNCHANGED <<disp, oldHandlers, installed, stack, gone, mutex,
                         firstChance, reports, saved, obj, frame, idx, death>>
     ELSE Die("fault")

\* The crash handler or GenerateDump has used the context; its result decides
\* whether the next handler down the stack is asked.
FinishHandle(t) ==
  /\ pc[t] = "dump"
  /\ reports' = reports \cup {Report(t, stack[idx[t]])}
  /\ Goto(t, "loop")
  /\ \/ frame' = [frame EXCEPT ![t].handled = TRUE] /\ UNCHANGED idx
     \/ idx' = [idx EXCEPT ![t] = @ - 1] /\ UNCHANGED frame
  /\ UNCHANGED <<disp, oldHandlers, installed, stack, gone, mutex,
                 firstChance, context, saved, obj, death>>

\* After the loop.  Handled: SIG_DFL for this signal.  Otherwise the saved
\* dispositions, for all of them.
SettleDisposition(t) ==
  /\ pc[t] = "loop"
  /\ \/ /\ frame[t].handled
        /\ InstallDefaultHandler(frame[t].sig)
        /\ UNCHANGED <<oldHandlers, installed>>
     \/ /\ ~frame[t].handled
        /\ idx[t] = 0
        /\ RestoreHandlersLocked
  /\ mutex' = None
  /\ idx' = [idx EXCEPT ![t] = 0]
  /\ Goto(t, "reraise")
  /\ UNCHANGED <<stack, gone, firstChance, context, reports, saved, obj,
                 frame, death>>

\* A signal that was sent is sent again with tgkill, which may be refused.
\* Bogus arguments may say anything, or fault when they are read.
Reraise(t) ==
  /\ pc[t] = "reraise"
  /\ \E resend \in IF frame[t].genuine \/ frame[t].sig \in Aborts
                  THEN {Resends(t)} ELSE BOOLEAN :
       \/ /\ IF resend \/ Repeats(t)
             THEN /\ Goto(t, "refault")
                  /\ frame' = [frame EXCEPT ![t].code =
                                 IF resend THEN "user" ELSE @]
             ELSE ReturnFrom(t)
          /\ UNCHANGED <<disp, oldHandlers, installed, stack, gone, mutex,
                         firstChance, context, reports, saved, obj, idx,
                         death>>
       \/ resend /\ Die("exit")
       \/ ~frame[t].genuine /\ Die("fault")

(***************************************************************************)
(* The rest of the process.                                                *)
(***************************************************************************)

\* SimulateSignalDelivery calls HandleSignal directly, without the mutex.
SimulateEnter(t, h) ==
  /\ t \in Simulators
  /\ pc[t] = "run"
  /\ h \in Live
  /\ \A u \in Threads : obj[u] # h
  /\ context' = t
  /\ obj' = [obj EXCEPT ![t] = h]
  /\ Goto(t, "simulate")
  /\ UNCHANGED <<disp, oldHandlers, installed, stack, gone, mutex,
                 firstChance, reports, saved, frame, idx, death>>

SimulateExit(t) ==
  /\ pc[t] = "simulate"
  /\ reports' = reports \cup {Report(t, obj[t])}
  /\ obj' = [obj EXCEPT ![t] = None]
  /\ Goto(t, "run")
  /\ UNCHANGED <<disp, oldHandlers, installed, stack, gone, mutex,
                 firstChance, context, saved, frame, idx, death>>

\* Code outside Breakpad: signal(s, mine) returns the current handler ...
MeddleSave(t, s) ==
  /\ t \in Meddlers
  /\ pc[t] = "run"
  /\ saved[s] = None
  /\ saved' = [saved EXCEPT ![s] = disp[s]]
  /\ disp' = [disp EXCEPT ![s] = "other"]
  /\ UNCHANGED <<oldHandlers, installed, stack, gone, mutex, firstChance,
                 context, reports, pc, obj, frame, idx, death>>

\* ... and signal(s, saved) puts it back, without SA_SIGINFO.
MeddleRestore(t, s) ==
  /\ t \in Meddlers
  /\ pc[t] = "run"
  /\ saved[s] # None
  /\ disp' = [disp EXCEPT ![s] =
                IF saved[s] \in Breakpad THEN "noinfo" ELSE saved[s]]
  /\ saved' = [saved EXCEPT ![s] = None]
  /\ UNCHANGED <<oldHandlers, installed, stack, gone, mutex, firstChance,
                 context, reports, pc, obj, frame, idx, death>>

(***************************************************************************)
(* The specification.                                                      *)
(***************************************************************************)

\* What a thread inside SignalHandler does next.
HandlerStep(t) ==
  \/ FirstChanceRecovers(t) \/ FirstChanceFaults(t) \/ FirstChanceDeclines(t)
  \/ Lock(t) \/ ResetFlags(t) \/ EnterLoop(t)
  \/ FilterDeclines(t) \/ FillContext(t) \/ FinishHandle(t)
  \/ SettleDisposition(t) \/ Reraise(t) \/ Retrigger(t)

LifetimeStep(t) ==
  \/ \E h \in Handlers : CtorEnter(t, h) \/ DtorEnter(t, h)
  \/ CtorExit(t) \/ DtorExit(t) \/ SetFirstChance(t)

SimulateStep(t) ==
  (\E h \in Handlers : SimulateEnter(t, h)) \/ SimulateExit(t)

MeddleStep(t) == \E s \in Signals : MeddleSave(t, s) \/ MeddleRestore(t, s)

Step(t) ==
  HandlerStep(t) \/ LifetimeStep(t) \/ Raise(t) \/ SimulateStep(t)
    \/ MeddleStep(t)

\* A dead process stays dead; any other state without a step is a deadlock.
Dead == death # "alive" /\ UNCHANGED vars

Next == Dead \/ (death = "alive" /\ \E t \in Threads : Step(t))

Spec == Init /\ [][Next]_vars

Advance(t) == death = "alive" /\ (HandlerStep(t) \/ CtorExit(t) \/ DtorExit(t))

(***************************************************************************)
(* The scheduler runs every thread that can run, a thread that keeps       *)
(* asking for a mutex that keeps being released gets it, and a constructor *)
(* or destructor is a finite piece of code: however often a first-chance   *)
(* handler recovers from faults inside it, it comes to its end.            *)
(***************************************************************************)
Fairness ==
  \A t \in Threads :
    /\ WF_vars(Advance(t))
    /\ SF_vars(death = "alive" /\ Lock(t))
    /\ SF_vars(death = "alive" /\ (CtorExit(t) \/ DtorExit(t)))

FairSpec == Spec /\ Fairness

(***************************************************************************)
(* The type invariant.                                                     *)
(***************************************************************************)

\* Every variable has its type: the only type invariant of the module.
TypeOK ==
  /\ disp \in [Signals -> Dispositions]
  /\ oldHandlers \in [Signals -> Dispositions]
  /\ installed \in BOOLEAN
  /\ stack \in Seq(Handlers)
  /\ gone \subseteq Handlers
  /\ mutex \in Threads \cup {None}
  /\ firstChance \in BOOLEAN
  /\ context \in Threads \cup {None}
  /\ reports \subseteq [thread : Threads, handler : Handlers,
                         context : Threads \cup {None}]
  /\ saved \in [Signals -> Dispositions \cup {None}]
  /\ pc \in [Threads -> Places \cup CrashStates \cup {"simulate"}]
  /\ obj \in [Threads -> Handlers \cup {None}]
  /\ frame \in [Threads -> [sig : Signals \cup {None}, code : Codes,
                            genuine : BOOLEAN, handled : BOOLEAN,
                            from : Places]]
  /\ idx \in [Threads -> Nat]
  /\ death \in Deaths

(***************************************************************************)
(* Safety.                                                                 *)
(***************************************************************************)

\* A dump describes the crash of the thread that took it: nobody zeroes or
\* overwrites g_crash_context_ between the copy in HandleSignal and its use
\* (the comment on g_crash_context_ relies on the mutex for it).
DumpsOwnContext == \A r \in reports : r.context = r.thread

\* While SignalHandler asks the handlers, the one it asks is on the stack and
\* has not been destroyed, whatever the other threads construct and destroy.
HandlerInUse ==
  \A t \in Threads : pc[t] = "dump" =>
    /\ idx[t] \in 1..Len(stack)
    /\ stack[idx[t]] \notin gone

\* Breakpad never saves its own SignalHandler as an old handler, and leaves
\* none of it behind: otherwise restoring would deliver the crash to it again.
OldHandlersAreForeign ==
  /\ installed => \A s \in Signals : oldHandlers[s] \in Foreign
  /\ ~installed => \A s \in Signals : disp[s] \in Foreign
  /\ stack = <<>> /\ mutex = None => ~installed

\* The crash reporter never makes the process die of a fault of its own.
NeverFaults == death # "fault"

\* A crash is never swallowed: a thread gets out of SignalHandler alive only
\* through the first-chance handler or a handler that is not Breakpad's.
CrashNeverSwallowed ==
  [][\A t \in Threads :
       pc[t] \in CrashStates /\ pc'[t] \notin CrashStates =>
         \/ pc[t] = "entered" /\ firstChance
         \/ pc[t] = "refault" /\ disp[frame[t].sig] = "other"]_vars

(***************************************************************************)
(* The inductive invariant of the proofs: with TypeOK, who holds the mutex *)
(* and what holds while he does.                                           *)
(***************************************************************************)

\* The thread is there, or was interrupted there by a signal.
At(t, place) == pc[t] = place \/ frame[t].from = place

MutexHeld ==
  \A t \in Threads :
    pc[t] \in HandlerLocked \/ At(t, "ctor") \/ At(t, "dtor") => mutex = t

FramesOK ==
  \A t \in Threads :
    /\ pc[t] \notin {"entered", "wait"} => frame[t].from = "run"
    /\ pc[t] \in CrashStates => frame[t].sig \in Signals

ObjectsOK ==
  \A t \in Threads :
    /\ At(t, "ctor") => obj[t] \in Handlers \ (Live \cup gone)
    /\ pc[t] = "simulate" => obj[t] \in Handlers

LoopOK ==
  \A t \in Threads :
    /\ pc[t] \in {"loop", "dump"} => idx[t] <= Len(stack)
    /\ pc[t] = "dump" => idx[t] > 0

StackOK ==
  /\ \A i, j \in 1..Len(stack) : stack[i] = stack[j] => i = j
  /\ \A i \in 1..Len(stack) : stack[i] \notin gone

IInv == TypeOK /\ MutexHeld /\ FramesOK /\ ObjectsOK /\ LoopOK /\ StackOK

(***************************************************************************)
(* Liveness.                                                               *)
(***************************************************************************)

\* The mutex is not recursive: a thread that crashes inside a constructor or a
\* destructor waits for itself.
SelfDeadlock == \E t \in Threads : pc[t] = "wait" /\ mutex = t

\* Every crash is resolved, by the end of the process or by a handler that
\* recovers; the only way to hang is to crash while holding the mutex.
CrashResolved ==
  \A t \in Threads :
    pc[t] \in CrashStates ~>
      (death # "alive" \/ pc[t] \notin CrashStates \/ SelfDeadlock)

\* The same when other code saves and restores handlers with signal(), unless
\* it keeps doing so for ever.
CrashResolvedOnceQuiet == CrashResolved \/ []<><<saved' # saved>>_vars

=============================================================================
