--------------------------- MODULE MinidumpWriter ---------------------------
(***************************************************************************)
(* A dump seen from the threads of the dumped process: MinidumpWriter      *)
(* (minidump_writer.cc) and the LinuxPtraceDumper it drives enumerate the  *)
(* threads, stop them one at a time with ptrace, copy their registers and  *)
(* stacks, and let them go.                                                *)
(*                                                                         *)
(* The dumped process runs on while its threads are being stopped: threads *)
(* start, exit and get signals.  A dumper is a process of its own, the     *)
(* child of GenerateDump; two of them may dump the same process, because   *)
(* of a crash and an explicit WriteMinidump.                               *)
(*                                                                         *)
(* The build is armeabi-v7a, so the stack-pointer test that SuspendThread  *)
(* makes on x86 is left out.  What is written for a thread, a mapping or a *)
(* stream is data; here it is written, or writing it fails.                *)
(*                                                                         *)
(* The variants beside a definition, which nothing refers to, are seeded   *)
(* faults, each of which must break a property.                            *)
(***************************************************************************)
EXTENDS Naturals, Sequences, FiniteSets, SequencesExt

CONSTANTS
  Threads,      \* the threads the process ever has
  Initial,      \* those it has when the first dump starts
  Dumpers,      \* the dumps
  CrashThread,  \* the thread each dump is about; it waits for its dumper
  Signalled,    \* the threads that other code sends ordinary signals to
  None

Blamed == {CrashThread[d] : d \in Dumpers}

\* What a module that uses this one assumes of the constants.
WriterAssumption ==
  /\ Initial \subseteq Threads
  /\ CrashThread \in [Dumpers -> Initial]
  /\ Signalled \subseteq Threads
  /\ None \notin Threads \cup Dumpers

VARIABLES
  thread,     \* the state of each thread
  tracer,     \* the dumper that has attached to it, or None
  pending,    \* its pending signals: the SIGSTOP of an attach, another one
  frozen,     \* has a SIGSTOP stopped the whole process
  robbed,     \* the threads that lost a signal to a dumper
  pc,         \* where each dumper is
  threads,    \* threads_
  k,          \* the loop variable over threads_, counting from 1
  suspended,  \* threads_suspended_
  known,      \* the threads that EnumerateThreads found
  recorded,   \* the threads in the thread list of the dump
  context,    \* whose context crashing_thread_context_ is; None is garbage
  result,     \* what the dump came to
  cause       \* what made it fail

target == <<thread, tracer, pending, frozen, robbed>>
dumper == <<pc, threads, k, suspended, known, recorded, context, result, cause>>
vars == <<target, dumper>>

ThreadStates == {"absent", "running", "stopped", "gone"}
Alive == {t \in Threads : thread[t] \in {"running", "stopped"}}

Init ==
  /\ thread = [t \in Threads |-> IF t \in Initial THEN "running" ELSE "absent"]
  /\ tracer = [t \in Threads |-> None]
  /\ pending = [t \in Threads |-> {}]
  /\ frozen = FALSE
  /\ robbed = {}
  /\ pc = [d \in Dumpers |-> "init"]
  /\ threads = [d \in Dumpers |-> <<>>]
  /\ k = [d \in Dumpers |-> 1]
  /\ suspended = [d \in Dumpers |-> FALSE]
  /\ known = [d \in Dumpers |-> {}]
  /\ recorded = [d \in Dumpers |-> {}]
  /\ context = [d \in Dumpers |-> None]
  /\ result = [d \in Dumpers |-> "none"]
  /\ cause = [d \in Dumpers |-> "none"]

Goto(d, place) == pc' = [pc EXCEPT ![d] = place]

\* The thread that the loop has come to.
Current(d) == threads[d][k[d]]
More(d) == k[d] <= Len(threads[d])
Advance(d) == k' = [k EXCEPT ![d] = @ + 1]
Restart(d) == k' = [k EXCEPT ![d] = 1]

\* A failing step returns false up to WriteMinidumpImpl: ~MinidumpWriter.
Fail(d, why) ==
  /\ Goto(d, "dtor")
  /\ cause' = [cause EXCEPT ![d] = why]
  /\ UNCHANGED <<target, threads, k, suspended, known, recorded, context, result>>

(***************************************************************************)
(* The threads of the process, and the kernel.                             *)
(***************************************************************************)

Runs(t) == thread[t] = "running" /\ ~frozen

\* A thread that a dumper has attached to may still start threads; they are
\* not traced.
Spawn(t, u) ==
  /\ Runs(t) /\ t \notin Blamed
  /\ thread[u] = "absent"
  /\ thread' = [thread EXCEPT ![u] = "running"]
  /\ UNCHANGED <<tracer, pending, frozen, robbed, dumper>>

Exit(t) ==
  /\ Runs(t) /\ t \notin Blamed
  /\ thread' = [thread EXCEPT ![t] = "gone"]
  /\ pending' = [pending EXCEPT ![t] = {}]
  /\ UNCHANGED <<tracer, frozen, robbed, dumper>>

Signal(t) ==
  /\ Runs(t) /\ t \in Signalled
  /\ pending' = [pending EXCEPT ![t] = @ \cup {"signal"}]
  /\ UNCHANGED <<thread, tracer, frozen, robbed, dumper>>

\* An untraced thread handles its signals.  SIGSTOP stops the whole process.
Handle(t) ==
  /\ Runs(t)
  /\ tracer[t] = None
  /\ \E s \in pending[t] :
       /\ pending' = [pending EXCEPT ![t] = @ \ {s}]
       /\ frozen' = (s = "stop")
  /\ UNCHANGED <<thread, tracer, robbed, dumper>>

\* A traced thread stops at the first signal the kernel finds.  A signal with a
\* lower number comes before SIGSTOP, which then stays pending; detaching with
\* no signal, as ResumeThread does, discards it.
Stop(t) ==
  /\ thread[t] = "running"
  /\ tracer[t] # None
  /\ pending[t] # {}
  /\ pending' = [pending EXCEPT ![t] =
                   @ \ {IF "signal" \in @ THEN "signal" ELSE "stop"}]
  /\ robbed' = IF "signal" \in pending[t] THEN robbed \cup {t} ELSE robbed
  /\ thread' = [thread EXCEPT ![t] = "stopped"]
  /\ UNCHANGED <<tracer, frozen, dumper>>

\* A thread that its tracer lets go runs, without the signal it stopped at.
LetGo(S) ==
  /\ tracer' = [t \in Threads |-> IF t \in S THEN None ELSE tracer[t]]
  /\ thread' = [t \in Threads |-> IF t \in S /\ thread[t] = "stopped"
                                  THEN "running" ELSE thread[t]]
  /\ UNCHANGED <<pending, frozen, robbed>>

(***************************************************************************)
(* MinidumpWriter::Init.                                                   *)
(***************************************************************************)

\* LinuxDumper::Init: the auxiliary vector, the threads and the mappings.
DumperInit(d) ==
  /\ pc[d] = "init"
  /\ \/ /\ known' = [known EXCEPT ![d] = Alive]
        /\ threads' = [threads EXCEPT ![d] = SetToSeq(Alive)]
        /\ Goto(d, "suspend")
        /\ UNCHANGED <<target, k, suspended, recorded, context, result, cause>>
     \/ Fail(d, "io")

\* An index that a failed attach leaves one too far.
DropAndSkip(d) ==
  /\ threads' = [threads EXCEPT ![d] = RemoveAt(@, k[d])]
  /\ Advance(d)

DropTheNext(d) ==
  /\ threads' = [threads EXCEPT ![d] =
                   RemoveAt(@, IF k[d] < Len(@) THEN k[d] + 1 ELSE k[d])]
  /\ UNCHANGED k

\* memmove, resize, --i: the loop goes on with the thread after it.
Drop(d) ==
  /\ threads' = [threads EXCEPT ![d] = RemoveAt(@, k[d])]
  /\ UNCHANGED k

RetryAttach(d) ==
  /\ pc[d] = "suspend"
  /\ More(d)
  /\ thread[Current(d)] = "gone" \/ tracer[Current(d)] # None
  /\ UNCHANGED vars

\* PTRACE_ATTACH fails for a thread that has exited or that another tracer has
\* attached to: it is dropped from the dump.
AttachFails(d) ==
  /\ pc[d] = "suspend"
  /\ More(d)
  /\ thread[Current(d)] = "gone" \/ tracer[Current(d)] # None
  /\ Drop(d)
  /\ UNCHANGED <<target, pc, suspended, known, recorded, context, result, cause>>

AttachWithoutWaiting(d) ==
  /\ pc[d] = "suspend"
  /\ More(d)
  /\ thread[Current(d)] # "gone" /\ tracer[Current(d)] = None
  /\ tracer' = [tracer EXCEPT ![Current(d)] = d]
  /\ pending' = [pending EXCEPT ![Current(d)] = @ \cup {"stop"}]
  /\ Advance(d)
  /\ UNCHANGED <<thread, frozen, robbed, pc, threads, suspended, known, recorded,
                 context, result, cause>>

Attach(d) ==
  /\ pc[d] = "suspend"
  /\ More(d)
  /\ thread[Current(d)] # "gone" /\ tracer[Current(d)] = None
  /\ tracer' = [tracer EXCEPT ![Current(d)] = d]
  /\ pending' = [pending EXCEPT ![Current(d)] = @ \cup {"stop"}]
  /\ Goto(d, "wait")
  /\ UNCHANGED <<thread, frozen, robbed, threads, k, suspended, known, recorded,
                 context, result, cause>>

\* waitpid returns when the thread has stopped, and also when it has exited:
\* the status is not looked at.
Waited(d) ==
  /\ pc[d] = "wait"
  /\ thread[Current(d)] \in {"stopped", "gone"}
  /\ Advance(d)
  /\ Goto(d, "suspend")
  /\ UNCHANGED <<target, threads, suspended, known, recorded, context, result,
                 cause>>

SuspendEnds(d) ==
  /\ pc[d] = "suspend"
  /\ ~More(d)
  /\ suspended' = [suspended EXCEPT ![d] = TRUE]
  /\ IF threads[d] = <<>>
     THEN Goto(d, "dtor") /\ cause' = [cause EXCEPT ![d] = "thread"]
     ELSE Goto(d, "open") /\ UNCHANGED cause
  /\ UNCHANGED <<target, threads, k, known, recorded, context, result>>

\* LateInit, the test for the principal mapping, and the file.
Open(d) ==
  /\ pc[d] = "open"
  /\ \/ /\ Restart(d)
        /\ Goto(d, "list")
        /\ UNCHANGED <<target, threads, suspended, known, recorded, context,
                       result, cause>>
     \/ Fail(d, "io")

(***************************************************************************)
(* MinidumpWriter::Dump and ~MinidumpWriter.                               *)
(***************************************************************************)

\* WriteThreadListStream.  The registers of the crashed thread come from its
\* crash context, those of another thread from ptrace, which needs it stopped.
WriteThread(d) ==
  /\ pc[d] = "list"
  /\ More(d)
  /\ LET t == Current(d)
     IN IF t = CrashThread[d] \/ thread[t] = "stopped"
        THEN \/ /\ recorded' = [recorded EXCEPT ![d] = @ \cup {t}]
                /\ context' = [context EXCEPT ![d] =
                                 IF t = CrashThread[d] THEN t ELSE @]
                /\ Advance(d)
                /\ UNCHANGED <<target, pc, threads, suspended, known, result,
                               cause>>
             \/ Fail(d, "io")
        ELSE Fail(d, "thread")

\* The other streams, among them the exception stream with the context.
WriteStreams(d) ==
  /\ pc[d] = "list"
  /\ ~More(d)
  /\ \/ /\ result' = [result EXCEPT ![d] = "ok"]
        /\ Restart(d)
        /\ Goto(d, "resume")
        /\ UNCHANGED <<target, threads, suspended, known, recorded, context,
                       cause>>
     \/ Fail(d, "io")

\* ThreadsResume.  PTRACE_DETACH fails for a thread that has exited.
ResumeThread(d) ==
  /\ pc[d] = "resume"
  /\ More(d)
  /\ LetGo({Current(d)})
  /\ Advance(d)
  /\ UNCHANGED <<pc, threads, suspended, known, recorded, context, result, cause>>

ResumeEnds(d) ==
  /\ pc[d] = "resume"
  /\ ~More(d)
  /\ suspended' = [suspended EXCEPT ![d] = FALSE]
  /\ Goto(d, "dtor")
  /\ UNCHANGED <<target, threads, k, known, recorded, context, result, cause>>

\* ~MinidumpWriter closes the file and resumes the threads if Dump has not.
Destroy(d) ==
  /\ pc[d] = "dtor"
  /\ suspended[d]
  /\ Restart(d)
  /\ Goto(d, "resume")
  /\ UNCHANGED <<target, threads, suspended, known, recorded, context, result,
                 cause>>

\* The dumper exits: the kernel lets go of what it still traces.
ExitDumper(d) ==
  /\ pc[d] = "dtor"
  /\ ~suspended[d]
  /\ LetGo({t \in Threads : tracer[t] = d})
  /\ result' = [result EXCEPT ![d] = IF @ = "ok" THEN @ ELSE "failed"]
  /\ Goto(d, "done")
  /\ UNCHANGED <<threads, k, suspended, known, recorded, context, cause>>

(***************************************************************************)
(* The specification.                                                      *)
(***************************************************************************)

DumperStep(d) ==
  \/ DumperInit(d) \/ AttachFails(d) \/ Attach(d) \/ Waited(d)
  \/ SuspendEnds(d) \/ Open(d) \/ WriteThread(d) \/ WriteStreams(d)
  \/ ResumeThread(d) \/ ResumeEnds(d) \/ Destroy(d) \/ ExitDumper(d)

KernelStep(t) == Stop(t) \/ Handle(t)

ThreadStep(t) == Exit(t) \/ Signal(t) \/ \E u \in Threads : Spawn(t, u)

\* When the dumps are over, the process is not watched any more.
Over == (\A d \in Dumpers : pc[d] = "done") /\ UNCHANGED vars

Next ==
  \/ \E d \in Dumpers : DumperStep(d)
  \/ \E t \in Threads : KernelStep(t) \/ ThreadStep(t)
  \/ Over

Spec == Init /\ [][Next]_vars

\* Dumpers run, and the kernel stops a thread that has a reason to stop (one in
\* an uninterruptible sleep would not).  Nothing is promised of the threads.
Fairness ==
  /\ \A d \in Dumpers : WF_vars(DumperStep(d))
  /\ \A t \in Threads : WF_vars(Stop(t))

FairSpec == Spec /\ Fairness

(***************************************************************************)
(* The type invariant.                                                     *)
(***************************************************************************)

Places == {"init", "suspend", "wait", "open", "list", "resume", "dtor", "done"}

\* Every variable has its type: the only type invariant of the module.
TypeOK ==
  /\ thread \in [Threads -> ThreadStates]
  /\ tracer \in [Threads -> Dumpers \cup {None}]
  /\ pending \in [Threads -> SUBSET {"stop", "signal"}]
  /\ frozen \in BOOLEAN
  /\ robbed \subseteq Threads
  /\ pc \in [Dumpers -> Places]
  /\ threads \in [Dumpers -> Seq(Threads)]
  /\ \A d \in Dumpers : k[d] \in 1..(Len(threads[d]) + 1)
  /\ suspended \in [Dumpers -> BOOLEAN]
  /\ known \in [Dumpers -> SUBSET Threads]
  /\ recorded \in [Dumpers -> SUBSET Threads]
  /\ context \in [Dumpers -> Threads \cup {None}]
  /\ result \in [Dumpers -> {"none", "ok", "failed"}]
  /\ cause \in [Dumpers -> {"none", "io", "thread"}]

(***************************************************************************)
(* Safety.                                                                 *)
(***************************************************************************)

\* While the thread list is written, every thread in it is held by this dumper
\* and stopped, or has exited: registers and stacks are read from threads that
\* do not run ("One must have called ThreadsSuspend first").
CopiedWhileStopped ==
  \A d \in Dumpers : pc[d] = "list" =>
    \A t \in ToSet(threads[d]) :
      thread[t] = "gone" \/ (thread[t] = "stopped" /\ tracer[t] = d)

\* A successful dump has a record of every thread it found, except those that
\* have exited: the only threads that are silently dropped.
OkDumpIsComplete ==
  \A d \in Dumpers : result[d] = "ok" =>
    \A t \in known[d] \ recorded[d] : thread[t] = "gone"

\* A successful dump names the context of the crashed thread: the exception
\* stream never gets the uninitialised crashing_thread_context_.
OkDumpHasContext ==
  \A d \in Dumpers : result[d] = "ok" => context[d] = CrashThread[d]

\* When the dumps are over, whether they succeeded or failed on the way, nothing
\* of ptrace is left that stops the process, unless a dumper took a thread's
\* other signal for its own SIGSTOP.
ProcessRunsOn ==
  (\A d \in Dumpers : pc[d] = "done") /\ robbed = {} =>
    /\ ~frozen
    /\ \A t \in Threads : thread[t] # "stopped" /\ "stop" \notin pending[t]

\* A thread that exits while it is being stopped costs the dump no more than
\* its own record (the comments in SuspendThread and ThreadsSuspend).
ExitsAreHarmless == \A d \in Dumpers : cause[d] # "thread"

(***************************************************************************)
(* Liveness.                                                               *)
(***************************************************************************)

\* Every dump comes to an end: no thread that exits, starts or belongs to
\* another dumper keeps the suspension going for ever.
DumpEnds == \A d \in Dumpers : <>(pc[d] = "done")

=============================================================================
