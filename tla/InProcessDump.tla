--------------------------- MODULE InProcessDump ---------------------------
(***************************************************************************)
(* A dump in process from end to end: GenerateDump in the process that     *)
(* dumps, MinidumpWriter in the child that it clones.  The step DoDump of  *)
(* GenerateDump is here the whole run of a dumper, and what the dumper     *)
(* does to the threads it does to the very thread that waits for it.       *)
(*                                                                         *)
(* Each dump has a dumper of its own, named by the thread that takes it    *)
(* and by how many dumps that thread has left.                             *)
(***************************************************************************)
EXTENDS Naturals, FiniteSets

CONSTANTS
  Threads,      \* the threads the process ever has
  Initial,      \* those it starts with
  Dumping,      \* those of them that dump
  HandlerOf, Crashers, Budget, MaxFd, Mortal,   \* as in GenerateDump
  Signalled,    \* as in MinidumpWriter
  None

VARIABLES
  alive, pc, left, fds, fdes, pipes, bytes, ptracer, path, paths, files,
  child, copy, result,
  thread, tracer, pending, frozen, robbed,
  place, threads, k, suspended, known, recorded, context, outcome, cause

Dumpers == Dumping \X (0..Budget)

Process == INSTANCE GenerateDump WITH Threads <- Dumping

Writer == INSTANCE MinidumpWriter
            WITH pc <- place, result <- outcome,
                 CrashThread <- [d \in Dumpers |-> d[1]]

ASSUME ProcessAssumption ==
  /\ Writer!WriterAssumption
  /\ Dumping \subseteq Initial

processVars == <<alive, pc, left, fds, fdes, pipes, bytes, ptracer, path,
                 paths, files, child, copy, result>>
targetVars == <<thread, tracer, pending, frozen, robbed>>
dumperVars == <<place, threads, k, suspended, known, recorded, context,
                outcome, cause>>
vars == <<processVars, targetVars, dumperVars>>

Init == Process!Init /\ Writer!Init

DumperOf(t) == <<t, left[t]>>

\* A thread of the process takes a step of GenerateDump: not while a dumper
\* holds it, nor while a SIGSTOP holds them all.
ParentStep(t) ==
  /\ alive
  /\ Writer!Runs(t)
  /\ Process!ParentStep(t)
  /\ UNCHANGED <<targetVars, dumperVars>>

Call(t) ==
  /\ alive
  /\ Writer!Runs(t)
  /\ Process!Call(t)
  /\ UNCHANGED <<targetVars, dumperVars>>

ChildPrepares(t) ==
  /\ Process!ChildClosesWriteEnd(t) \/ Process!WaitForContinueSignal(t)
  /\ UNCHANGED <<targetVars, dumperVars>>

\* The child writes the dump.  Open is the step that creates the file, after
\* the threads have been suspended; O_EXCL refuses a file that exists.
Refused(t) == place[DumperOf(t)] = "open" /\ ~Process!Creates(copy[t].path)

Dumps(t) ==
  /\ child[t] = "permitted"
  /\ Writer!DumperStep(DumperOf(t))
  /\ Refused(t) => place'[DumperOf(t)] = "dtor"
  /\ place'[DumperOf(t)] # "done"
  /\ UNCHANGED processVars

\* What the child exits with is what the dump came to.
ChildExits(t) ==
  /\ Writer!ExitDumper(DumperOf(t))
  /\ Process!DoDump(t)
  /\ child'[t] = outcome'[DumperOf(t)]

ChildStep(t) == ChildPrepares(t) \/ Dumps(t) \/ ChildExits(t)

\* Killing the process ends all its threads, also those that are traced.
Kill ==
  /\ alive
  /\ Process!Kill
  /\ thread' = [t \in Threads |->
                  IF t \in Writer!Alive THEN "gone" ELSE thread[t]]
  /\ pending' = [t \in Threads |-> {}]
  /\ UNCHANGED <<tracer, frozen, robbed, dumperVars>>

Others ==
  /\ \E t \in Threads : Writer!KernelStep(t) \/ Writer!ThreadStep(t)
  /\ UNCHANGED processVars

\* Nobody dumps any more, or the process is stopped for good.
Over ==
  /\ frozen \/ Process!Quiet
  /\ \A t \in Dumping : ~Process!Running(t)
  /\ UNCHANGED vars

Next ==
  \/ \E t \in Dumping : Call(t) \/ ParentStep(t)
  \/ \E t \in Dumping : ChildStep(t)
  \/ Others
  \/ Kill
  \/ Over

Spec == Init /\ [][Next]_vars

\* As in the two modules.
Fairness ==
  /\ \A t \in Dumping : WF_vars(ParentStep(t)) /\ WF_vars(ChildStep(t))
  /\ \A t \in Threads : WF_vars(Writer!Stop(t) /\ UNCHANGED processVars)

FairSpec == Spec /\ Fairness

(***************************************************************************)
(* Properties.                                                             *)
(***************************************************************************)

\* Every variable of both halves has its type.
TypeOK == Process!TypeOK /\ Writer!TypeOK

\* While the thread list is written, every thread in it is held by this dumper
\* and stopped, or has exited ("One must have called ThreadsSuspend first").
CopiedWhileStopped == Writer!CopiedWhileStopped

\* When a dumper has gone, whatever became of its dump, nothing of ptrace is
\* left that stops a thread of the process: above all not the thread that has
\* waited for it.  A thread that lost another signal to the dumper is the
\* exception, for the SIGSTOP meant for it is still to come.
ProcessRunsOn ==
  (\A t \in Dumping : ~Process!Running(t)) /\ robbed = {} =>
    /\ ~frozen
    /\ \A t \in Threads : thread[t] # "stopped" /\ "stop" \notin pending[t]

\* The process lets the child of t ptrace it, unless a dump of another thread
\* has put its own child in the place of this one meanwhile.
Permits(t) ==
  ptracer \in {Process!Dump(t)} \cup [by : Dumping \ {t}, left : 0..Budget]

\* A thread of a process that lives is held only by the dumper of a dump that
\* has not ended, of which the thread that takes it knows: it waits for this
\* very child, having allowed it to ptrace (GenerateDump, 550-554), and so its
\* registers and its stack are those of the crash while they are read.  Without
\* a pipe the child does not wait, and the parent may be on its way there.
HeldWhileAwaited ==
  \A u \in Threads : alive /\ tracer[u] # None =>
    LET t == tracer[u][1]
    IN /\ tracer[u] = DumperOf(t)
       /\ Process!Running(t)
       /\ IF Process!HasPipe(t) THEN pc[t] = "wait" /\ Permits(t)
          ELSE pc[t] \in {"closeRead", "prctl", "write", "wait"}

\* What GenerateDump reports as a success is a dump that its writer has
\* finished, with a record of every thread it found, except those that have
\* exited, of the thread that called it among them, and with the context of the
\* crash; and it is in a file of its own that no other dump has overwritten.  No
\* dump is refused by O_EXCL because its path is that of an earlier one.
SuccessIsComplete ==
  /\ \A t \in Dumping : result[t] = "ok" =>
       /\ outcome[DumperOf(t)] = "ok"
       /\ t \in recorded[DumperOf(t)]
       /\ \E p \in DOMAIN files : files[p] = Process!Dump(t)
  /\ Writer!OkDumpIsComplete
  /\ Writer!OkDumpHasContext
  /\ Process!PathIsFresh

\* A thread that dumps comes to the end of GenerateDump, although its own
\* child stops it on the way, and the child ends even if its parent dies while
\* it waits for the byte or while it dumps (the comment in ThreadEntry): unless
\* a signal that the dumper swallowed leaves the process stopped for good.
DumpEnds ==
  \A t \in Dumping :
    /\ pc[t] # "idle" ~> (pc[t] = "idle" \/ ~alive \/ frozen)
    /\ Process!Running(t) ~> (~Process!Running(t) \/ frozen)

=============================================================================
