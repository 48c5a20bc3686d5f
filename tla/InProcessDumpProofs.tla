------------------------ MODULE InProcessDumpProofs ------------------------
(***************************************************************************)
(* Theorems about InProcessDump: for any finite set of threads, any number *)
(* of dumps, and with the process killed at any time.                      *)
(*                                                                         *)
(* The argument: each half keeps the invariant that its own module proves, *)
(* for a step of the whole is a step of that half or leaves it alone       *)
(* (killing the process, which MinidumpWriter does not know, only makes    *)
(* threads go).  What ties the halves together is that a dumper is at work *)
(* only in a child that its parent has permitted (Linked).                 *)
(***************************************************************************)
EXTENDS InProcessDump, FiniteSetTheorems, TLAPS

GP == INSTANCE GenerateDumpProofs WITH Threads <- Dumping

WP == INSTANCE MinidumpWriterProofs
        WITH pc <- place, result <- outcome,
             CrashThread <- [d \in Dumpers |-> d[1]]

\* What a proof assumes of the constants: those of GenerateDump among them.
Assumptions ==
  /\ GP!DumpAssumption
  /\ GP!HandlersApart
  /\ WP!WriterAssumption
  /\ IsFiniteSet(Threads)
  /\ Dumping \subseteq Initial

AtWork(d) == place[d] \notin {"init", "done"}

\* A dumper that works is that of a permitted child, for the dump its parent is
\* taking; and only such a dumper traces anybody.
Linked ==
  /\ \A d \in Dumpers : AtWork(d) => child[d[1]] = "permitted" /\ left[d[1]] = d[2]
  /\ \A t \in Threads : tracer[t] # None => place[tracer[t]] # "init"

IInv ==
  /\ GP!IInv
  /\ GP!Counted
  /\ WP!IInv
  /\ Linked

(***************************************************************************)
(* The operators of the two halves are those that their theorems are       *)
(* about.                                                                  *)
(***************************************************************************)

LEMMA ParentSteps ==
  ASSUME NEW t \in Dumping
  PROVE  /\ Process!ParentStep(t) => GP!ParentStep(t)
         /\ Process!Call(t) => GP!Call(t)
<1>1. Process!Call(t) => GP!Call(t)
  BY DEF Process!Call, GP!Call, Process!WriteMinidump, GP!WriteMinidump,
     Process!HandleSignal, GP!HandleSignal, Process!UpdatePath, GP!UpdatePath,
     Process!Goto, GP!Goto
<1>2. Process!MakePipe(t) => GP!MakePipe(t)
  BY DEF Process!MakePipe, GP!MakePipe, Process!Goto, GP!Goto, Process!Fds, GP!Fds,
     Process!End, GP!End, Process!NoFdes, GP!NoFdes, Process!NoFd, GP!NoFd,
     Process!Cardinality, GP!Cardinality
<1>3. Process!Clone(t) => GP!Clone(t)
  BY DEF Process!Clone, GP!Clone, Process!Goto, GP!Goto, Process!process, GP!process
<1>4. Process!CloneFails(t) => GP!CloneFails(t)
  BY DEF Process!CloneFails, GP!CloneFails, Process!Goto, GP!Goto, Process!Close,
     GP!Close, Process!Fds, GP!Fds
<1>5. Process!CloseReadEnd(t) => GP!CloseReadEnd(t)
  BY DEF Process!CloseReadEnd, GP!CloseReadEnd, Process!Goto, GP!Goto, Process!Close,
     GP!Close, Process!Fds, GP!Fds
<1>6. Process!AllowPtrace(t) => GP!AllowPtrace(t)
  BY DEF Process!AllowPtrace, GP!AllowPtrace, Process!Dump, GP!Dump, Process!Goto, GP!Goto
<1>7. Process!SendContinueSignalToChild(t) => GP!SendContinueSignalToChild(t)
  BY DEF Process!SendContinueSignalToChild, GP!SendContinueSignalToChild,
     Process!Names, GP!Names, Process!Open, GP!Open, Process!HoldsEnd, GP!HoldsEnd,
     Process!End, GP!End, Process!Fds, GP!Fds, Process!Running, GP!Running,
     Process!Exited, GP!Exited, Process!process, GP!process, Process!Goto, GP!Goto
<1>8. Process!Wait(t) => GP!Wait(t)
  BY DEF Process!Wait, GP!Wait, Process!Running, GP!Running, Process!Exited, GP!Exited,
     Process!Succeeded, GP!Succeeded, Process!process, GP!process, Process!Goto, GP!Goto
<1>9. Process!CloseWriteEnd(t) => GP!CloseWriteEnd(t)
  BY DEF Process!CloseWriteEnd, GP!CloseWriteEnd, Process!Goto, GP!Goto, Process!Close,
     GP!Close, Process!Fds, GP!Fds
<1> QED
  BY <1>1, <1>2, <1>3, <1>4, <1>5, <1>6, <1>7, <1>8, <1>9
  DEF Process!ParentStep, GP!ParentStep

LEMMA ChildSteps ==
  ASSUME NEW t \in Dumping
  PROVE  /\ Process!ChildClosesWriteEnd(t) => GP!ChildClosesWriteEnd(t)
         /\ Process!WaitForContinueSignal(t) => GP!WaitForContinueSignal(t)
         /\ Process!DoDump(t) => GP!DoDump(t)
<1>1. Process!ChildClosesWriteEnd(t) => GP!ChildClosesWriteEnd(t)
  BY DEF Process!ChildClosesWriteEnd, GP!ChildClosesWriteEnd, Process!Close, GP!Close,
     Process!Fds, GP!Fds, Process!process, GP!process
<1>2. Process!WaitForContinueSignal(t) => GP!WaitForContinueSignal(t)
  BY DEF Process!WaitForContinueSignal, GP!WaitForContinueSignal, Process!Close, GP!Close,
     Process!Names, GP!Names, Process!Open, GP!Open, Process!HoldsEnd, GP!HoldsEnd,
     Process!End, GP!End, Process!Fds, GP!Fds, Process!Running, GP!Running,
     Process!Exited, GP!Exited, Process!process, GP!process
<1>3. Process!DoDump(t) => GP!DoDump(t)
  BY DEF Process!DoDump, GP!DoDump, Process!Creates, GP!Creates, Process!Dump, GP!Dump,
     Process!process, GP!process
<1> QED
  BY <1>1, <1>2, <1>3

LEMMA ProcessInit ==
  /\ Process!Init => GP!Init
  /\ Process!Kill => GP!Kill
<1>1. Process!Kill => GP!Kill
  BY DEF Process!Kill, GP!Kill, Process!process, GP!process
<1>2. Process!Init => GP!Init
  BY DEF Process!Init, GP!Init, Process!NoEnds, GP!NoEnds, Process!Fds, GP!Fds,
     Process!NoFdes, GP!NoFdes, Process!NoFd, GP!NoFd, Process!Handlers, GP!Handlers,
     Process!Pipes, GP!Pipes, Process!Total, GP!Total, Process!Cardinality, GP!Cardinality,
     Process!NoCopy, GP!NoCopy
<1> QED
  BY <1>1, <1>2

LEMMA DumperSteps ==
  ASSUME NEW d \in Dumpers
  PROVE  /\ Writer!DumperStep(d) => WP!DumperStep(d)
         /\ Writer!ExitDumper(d) <=> WP!ExitDumper(d)
<1> USE DEF Writer!Goto, WP!Goto, Writer!target, WP!target
<1>1. Writer!DumperInit(d) => WP!DumperInit(d)
  BY DEF Writer!DumperInit, WP!DumperInit, Writer!Fail, WP!Fail, Writer!Alive, WP!Alive,
     Writer!SetToSeq, WP!SetToSeq, Writer!IsInjective, WP!IsInjective,
     Writer!Cardinality, WP!Cardinality
<1>2. Writer!AttachFails(d) => WP!AttachFails(d)
  BY DEF Writer!AttachFails, WP!AttachFails, Writer!Drop, WP!Drop, Writer!RemoveAt,
     WP!RemoveAt, Writer!Current, WP!Current, Writer!More, WP!More
<1>3. Writer!Attach(d) => WP!Attach(d)
  BY DEF Writer!Attach, WP!Attach, Writer!Current, WP!Current, Writer!More, WP!More
<1>4. Writer!Waited(d) => WP!Waited(d)
  BY DEF Writer!Waited, WP!Waited, Writer!Current, WP!Current, Writer!Advance, WP!Advance
<1>5. Writer!SuspendEnds(d) => WP!SuspendEnds(d)
  BY DEF Writer!SuspendEnds, WP!SuspendEnds, Writer!More, WP!More
<1>6. Writer!Open(d) => WP!Open(d)
  BY DEF Writer!Open, WP!Open, Writer!Restart, WP!Restart, Writer!Fail, WP!Fail
<1>7. Writer!WriteThread(d) => WP!WriteThread(d)
  BY DEF Writer!WriteThread, WP!WriteThread, Writer!Current, WP!Current, Writer!More,
     WP!More, Writer!Advance, WP!Advance, Writer!Fail, WP!Fail
<1>8. Writer!WriteStreams(d) => WP!WriteStreams(d)
  BY DEF Writer!WriteStreams, WP!WriteStreams, Writer!More, WP!More, Writer!Restart,
     WP!Restart, Writer!Fail, WP!Fail
<1>9. Writer!ResumeThread(d) => WP!ResumeThread(d)
  BY DEF Writer!ResumeThread, WP!ResumeThread, Writer!Current, WP!Current, Writer!More,
     WP!More, Writer!Advance, WP!Advance, Writer!LetGo, WP!LetGo
<1>10. Writer!ResumeEnds(d) => WP!ResumeEnds(d)
  BY DEF Writer!ResumeEnds, WP!ResumeEnds, Writer!More, WP!More
<1>11. Writer!Destroy(d) => WP!Destroy(d)
  BY DEF Writer!Destroy, WP!Destroy, Writer!Restart, WP!Restart
<1>12. Writer!ExitDumper(d) <=> WP!ExitDumper(d)
  BY DEF Writer!ExitDumper, WP!ExitDumper, Writer!LetGo, WP!LetGo
<1> QED
  BY <1>1, <1>2, <1>3, <1>4, <1>5, <1>6, <1>7, <1>8, <1>9, <1>10, <1>11, <1>12
  DEF Writer!DumperStep, WP!DumperStep

LEMMA ThreadSteps ==
  ASSUME NEW t \in Threads
  PROVE  Writer!KernelStep(t) \/ Writer!ThreadStep(t) => WP!KernelStep(t) \/ WP!ThreadStep(t)
BY DEF Writer!KernelStep, WP!KernelStep, Writer!ThreadStep, WP!ThreadStep, Writer!Stop,
   WP!Stop, Writer!Handle, WP!Handle, Writer!Exit, WP!Exit, Writer!Signal, WP!Signal,
   Writer!Spawn, WP!Spawn, Writer!Runs, WP!Runs, Writer!Blamed, WP!Blamed,
   Writer!dumper, WP!dumper

LEMMA WriterInit == Writer!Init => WP!Init
BY DEF Writer!Init, WP!Init

(***************************************************************************)
(* The invariant.                                                          *)
(***************************************************************************)

\* A step of the process, its children or the kill, as GenerateDump sees it.
LEMMA ProcessStep ==
  ASSUME Assumptions, GP!IInv, GP!Counted,
         \/ \E t \in Dumping : alive /\ (Process!Call(t) \/ Process!ParentStep(t))
         \/ \E t \in Dumping : \/ Process!ChildClosesWriteEnd(t)
                               \/ Process!WaitForContinueSignal(t)
                               \/ Process!DoDump(t)
         \/ alive /\ Process!Kill
         \/ UNCHANGED processVars
  PROVE  GP!IInv' /\ GP!Counted'
<1>1. IsFiniteSet(Dumping)
  BY FS_Subset DEF Assumptions, WP!WriterAssumption
<1>2. [GP!Next]_(GP!vars)
  BY ParentSteps, ChildSteps, ProcessInit
  DEF GP!Next, GP!ChildStep, GP!vars, processVars
<1> QED
  BY <1>1, <1>2, GP!StepInv DEF Assumptions, IsFiniteSet, GP!IsFiniteSet

\* A step of a dumper or of the threads, as MinidumpWriter sees it, or a kill.
LEMMA WriterStep ==
  ASSUME Assumptions, WP!IInv,
         \/ \E d \in Dumpers : Writer!DumperStep(d)
         \/ \E t \in Threads : Writer!KernelStep(t) \/ Writer!ThreadStep(t)
         \/ UNCHANGED <<targetVars, dumperVars>>
         \/ Kill
  PROVE  WP!IInv'
<1>1. CASE Kill
  <2>1. thread' = [t \in Threads |-> IF t \in WP!Alive THEN "gone" ELSE thread[t]]
    BY <1>1 DEF Kill, Writer!Alive, WP!Alive
  <2> QED BY <1>1, <2>1, WP!KillInv DEF Kill, dumperVars, WP!dumper
<1>2. CASE ~Kill
  <2>1. [WP!Next]_(WP!vars)
    BY <1>2, DumperSteps, ThreadSteps
    DEF WP!Next, WP!vars, WP!target, WP!dumper, targetVars, dumperVars
  <2> QED BY <2>1, WP!StepInv DEF Assumptions, IsFiniteSet, WP!IsFiniteSet
<1> QED
  BY <1>1, <1>2

\* Where a step takes a dumper, and what it does to the tracers.
LEMMA DumperMoves ==
  ASSUME Assumptions, WP!IInv, NEW d \in Dumpers, Writer!DumperStep(d)
  PROVE  /\ \A e \in Dumpers \ {d} : place'[e] = place[e]
         /\ place'[d] \in WP!Places \ {"init"}
         /\ \A t \in Threads : tracer'[t] \in {tracer[t], None, d}
<1>1. WP!DumperStep(d)
  BY DumperSteps
<1>2. /\ \A e \in Dumpers \ {d} : place'[e] = place[e]
      /\ place'[d] \in WP!Places \ {"init"}
  BY <1>1 DEF WP!DumperStep, WP!DumperInit, WP!AttachFails, WP!Attach, WP!Waited,
     WP!SuspendEnds, WP!Open, WP!WriteThread, WP!WriteStreams, WP!ResumeThread,
     WP!ResumeEnds, WP!Destroy, WP!ExitDumper, WP!Fail, WP!Goto, WP!IInv, WP!Types,
     WP!Places
<1>3. \A t \in Threads : tracer'[t] \in {tracer[t], None, d}
  BY <1>1 DEF WP!DumperStep, WP!DumperInit, WP!AttachFails, WP!Attach, WP!Waited,
     WP!SuspendEnds, WP!Open, WP!WriteThread, WP!WriteStreams, WP!ResumeThread,
     WP!ResumeEnds, WP!Destroy, WP!ExitDumper, WP!Fail, WP!LetGo, WP!target, WP!IInv,
     WP!Types
<1> QED
  BY <1>2, <1>3

\* The dumper of a child that is not permitted is not at work.
LEMMA Idle ==
  ASSUME Linked, NEW t \in Dumping, child[t] # "permitted", NEW d \in Dumpers, d[1] = t
  PROVE  ~AtWork(d)
BY DEF Linked

LEMMA DumperTypes ==
  ASSUME GP!IInv, GP!DumpAssumption, NEW t \in Dumping
  PROVE  /\ DumperOf(t) \in Dumpers
         /\ DumperOf(t)[1] = t /\ DumperOf(t)[2] = left[t]
BY DEF DumperOf, Dumpers, GP!IInv, GP!Types

\* Pairs are the same when their components are.
LEMMA SameDumper ==
  ASSUME NEW t \in Dumping, NEW d \in Dumpers, d[1] = t, d[2] = left[t]
  PROVE  d = DumperOf(t)
BY DEF DumperOf, Dumpers

\* A parent that begins a dump, or makes its child, has no child that dumps.
LEMMA ParentLinked ==
  ASSUME Assumptions, IInv, NEW t \in Dumping,
         GP!Call(t) \/ GP!ParentStep(t), UNCHANGED <<targetVars, dumperVars>>
  PROVE  Linked'
<1>1. ASSUME NEW d \in Dumpers, AtWork(d)'
      PROVE  child'[d[1]] = "permitted" /\ left'[d[1]] = d[2]
  <2>1. AtWork(d) /\ child[d[1]] = "permitted" /\ left[d[1]] = d[2] /\ d[1] \in Dumping
    BY <1>1 DEF AtWork, dumperVars, IInv, Linked, Dumpers
  <2>2. CASE d[1] # t
    BY <2>1, <2>2 DEF GP!Call, GP!ParentStep, GP!MakePipe, GP!Clone, GP!CloneFails,
       GP!CloseReadEnd, GP!AllowPtrace, GP!SendContinueSignalToChild, GP!Wait,
       GP!CloseWriteEnd, IInv, GP!IInv, GP!Types
  <2>3. CASE d[1] = t
    <3>1. GP!Running(t)
      BY <2>1, <2>3 DEF GP!Running, GP!Exited
    <3>2. pc[t] \in {"closeRead", "prctl", "write", "wait"}
      BY <3>1 DEF IInv, GP!IInv, GP!ChildOK
    <3>3. child' = child /\ left' = left
      BY <3>2 DEF GP!Call, GP!ParentStep, GP!MakePipe, GP!Clone, GP!CloneFails,
         GP!CloseReadEnd, GP!AllowPtrace, GP!SendContinueSignalToChild, GP!Wait,
         GP!CloseWriteEnd
    <3> QED BY <2>1, <2>3, <3>3
  <2> QED BY <2>2, <2>3
<1> QED
  BY <1>1 DEF Linked, IInv, targetVars, dumperVars

\* A child that prepares does not dump yet.
LEMMA PreparesLinked ==
  ASSUME Assumptions, IInv, NEW t \in Dumping,
         GP!ChildClosesWriteEnd(t) \/ GP!WaitForContinueSignal(t),
         UNCHANGED <<targetVars, dumperVars>>
  PROVE  Linked'
<1>1. child[t] # "permitted" /\ left' = left
      /\ \A u \in Dumping \ {t} : child'[u] = child[u]
  BY DEF GP!ChildClosesWriteEnd, GP!WaitForContinueSignal, IInv, GP!IInv, GP!Types
<1>2. ASSUME NEW d \in Dumpers, AtWork(d)'
      PROVE  child'[d[1]] = "permitted" /\ left'[d[1]] = d[2]
  <2>1. AtWork(d) /\ child[d[1]] = "permitted" /\ left[d[1]] = d[2] /\ d[1] \in Dumping
    BY <1>2 DEF AtWork, dumperVars, IInv, Linked, Dumpers
  <2> QED BY <1>1, <2>1
<1> QED
  BY <1>2 DEF Linked, IInv, targetVars, dumperVars

\* A dumper that works, and one that exits, which takes its child along.
LEMMA DumpsLinked ==
  ASSUME Assumptions, IInv, NEW t \in Dumping, Dumps(t) \/ ChildExits(t)
  PROVE  Linked'
<1> DEFINE d == DumperOf(t)
<1>1. d \in Dumpers /\ d[1] = t /\ d[2] = left[t]
  BY DumperTypes DEF Assumptions, IInv
<1> HIDE DEF d
<1>2. Writer!DumperStep(d)
  BY DEF Dumps, ChildExits, Writer!DumperStep, d
<1>3. /\ \A e \in Dumpers \ {d} : place'[e] = place[e]
      /\ place'[d] # "init"
      /\ \A u \in Threads : tracer'[u] \in {tracer[u], None, d}
  BY <1>1, <1>2, DumperMoves DEF IInv
<1>4. left' = left
  BY DEF Dumps, ChildExits, processVars, Process!DoDump
<1>5. child[t] = "permitted"
  BY DEF Dumps, ChildExits, Process!DoDump
<1>6. ASSUME NEW e \in Dumpers, AtWork(e)'
      PROVE  child'[e[1]] = "permitted" /\ left'[e[1]] = e[2]
  <2>1. CASE e = d
    <3>1. CASE Dumps(t)
      BY <1>1, <1>4, <1>5, <2>1, <3>1 DEF Dumps, processVars
    <3>2. CASE ChildExits(t)
      <4>1. place'[d] = "done"
        BY <1>1, <3>2 DEF ChildExits, Writer!ExitDumper, Writer!Goto, IInv, WP!IInv, WP!Types, d
      <4> QED BY <1>6, <2>1, <4>1 DEF AtWork
    <3> QED BY <3>1, <3>2
  <2>2. CASE e # d
    <3>1. AtWork(e)
      BY <1>3, <1>6, <2>2 DEF AtWork
    <3>2. child[e[1]] = "permitted" /\ left[e[1]] = e[2] /\ e[1] \in Dumping
      BY <3>1 DEF IInv, Linked, Dumpers
    <3>3. e[1] # t
      BY <2>2, <3>2, SameDumper DEF d
    <3>4. child'[e[1]] = child[e[1]]
      BY <3>2, <3>3 DEF Dumps, ChildExits, processVars, Process!DoDump, IInv, GP!IInv, GP!Types
    <3> QED BY <1>4, <3>2, <3>4
  <2> QED BY <2>1, <2>2
<1>7. ASSUME NEW u \in Threads, tracer'[u] # None PROVE place'[tracer'[u]] # "init"
  <2>1. tracer'[u] = d \/ (tracer'[u] = tracer[u] /\ tracer[u] \in Dumpers)
    BY <1>3, <1>7 DEF IInv, WP!IInv, WP!Types
  <2> QED BY <1>3, <1>7, <2>1 DEF IInv, Linked
<1> QED
  BY <1>6, <1>7 DEF Linked

LEMMA InitInv ==
  ASSUME Assumptions, Init
  PROVE  IInv
<1>1. IsFiniteSet(Dumping)
  BY FS_Subset DEF Assumptions, WP!WriterAssumption
<1>2. GP!IInv /\ GP!Counted
  BY <1>1, ProcessInit, GP!InitInv DEF Init, Assumptions, IsFiniteSet, GP!IsFiniteSet
<1>3. WP!IInv
  BY WriterInit, WP!InitInv DEF Init, Assumptions
<1>4. Linked
  BY DEF Init, Writer!Init, Linked, AtWork
<1> QED
  BY <1>2, <1>3, <1>4 DEF IInv

\* The invariant is inductive.
LEMMA StepInv ==
  ASSUME Assumptions, IInv, [Next]_vars
  PROVE  IInv'
<1>1. ASSUME NEW t \in Dumping, Call(t) \/ ParentStep(t) PROVE IInv'
  <2>1. GP!IInv' /\ GP!Counted'
    BY <1>1, ProcessStep DEF Call, ParentStep, IInv
  <2>2. WP!IInv'
    BY <1>1, WriterStep DEF Call, ParentStep, IInv
  <2>3. Linked'
    BY <1>1, ParentLinked, ParentSteps DEF Call, ParentStep
  <2> QED BY <2>1, <2>2, <2>3 DEF IInv
<1>2. ASSUME NEW t \in Dumping, ChildPrepares(t) PROVE IInv'
  <2>1. GP!IInv' /\ GP!Counted'
    BY <1>2, ProcessStep DEF ChildPrepares, IInv
  <2>2. WP!IInv'
    BY <1>2, WriterStep DEF ChildPrepares, IInv
  <2>3. Linked'
    BY <1>2, PreparesLinked, ChildSteps DEF ChildPrepares
  <2> QED BY <2>1, <2>2, <2>3 DEF IInv
<1>3. ASSUME NEW t \in Dumping, Dumps(t) \/ ChildExits(t) PROVE IInv'
  <2>1. GP!IInv' /\ GP!Counted'
    BY <1>3, ProcessStep DEF Dumps, ChildExits, IInv
  <2>2. DumperOf(t) \in Dumpers
    BY DumperTypes DEF Assumptions, IInv
  <2>3. WP!IInv'
    BY <1>3, <2>2, WriterStep DEF Dumps, ChildExits, Writer!DumperStep, IInv
  <2> QED BY <1>3, <2>1, <2>3, DumpsLinked DEF IInv
<1>4. ASSUME Others PROVE IInv'
  <2>1. GP!IInv' /\ GP!Counted'
    BY <1>4, ProcessStep DEF Others, IInv
  <2>2. WP!IInv'
    BY <1>4, WriterStep DEF Others, IInv
  <2>3. UNCHANGED <<child, left, place, tracer>>
    BY <1>4 DEF Others, processVars, Writer!KernelStep, Writer!ThreadStep, Writer!Stop,
       Writer!Handle, Writer!Exit, Writer!Signal, Writer!Spawn, Writer!dumper
  <2> QED BY <2>1, <2>2, <2>3 DEF IInv, Linked, AtWork
<1>5. ASSUME Kill PROVE IInv'
  <2>1. GP!IInv' /\ GP!Counted'
    BY <1>5, ProcessStep DEF Kill, IInv
  <2>2. WP!IInv'
    BY <1>5, WriterStep DEF IInv
  <2> QED BY <1>5, <2>1, <2>2 DEF Kill, Process!Kill, dumperVars, IInv, Linked, AtWork
<1>6. ASSUME UNCHANGED vars PROVE IInv'
  <2>1. GP!IInv' /\ GP!Counted'
    BY <1>6, ProcessStep DEF vars, processVars, IInv
  <2>2. WP!IInv'
    BY <1>6, WriterStep DEF vars, IInv
  <2> QED BY <1>6, <2>1, <2>2 DEF vars, processVars, targetVars, dumperVars, IInv, Linked, AtWork
<1> QED
  BY <1>1, <1>2, <1>3, <1>4, <1>5, <1>6 DEF Next, Over, ChildStep

LEMMA Invariance ==
  ASSUME Assumptions
  PROVE  Spec => []IInv
<1>1. Init => IInv
  BY InitInv
<1>2. IInv /\ [Next]_vars => IInv'
  BY StepInv
<1> QED
  BY <1>1, <1>2, PTL DEF Spec

(***************************************************************************)
(* Types.                                                                  *)
(***************************************************************************)

TypeInv == GP!TypeInv /\ WP!OtherTypes

LEMMA InitTypes ==
  ASSUME Assumptions, Init
  PROVE  TypeInv
<1>1. GP!TypeInv
  <2>1. IsFiniteSet(Dumping)
    BY FS_Subset DEF Assumptions, WP!WriterAssumption
  <2>2. GP!IsFiniteSet(Dumping) /\ GP!Init /\ GP!DumpAssumption
    BY <2>1, ProcessInit DEF Init, Assumptions, IsFiniteSet, GP!IsFiniteSet
  <2> QED BY <2>2, GP!InitTypes
<1>2. WP!OtherTypes
  BY WriterInit, WP!InitTypes DEF Init, Assumptions
<1> QED
  BY <1>1, <1>2 DEF TypeInv

LEMMA StepTypes ==
  ASSUME Assumptions, IInv, TypeInv, [Next]_vars
  PROVE  TypeInv'
<1>1. IsFiniteSet(Dumping)
  BY FS_Subset DEF Assumptions, WP!WriterAssumption
<1>2. \A t \in Dumping : DumperOf(t) \in Dumpers
  BY DumperTypes DEF Assumptions, IInv
<1>3. GP!TypeInv'
  <2>1. [GP!Next]_(GP!vars)
    BY ParentSteps, ChildSteps, ProcessInit
    DEF GP!Next, GP!ChildStep, GP!vars, processVars, Next, Call, ParentStep, ChildStep,
        ChildPrepares, Dumps, ChildExits, Others, Kill, Over, vars
  <2> QED BY <1>1, <2>1, GP!StepTypes
          DEF Assumptions, IInv, TypeInv, IsFiniteSet, GP!IsFiniteSet
<1>4. CASE Kill
  BY <1>3, <1>4 DEF Kill, dumperVars, TypeInv, WP!OtherTypes
<1>5. CASE ~Kill
  <2>1. [WP!Next]_(WP!vars)
    BY <1>2, <1>5, DumperSteps, ThreadSteps
    DEF WP!Next, WP!vars, WP!target, WP!dumper, targetVars, dumperVars, Next, Call,
        ParentStep, ChildStep, ChildPrepares, Dumps, ChildExits, Writer!DumperStep, Others,
        Over, vars
  <2> QED BY <1>3, <2>1, WP!StepTypes
          DEF Assumptions, IInv, TypeInv, IsFiniteSet, WP!IsFiniteSet
<1> QED
  BY <1>4, <1>5

(***************************************************************************)
(* A dump that is reported as a success is complete, and in a file of its  *)
(* own.  Two conditions, that no step checks, are needed:                  *)
(*  - the dumps do not overlap, for a dumper drops the threads that another *)
(*    has attached to: crashes dump one after the other, with the mutex    *)
(*    held, and an explicit WriteMinidump takes no lock;                   *)
(*  - a handler that dumps in a crash does it once: its path is made by    *)
(*    the constructor, and by WriteMinidump, but not for a crash.          *)
(***************************************************************************)
OneAtATime == Dumping \subseteq Crashers \/ \A t, u \in Dumping : t = u

PathsApart ==
  /\ \A t, u \in Dumping : HandlerOf[t] = HandlerOf[u] => t = u
  /\ Crashers # {} => Budget <= 1

PathOf(t) == path[HandlerOf[t]]

\* A child has written its file before it exits, and its parent has waited for it
\* before it reports a success.
FileOK(t) ==
  /\ child[t] = "ok" => /\ outcome[DumperOf(t)] = "ok"
                        /\ \E p \in DOMAIN files : files[p] = GP!Dump(t)
  /\ result[t] = "ok" => child[t] = "ok" /\ pc[t] \in {"closeWrite", "idle"}

\* Is the path that t dumps to, or will dump to in a crash, still to be used.
ToBeUsed(t) ==
  \/ pc[t] # "idle" /\ child[t] \notin {"ok", "failed"}
  \/ left[t] = Budget

PathOK(t) ==
  /\ PathOf(t) <= paths
  /\ GP!Running(t) => copy[t].path = PathOf(t)
  /\ pc[t] # "idle" => left[t] < Budget
  /\ pc[t] \in {"pipe", "clone"} => child[t] = "none"
  /\ ToBeUsed(t) => PathOf(t) \notin DOMAIN files

Differ == \A t, u \in Dumping : t # u => PathOf(t) # PathOf(u)

FilesInv == Differ /\ \A t \in Dumping : FileOK(t) /\ PathOK(t)

LEMMA PathTypes ==
  ASSUME GP!DumpAssumption, GP!IInv, GP!TypeInv, NEW t \in Dumping
  PROVE  /\ HandlerOf[t] \in GP!Handlers /\ PathOf(t) \in Nat
         /\ left[t] \in 0..Budget /\ Budget \in Nat /\ paths \in Nat
         /\ DOMAIN files \subseteq 1..paths
BY DEF GP!DumpAssumption, GP!IInv, GP!Types, GP!TypeInv, GP!TypeOK, GP!Handlers, PathOf

\* A thread begins to dump, with a path of its own.
LEMMA CallFiles ==
  ASSUME Assumptions, PathsApart, GP!IInv, GP!TypeInv, FilesInv,
         NEW t \in Dumping, GP!Call(t), outcome' = outcome
  PROVE  FilesInv'
<1>1. /\ pc' = [pc EXCEPT ![t] = "pipe"] /\ left' = [left EXCEPT ![t] = @ - 1]
      /\ result' = [result EXCEPT ![t] = "none"] /\ child' = [child EXCEPT ![t] = "none"]
      /\ files' = files /\ copy' = copy /\ pc[t] = "idle" /\ left[t] > 0
  BY DEF GP!Call, GP!Goto
<1>2. /\ pc'[t] = "pipe" /\ left'[t] = left[t] - 1 /\ child'[t] = "none" /\ result'[t] # "ok"
      /\ \A u \in Dumping \ {t} : /\ pc'[u] = pc[u] /\ left'[u] = left[u]
                                  /\ child'[u] = child[u] /\ result'[u] = result[u]
  BY <1>1 DEF GP!IInv, GP!Types, GP!TypeInv, GP!TypeOK
<1>3. \A u \in Dumping : /\ HandlerOf[u] \in GP!Handlers /\ PathOf(u) \in Nat
                         /\ left[u] \in 0..Budget
  BY PathTypes DEF Assumptions
<1>4. Budget \in Nat /\ paths \in Nat /\ DOMAIN files \subseteq 1..paths
  BY PathTypes DEF Assumptions
<1>5. /\ \A u \in Dumping \ {t} : PathOf(u)' = PathOf(u)
      /\ paths' \in Nat /\ paths' >= paths
      /\ PathOf(t)' <= paths' /\ PathOf(t)' \notin DOMAIN files
      /\ PathOf(t)' = PathOf(t) \/ PathOf(t)' > paths
  <2>1. CASE GP!WriteMinidump(t)
    <3>1. path' = [path EXCEPT ![HandlerOf[t]] = paths + 1] /\ paths' = paths + 1
      BY <2>1 DEF GP!WriteMinidump, GP!UpdatePath
    <3>2. \A u \in Dumping \ {t} : HandlerOf[u] # HandlerOf[t]
      BY DEF PathsApart
    <3>3. PathOf(t)' = paths + 1 /\ \A u \in Dumping \ {t} : PathOf(u)' = PathOf(u)
      BY <1>3, <3>1, <3>2 DEF PathOf, GP!IInv, GP!Types
    <3> QED BY <1>4, <3>1, <3>3
  <2>2. CASE GP!HandleSignal(t)
    <3>1. path' = path /\ paths' = paths /\ Crashers # {}
      BY <2>2 DEF GP!HandleSignal
    <3>2. left[t] = Budget
      BY <1>1, <1>3, <1>4, <3>1 DEF PathsApart
    <3> QED BY <1>4, <3>1, <3>2 DEF FilesInv, PathOK, ToBeUsed, PathOf
  <2> QED BY <2>1, <2>2 DEF GP!Call
<1>6. Differ'
  <2>1. ASSUME NEW u \in Dumping \ {t} PROVE PathOf(u)' # PathOf(t)'
    BY <1>3, <1>4, <1>5 DEF FilesInv, PathOK, Differ
  <2> QED BY <1>5, <2>1 DEF FilesInv, Differ
<1>7. ASSUME NEW u \in Dumping PROVE FileOK(u)'
  BY <1>1, <1>2 DEF FilesInv, FileOK, DumperOf, GP!Dump
<1>8. ASSUME NEW u \in Dumping PROVE PathOK(u)'
  <2>1. CASE u = t
    BY <1>1, <1>2, <1>3, <1>4, <1>5, <2>1 DEF PathOK, GP!Running, GP!Exited
  <2>2. CASE u # t
    BY <1>1, <1>2, <1>3, <1>4, <1>5, <2>2
    DEF FilesInv, PathOK, ToBeUsed, GP!Running, GP!Exited
  <2> QED BY <2>1, <2>2
<1> QED
  BY <1>6, <1>7, <1>8 DEF FilesInv

\* A thread that dumps goes on, and in the end waits for its child.
LEMMA ParentFiles ==
  ASSUME Assumptions, GP!IInv, GP!TypeInv, FilesInv,
         NEW t \in Dumping, GP!ParentStep(t), outcome' = outcome
  PROVE  FilesInv'
<1>1. UNCHANGED <<left, path, paths, files>>
  BY DEF GP!ParentStep, GP!MakePipe, GP!Clone, GP!CloneFails, GP!CloseReadEnd,
     GP!AllowPtrace, GP!SendContinueSignalToChild, GP!Wait, GP!CloseWriteEnd, GP!process
<1>2. /\ \A u \in Dumping \ {t} : pc'[u] = pc[u] /\ child'[u] = child[u] /\ result'[u] = result[u]
      /\ \A u \in Dumping \ {t} : copy'[u] = copy[u]
  BY DEF GP!ParentStep, GP!MakePipe, GP!Clone, GP!CloneFails, GP!CloseReadEnd,
     GP!AllowPtrace, GP!SendContinueSignalToChild, GP!Wait, GP!CloseWriteEnd, GP!process,
     GP!Goto, GP!IInv, GP!Types, GP!TypeInv, GP!TypeOK
<1>3. Differ' /\ \A u \in Dumping : PathOf(u)' = PathOf(u)
  BY <1>1 DEF FilesInv, Differ, PathOf
<1>4. ASSUME NEW u \in Dumping \ {t} PROVE FileOK(u)' /\ PathOK(u)'
  BY <1>1, <1>2, <1>3
  DEF FilesInv, FileOK, PathOK, ToBeUsed, DumperOf, GP!Dump, GP!Running, GP!Exited
<1>5. pc[t] # "idle"
  BY DEF GP!ParentStep, GP!MakePipe, GP!Clone, GP!CloneFails, GP!CloseReadEnd,
     GP!AllowPtrace, GP!SendContinueSignalToChild, GP!Wait, GP!CloseWriteEnd
<1>6. left[t] < Budget /\ left[t] # Budget
  <2>1. left[t] < Budget
    BY <1>5 DEF FilesInv, PathOK
  <2> QED BY <2>1, PathTypes DEF Assumptions
<1>7. pc[t] \in {"pipe", "clone"} => child[t] = "none" /\ PathOf(t) \notin DOMAIN files
  BY DEF FilesInv, PathOK, ToBeUsed
<1>8. CASE GP!MakePipe(t)
  <2>1. pc[t] = "pipe" /\ pc'[t] = "clone" /\ UNCHANGED <<child, copy, result>>
    BY <1>8 DEF GP!MakePipe, GP!Goto, GP!IInv, GP!Types
  <2>2. FileOK(t)' /\ PathOK(t)'
    BY <1>1, <1>3, <1>6, <1>7, <2>1
    DEF FilesInv, FileOK, PathOK, ToBeUsed, GP!Running, GP!Exited
  <2> QED BY <1>3, <1>4, <2>2 DEF FilesInv
<1>9. CASE GP!Clone(t)
  <2>1. /\ child'[t] = "born" /\ copy'[t].path = PathOf(t) /\ result' = result
        /\ pc[t] = "clone" /\ pc'[t] = "closeRead"
    BY <1>9 DEF GP!Clone, GP!Goto, GP!IInv, GP!Types, PathOf
  <2>2. FileOK(t)' /\ PathOK(t)'
    BY <1>1, <1>3, <1>6, <1>7, <2>1 DEF FilesInv, FileOK, PathOK
  <2> QED BY <1>3, <1>4, <2>2 DEF FilesInv
<1>10. CASE GP!CloneFails(t)
  <2>1. /\ pc[t] = "clone" /\ pc'[t] = "idle" /\ child' = child /\ result'[t] = "failed"
    BY <1>10 DEF GP!CloneFails, GP!Goto, GP!IInv, GP!Types, GP!TypeInv, GP!TypeOK
  <2>2. FileOK(t)' /\ PathOK(t)'
    BY <1>1, <1>3, <1>6, <1>7, <2>1
    DEF FilesInv, FileOK, PathOK, ToBeUsed, GP!Running, GP!Exited
  <2> QED BY <1>3, <1>4, <2>2 DEF FilesInv
<1>11. CASE GP!CloseReadEnd(t) \/ GP!AllowPtrace(t) \/ GP!SendContinueSignalToChild(t)
  <2>1. /\ UNCHANGED <<child, copy, result>>
        /\ pc[t] \in {"closeRead", "prctl", "write"} /\ pc'[t] \in {"prctl", "write", "wait"}
    BY <1>11 DEF GP!CloseReadEnd, GP!AllowPtrace, GP!SendContinueSignalToChild, GP!Goto,
       GP!IInv, GP!Types
  <2>2. FileOK(t)' /\ PathOK(t)'
    BY <1>1, <1>3, <1>6, <2>1
    DEF FilesInv, FileOK, PathOK, ToBeUsed, DumperOf, GP!Dump, GP!Running, GP!Exited
  <2> QED BY <1>3, <1>4, <2>2 DEF FilesInv
<1>12. CASE GP!Wait(t)
  <2>1. /\ UNCHANGED <<child, copy>> /\ pc[t] = "wait" /\ pc'[t] = "closeWrite"
        /\ result'[t] = IF child[t] = "ok" THEN "ok" ELSE "failed"
    BY <1>12 DEF GP!Wait, GP!Succeeded, GP!Goto, GP!IInv, GP!Types, GP!TypeInv, GP!TypeOK
  <2>2. FileOK(t)' /\ PathOK(t)'
    BY <1>1, <1>3, <1>6, <2>1
    DEF FilesInv, FileOK, PathOK, ToBeUsed, DumperOf, GP!Dump, GP!Running, GP!Exited
  <2> QED BY <1>3, <1>4, <2>2 DEF FilesInv
<1>13. CASE GP!CloseWriteEnd(t)
  <2>1. /\ UNCHANGED <<child, copy, result>> /\ pc[t] = "closeWrite" /\ pc'[t] = "idle"
    BY <1>13 DEF GP!CloseWriteEnd, GP!Goto, GP!IInv, GP!Types
  <2>2. FileOK(t)' /\ PathOK(t)'
    BY <1>1, <1>3, <1>6, <2>1
    DEF FilesInv, FileOK, PathOK, ToBeUsed, DumperOf, GP!Dump, GP!Running, GP!Exited
  <2> QED BY <1>3, <1>4, <2>2 DEF FilesInv
<1> QED
  BY <1>8, <1>9, <1>10, <1>11, <1>12, <1>13 DEF GP!ParentStep

\* A child that prepares keeps its copy of the path.
LEMMA PreparesFiles ==
  ASSUME Assumptions, GP!IInv, FilesInv, NEW t \in Dumping,
         GP!ChildClosesWriteEnd(t) \/ GP!WaitForContinueSignal(t), outcome' = outcome
  PROVE  FilesInv'
<1>1. /\ UNCHANGED <<pc, left, path, paths, files, result>>
      /\ child[t] \in {"born", "reading"} /\ child'[t] \in {"reading", "permitted"}
      /\ \A u \in Dumping \ {t} : child'[u] = child[u]
  BY DEF GP!ChildClosesWriteEnd, GP!WaitForContinueSignal, GP!process, GP!IInv, GP!Types
<1>2. \A u \in Dumping : copy'[u].path = copy[u].path
  BY DEF GP!ChildClosesWriteEnd, GP!WaitForContinueSignal, GP!IInv, GP!Types
<1>3. Differ' /\ \A u \in Dumping : PathOf(u)' = PathOf(u)
  BY <1>1 DEF FilesInv, Differ, PathOf
<1>4. ASSUME NEW u \in Dumping PROVE FileOK(u)'
  BY <1>1 DEF FilesInv, FileOK, DumperOf, GP!Dump
<1>5. ASSUME NEW u \in Dumping PROVE PathOK(u)'
  <2>1. GP!Running(u)' <=> GP!Running(u)
    BY <1>1 DEF GP!Running, GP!Exited
  <2>2. child[u] \in {"ok", "failed"} <=> child'[u] \in {"ok", "failed"}
    BY <1>1
  <2>3. child[u] = "none" => child'[u] = "none"
    BY <1>1
  <2> QED BY <1>1, <1>2, <1>3, <2>1, <2>2, <2>3 DEF FilesInv, PathOK, ToBeUsed
<1> QED
  BY <1>3, <1>4, <1>5 DEF FilesInv

\* A dumper at work writes no file that is complete, and a dumper whose child has
\* exited does not change what its dump came to.
LEMMA DumpsFiles ==
  ASSUME Assumptions, IInv, WP!OtherTypes, FilesInv, NEW t \in Dumping, Dumps(t)
  PROVE  FilesInv'
<1>1. UNCHANGED processVars /\ child[t] = "permitted"
  BY DEF Dumps
<1>2. DumperOf(t) \in Dumpers
  BY DumperTypes DEF Assumptions, IInv
<1>3. \A d \in Dumpers \ {DumperOf(t)} : outcome'[d] = outcome[d]
  BY <1>2, DumperSteps, WP!DumperLeaves DEF Dumps, IInv
<1>4. ASSUME NEW u \in Dumping, child[u] = "ok" PROVE outcome'[DumperOf(u)] = outcome[DumperOf(u)]
  <2>1. DumperOf(u) \in Dumpers
    BY DumperTypes DEF Assumptions, IInv
  <2>2. u # t
    BY <1>1, <1>4
  <2> QED BY <1>3, <2>1, <2>2 DEF DumperOf
<1>5. \A u \in Dumping : DumperOf(u)' = DumperOf(u)
  BY <1>1 DEF DumperOf, processVars
<1>6. ASSUME NEW u \in Dumping PROVE FileOK(u)'
  BY <1>1, <1>4, <1>5 DEF FilesInv, FileOK, processVars, GP!Dump
<1>7. Differ' /\ \A u \in Dumping : PathOK(u)'
  BY <1>1 DEF FilesInv, Differ, PathOK, ToBeUsed, PathOf, processVars, GP!Running, GP!Exited
<1> QED
  BY <1>6, <1>7 DEF FilesInv

\* The child exits: its file is there, unless there was one before, and then it
\* reports no success.
LEMMA ExitsFiles ==
  ASSUME Assumptions, IInv, WP!OtherTypes, GP!TypeInv, FilesInv, NEW t \in Dumping, ChildExits(t)
  PROVE  FilesInv'
<1>1. /\ GP!DoDump(t) /\ child'[t] = outcome'[DumperOf(t)]
  BY ChildSteps DEF ChildExits
<1>2. /\ UNCHANGED <<pc, left, path, paths, result, copy>>
      /\ child[t] = "permitted" /\ child'[t] \in {"ok", "failed"}
      /\ \A u \in Dumping \ {t} : child'[u] = child[u]
  BY <1>1 DEF GP!DoDump, GP!process, IInv, GP!IInv, GP!Types
<1>3. DumperOf(t) \in Dumpers
  BY DumperTypes DEF Assumptions, IInv
<1>4. \A d \in Dumpers \ {DumperOf(t)} : outcome'[d] = outcome[d]
  <2>1. WP!DumperStep(DumperOf(t))
    BY <1>3, DumperSteps DEF ChildExits, WP!DumperStep
  <2> QED BY <1>3, <2>1, WP!DumperLeaves DEF IInv
<1>5. Differ' /\ \A u \in Dumping : PathOf(u)' = PathOf(u)
  BY <1>2 DEF FilesInv, Differ, PathOf
<1>6. copy[t].path = PathOf(t) /\ PathOf(t) \notin DOMAIN files /\ pc[t] # "idle"
  <2>1. GP!Running(t)
    BY <1>2 DEF GP!Running, GP!Exited
  <2>2. pc[t] # "idle"
    BY <2>1 DEF IInv, GP!IInv, GP!ChildOK
  <2> QED BY <1>2, <2>1, <2>2 DEF FilesInv, PathOK, ToBeUsed
<1>7. /\ DOMAIN files' = DOMAIN files \cup {PathOf(t)}
      /\ \A p \in DOMAIN files : files'[p] = files[p]
      /\ child'[t] = "ok" => files'[PathOf(t)] = GP!Dump(t)
  BY <1>1, <1>2, <1>6 DEF GP!DoDump, GP!Creates, IInv, GP!IInv, GP!Types
<1>8. ASSUME NEW u \in Dumping PROVE FileOK(u)'
  <2>1. DumperOf(u)' = DumperOf(u) /\ GP!Dump(u)' = GP!Dump(u) /\ DumperOf(u) \in Dumpers
    BY <1>2, DumperTypes DEF DumperOf, GP!Dump, Assumptions, IInv
  <2>2. CASE u = t
    <3>1. result[t] # "ok"
      BY <1>2 DEF FilesInv, FileOK
    <3>2. child'[t] = "ok" => /\ outcome'[DumperOf(t)] = "ok"
                              /\ \E p \in DOMAIN files' : files'[p] = GP!Dump(t)
      BY <1>1, <1>7
    <3> QED BY <1>2, <2>1, <2>2, <3>1, <3>2 DEF FileOK
  <2>3. CASE u # t
    <3>1. DumperOf(u) # DumperOf(t)
      BY <2>3 DEF DumperOf
    <3>2. outcome'[DumperOf(u)] = outcome[DumperOf(u)]
      BY <1>4, <2>1, <3>1
    <3> QED BY <1>2, <1>7, <2>1, <2>3, <3>2 DEF FilesInv, FileOK
  <2> QED BY <2>2, <2>3
<1>9. ASSUME NEW u \in Dumping PROVE PathOK(u)'
  <2>1. CASE u = t
    <3>1. left[t] # Budget
      BY <1>6, PathTypes DEF FilesInv, PathOK, Assumptions, IInv
    <3> QED BY <1>2, <1>5, <1>6, <2>1, <3>1, PathTypes
            DEF FilesInv, PathOK, ToBeUsed, GP!Running, GP!Exited, IInv, GP!IInv, GP!ChildOK
  <2>2. CASE u # t
    <3>1. PathOf(u) # PathOf(t)
      BY <2>2 DEF FilesInv, Differ
    <3> QED BY <1>2, <1>5, <1>7, <2>2, <3>1
            DEF FilesInv, PathOK, ToBeUsed, GP!Running, GP!Exited
  <2> QED BY <2>1, <2>2
<1> QED
  BY <1>5, <1>8, <1>9 DEF FilesInv

\* Only one dumper works at a time: nobody disturbs it.
LEMMA Alone ==
  ASSUME Assumptions, OneAtATime, IInv, NEW d \in Dumpers
  PROVE  WP!Undisputed(d)
<1>1. ASSUME NEW e \in Dumpers, AtWork(e)
      PROVE  e[1] \in Dumping /\ e[2] = left[e[1]] /\ pc[e[1]] # "idle"
  <2>1. e[1] \in Dumping /\ child[e[1]] = "permitted" /\ left[e[1]] = e[2]
    BY <1>1 DEF IInv, Linked, Dumpers
  <2>2. GP!Running(e[1])
    BY <2>1 DEF GP!Running, GP!Exited
  <2> QED BY <2>1, <2>2 DEF IInv, GP!IInv, GP!ChildOK
<1>2. ASSUME NEW e \in Dumpers, AtWork(d), AtWork(e) PROVE e = d
  <2>1. d[1] = e[1]
    BY <1>1, <1>2 DEF OneAtATime, IInv, GP!IInv, GP!Apart
  <2> QED BY <1>1, <1>2, <2>1, SameDumper
<1>3. ASSUME place[d] = "suspend", NEW t \in Threads, tracer[t] # None PROVE tracer[t] = d
  <2>1. tracer[t] \in Dumpers /\ AtWork(tracer[t])
    BY <1>3 DEF IInv, Linked, WP!IInv, WP!Types, WP!ThreadOK, AtWork
  <2> QED BY <1>2, <1>3, <2>1 DEF AtWork
<1> QED
  BY <1>3 DEF WP!Undisputed

WrittenInv == WP!SuccessInv /\ FilesInv

LEMMA InitWritten ==
  ASSUME Assumptions, PathsApart, Init
  PROVE  WrittenInv
<1>1. WP!SuccessInv
  BY WriterInit, WP!InitSucceeds DEF Init, Assumptions
<1>2. GP!Init
  BY ProcessInit DEF Init
<1>3. \A t \in Dumping : HandlerOf[t] \in GP!Handlers
  BY DEF GP!Handlers
<1>4. Differ
  BY <1>2, <1>3 DEF GP!Init, Differ, PathOf, PathsApart
<1>5. ASSUME NEW t \in Dumping PROVE FileOK(t) /\ PathOK(t)
  <2>1. pc[t] = "idle" /\ child[t] = "none" /\ result[t] = "none" /\ DOMAIN files = {}
    BY <1>2 DEF GP!Init
  <2>2. PathOf(t) \in 1..paths
    BY <1>2, <1>3 DEF GP!Init, PathOf
  <2>3. paths \in Nat
    BY InitTypes DEF TypeInv, GP!TypeInv, GP!TypeOK
  <2> QED BY <2>1, <2>2, <2>3 DEF FileOK, PathOK, ToBeUsed, GP!Running, GP!Exited
<1> QED
  BY <1>1, <1>4, <1>5 DEF WrittenInv, FilesInv

\* What the half of MinidumpWriter sees.
LEMMA WriterWritten ==
  ASSUME Assumptions, OneAtATime, IInv, WP!OtherTypes, WP!SuccessInv,
         \/ \E d \in Dumpers : Writer!DumperStep(d)
         \/ \E t \in Threads : Writer!KernelStep(t) \/ Writer!ThreadStep(t)
         \/ UNCHANGED <<targetVars, dumperVars>>
         \/ Kill
  PROVE  WP!SuccessInv'
<1>1. ASSUME NEW d \in Dumpers, Writer!DumperStep(d) PROVE WP!SuccessInv'
  <2>1. WP!IsFiniteSet(Threads) /\ WP!WriterAssumption /\ WP!IInv
    BY DEF Assumptions, IInv, IsFiniteSet, WP!IsFiniteSet
  <2> QED BY <1>1, <2>1, Alone, DumperSteps, WP!DumperSucceeds
<1>2. ASSUME NEW t \in Threads, Writer!KernelStep(t) \/ Writer!ThreadStep(t) PROVE WP!SuccessInv'
  BY <1>2, ThreadSteps, WP!ThreadsSucceed DEF Assumptions, IInv
<1>3. ASSUME Kill PROVE WP!SuccessInv'
  <2>1. thread' = [t \in Threads |-> IF t \in WP!Alive THEN "gone" ELSE thread[t]]
    BY <1>3 DEF Kill, Writer!Alive, WP!Alive
  <2> QED BY <1>3, <2>1, WP!KillSucceeds DEF Kill, dumperVars, WP!dumper, IInv
<1>4. ASSUME UNCHANGED <<targetVars, dumperVars>> PROVE WP!SuccessInv'
  <2>1. WP!NobodyLives => WP!NobodyLives'
    BY <1>4 DEF WP!NobodyLives, targetVars
  <2>2. \A d \in Dumpers : WP!SuccessOK(d)'
    BY <1>4, <2>1, WP!SuccessLasts DEF WP!SuccessInv, targetVars, dumperVars
  <2> QED BY <1>4, <2>1, <2>2 DEF WP!SuccessInv, WP!BlamedOK, targetVars
<1> QED
  BY <1>1, <1>2, <1>3, <1>4

LEMMA StepWritten ==
  ASSUME Assumptions, OneAtATime, PathsApart, IInv, TypeInv, WrittenInv, [Next]_vars
  PROVE  WrittenInv'
<1>1. WP!SuccessInv'
  <2>1. \A t \in Dumping : DumperOf(t) \in Dumpers
    BY DumperTypes DEF Assumptions, IInv
  <2> QED BY <2>1, WriterWritten
          DEF TypeInv, WrittenInv, Next, Call, ParentStep, ChildStep, ChildPrepares, Dumps,
              ChildExits, Writer!DumperStep, Others, Over, vars
<1>2. ASSUME NEW t \in Dumping, Call(t) PROVE FilesInv'
  BY <1>2, ParentSteps, CallFiles DEF Call, dumperVars, IInv, TypeInv, WrittenInv
<1>3. ASSUME NEW t \in Dumping, ParentStep(t) PROVE FilesInv'
  BY <1>3, ParentSteps, ParentFiles DEF ParentStep, dumperVars, IInv, TypeInv, WrittenInv
<1>4. ASSUME NEW t \in Dumping, ChildPrepares(t) PROVE FilesInv'
  BY <1>4, ChildSteps, PreparesFiles DEF ChildPrepares, dumperVars, IInv, WrittenInv
<1>5. ASSUME NEW t \in Dumping, Dumps(t) PROVE FilesInv'
  BY <1>5, DumpsFiles DEF TypeInv, WrittenInv
<1>6. ASSUME NEW t \in Dumping, ChildExits(t) PROVE FilesInv'
  BY <1>6, ExitsFiles DEF TypeInv, WrittenInv
<1>7. ASSUME UNCHANGED <<pc, left, path, paths, files, child, copy, result, outcome>>
      PROVE  FilesInv'
  BY <1>7 DEF WrittenInv, FilesInv, Differ, FileOK, PathOK, ToBeUsed, PathOf, DumperOf,
     GP!Dump, GP!Running, GP!Exited
<1>8. ASSUME Others \/ Kill \/ UNCHANGED vars
      PROVE  UNCHANGED <<pc, left, path, paths, files, child, copy, result, outcome>>
  BY <1>8 DEF Others, Kill, vars, processVars, dumperVars, Process!Kill, Process!process,
     Writer!KernelStep, Writer!ThreadStep, Writer!Stop, Writer!Handle, Writer!Exit,
     Writer!Signal, Writer!Spawn, Writer!dumper
<1> QED
  BY <1>1, <1>2, <1>3, <1>4, <1>5, <1>6, <1>7, <1>8 DEF Next, ChildStep, Over, WrittenInv

(***************************************************************************)
(* The theorems.                                                           *)
(***************************************************************************)

\* Every variable of both halves always has its type.
THEOREM TypeOKHolds ==
  ASSUME Assumptions
  PROVE  Spec => []TypeOK
<1>1. Init => TypeInv
  BY InitTypes
<1>2. IInv /\ TypeInv /\ [Next]_vars => TypeInv'
  BY StepTypes
<1>3. IInv /\ TypeInv => TypeOK
  <2> SUFFICES ASSUME IInv, TypeInv PROVE TypeOK
    OBVIOUS
  <2>1. Process!TypeOK
    BY DEF TypeInv, GP!TypeInv, GP!TypeOK, Process!TypeOK, Process!ParentStates,
       GP!ParentStates, Process!ChildStates, GP!ChildStates, Process!Fds, GP!Fds,
       Process!Ends, GP!Ends, Process!NoFd, GP!NoFd, Process!Handlers, GP!Handlers,
       Process!Pipes, GP!Pipes, Process!Total, GP!Total, Process!Cardinality,
       GP!Cardinality, Process!End, GP!End
  <2>2. WP!TypeOK
    BY WP!TypesSuffice DEF IInv, TypeInv, WP!IInv
  <2>3. Writer!TypeOK
    BY <2>2 DEF Writer!TypeOK, WP!TypeOK, Writer!ThreadStates, WP!ThreadStates,
       Writer!Places, WP!Places
  <2> QED BY <2>1, <2>3 DEF TypeOK
<1> QED
  BY <1>1, <1>2, <1>3, Invariance, PTL DEF Spec


\* Registers and stacks are copied from threads that the dumper holds or that have
\* exited, also when the thread that waits for the dump is one of them and when
\* the process is killed meanwhile.
THEOREM CopiedWhileStoppedHolds ==
  ASSUME Assumptions
  PROVE  Spec => []CopiedWhileStopped
<1>1. IInv => CopiedWhileStopped
  <2> SUFFICES ASSUME IInv PROVE CopiedWhileStopped
    OBVIOUS
  <2>1. WP!CopiedWhileStopped
    BY WP!Copied DEF IInv
  <2> QED BY <2>1 DEF CopiedWhileStopped, WP!CopiedWhileStopped, Writer!CopiedWhileStopped,
             WP!ToSet, Writer!ToSet
<1> QED
  BY <1>1, Invariance, PTL

(***************************************************************************)
(* The dumper holds threads only while the parent waits for it.            *)
(***************************************************************************)

\* From prctl until the child has ended, the process lets it ptrace.
Permitted == \A t \in Dumping : pc[t] \in {"write", "wait"} => Permits(t)

LEMMA InitPermitted == Init => Permitted
BY DEF Init, Process!Init, Permitted

LEMMA ParentPermitted ==
  ASSUME Assumptions, IInv, Permitted, NEW t \in Dumping, GP!Call(t) \/ GP!ParentStep(t)
  PROVE  Permitted'
<1>1. pc \in [Dumping -> GP!ParentStates] /\ left \in [Dumping -> 0..Budget]
  BY DEF IInv, GP!IInv, GP!Types
<1>2. SUFFICES ASSUME NEW u \in Dumping, pc'[u] \in {"write", "wait"} PROVE Permits(u)'
  BY DEF Permitted
<1>3. CASE GP!Call(t)
  <2>1. u # t /\ pc'[u] = pc[u] /\ left'[u] = left[u] /\ ptracer' = ptracer
    BY <1>1, <1>2, <1>3 DEF GP!Call, GP!Goto
  <2> QED BY <1>2, <2>1 DEF Permitted, Permits, Process!Dump
<1>4. CASE GP!AllowPtrace(t)
  <2>1. ptracer' = [by |-> t, left |-> left[t]] /\ left' = left
    BY <1>4 DEF GP!AllowPtrace, GP!Dump
  <2>2. left[t] \in 0..Budget
    BY <1>1
  <2> QED BY <2>1, <2>2 DEF Permits, Process!Dump
<1>5. CASE GP!ParentStep(t) /\ ~GP!AllowPtrace(t)
  <2>1. pc[u] \in {"write", "wait"}
    BY <1>1, <1>2, <1>5 DEF GP!ParentStep, GP!MakePipe, GP!Clone, GP!CloneFails,
       GP!CloseReadEnd, GP!SendContinueSignalToChild, GP!Wait, GP!CloseWriteEnd, GP!Goto
  <2>2. left' = left /\ ptracer' = ptracer
    BY <1>5 DEF GP!ParentStep, GP!MakePipe, GP!Clone, GP!CloneFails, GP!CloseReadEnd,
       GP!SendContinueSignalToChild, GP!Wait, GP!CloseWriteEnd, GP!process
  <2> QED BY <2>1, <2>2 DEF Permitted, Permits, Process!Dump
<1> QED
  BY <1>3, <1>4, <1>5

LEMMA StepPermitted ==
  ASSUME Assumptions, IInv, Permitted, [Next]_vars
  PROVE  Permitted'
<1>1. CASE \E t \in Dumping : Call(t) \/ ParentStep(t)
  BY <1>1, ParentSteps, ParentPermitted DEF Call, ParentStep
<1>2. CASE UNCHANGED <<pc, left, ptracer>>
  BY <1>2 DEF Permitted, Permits, Process!Dump
<1>3. ASSUME ~(\E t \in Dumping : Call(t) \/ ParentStep(t))
      PROVE  UNCHANGED <<pc, left, ptracer>>
  BY <1>3 DEF Next, ChildStep, ChildPrepares, Dumps, ChildExits, Others, Kill, Over, vars,
     processVars, Process!ChildClosesWriteEnd, Process!WaitForContinueSignal,
     Process!DoDump, Process!Kill, Process!process
<1> QED
  BY <1>1, <1>2, <1>3

\* While the process lives, its threads are held only for a dump that has not ended
\* and that the thread which takes it awaits in waitpid, having allowed this child
\* to ptrace: however the threads and the child are scheduled, whatever fails, and
\* with any number of dumps at a time.
THEOREM HeldWhileAwaitedHolds ==
  ASSUME Assumptions
  PROVE  Spec => []HeldWhileAwaited
<1>1. Init => Permitted
  BY InitPermitted
<1>2. IInv /\ Permitted /\ [Next]_vars => Permitted'
  BY StepPermitted
<1>3. IInv /\ Permitted => HeldWhileAwaited
  <2> SUFFICES ASSUME IInv, Permitted, NEW u \in Threads, alive, tracer[u] # None,
                      NEW t, t = tracer[u][1]
               PROVE  /\ tracer[u] = DumperOf(t)
                      /\ Process!Running(t)
                      /\ IF Process!HasPipe(t) THEN pc[t] = "wait" /\ Permits(t)
                         ELSE pc[t] \in {"closeRead", "prctl", "write", "wait"}
    BY DEF HeldWhileAwaited
  <2>1. tracer[u] \in Dumpers /\ AtWork(tracer[u])
    BY DEF IInv, Linked, WP!IInv, WP!Types, WP!ThreadOK, AtWork
  <2>2. t \in Dumping /\ child[t] = "permitted" /\ left[t] = tracer[u][2]
    BY <2>1 DEF IInv, Linked, Dumpers
  <2>3. tracer[u] = DumperOf(t)
    BY <2>1, <2>2, SameDumper
  <2>4. Process!Running(t) /\ GP!Running(t)
    BY <2>2 DEF Process!Running, Process!Exited, GP!Running, GP!Exited
  <2>5. pc[t] \in {"closeRead", "prctl", "write", "wait"}
    BY <2>2, <2>4 DEF IInv, GP!IInv, GP!ChildOK
  <2>6. GP!Handshake
    BY GP!Handshakes DEF Assumptions, IInv
  <2>7. Process!HasPipe(t) => pc[t] = "wait"
    BY <2>2, <2>6 DEF Process!HasPipe, Process!NoFd, GP!Handshake, GP!WaitsForItsParent,
       GP!HasPipe, GP!NoFd
  <2>8. pc[t] = "wait" => Permits(t)
    BY <2>2 DEF Permitted
  <2> QED BY <2>3, <2>4, <2>5, <2>7, <2>8
<1> QED
  BY <1>1, <1>2, <1>3, Invariance, PTL DEF Spec

\* Whatever became of the dumps, nothing of ptrace is left that stops a thread.
THEOREM ProcessRunsOnHolds ==
  ASSUME Assumptions
  PROVE  Spec => []ProcessRunsOn
<1>1. IInv => ProcessRunsOn
  <2> SUFFICES ASSUME IInv, \A t \in Dumping : ~Process!Running(t), robbed = {}
               PROVE  /\ ~frozen
                      /\ \A t \in Threads : thread[t] # "stopped" /\ "stop" \notin pending[t]
    BY DEF ProcessRunsOn
  <2>1. \A t \in Dumping : child[t] # "permitted"
    BY DEF Process!Running, Process!Exited
  <2>2. \A d \in Dumpers : ~AtWork(d)
    BY <2>1 DEF IInv, Linked, Dumpers
  <2>3. \A t \in Threads : tracer[t] = None
    BY <2>2 DEF IInv, WP!IInv, WP!Types, WP!ThreadOK, Linked, AtWork
  <2> QED BY <2>3 DEF IInv, WP!IInv, WP!ThreadOK, WP!FrozenOK
<1> QED
  BY <1>1, Invariance, PTL

\* What is reported as a success is a dump that its writer has finished, with all
\* the threads that have not exited, in a file that no other dump has overwritten:
\* also when the process is killed meanwhile, if the dumps do not overlap and a
\* handler dumps for one crash.
THEOREM SuccessIsCompleteHolds ==
  ASSUME Assumptions, OneAtATime, PathsApart
  PROVE  Spec => []SuccessIsComplete
<1>1. Init => TypeInv /\ WrittenInv
  BY InitTypes, InitWritten
<1>2. IInv /\ TypeInv /\ WrittenInv /\ [Next]_vars => (TypeInv /\ WrittenInv)'
  BY StepTypes, StepWritten
<1>3. IInv /\ WrittenInv => SuccessIsComplete
  <2> SUFFICES ASSUME IInv, WrittenInv PROVE SuccessIsComplete
    OBVIOUS
  <2>1. ASSUME NEW t \in Dumping, result[t] = "ok"
        PROVE  /\ outcome[DumperOf(t)] = "ok"
               /\ t \in recorded[DumperOf(t)]
               /\ \E p \in DOMAIN files : files[p] = Process!Dump(t)
    <3>1. /\ outcome[DumperOf(t)] = "ok"
          /\ \E p \in DOMAIN files : files[p] = GP!Dump(t)
      BY <2>1 DEF WrittenInv, FilesInv, FileOK
    <3>2. DumperOf(t) \in Dumpers /\ DumperOf(t)[1] = t
      BY DumperTypes DEF Assumptions, IInv
    <3>3. t \in recorded[DumperOf(t)]
      BY <3>1, <3>2 DEF WrittenInv, WP!SuccessInv, WP!SuccessOK, WP!Complete
    <3> QED BY <3>1, <3>3 DEF Process!Dump, GP!Dump
  <2>2. WP!OkDumpIsComplete /\ WP!OkDumpHasContext
    BY WP!SuccessSuffices DEF WrittenInv
  <2>3. ASSUME NEW t \in Dumping, child[t] = "permitted" PROVE copy[t].path \notin DOMAIN files
    <3>1. GP!Running(t)
      BY <2>3 DEF GP!Running, GP!Exited
    <3>2. pc[t] # "idle"
      BY <3>1 DEF IInv, GP!IInv, GP!ChildOK
    <3> QED BY <2>3, <3>1, <3>2 DEF WrittenInv, FilesInv, PathOK, ToBeUsed
  <2> QED BY <2>1, <2>2, <2>3
          DEF SuccessIsComplete, Process!PathIsFresh, Writer!OkDumpIsComplete,
              WP!OkDumpIsComplete, Writer!OkDumpHasContext, WP!OkDumpHasContext
<1> QED
  BY <1>1, <1>2, <1>3, Invariance, PTL DEF Spec

=============================================================================
