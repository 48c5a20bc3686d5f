----------------------- MODULE ExceptionHandlerProofs -----------------------
(***************************************************************************)
(* Theorems about ExceptionHandler, for any sets of threads, handlers and  *)
(* signals, whoever constructs, destroys, crashes, simulates or meddles.   *)
(*                                                                         *)
(* The argument: whoever is in the loop over the stack of handlers, in the *)
(* constructor or in the destructor holds the mutex (MutexHeld), so the    *)
(* stack that the loop walks does not change under it (LoopOK), and what   *)
(* is on it is alive (StackOK).  For the same reason it implements         *)
(* HandlerChain: one thread at most asks the handlers, and one that asks   *)
(* for the first time has nothing handled yet (FreshOK).                   *)
(***************************************************************************)
EXTENDS ExceptionHandlerChain, SequenceTheorems, TLAPS

Frames == [sig : Signals \cup {None}, code : Codes, genuine : BOOLEAN,
           handled : BOOLEAN, from : Places]

\* As much of the types as the other parts of the invariant need.
Types ==
  /\ mutex \in Threads \cup {None}
  /\ stack \in Seq(Handlers)
  /\ DOMAIN pc = Threads
  /\ DOMAIN obj = Threads
  /\ frame \in [Threads -> Frames]
  /\ idx \in [Threads -> Nat]

\* The part of the type invariant that the other proofs use.
LEMMA TypesOK == TypeOK => Types
BY DEF TypeOK, Types, Frames

\* A thread outside SignalHandler has a well-typed, empty frame.
LEMMA NoFrameOK == NoFrame \in Frames /\ NoFrame.from = "run"
BY DEF NoFrame, Frames, Codes, Places

\* The initial values of the globals satisfy the inductive invariant.
LEMMA InitIInv == Init => IInv
<1> SUFFICES ASSUME Init PROVE IInv
  OBVIOUS
<1>1. disp \in [Signals -> Dispositions] /\ oldHandlers \in [Signals -> Dispositions]
  BY DEF Init, Dispositions, Foreign
<1>2. frame \in [Threads -> Frames]
  BY NoFrameOK DEF Init
<1>3. saved \in [Signals -> Dispositions \cup {None}] /\ obj \in [Threads -> Handlers \cup {None}]
  BY DEF Init
<1>4. pc \in [Threads -> Places \cup CrashStates \cup {"simulate"}] /\ idx \in [Threads -> Nat]
  BY DEF Init, Places
<1>5. stack \in Seq(Handlers)
  BY DEF Init
<1>6. TypeOK
  BY <1>1, <1>2, <1>3, <1>4, <1>5 DEF Init, TypeOK, Frames, Deaths
<1>7. MutexHeld /\ FramesOK /\ ObjectsOK /\ LoopOK /\ StackOK
  BY NoFrameOK DEF Init, MutexHeld, FramesOK, ObjectsOK, LoopOK, StackOK, At,
     HandlerLocked, CrashStates, Live
<1> QED BY <1>6, <1>7 DEF IInv

\* No step lets a second thread into what the mutex guards, or its holder out of
\* it with the mutex held.
LEMMA StepMutexHeld ==
  ASSUME IInv, NEW t \in Threads, Step(t)
  PROVE  MutexHeld'
<1>0. Types /\ MutexHeld /\ FramesOK /\ NoFrame.from = "run" /\ None \notin Threads
  BY TypesOK, NoFrameOK, ConstantsAssumption DEF IInv
<1> USE DEF Types, MutexHeld, FramesOK, At, HandlerLocked, Frames
<1>1. ASSUME NEW h \in Handlers, CtorEnter(t, h) \/ DtorEnter(t, h)
      PROVE  MutexHeld'
  BY <1>0, <1>1 DEF CtorEnter, DtorEnter, Acquire, Goto
<1>2. CASE CtorExit(t) \/ DtorExit(t)
  BY <1>0, <1>2 DEF CtorExit, DtorExit, Goto
<1>3. CASE SetFirstChance(t)
  BY <1>0, <1>3 DEF SetFirstChance
<1>4. CASE FirstChanceRecovers(t)
  BY <1>0, <1>4 DEF FirstChanceRecovers, ReturnFrom, Goto, Places
<1>5. CASE FirstChanceFaults(t) \/ FirstChanceDeclines(t)
  BY <1>0, <1>5 DEF FirstChanceFaults, FirstChanceDeclines, Goto, Die
<1>6. CASE Lock(t)
  BY <1>0, <1>6 DEF Lock, Acquire, Goto
<1>7. CASE ResetFlags(t)
  BY <1>0, <1>7 DEF ResetFlags, ReturnFrom, Goto
<1>8. CASE EnterLoop(t) \/ FilterDeclines(t) \/ FillContext(t) \/ FinishHandle(t)
  BY <1>0, <1>8 DEF EnterLoop, FilterDeclines, FillContext, FinishHandle, Goto, Die
<1>9. CASE SettleDisposition(t)
  BY <1>0, <1>9 DEF SettleDisposition, Goto
<1>10. CASE Reraise(t)
  BY <1>0, <1>10 DEF Reraise, Goto, ReturnFrom, Die
<1>11. CASE Retrigger(t) \/ Raise(t)
  BY <1>0, <1>11 DEF Retrigger, Raise, Deliver, Goto, Die, Places
<1>12. CASE SimulateStep(t) \/ MeddleStep(t)
  BY <1>0, <1>12 DEF SimulateStep, SimulateEnter, SimulateExit, MeddleStep,
     MeddleSave, MeddleRestore, Goto
<1> QED
  BY <1>1, <1>2, <1>3, <1>4, <1>5, <1>6, <1>7, <1>8, <1>9, <1>10, <1>11, <1>12
  DEF Step, HandlerStep, LifetimeStep

\* A thread inside SignalHandler has a signal; past the lock it has interrupted
\* ordinary code only.
LEMMA StepFramesOK ==
  ASSUME IInv, NEW t \in Threads, Step(t)
  PROVE  FramesOK'
<1>0. Types /\ FramesOK /\ NoFrame.from = "run"
  BY TypesOK, NoFrameOK DEF IInv
<1> USE DEF Types, FramesOK, CrashStates, Frames
<1>1. CASE LifetimeStep(t)
  BY <1>0, <1>1 DEF LifetimeStep, CtorEnter, DtorEnter, CtorExit, DtorExit,
     SetFirstChance, Goto
<1>2. CASE FirstChanceRecovers(t)
  BY <1>0, <1>2 DEF FirstChanceRecovers, ReturnFrom, Goto, Places
<1>3. CASE FirstChanceFaults(t) \/ FirstChanceDeclines(t)
  BY <1>0, <1>3 DEF FirstChanceFaults, FirstChanceDeclines, Goto, Die
<1>4. CASE Lock(t)
  <2>1. frame[t].from = "run"
    BY <1>0, <1>4, ConstantsAssumption
    DEF IInv, MutexHeld, At, Lock, Acquire, Places
  <2> QED BY <1>0, <1>4, <2>1 DEF Lock, Goto
<1>5. CASE ResetFlags(t)
  <2>1. pc[t] = "check" /\ frame[t].from = "run"
    BY <1>0, <1>5 DEF ResetFlags
  <2>2. CASE Goto(t, "refault") /\ UNCHANGED frame
    BY <1>0, <2>1, <2>2 DEF Goto
  <2>3. CASE ReturnFrom(t)
    BY <1>0, <2>1, <2>3 DEF ReturnFrom, Goto
  <2> QED BY <1>5, <2>2, <2>3 DEF ResetFlags
<1>6. CASE EnterLoop(t) \/ FilterDeclines(t) \/ FillContext(t) \/ FinishHandle(t)
  <2>1. CASE EnterLoop(t) \/ FilterDeclines(t) \/ FillContext(t)
    BY <1>0, <2>1 DEF EnterLoop, FilterDeclines, FillContext, Goto, Die
  <2>2. CASE FinishHandle(t)
    BY <1>0, <2>2 DEF FinishHandle, Goto
  <2> QED BY <1>6, <2>1, <2>2
<1>7. CASE SettleDisposition(t)
  BY <1>0, <1>7 DEF SettleDisposition, Goto
<1>8. CASE Reraise(t)
  <2>1. ASSUME NEW resend \in BOOLEAN, Goto(t, "refault"),
               frame' = [frame EXCEPT ![t].code =
                           IF resend THEN "user" ELSE @]
        PROVE  FramesOK'
    BY <1>0, <1>8, <2>1 DEF Goto, Reraise
  <2>2. CASE ReturnFrom(t)
    BY <1>0, <1>8, <2>2 DEF Goto, ReturnFrom, Reraise
  <2>3. CASE Die("exit") \/ Die("fault")
    BY <1>0, <2>3 DEF Die
  <2> QED BY <1>8, <2>1, <2>2, <2>3 DEF Reraise
<1>9. ASSUME NEW s \in Signals, NEW c \in Codes, NEW from \in Places,
             pc[t] = "refault" => from = "run",
             pc[t] \in Places \cup {"refault"}, Deliver(t, s, c, from)
      PROVE  FramesOK'
  <2>1. CASE Die("default") \/ Die("other")
    BY <1>0, <2>1 DEF Die
  <2>2. CASE Goto(t, from) /\ frame' = [frame EXCEPT ![t] = NoFrame]
    BY <1>0, <2>2 DEF Goto, Places
  <2>3. CASE /\ Goto(t, "entered")
             /\ frame' = [frame EXCEPT ![t] =
                  [sig |-> s, code |-> c, genuine |-> disp[s] = "breakpad",
                   handled |-> FALSE, from |-> from]]
    BY <1>0, <2>3 DEF Goto
  <2> QED BY <1>9, <2>1, <2>2, <2>3 DEF Deliver
<1>10. CASE Retrigger(t)
  BY <1>0, <1>9, <1>10 DEF Retrigger
<1>11. CASE Raise(t)
  BY <1>0, <1>9, <1>11 DEF Raise, Places
<1>12. CASE SimulateStep(t) \/ MeddleStep(t)
  BY <1>0, <1>12 DEF SimulateStep, SimulateEnter, SimulateExit, MeddleStep,
     MeddleSave, MeddleRestore, Goto
<1> QED
  BY <1>1, <1>2, <1>3, <1>4, <1>5, <1>6, <1>7, <1>8, <1>10, <1>11, <1>12
  DEF Step, HandlerStep

\* What a constructor builds is new, whatever other threads do meanwhile.
LEMMA StepObjectsOK ==
  ASSUME IInv, NEW t \in Threads, Step(t)
  PROVE  ObjectsOK'
<1>0. Types /\ MutexHeld /\ FramesOK /\ ObjectsOK /\ NoFrame.from = "run"
        /\ None \notin Threads
  BY TypesOK, NoFrameOK, ConstantsAssumption DEF IInv
<1> USE DEF Types, MutexHeld, FramesOK, ObjectsOK, At, Frames, Live
<1>1. ASSUME NEW h \in Handlers, CtorEnter(t, h)
      PROVE  ObjectsOK'
  BY <1>0, <1>1 DEF CtorEnter, Acquire, Goto
<1>2. ASSUME NEW h \in Handlers, DtorEnter(t, h)
      PROVE  ObjectsOK'
  BY <1>0, <1>2 DEF DtorEnter, Acquire, Goto
<1>3. CASE CtorExit(t)
  BY <1>0, <1>3 DEF CtorExit, Goto
<1>4. CASE DtorExit(t)
  BY <1>0, <1>4 DEF DtorExit, Goto
<1>5. CASE SetFirstChance(t)
  BY <1>0, <1>5 DEF SetFirstChance
<1>6. CASE FirstChanceRecovers(t)
  BY <1>0, <1>6 DEF FirstChanceRecovers, ReturnFrom, Goto, Places
<1>7. CASE FirstChanceFaults(t) \/ FirstChanceDeclines(t)
  BY <1>0, <1>7 DEF FirstChanceFaults, FirstChanceDeclines, Goto, Die
<1>8. CASE Lock(t)
  BY <1>0, <1>8 DEF Lock, Goto
<1>9. CASE ResetFlags(t)
  <2>1. UNCHANGED <<stack, gone, obj>> /\ frame[t].from = "run"
    BY <1>0, <1>9 DEF ResetFlags
  <2>2. CASE Goto(t, "refault") /\ UNCHANGED frame
    BY <1>0, <2>1, <2>2 DEF Goto
  <2>3. CASE ReturnFrom(t)
    BY <1>0, <2>1, <2>3 DEF ReturnFrom, Goto
  <2> QED BY <1>9, <2>2, <2>3 DEF ResetFlags
<1>10. CASE EnterLoop(t) \/ FilterDeclines(t) \/ FillContext(t) \/ FinishHandle(t)
  BY <1>0, <1>10 DEF EnterLoop, FilterDeclines, FillContext, FinishHandle, Goto, Die
<1>11. CASE SettleDisposition(t)
  BY <1>0, <1>11 DEF SettleDisposition, Goto
<1>12. CASE Reraise(t)
  <2>0. UNCHANGED <<stack, gone, obj>> /\ frame[t].from = "run"
    BY <1>0, <1>12 DEF Reraise, Die
  <2>1. ASSUME NEW resend \in BOOLEAN, Goto(t, "refault"),
               frame' = [frame EXCEPT ![t].code =
                           IF resend THEN "user" ELSE @]
        PROVE  ObjectsOK'
    BY <1>0, <2>0, <2>1 DEF Goto
  <2>2. CASE ReturnFrom(t)
    BY <1>0, <2>0, <2>2 DEF Goto, ReturnFrom
  <2>3. CASE UNCHANGED <<pc, frame>>
    <3>1. ObjectsOK
      BY <1>0
    <3> QED BY <2>0, <2>3, <3>1
  <2> QED BY <1>12, <2>1, <2>2, <2>3 DEF Reraise, Die
<1>13. ASSUME NEW s \in Signals, NEW c \in Codes, NEW from \in Places,
              At(t, "ctor") <=> from = "ctor", pc[t] # "simulate",
              Deliver(t, s, c, from)
       PROVE  ObjectsOK'
  <2>0. UNCHANGED <<stack, gone, obj>>
    BY <1>13 DEF Deliver, Die
  <2>1. CASE UNCHANGED <<pc, frame>>
    <3>1. ObjectsOK
      BY <1>0
    <3> QED BY <2>0, <2>1, <3>1
  <2>2. CASE Goto(t, from) /\ frame' = [frame EXCEPT ![t] = NoFrame]
    BY <1>0, <1>13, <2>0, <2>2 DEF Goto, Places
  <2>3. CASE /\ Goto(t, "entered")
             /\ frame' = [frame EXCEPT ![t] =
                  [sig |-> s, code |-> c, genuine |-> disp[s] = "breakpad",
                   handled |-> FALSE, from |-> from]]
    BY <1>0, <1>13, <2>0, <2>3 DEF Goto
  <2> QED BY <1>13, <2>1, <2>2, <2>3 DEF Deliver, Die
<1>14. CASE Retrigger(t) \/ Raise(t)
  <2>1. CASE Retrigger(t)
    <3>1. pc[t] = "refault" /\ frame[t].from = "run"
      BY <1>0, <2>1 DEF Retrigger
    <3>2. frame[t].sig \in Signals /\ frame[t].code \in Codes
      BY <1>0, <3>1 DEF CrashStates
    <3>3. Deliver(t, frame[t].sig, frame[t].code, "run")
      BY <2>1, <3>1 DEF Retrigger
    <3> QED BY <1>13, <3>1, <3>2, <3>3 DEF Places
  <2>2. CASE Raise(t)
    BY <1>0, <1>13, <2>2 DEF Raise, Places
  <2> QED BY <1>14, <2>1, <2>2
<1>15. ASSUME NEW h \in Handlers, SimulateEnter(t, h)
       PROVE  ObjectsOK'
  BY <1>0, <1>15 DEF SimulateEnter, Goto
<1>16. CASE SimulateExit(t)
  <2>1. /\ UNCHANGED <<stack, gone, frame>> /\ frame[t].from = "run"
        /\ pc' = [pc EXCEPT ![t] = "run"] /\ obj' = [obj EXCEPT ![t] = None]
    BY <1>0, <1>16 DEF SimulateExit, Goto
  <2> QED BY <1>0, <2>1
<1>17. CASE MeddleStep(t)
  BY <1>0, <1>17 DEF MeddleStep, MeddleSave, MeddleRestore
<1> QED
  BY <1>1, <1>2, <1>3, <1>4, <1>5, <1>6, <1>7, <1>8, <1>9, <1>10, <1>11, <1>12,
     <1>14, <1>15, <1>16, <1>17
  DEF Step, HandlerStep, LifetimeStep, SimulateStep

\* The loop variable of SignalHandler stays inside the stack.
LEMMA StepLoopOK ==
  ASSUME IInv, NEW t \in Threads, Step(t)
  PROVE  LoopOK'
<1>0. Types /\ MutexHeld /\ FramesOK /\ LoopOK /\ NoFrame.from = "run"
        /\ Len(stack) \in Nat
  BY TypesOK, NoFrameOK DEF IInv, Types
<1> USE DEF Types, LoopOK, Frames
<1>1. CASE CtorExit(t) \/ DtorExit(t)
  <2>1. \A u \in Threads : pc[u] \in {"loop", "dump"} => u = t
    BY <1>0, <1>1 DEF CtorExit, DtorExit, MutexHeld, At, HandlerLocked
  <2>2. pc' = [pc EXCEPT ![t] = "run"] /\ idx' = idx
    BY <1>1 DEF CtorExit, DtorExit, Goto
  <2> QED BY <1>0, <2>1, <2>2
<1>2. CASE (\E h \in Handlers : CtorEnter(t, h) \/ DtorEnter(t, h))
             \/ SetFirstChance(t)
  BY <1>0, <1>2 DEF CtorEnter, DtorEnter, SetFirstChance, Goto
<1>3. CASE FirstChanceRecovers(t)
  BY <1>0, <1>3 DEF FirstChanceRecovers, ReturnFrom, Goto, Places
<1>4. CASE FirstChanceFaults(t) \/ FirstChanceDeclines(t) \/ Lock(t)
  BY <1>0, <1>4 DEF FirstChanceFaults, FirstChanceDeclines, Lock, Goto, Die
<1>5. CASE ResetFlags(t)
  BY <1>0, <1>5 DEF ResetFlags, ReturnFrom, Goto, Places
<1>6. CASE EnterLoop(t)
  BY <1>0, <1>6 DEF EnterLoop, Newest, Goto, Die
<1>7. CASE FilterDeclines(t)
  BY <1>0, <1>7 DEF FilterDeclines
<1>8. CASE FillContext(t)
  BY <1>0, <1>8 DEF FillContext, Goto, Die
<1>9. CASE FinishHandle(t)
  BY <1>0, <1>9 DEF FinishHandle, Goto
<1>10. CASE SettleDisposition(t)
  BY <1>0, <1>10 DEF SettleDisposition, Goto
<1>11. CASE Reraise(t)
  BY <1>0, <1>11 DEF Reraise, Goto, ReturnFrom, Die, Places
<1>12. CASE Retrigger(t)
  BY <1>0, <1>12 DEF Retrigger, Deliver, Goto, Die, Places
<1>13. CASE Raise(t)
  BY <1>0, <1>13 DEF Raise, Deliver, Goto, Die, Places
<1>14. CASE SimulateStep(t) \/ MeddleStep(t)
  BY <1>0, <1>14 DEF SimulateStep, SimulateEnter, SimulateExit, MeddleStep,
     MeddleSave, MeddleRestore, Goto
<1> QED
  BY <1>1, <1>2, <1>3, <1>4, <1>5, <1>6, <1>7, <1>8, <1>9, <1>10, <1>11, <1>12,
     <1>13, <1>14
  DEF Step, HandlerStep, LifetimeStep

\* What a step that neither constructs nor destroys leaves alone.
LEMMA StackUnchanged ==
  ASSUME NEW t \in Threads, Step(t), ~CtorExit(t), ~DtorExit(t)
  PROVE  UNCHANGED <<stack, gone>>
<1>1. CASE LifetimeStep(t)
  BY <1>1 DEF LifetimeStep, CtorEnter, DtorEnter, SetFirstChance
<1>2. CASE HandlerStep(t) \/ Raise(t)
  <2>1. CASE Retrigger(t) \/ Raise(t)
    BY <2>1 DEF Retrigger, Raise, Deliver, Die
  <2>2. CASE Reraise(t)
    BY <2>2 DEF Reraise, Die
  <2> QED
    BY <1>2, <2>1, <2>2 DEF HandlerStep, FirstChanceRecovers, FirstChanceFaults,
       FirstChanceDeclines, Lock, ResetFlags, EnterLoop, FilterDeclines,
       FillContext, FinishHandle, SettleDisposition, Die
<1>3. CASE SimulateStep(t) \/ MeddleStep(t)
  BY <1>3 DEF SimulateStep, SimulateEnter, SimulateExit, MeddleStep, MeddleSave,
     MeddleRestore
<1> QED BY <1>1, <1>2, <1>3 DEF Step

\* Erasing an element of a sequence.
LEMMA WithoutIsSeq ==
  ASSUME NEW S, NEW s \in Seq(S), NEW i \in 1..Len(s)
  PROVE  /\ Without(s, i) \in Seq(S)
         /\ Len(Without(s, i)) = Len(s) - 1
         /\ \A j \in 1..(Len(s) - 1) :
              Without(s, i)[j] = IF j < i THEN s[j] ELSE s[j + 1]
<1>1. Len(s) - 1 \in Nat /\ \A j \in 1..Len(s) : s[j] \in S
  BY LenProperties
<1>2. \A j \in 1..(Len(s) - 1) : (IF j < i THEN s[j] ELSE s[j + 1]) \in S
  BY <1>1, LenProperties
<1> QED BY <1>1, <1>2 DEF Without

\* No handler is on the stack twice, or after it has been destroyed.
LEMMA StepStackOK ==
  ASSUME IInv, NEW t \in Threads, Step(t)
  PROVE  StackOK'
<1>0. /\ stack \in Seq(Handlers) /\ ObjectsOK /\ StackOK
      /\ Len(stack) \in Nat
  BY TypesOK DEF IInv, Types
<1>1. CASE CtorExit(t)
  <2>1. /\ stack' = Append(stack, obj[t]) /\ gone' = gone
        /\ obj[t] \in Handlers \ (Live \cup gone)
    BY <1>0, <1>1 DEF CtorExit, Push, ObjectsOK, At
  <2> QED BY <1>0, <2>1 DEF StackOK, Live
<1>2. CASE DtorExit(t)
  <2>1. PICK i \in 1..Len(stack) :
          /\ stack[i] = obj[t]
          /\ IF Len(stack) = 1 THEN stack' = <<>> ELSE stack' = Without(stack, i)
    BY <1>2 DEF DtorExit
  <2>2. gone' = gone \cup {stack[i]}
    BY <1>2, <2>1 DEF DtorExit
  <2>3. CASE Len(stack) = 1
    BY <2>1, <2>3 DEF StackOK
  <2>4. CASE Len(stack) # 1
    <3>1. /\ Len(stack') = Len(stack) - 1
          /\ \A j \in 1..(Len(stack) - 1) :
               stack'[j] = IF j < i THEN stack[j] ELSE stack[j + 1]
      BY <1>0, <2>1, <2>4, WithoutIsSeq
    <3>2. \A j \in 1..Len(stack') :
            stack'[j] \notin gone /\ stack'[j] # stack[i]
      BY <1>0, <2>1, <3>1 DEF StackOK
    <3>3. \A j, k \in 1..Len(stack') : stack'[j] = stack'[k] => j = k
      BY <1>0, <2>1, <3>1 DEF StackOK
    <3> QED BY <2>2, <3>2, <3>3 DEF StackOK
  <2> QED BY <2>3, <2>4
<1>3. CASE ~CtorExit(t) /\ ~DtorExit(t)
  BY <1>0, <1>3, StackUnchanged DEF StackOK
<1> QED BY <1>1, <1>2, <1>3

(***************************************************************************)
(* Types.                                                                  *)
(***************************************************************************)


\* The variables that SignalHandler leaves alone or changes simply.
Globals ==
  /\ disp \in [Signals -> Dispositions]
  /\ oldHandlers \in [Signals -> Dispositions]
  /\ installed \in BOOLEAN
  /\ saved \in [Signals -> Dispositions \cup {None}]

\* Steps keep the types of the dispositions and of what is saved of them.
LEMMA StepGlobals ==
  ASSUME IInv, NEW t \in Threads, Step(t)
  PROVE  Globals'
<1>0. Globals
  BY DEF IInv, TypeOK, Globals
<1> USE DEF Globals, Dispositions, Foreign, Breakpad
<1>1. CASE CtorExit(t)
  BY <1>0, <1>1 DEF CtorExit, InstallHandlersLocked
<1>2. CASE DtorExit(t)
  BY <1>0, <1>2 DEF DtorExit, RestoreHandlersLocked
<1>3. CASE ResetFlags(t)
  BY <1>0, <1>3 DEF ResetFlags
<1>4. CASE SettleDisposition(t)
  BY <1>0, <1>4 DEF SettleDisposition, InstallDefaultHandler, RestoreHandlersLocked
<1>5. CASE MeddleStep(t)
  BY <1>0, <1>5 DEF MeddleStep, MeddleSave, MeddleRestore
<1>6. CASE (\E h \in Handlers : CtorEnter(t, h) \/ DtorEnter(t, h))
             \/ SetFirstChance(t) \/ SimulateStep(t)
  BY <1>0, <1>6 DEF CtorEnter, DtorEnter, SetFirstChance, SimulateStep,
     SimulateEnter, SimulateExit
<1>7. CASE Retrigger(t) \/ Raise(t)
  BY <1>0, <1>7 DEF Retrigger, Raise, Deliver, Die
<1>8. CASE Reraise(t)
  BY <1>0, <1>8 DEF Reraise, Die
<1>9. CASE FirstChanceRecovers(t) \/ FirstChanceFaults(t)
             \/ FirstChanceDeclines(t) \/ Lock(t) \/ EnterLoop(t)
             \/ FilterDeclines(t) \/ FillContext(t) \/ FinishHandle(t)
  BY <1>0, <1>9 DEF FirstChanceRecovers, FirstChanceFaults,
     FirstChanceDeclines, Lock, EnterLoop, FilterDeclines, FillContext,
     FinishHandle, Die
<1> QED
  BY <1>1, <1>2, <1>3, <1>4, <1>5, <1>6, <1>7, <1>8, <1>9
  DEF Step, HandlerStep, LifetimeStep

\* The stack, the mutex and the crash context.
Shared ==
  /\ stack \in Seq(Handlers)
  /\ gone \subseteq Handlers
  /\ mutex \in Threads \cup {None}
  /\ firstChance \in BOOLEAN
  /\ context \in Threads \cup {None}
  /\ reports \subseteq [thread : Threads, handler : Handlers,
                         context : Threads \cup {None}]
  /\ obj \in [Threads -> Handlers \cup {None}]
  /\ death \in Deaths

\* Steps keep the types of the other state that threads share.
LEMMA StepShared ==
  ASSUME IInv, NEW t \in Threads, Step(t)
  PROVE  Shared'
<1>0. Shared /\ Len(stack) \in Nat
  BY DEF IInv, TypeOK, Shared
<1> USE DEF Shared, Deaths
<1>1. ASSUME NEW h \in Handlers, CtorEnter(t, h) \/ DtorEnter(t, h)
      PROVE  Shared'
  BY <1>0, <1>1 DEF CtorEnter, DtorEnter, Acquire
<1>2. CASE CtorExit(t)
  <2>1. obj[t] \in Handlers
    BY <1>2 DEF CtorExit, IInv, ObjectsOK, At
  <2> QED BY <1>0, <1>2, <2>1 DEF CtorExit, Push
<1>3. CASE DtorExit(t)
  <2>1. PICK i \in 1..Len(stack) :
          /\ stack[i] = obj[t]
          /\ IF Len(stack) = 1 THEN stack' = <<>> ELSE stack' = Without(stack, i)
    BY <1>3 DEF DtorExit
  <2>2. stack' \in Seq(Handlers) /\ obj[t] \in Handlers
    BY <1>0, <2>1, WithoutIsSeq, ElementOfSeq
  <2> QED BY <1>0, <1>3, <2>2 DEF DtorExit
<1>4. CASE SetFirstChance(t)
  BY <1>0, <1>4 DEF SetFirstChance
<1>5. CASE FirstChanceRecovers(t) \/ FirstChanceDeclines(t)
             \/ FilterDeclines(t) \/ ResetFlags(t) \/ SettleDisposition(t)
  BY <1>0, <1>5 DEF FirstChanceRecovers, FirstChanceDeclines, FilterDeclines,
     ResetFlags, SettleDisposition
<1>6. CASE FirstChanceFaults(t) \/ EnterLoop(t) \/ FillContext(t)
  BY <1>0, <1>6 DEF FirstChanceFaults, EnterLoop, FillContext, Die
<1>7. CASE Lock(t)
  BY <1>0, <1>7 DEF Lock, Acquire
<1>8. CASE FinishHandle(t)
  <2>1. idx[t] \in 1..Len(stack)
    BY <1>8 DEF FinishHandle, IInv, TypeOK, LoopOK
  <2>2. Report(t, stack[idx[t]]) \in
          [thread : Threads, handler : Handlers, context : Threads \cup {None}]
    BY <1>0, <2>1, ElementOfSeq DEF Report
  <2> QED BY <1>0, <1>8, <2>2 DEF FinishHandle
<1>9. CASE Reraise(t) \/ Retrigger(t) \/ Raise(t)
  BY <1>0, <1>9 DEF Reraise, Retrigger, Raise, Deliver, Die
<1>10. ASSUME NEW h \in Handlers, SimulateEnter(t, h)
       PROVE  Shared'
  BY <1>0, <1>10 DEF SimulateEnter
<1>11. CASE SimulateExit(t)
  <2>1. Report(t, obj[t]) \in
          [thread : Threads, handler : Handlers, context : Threads \cup {None}]
    BY <1>0, <1>11 DEF Report, SimulateExit, IInv, ObjectsOK
  <2> QED BY <1>0, <1>11, <2>1 DEF SimulateExit
<1>12. CASE MeddleStep(t)
  BY <1>0, <1>12 DEF MeddleStep, MeddleSave, MeddleRestore
<1> QED
  BY <1>1, <1>2, <1>3, <1>4, <1>5, <1>6, <1>7, <1>8, <1>9, <1>10, <1>11, <1>12
  DEF Step, HandlerStep, LifetimeStep, SimulateStep

\* What each thread keeps.
Locals ==
  /\ pc \in [Threads -> Places \cup CrashStates \cup {"simulate"}]
  /\ frame \in [Threads -> Frames]
  /\ idx \in [Threads -> Nat]

\* The delivery of a signal keeps the types of the state of its thread.
LEMMA DeliverLocals ==
  ASSUME Locals, NEW t \in Threads, NEW s \in Signals, NEW c \in Codes,
         NEW from \in Places, Deliver(t, s, c, from)
  PROVE  Locals'
<1>1. CASE Die("default") \/ Die("other")
  BY <1>1 DEF Die, Locals
<1>2. CASE /\ Goto(t, from) /\ frame' = [frame EXCEPT ![t] = NoFrame]
           /\ idx' = idx
  BY <1>2, NoFrameOK DEF Goto, Locals
<1>3. CASE /\ Goto(t, "entered")
           /\ frame' = [frame EXCEPT ![t] =
                [sig |-> s, code |-> c, genuine |-> disp[s] = "breakpad",
                 handled |-> FALSE, from |-> from]]
           /\ idx' = idx
  <2>1. [sig |-> s, code |-> c, genuine |-> disp[s] = "breakpad",
         handled |-> FALSE, from |-> from] \in Frames
    BY DEF Frames
  <2> QED BY <1>3, <2>1 DEF Goto, Locals, CrashStates
<1> QED BY <1>1, <1>2, <1>3 DEF Deliver

\* Steps keep the types of the state of each thread.
LEMMA StepLocals ==
  ASSUME IInv, NEW t \in Threads, Step(t)
  PROVE  Locals'
<1>0. Locals /\ frame[t].from \in Places /\ frame[t] \in Frames
  BY DEF IInv, TypeOK, Locals, Frames
<1> USE DEF Locals
<1>1. CASE LifetimeStep(t) \/ SimulateStep(t) \/ MeddleStep(t)
  BY <1>0, <1>1 DEF LifetimeStep, CtorEnter, DtorEnter, CtorExit, DtorExit,
     SetFirstChance, SimulateStep, SimulateEnter, SimulateExit, MeddleStep,
     MeddleSave, MeddleRestore, Goto, Places
<1>2. CASE FirstChanceRecovers(t)
  BY <1>0, <1>2, NoFrameOK DEF FirstChanceRecovers, ReturnFrom, Goto
<1>3. CASE FirstChanceFaults(t) \/ FirstChanceDeclines(t) \/ Lock(t)
  BY <1>0, <1>3 DEF FirstChanceFaults, FirstChanceDeclines, Lock, Goto, Die,
     CrashStates
<1>4. CASE ResetFlags(t)
  BY <1>0, <1>4, NoFrameOK DEF ResetFlags, ReturnFrom, Goto, CrashStates
<1>5. CASE EnterLoop(t)
  <2>1. Len(stack) \in Nat
    BY DEF IInv, TypeOK
  <2> QED BY <1>0, <1>5, <2>1 DEF EnterLoop, Newest, Goto, Die, CrashStates
<1>6. CASE FilterDeclines(t)
  BY <1>0, <1>6 DEF FilterDeclines
<1>7. CASE FillContext(t)
  BY <1>0, <1>7 DEF FillContext, Goto, Die, CrashStates
<1>8. CASE FinishHandle(t)
  <2>1. idx[t] - 1 \in Nat
    BY <1>8 DEF FinishHandle, IInv, TypeOK, LoopOK
  <2>2. [frame[t] EXCEPT !.handled = TRUE] \in Frames
    BY <1>0 DEF Frames
  <2> QED BY <1>0, <1>8, <2>1, <2>2 DEF FinishHandle, Goto, CrashStates
<1>9. CASE SettleDisposition(t)
  BY <1>0, <1>9 DEF SettleDisposition, Goto, CrashStates
<1>10. CASE Reraise(t)
  <2>1. ASSUME NEW resend \in BOOLEAN, Goto(t, "refault"), idx' = idx,
               frame' = [frame EXCEPT ![t].code =
                           IF resend THEN "user" ELSE @]
        PROVE  Locals'
    <3>1. [frame[t] EXCEPT !.code = IF resend THEN "user" ELSE @] \in Frames
      BY <1>0 DEF Frames, Codes
    <3> QED BY <1>0, <2>1, <3>1 DEF Goto, CrashStates
  <2>2. CASE ReturnFrom(t) /\ idx' = idx
    BY <1>0, <2>2, NoFrameOK DEF Goto, ReturnFrom
  <2>3. CASE Die("exit") \/ Die("fault")
    BY <1>0, <2>3 DEF Die
  <2> QED BY <1>10, <2>1, <2>2, <2>3 DEF Reraise
<1>11. CASE Retrigger(t)
  <2>1. frame[t].sig \in Signals /\ frame[t].code \in Codes
    BY <1>0, <1>11 DEF Retrigger, IInv, FramesOK, CrashStates, Frames
  <2> QED BY <1>0, <1>11, <2>1, DeliverLocals DEF Retrigger
<1>12. CASE Raise(t)
  BY <1>0, <1>12, DeliverLocals DEF Raise
<1> QED
  BY <1>1, <1>2, <1>3, <1>4, <1>5, <1>6, <1>7, <1>8, <1>9, <1>10, <1>11, <1>12
  DEF Step, HandlerStep

\* Steps keep every type.
LEMMA StepTypeOK ==
  ASSUME IInv, NEW t \in Threads, Step(t)
  PROVE  TypeOK'
BY StepGlobals, StepShared, StepLocals
DEF TypeOK, Globals, Shared, Locals, Frames

(***************************************************************************)
(* The theorems.                                                           *)
(***************************************************************************)

\* The inductive invariant is preserved by every step.
LEMMA NextIInv == IInv /\ [Next]_vars => IInv'
<1> SUFFICES ASSUME IInv, [Next]_vars PROVE IInv'
  OBVIOUS
<1>1. CASE UNCHANGED vars
  BY <1>1 DEF vars, IInv, TypeOK, MutexHeld, FramesOK, ObjectsOK, LoopOK,
     StackOK, At, Live
<1>2. ASSUME NEW t \in Threads, Step(t) PROVE IInv'
  BY <1>2, StepTypeOK, StepMutexHeld, StepFramesOK, StepObjectsOK, StepLoopOK,
     StepStackOK DEF IInv
<1> QED BY <1>1, <1>2 DEF Next, Dead

\* The mutex of the handlers is held by whoever is inside it, and what it guards is
\* sound meanwhile: the inductive invariant, for every choice of the constants.
THEOREM Invariance == Spec => []IInv
<1>1. Init => IInv
  BY InitIInv
<1>2. IInv /\ [Next]_vars => IInv'
  BY NextIInv
<1> QED BY <1>1, <1>2, PTL DEF Spec

\* Every variable keeps its type, for every choice of the constants.
THEOREM TypeCorrect == Spec => []TypeOK
<1>1. IInv => TypeOK
  BY DEF IInv
<1> QED BY <1>1, Invariance, PTL

\* The handler that SignalHandler asks is on the stack and alive, whatever the
\* other threads construct, destroy, simulate or do to the dispositions.
THEOREM HandlerInUseHolds == Spec => []HandlerInUse
<1>1. IInv => HandlerInUse
  BY DEF IInv, TypeOK, LoopOK, StackOK, HandlerInUse
<1> QED BY <1>1, Invariance, PTL

(***************************************************************************)
(* The crash context, when nobody calls SimulateSignalDelivery.            *)
(***************************************************************************)

ContextOK ==
  /\ \A t \in Threads : pc[t] = "dump" => context = t
  /\ \A t \in Threads : pc[t] # "simulate"
  /\ DumpsOwnContext

\* The thread that uses the crash context holds the mutex, and nobody writes
\* the context without holding it.
LEMMA StepContextOK ==
  ASSUME Simulators = {}, IInv, ContextOK, NEW t \in Threads, Step(t)
  PROVE  ContextOK'
<1>0. Types /\ MutexHeld /\ FramesOK /\ ContextOK /\ NoFrame.from = "run"
        /\ None \notin Threads
  BY TypesOK, NoFrameOK, ConstantsAssumption DEF IInv
<1> USE DEF Types, ContextOK, DumpsOwnContext
<1>1. ASSUME NEW h \in Handlers, CtorEnter(t, h)
      PROVE  ContextOK'
  <2>1. \A u \in Threads : pc[u] # "dump"
    BY <1>0, <1>1 DEF CtorEnter, Acquire, MutexHeld, HandlerLocked
  <2> QED BY <1>0, <1>1, <2>1 DEF CtorEnter, Goto
<1>2. ASSUME NEW h \in Handlers, DtorEnter(t, h)
      PROVE  ContextOK'
  BY <1>0, <1>2 DEF DtorEnter, Goto
<1>3. CASE CtorExit(t) \/ DtorExit(t) \/ SetFirstChance(t)
  BY <1>0, <1>3 DEF CtorExit, DtorExit, SetFirstChance, Goto
<1>4. CASE FirstChanceRecovers(t)
  BY <1>0, <1>4 DEF FirstChanceRecovers, ReturnFrom, Goto, Frames, Places
<1>5. CASE FirstChanceFaults(t) \/ FirstChanceDeclines(t) \/ Lock(t)
  BY <1>0, <1>5 DEF FirstChanceFaults, FirstChanceDeclines, Lock, Goto, Die
<1>6. CASE ResetFlags(t)
  <2>1. UNCHANGED <<context, reports>> /\ frame[t].from = "run"
    BY <1>0, <1>6 DEF ResetFlags, FramesOK
  <2>2. pc' = [pc EXCEPT ![t] = "refault"] \/ pc' = [pc EXCEPT ![t] = "run"]
    BY <1>6, <2>1 DEF ResetFlags, ReturnFrom, Goto
  <2>3. ContextOK /\ DOMAIN pc = Threads
    BY <1>0
  <2>4. \A u \in Threads : pc'[u] = pc[u] \/ pc'[u] \in {"refault", "run"}
    BY <2>2, <2>3
  <2>5. \A u \in Threads : (pc'[u] = "dump" => context' = u) /\ pc'[u] # "simulate"
    BY <2>1, <2>3, <2>4
  <2> QED BY <2>1, <2>3, <2>5
<1>7. CASE EnterLoop(t) \/ FilterDeclines(t)
  BY <1>0, <1>7 DEF EnterLoop, FilterDeclines, Goto, Die
<1>8. CASE FillContext(t)
  <2>1. \A u \in Threads : pc[u] = "dump" => u = t
    BY <1>0, <1>8 DEF FillContext, MutexHeld, HandlerLocked
  <2> QED BY <1>0, <1>8, <2>1 DEF FillContext, Goto, Die
<1>9. CASE FinishHandle(t)
  BY <1>0, <1>9 DEF FinishHandle, Report, Goto
<1>10. CASE SettleDisposition(t)
  BY <1>0, <1>10 DEF SettleDisposition, Goto
<1>11. CASE Reraise(t)
  BY <1>0, <1>11 DEF Reraise, ReturnFrom, Goto, Die, Frames, Places
<1>12. CASE Retrigger(t) \/ Raise(t)
  BY <1>0, <1>12 DEF Retrigger, Raise, Deliver, Goto, Die, Frames, Places
<1>13. CASE SimulateStep(t)
  BY <1>0, <1>13 DEF SimulateStep, SimulateEnter, SimulateExit
<1>14. CASE MeddleStep(t)
  BY <1>0, <1>14 DEF MeddleStep, MeddleSave, MeddleRestore
<1> QED
  BY <1>1, <1>2, <1>3, <1>4, <1>5, <1>6, <1>7, <1>8, <1>9, <1>10, <1>11, <1>12,
     <1>13, <1>14
  DEF Step, HandlerStep, LifetimeStep

\* Without simulated signals every dump describes the crash of its own thread,
\* however many threads crash and construct handlers at the same time.
THEOREM DumpsOwnContextHolds ==
  ASSUME Simulators = {}
  PROVE  Spec => []DumpsOwnContext
<1>1. Init => ContextOK
  BY DEF Init, ContextOK, DumpsOwnContext
<1>2. IInv /\ ContextOK /\ [Next]_vars => ContextOK'
  <2> SUFFICES ASSUME IInv, ContextOK, [Next]_vars PROVE ContextOK'
    OBVIOUS
  <2>1. CASE UNCHANGED vars
    BY <2>1 DEF vars, ContextOK, DumpsOwnContext
  <2>2. ASSUME NEW t \in Threads, Step(t) PROVE ContextOK'
    BY <2>2, StepContextOK
  <2> QED BY <2>1, <2>2 DEF Next, Dead
<1>3. ContextOK => DumpsOwnContext
  BY DEF ContextOK
<1> QED BY <1>1, <1>2, <1>3, Invariance, PTL DEF Spec

(***************************************************************************)
(* The dispositions, when no other code restores handlers by signal().     *)
(***************************************************************************)

DispositionsOK ==
  /\ installed => \A s \in Signals : oldHandlers[s] \in Foreign
  /\ ~installed => \A s \in Signals : disp[s] \in Foreign
  /\ stack = <<>> => ~installed
  /\ \A s \in Signals : disp[s] # "noinfo"

\* Steps of a process without signal() keep the dispositions consistent with
\* handlers_installed.
LEMMA StepDispositionsOK ==
  ASSUME Meddlers = {}, IInv, DispositionsOK, NEW t \in Threads, Step(t)
  PROVE  DispositionsOK'
<1>0. DispositionsOK /\ Globals /\ stack \in Seq(Handlers)
  BY DEF IInv, TypeOK, Globals
<1> USE DEF DispositionsOK, Globals, Foreign
<1>1. CASE CtorExit(t)
  <2>1. stack' # <<>>
    BY <1>0, <1>1 DEF CtorExit, Push
  <2> QED BY <1>0, <1>1, <2>1 DEF CtorExit, InstallHandlersLocked
<1>2. CASE DtorExit(t)
  <2>1. PICK i \in 1..Len(stack) :
          IF Len(stack) = 1
          THEN stack' = <<>> /\ RestoreHandlersLocked
          ELSE /\ stack' = Without(stack, i)
               /\ UNCHANGED <<disp, oldHandlers, installed>>
    BY <1>2 DEF DtorExit
  <2>2. CASE Len(stack) = 1
    BY <1>0, <2>1, <2>2 DEF RestoreHandlersLocked
  <2>3. CASE Len(stack) # 1
    <3>1. Len(stack') = Len(stack) - 1 /\ Len(stack) \in Nat
      BY <1>0, <2>1, <2>3, WithoutIsSeq
    <3>2. stack' # <<>>
      BY <2>1, <2>3, <3>1
    <3> QED BY <1>0, <2>1, <2>3, <3>2
  <2> QED BY <2>2, <2>3
<1>3. CASE ResetFlags(t)
  <2>1. frame[t].sig \in Signals
    BY <1>3 DEF ResetFlags, IInv, FramesOK, CrashStates
  <2> QED BY <1>0, <1>3, <2>1 DEF ResetFlags
<1>4. CASE SettleDisposition(t)
  BY <1>0, <1>4 DEF SettleDisposition, InstallDefaultHandler, RestoreHandlersLocked
<1>5. CASE MeddleStep(t)
  BY <1>5 DEF MeddleStep, MeddleSave, MeddleRestore
<1>6. CASE (\E h \in Handlers : CtorEnter(t, h) \/ DtorEnter(t, h))
             \/ SetFirstChance(t) \/ SimulateStep(t)
  BY <1>0, <1>6 DEF CtorEnter, DtorEnter, SetFirstChance, SimulateStep,
     SimulateEnter, SimulateExit
<1>7. CASE Retrigger(t) \/ Raise(t)
  BY <1>0, <1>7 DEF Retrigger, Raise, Deliver, Die
<1>8. CASE Reraise(t)
  BY <1>0, <1>8 DEF Reraise, Die
<1>9. CASE FirstChanceRecovers(t) \/ FirstChanceFaults(t)
             \/ FirstChanceDeclines(t) \/ Lock(t) \/ EnterLoop(t)
             \/ FilterDeclines(t) \/ FillContext(t) \/ FinishHandle(t)
  BY <1>0, <1>9 DEF FirstChanceRecovers, FirstChanceFaults,
     FirstChanceDeclines, Lock, EnterLoop, FilterDeclines, FillContext,
     FinishHandle, Die
<1> QED
  BY <1>1, <1>2, <1>3, <1>4, <1>5, <1>6, <1>7, <1>8, <1>9
  DEF Step, HandlerStep, LifetimeStep

\* As long as no other code puts saved handlers back by signal(), Breakpad never
\* takes its own SignalHandler for an old handler, whichever threads construct
\* and destroy handlers while others crash.
THEOREM OldHandlersAreForeignHolds ==
  ASSUME Meddlers = {}
  PROVE  Spec => []OldHandlersAreForeign
<1>1. Init => DispositionsOK
  BY DEF Init, DispositionsOK, Foreign
<1>2. IInv /\ DispositionsOK /\ [Next]_vars => DispositionsOK'
  <2> SUFFICES ASSUME IInv, DispositionsOK, [Next]_vars PROVE DispositionsOK'
    OBVIOUS
  <2>1. CASE UNCHANGED vars
    BY <2>1 DEF vars, DispositionsOK
  <2>2. ASSUME NEW t \in Threads, Step(t) PROVE DispositionsOK'
    BY <2>2, StepDispositionsOK
  <2> QED BY <2>1, <2>2 DEF Next, Dead
<1>3. DispositionsOK => OldHandlersAreForeign
  BY DEF DispositionsOK, OldHandlersAreForeign
<1> QED BY <1>1, <1>2, <1>3, Invariance, PTL DEF Spec

(***************************************************************************)
(* Faults of the crash reporter itself: there are none while handlers are  *)
(* not destroyed and no other code takes SA_SIGINFO away.                  *)
(***************************************************************************)

SoundCrashes ==
  /\ death # "fault"
  /\ \A t \in Threads : ~At(t, "dtor")
  /\ \A t \in Threads :
       pc[t] \in CrashStates => frame[t].genuine /\ stack # <<>>

\* Steps of a process whose handlers stay keep genuine arguments and a stack for
\* every thread inside SignalHandler.
LEMMA StepSoundCrashes ==
  ASSUME Transient = {}, IInv, DispositionsOK, SoundCrashes, death = "alive",
         NEW t \in Threads, Step(t)
  PROVE  SoundCrashes'
<1>0. Types /\ FramesOK /\ SoundCrashes /\ DispositionsOK /\ NoFrame.from = "run"
        /\ death = "alive"
  BY TypesOK, NoFrameOK DEF IInv
<1> USE DEF Types, FramesOK, SoundCrashes, At, CrashStates, Frames
<1>1. ASSUME NEW h \in Handlers, CtorEnter(t, h)
      PROVE  SoundCrashes'
  BY <1>0, <1>1 DEF CtorEnter, Goto
<1>2. ASSUME NEW h \in Handlers, DtorEnter(t, h)
      PROVE  FALSE
  BY <1>2 DEF DtorEnter
<1>3. CASE CtorExit(t)
  <2>1. stack' # <<>>
    BY <1>0, <1>3 DEF CtorExit, Push
  <2> QED BY <1>0, <1>3, <2>1 DEF CtorExit, Goto
<1>4. CASE DtorExit(t)
  BY <1>0, <1>4 DEF DtorExit
<1>5. CASE SetFirstChance(t)
  BY <1>0, <1>5 DEF SetFirstChance
<1>6. CASE FirstChanceRecovers(t) \/ FirstChanceFaults(t)
  <2>1. FirstChanceRecovers(t)
    BY <1>0, <1>6 DEF FirstChanceFaults
  <2> QED BY <1>0, <2>1 DEF FirstChanceRecovers, ReturnFrom, Goto, Places
<1>7. CASE FirstChanceDeclines(t) \/ Lock(t)
  BY <1>0, <1>7 DEF FirstChanceDeclines, Lock, Goto
<1>8. CASE ResetFlags(t)
  BY <1>0, <1>8 DEF ResetFlags, DispositionsOK
<1>9. CASE EnterLoop(t) \/ FilterDeclines(t)
  BY <1>0, <1>9 DEF EnterLoop, FilterDeclines, Goto
<1>10. CASE FillContext(t)
  BY <1>0, <1>10 DEF FillContext, Goto
<1>11. CASE FinishHandle(t)
  <2>1. UNCHANGED <<stack, death>> /\ pc' = [pc EXCEPT ![t] = "loop"]
        /\ frame[t].genuine /\ stack # <<>> /\ frame[t].from = "run"
    BY <1>0, <1>11 DEF FinishHandle, Goto
  <2>2. \/ frame' = [frame EXCEPT ![t].handled = TRUE]
        \/ UNCHANGED frame
    BY <1>11 DEF FinishHandle
  <2> QED BY <1>0, <2>1, <2>2
<1>12. CASE SettleDisposition(t)
  BY <1>0, <1>12 DEF SettleDisposition, Goto
<1>13. CASE Reraise(t)
  <2>0. frame[t].genuine /\ stack # <<>> /\ frame[t].from = "run"
        /\ UNCHANGED stack /\ death' # "fault"
    BY <1>0, <1>13 DEF Reraise, Die
  <2>1. ASSUME NEW resend \in BOOLEAN, Goto(t, "refault"),
               frame' = [frame EXCEPT ![t].code =
                           IF resend THEN "user" ELSE @]
        PROVE  SoundCrashes'
    BY <1>0, <2>0, <2>1 DEF Goto
  <2>2. CASE ReturnFrom(t)
    BY <1>0, <2>0, <2>2 DEF Goto, ReturnFrom
  <2>3. CASE Die("exit")
    BY <1>0, <2>0, <2>3 DEF Die
  <2> QED BY <1>13, <2>0, <2>1, <2>2, <2>3 DEF Reraise, Die
<1>14. ASSUME NEW s \in Signals, NEW c \in Codes, NEW from \in Places,
              from # "dtor", Deliver(t, s, c, from)
       PROVE  SoundCrashes'
  <2>0. UNCHANGED stack /\ death' # "fault"
    BY <1>0, <1>14 DEF Deliver, Die
  <2>1. CASE UNCHANGED <<pc, frame>>
    <3>1. SoundCrashes
      BY <1>0
    <3> QED BY <2>0, <2>1, <3>1
  <2>2. CASE Goto(t, from) /\ frame' = [frame EXCEPT ![t] = NoFrame]
    BY <1>0, <1>14, <2>0, <2>2 DEF Goto, Places
  <2>3. CASE /\ disp[s] \in Breakpad
             /\ Goto(t, "entered")
             /\ frame' = [frame EXCEPT ![t] =
                  [sig |-> s, code |-> c, genuine |-> disp[s] = "breakpad",
                   handled |-> FALSE, from |-> from]]
    <3>1. disp[s] = "breakpad" /\ stack # <<>>
      BY <1>0, <2>3 DEF DispositionsOK, Breakpad, Foreign
    <3> QED BY <1>0, <1>14, <2>0, <2>3, <3>1 DEF Goto
  <2> QED BY <1>14, <2>1, <2>2, <2>3 DEF Deliver, Die
<1>15. CASE Retrigger(t)
  <2>1. pc[t] = "refault" /\ frame[t].from = "run"
    BY <1>0, <1>15 DEF Retrigger
  <2>2. frame[t].sig \in Signals /\ frame[t].code \in Codes
    BY <1>0, <2>1
  <2>3. Deliver(t, frame[t].sig, frame[t].code, "run")
    BY <1>15, <2>1 DEF Retrigger
  <2> QED BY <1>14, <2>2, <2>3 DEF Places
<1>16. CASE Raise(t)
  BY <1>0, <1>14, <1>16 DEF Raise, Places
<1>17. CASE SimulateStep(t)
  BY <1>0, <1>17 DEF SimulateStep, SimulateEnter, SimulateExit, Goto
<1>18. CASE MeddleStep(t)
  BY <1>0, <1>18 DEF MeddleStep, MeddleSave, MeddleRestore
<1> QED
  BY <1>1, <1>2, <1>3, <1>4, <1>5, <1>6, <1>7, <1>8, <1>9, <1>10, <1>11, <1>12,
     <1>13, <1>15, <1>16, <1>17, <1>18
  DEF Step, HandlerStep, LifetimeStep

\* The crash reporter never faults by itself when its handlers live as long as
\* the process and SA_SIGINFO stays set: the handler of native_capture.cpp.
THEOREM NeverFaultsHolds ==
  ASSUME Transient = {}, Meddlers = {}
  PROVE  Spec => []NeverFaults
<1> DEFINE Inv == IInv /\ DispositionsOK /\ SoundCrashes
<1>1. Init => Inv
  <2> SUFFICES ASSUME Init PROVE Inv
    OBVIOUS
  <2>1. DispositionsOK
    BY DEF Init, DispositionsOK, Foreign
  <2>2. SoundCrashes
    BY NoFrameOK DEF Init, SoundCrashes, At, CrashStates
  <2> QED BY <2>1, <2>2, InitIInv
<1>2. Inv /\ [Next]_vars => Inv'
  <2> SUFFICES ASSUME Inv, [Next]_vars PROVE DispositionsOK' /\ SoundCrashes'
    BY NextIInv
  <2>1. CASE UNCHANGED vars
    BY <2>1 DEF vars, DispositionsOK, SoundCrashes, At
  <2>2. ASSUME death = "alive", NEW t \in Threads, Step(t)
        PROVE  DispositionsOK' /\ SoundCrashes'
    BY <2>2, StepDispositionsOK, StepSoundCrashes
  <2> QED BY <2>1, <2>2 DEF Next, Dead
<1>3. Inv => NeverFaults
  BY DEF SoundCrashes, NeverFaults
<1> QED BY <1>1, <1>2, <1>3, PTL DEF Spec

(***************************************************************************)
(* Whose state a step changes, and that no crash is swallowed.             *)
(***************************************************************************)

\* What a step of a thread leaves alone of another.
OthersUnchanged(t) ==
  \A u \in Threads : u # t =>
    pc'[u] = pc[u] /\ frame'[u] = frame[u] /\ idx'[u] = idx[u]

\* The functions of the threads, with their domains.
LEMMA Domains ==
  ASSUME IInv
  PROVE  /\ pc = [u \in Threads |-> pc[u]] /\ frame = [u \in Threads |-> frame[u]]
         /\ idx = [u \in Threads |-> idx[u]]
         /\ DOMAIN pc = Threads /\ DOMAIN frame = Threads /\ DOMAIN idx = Threads
         /\ \A u \in Threads : frame[u] \in Frames
         /\ \A u \in Threads : idx[u] \in Nat
BY DEF IInv, TypeOK, Frames

\* A delivery concerns the thread it is made to.
LEMMA DeliverOthers ==
  ASSUME IInv, NEW t \in Threads, NEW s, NEW c, NEW from, Deliver(t, s, c, from)
  PROVE  /\ OthersUnchanged(t)
         /\ \/ pc' = pc /\ frame' = frame
            \/ pc'[t] = from /\ frame'[t] = NoFrame
            \/ pc'[t] = "entered" /\ ~frame'[t].handled
BY Domains DEF Deliver, Die, Goto, OthersUnchanged

\* A thread changes only what is its own.
LEMMA StepOthers ==
  ASSUME IInv, NEW t \in Threads, Step(t)
  PROVE  OthersUnchanged(t)
<1> USE Domains DEF OthersUnchanged, Goto
<1>1. CASE LifetimeStep(t)
  BY <1>1 DEF LifetimeStep, CtorEnter, DtorEnter, CtorExit, DtorExit, SetFirstChance
<1>2. CASE Raise(t)
  BY <1>2, DeliverOthers DEF Raise
<1>3. CASE Retrigger(t)
  BY <1>3, DeliverOthers DEF Retrigger
<1>4. CASE FirstChanceRecovers(t) \/ FirstChanceFaults(t) \/ FirstChanceDeclines(t)
  BY <1>4 DEF FirstChanceRecovers, FirstChanceFaults, FirstChanceDeclines,
     ReturnFrom, Die
<1>5. CASE Lock(t) \/ ResetFlags(t) \/ EnterLoop(t)
  BY <1>5 DEF Lock, ResetFlags, EnterLoop, ReturnFrom, Die
<1>6. CASE FilterDeclines(t) \/ FillContext(t) \/ FinishHandle(t)
  BY <1>6 DEF FilterDeclines, FillContext, FinishHandle, Die
<1>7. CASE SettleDisposition(t)
  BY <1>7 DEF SettleDisposition
<1>8. CASE Reraise(t)
  BY <1>8 DEF Reraise, ReturnFrom, Die
<1>9. CASE SimulateStep(t) \/ MeddleStep(t)
  BY <1>9 DEF SimulateStep, SimulateEnter, SimulateExit, MeddleStep, MeddleSave,
     MeddleRestore
<1> QED
  BY <1>1, <1>2, <1>3, <1>4, <1>5, <1>6, <1>7, <1>8, <1>9 DEF Step, HandlerStep

\* Where nobody takes SA_SIGINFO away, SignalHandler has genuine arguments.
GenuineOK == \A t \in Threads : pc[t] \in CrashStates => frame[t].genuine

\* The arguments stay genuine from the delivery to the return.
LEMMA StepGenuineOK ==
  ASSUME IInv, DispositionsOK, GenuineOK, NEW t \in Threads, Step(t), Meddlers = {}
  PROVE  GenuineOK'
<1>0. OthersUnchanged(t)
  BY StepOthers
<1> SUFFICES pc'[t] \in CrashStates => frame'[t].genuine
  BY <1>0 DEF GenuineOK, OthersUnchanged
<1> USE Domains DEF Goto, GenuineOK, CrashStates, Places, Frames
<1>1. CASE LifetimeStep(t)
  BY <1>1 DEF LifetimeStep, CtorEnter, DtorEnter, CtorExit, DtorExit, SetFirstChance
<1>2. ASSUME NEW s \in Signals, NEW c, NEW from \in Places, Deliver(t, s, c, from)
      PROVE  pc'[t] \in CrashStates => frame'[t].genuine
  <2>1. CASE UNCHANGED <<pc, frame>>
    BY <2>1
  <2>2. CASE Goto(t, from)
    BY <2>2
  <2>3. CASE /\ disp[s] \in Breakpad
             /\ frame' = [frame EXCEPT ![t] =
                  [sig |-> s, code |-> c, genuine |-> disp[s] = "breakpad",
                   handled |-> FALSE, from |-> from]]
    <3>1. disp[s] = "breakpad"
      BY <2>3 DEF DispositionsOK, Breakpad
    <3>2. frame'[t].genuine = (disp[s] = "breakpad")
      BY <2>3
    <3> QED BY <3>1, <3>2
  <2> QED BY <1>2, <2>1, <2>2, <2>3 DEF Deliver, Die
<1>3. CASE Raise(t)
  BY <1>2, <1>3 DEF Raise
<1>4. CASE Retrigger(t)
  <2>1. frame[t].sig \in Signals /\ frame[t].from \in Places
    BY <1>4 DEF Retrigger, IInv, FramesOK
  <2> QED BY <1>2, <1>4, <2>1 DEF Retrigger
<1>5. CASE FirstChanceRecovers(t) \/ FirstChanceFaults(t) \/ FirstChanceDeclines(t)
  BY <1>5 DEF FirstChanceRecovers, FirstChanceFaults, FirstChanceDeclines,
     ReturnFrom, Die
<1>6. CASE Lock(t) \/ EnterLoop(t) \/ FilterDeclines(t) \/ FillContext(t)
  BY <1>6 DEF Lock, EnterLoop, FilterDeclines, FillContext, Die
<1>7. CASE ResetFlags(t)
  <2>1. pc[t] = "check" /\ frame[t].sig \in Signals /\ disp[frame[t].sig] = "noinfo"
    BY <1>7 DEF ResetFlags, IInv, FramesOK
  <2> QED BY <2>1 DEF DispositionsOK
<1>8. CASE FinishHandle(t)
  <2>1. pc[t] = "dump" /\ frame[t].genuine
    BY <1>8 DEF FinishHandle
  <2>2. \/ frame' = [frame EXCEPT ![t].handled = TRUE]
        \/ frame' = frame
    BY <1>8 DEF FinishHandle
  <2> QED BY <2>1, <2>2
<1>9. CASE SettleDisposition(t)
  BY <1>9 DEF SettleDisposition
<1>10. CASE Reraise(t)
  BY <1>10 DEF Reraise, ReturnFrom, Die
<1>11. CASE SimulateStep(t)
  BY <1>11 DEF SimulateStep, SimulateEnter, SimulateExit
<1>12. CASE MeddleStep(t)
  BY <1>12 DEF MeddleStep, MeddleSave, MeddleRestore
<1> QED
  BY <1>1, <1>3, <1>4, <1>5, <1>6, <1>7, <1>8, <1>9, <1>10, <1>11, <1>12
  DEF Step, HandlerStep

\* The ways out of SignalHandler.
Recovered(t) ==
  \/ pc[t] = "entered" /\ firstChance
  \/ pc[t] = "refault" /\ disp[frame[t].sig] = "other"

\* A step takes its own thread out of SignalHandler only by these.
LEMMA StepSwallowsNot ==
  ASSUME IInv, DispositionsOK, GenuineOK, NEW t \in Threads, Step(t),
         pc[t] \in CrashStates, pc'[t] \notin CrashStates
  PROVE  Recovered(t)
<1> USE Domains DEF Goto, CrashStates, Places, Frames
<1>1. CASE LifetimeStep(t) \/ Raise(t) \/ SimulateStep(t) \/ MeddleStep(t)
  BY <1>1 DEF LifetimeStep, CtorEnter, DtorEnter, CtorExit, DtorExit,
     SetFirstChance, Raise, SimulateStep, SimulateEnter, SimulateExit, MeddleStep,
     MeddleSave, MeddleRestore
<1>2. CASE FirstChanceRecovers(t) \/ FirstChanceFaults(t) \/ FirstChanceDeclines(t)
  BY <1>2 DEF FirstChanceRecovers, FirstChanceFaults, FirstChanceDeclines, Die,
     Recovered
<1>3. CASE Lock(t) \/ EnterLoop(t) \/ FilterDeclines(t) \/ FillContext(t)
             \/ FinishHandle(t) \/ SettleDisposition(t)
  BY <1>3 DEF Lock, EnterLoop, FilterDeclines, FillContext, FinishHandle,
     SettleDisposition, Die
<1>4. CASE ResetFlags(t)
  <2>1. pc[t] = "check" /\ frame[t].sig \in Signals /\ disp[frame[t].sig] = "noinfo"
    BY <1>4 DEF ResetFlags, IInv, FramesOK
  <2> QED BY <2>1 DEF DispositionsOK
<1>5. CASE Reraise(t)
  <2>1. frame[t].genuine /\ (Resends(t) \/ Repeats(t))
    BY <1>5 DEF Reraise, GenuineOK, Resends, Repeats, Codes
  <2>2. ~ReturnFrom(t)
    BY <1>5, <2>1 DEF Reraise, Die
  <2> QED BY <1>5, <2>1, <2>2 DEF Reraise, Die
<1>6. CASE Retrigger(t)
  BY <1>6 DEF Retrigger, Deliver, Die, Recovered
<1> QED
  BY <1>1, <1>2, <1>3, <1>4, <1>5, <1>6 DEF Step, HandlerStep

\* A crash is never swallowed where nobody uses signal(): a thread gets out of
\* SignalHandler alive only by the first-chance handler or a handler that is not
\* Breakpad's, however many handlers other threads construct and destroy meanwhile.
THEOREM CrashNeverSwallowedHolds ==
  ASSUME Meddlers = {}
  PROVE  Spec => CrashNeverSwallowed
<1> DEFINE Inv == IInv /\ DispositionsOK /\ GenuineOK
           Kept == \A t \in Threads :
                     pc[t] \in CrashStates /\ pc'[t] \notin CrashStates => Recovered(t)
<1>1. Init => Inv
  <2> SUFFICES ASSUME Init PROVE Inv
    OBVIOUS
  <2>1. DispositionsOK
    BY DEF Init, DispositionsOK, Foreign
  <2>2. GenuineOK
    BY DEF Init, GenuineOK, CrashStates
  <2> QED BY <2>1, <2>2, InitIInv
<1>2. Inv /\ [Next]_vars => Inv'
  <2> SUFFICES ASSUME Inv, [Next]_vars PROVE DispositionsOK' /\ GenuineOK'
    BY NextIInv
  <2>1. CASE UNCHANGED vars
    BY <2>1 DEF vars, DispositionsOK, GenuineOK
  <2>2. ASSUME NEW t \in Threads, Step(t) PROVE DispositionsOK' /\ GenuineOK'
    BY <2>2, StepDispositionsOK, StepGenuineOK
  <2> QED BY <2>1, <2>2 DEF Next, Dead
<1>3. Inv /\ [Next]_vars => [Kept]_vars
  <2> SUFFICES ASSUME Inv, NEW t \in Threads, Step(t), NEW u \in Threads,
                      pc[u] \in CrashStates, pc'[u] \notin CrashStates
               PROVE  Recovered(u)
    BY DEF Next, Dead
  <2> QED BY StepOthers, StepSwallowsNot DEF OthersUnchanged
<1>4. Spec => [][Kept]_vars
  BY <1>1, <1>2, <1>3, PTL DEF Spec
<1> QED BY <1>4 DEF CrashNeverSwallowed, Recovered

(***************************************************************************)
(* The refinement of HandlerChain.                                         *)
(***************************************************************************)

Loop == {"loop", "dump"}

\* Nothing has handled a crash that no handler was asked about yet.
FreshOK ==
  \A t \in Threads :
    pc[t] \in {"entered", "wait", "check", "dump"} => ~frame[t].handled

ChainInv == IInv /\ FreshOK

\* A step outside the loop keeps the stack, and its thread outside of it; the other
\* steps are those that the chain sees.
LEMMA StepOutside ==
  ASSUME IInv, NEW t \in Threads, Step(t)
  PROVE  \/ stack' = stack /\ pc[t] \notin Loop /\ pc'[t] \notin Loop
         \/ CtorExit(t) \/ DtorExit(t) \/ EnterLoop(t)
         \/ FilterDeclines(t) \/ FillContext(t) \/ FinishHandle(t)
         \/ SettleDisposition(t)
<1> USE Domains DEF Goto, Loop, Places, Frames
<1>1. CASE LifetimeStep(t)
  BY <1>1 DEF LifetimeStep, CtorEnter, DtorEnter, SetFirstChance
<1>2. CASE Raise(t)
  <2>1. PICK s \in Signals, c \in Codes : pc[t] \in Places /\ Deliver(t, s, c, pc[t])
    BY <1>2 DEF Raise
  <2> QED BY <2>1, DeliverOthers DEF Deliver, Die
<1>3. CASE Retrigger(t)
  <2>1. pc[t] = "refault" /\ Deliver(t, frame[t].sig, frame[t].code, frame[t].from)
    BY <1>3 DEF Retrigger
  <2> QED BY <2>1, DeliverOthers DEF Deliver, Die
<1>4. CASE FirstChanceRecovers(t) \/ FirstChanceFaults(t) \/ FirstChanceDeclines(t)
  BY <1>4 DEF FirstChanceRecovers, FirstChanceFaults, FirstChanceDeclines,
     ReturnFrom, Die
<1>5. CASE Lock(t) \/ ResetFlags(t)
  BY <1>5 DEF Lock, ResetFlags, ReturnFrom
<1>6. CASE Reraise(t)
  BY <1>6 DEF Reraise, ReturnFrom, Die
<1>7. CASE SimulateStep(t)
  BY <1>7 DEF SimulateStep, SimulateEnter, SimulateExit
<1>8. CASE MeddleStep(t)
  <2>1. pc[t] = "run" /\ UNCHANGED <<pc, stack>>
    BY <1>8 DEF MeddleStep, MeddleSave, MeddleRestore
  <2> QED BY <2>1
<1> QED
  BY <1>1, <1>2, <1>3, <1>4, <1>5, <1>6, <1>7, <1>8 DEF Step, HandlerStep

\* A crash that nobody was asked about is not handled.
LEMMA StepFreshOK ==
  ASSUME ChainInv, NEW t \in Threads, Step(t)
  PROVE  FreshOK'
<1>0. IInv /\ FreshOK /\ OthersUnchanged(t)
  BY StepOthers DEF ChainInv
<1> SUFFICES pc'[t] \in {"entered", "wait", "check", "dump"} => ~frame'[t].handled
  BY <1>0 DEF FreshOK, OthersUnchanged
<1> USE <1>0, Domains DEF Goto, FreshOK, Places, Frames
<1>1. CASE LifetimeStep(t)
  BY <1>1 DEF LifetimeStep, CtorEnter, DtorEnter, CtorExit, DtorExit, SetFirstChance
<1>2. CASE Raise(t)
  BY <1>2, DeliverOthers DEF Raise
<1>3. CASE Retrigger(t)
  BY <1>3, DeliverOthers DEF Retrigger
<1>4. CASE FirstChanceRecovers(t) \/ FirstChanceFaults(t) \/ FirstChanceDeclines(t)
  BY <1>4 DEF FirstChanceRecovers, FirstChanceFaults, FirstChanceDeclines,
     ReturnFrom, Die
<1>5. CASE Lock(t) \/ ResetFlags(t) \/ EnterLoop(t)
  BY <1>5 DEF Lock, ResetFlags, EnterLoop, ReturnFrom, Die
<1>6. CASE FilterDeclines(t) \/ FillContext(t) \/ FinishHandle(t)
  BY <1>6 DEF FilterDeclines, FillContext, FinishHandle, Die
<1>7. CASE SettleDisposition(t)
  BY <1>7 DEF SettleDisposition
<1>8. CASE Reraise(t)
  BY <1>8 DEF Reraise, ReturnFrom, Die
<1>9. CASE SimulateStep(t) \/ MeddleStep(t)
  BY <1>9 DEF SimulateStep, SimulateEnter, SimulateExit, MeddleStep, MeddleSave,
     MeddleRestore
<1> QED
  BY <1>1, <1>2, <1>3, <1>4, <1>5, <1>6, <1>7, <1>8, <1>9 DEF Step, HandlerStep

\* The thread in the loop is the one that asks.
LEMMA AskingIsInLoop ==
  ASSUME IInv
  PROVE  /\ Asking \in Threads \cup {None} /\ None \notin Threads
         /\ \A u \in Threads : pc[u] \in Loop <=> Asking = u
         /\ Asking \in Threads => mutex = Asking
BY ConstantsAssumption DEF IInv, TypeOK, MutexHeld, HandlerLocked, Asking, Loop

\* And so it is after a step.
LEMMA AskingIsInLoopThen ==
  ASSUME IInv'
  PROVE  /\ Asking' \in Threads \cup {None} /\ None \notin Threads
         /\ \A u \in Threads : pc'[u] \in Loop <=> Asking' = u
BY ConstantsAssumption DEF IInv, TypeOK, MutexHeld, HandlerLocked, Asking, Loop

\* What the chain has of a thread in the loop.
LEMMA AskingHas ==
  ASSUME IInv, NEW t \in Threads, Asking = t
  PROVE  /\ stack \in Seq(Handlers) /\ Len(stack) \in Nat
         /\ frame[t].handled \in BOOLEAN
         /\ idx[t] \in 0..Len(stack)
         /\ SubSeq(stack, 1, idx[t]) \in Seq(Handlers)
         /\ Len(SubSeq(stack, 1, idx[t])) = idx[t]
<1>1. stack \in Seq(Handlers) /\ Len(stack) \in Nat /\ frame[t] \in Frames
  BY Domains DEF IInv, TypeOK
<1>2. idx[t] \in 0..Len(stack)
  BY <1>1, AskingIsInLoop, Domains DEF IInv, LoopOK, Loop
<1>3. /\ SubSeq(stack, 1, idx[t]) \in Seq(Handlers)
      /\ Len(SubSeq(stack, 1, idx[t])) = IF 1 <= idx[t] THEN idx[t] - 1 + 1 ELSE 0
  <2>1. \A i \in 1..idx[t] : i \in 1..Len(stack)
    BY <1>1, <1>2
  <2> QED BY <1>1, <1>2, <2>1, SubSeqProperties
<1> QED
  BY <1>1, <1>2, <1>3 DEF Frames

\* A step outside the loop is none of the chain.
LEMMA StepStutters ==
  ASSUME ChainInv, ChainInv', NEW t \in Threads, Step(t), stack' = stack,
         pc[t] \notin Loop /\ pc'[t] \notin Loop
  PROVE  UNCHANGED Chain!vars
<1>1. OthersUnchanged(t) /\ IInv /\ IInv'
  BY StepOthers DEF ChainInv
<1>2. Asking' = Asking
  <2>1. \A u \in Threads : Asking' = u <=> Asking = u
    BY <1>1, AskingIsInLoop, AskingIsInLoopThen DEF OthersUnchanged
  <2>2. Asking' \in Threads \cup {None} /\ Asking \in Threads \cup {None}
    BY <1>1, AskingIsInLoop, AskingIsInLoopThen
  <2> QED BY <2>1, <2>2
<1>3. CASE Asking = None
  BY <1>2, <1>3 DEF Chain!vars
<1>4. CASE Asking # None
  <2>1. Asking \in Threads /\ Asking # t
    BY <1>1, <1>4, AskingIsInLoop
  <2>2. frame'[Asking] = frame[Asking] /\ idx'[Asking] = idx[Asking]
    BY <1>1, <2>1 DEF OthersUnchanged
  <2> QED BY <1>2, <2>2 DEF Chain!vars
<1> QED BY <1>3, <1>4

\* Erasing an element leaves what is below it and what is above it.
LEMMA WithoutIsConcat ==
  ASSUME NEW S, NEW s \in Seq(S), NEW i \in 1..Len(s)
  PROVE  Without(s, i) = SubSeq(s, 1, i - 1) \o SubSeq(s, i + 1, Len(s))
<1> DEFINE below == SubSeq(s, 1, i - 1)
           above == SubSeq(s, i + 1, Len(s))
<1>1. Len(s) \in Nat
  OBVIOUS
<1>2. below \in Seq(S) /\ Len(below) = i - 1 /\ \A j \in 1..(i - 1) : below[j] = s[j]
  BY <1>1
<1>3. above \in Seq(S) /\ Len(above) = Len(s) - i /\ \A j \in 1..(Len(s) - i) : above[j] = s[i + j]
  BY <1>1
<1> HIDE DEF below, above
<1>4. below \o above \in Seq(S) /\ Len(below \o above) = Len(s) - 1
  <2>1. below \o above \in Seq(S) /\ Len(below \o above) = Len(below) + Len(above)
    BY <1>2, <1>3, ConcatProperties
  <2> QED BY <1>1, <1>2, <1>3, <2>1
<1>5. ASSUME NEW j \in 1..(Len(s) - 1)
      PROVE  (below \o above)[j] = IF j < i THEN s[j] ELSE s[j + 1]
  BY <1>1, <1>2, <1>3
<1>6. Without(s, i) \in Seq(S) /\ Len(Without(s, i)) = Len(s) - 1
  BY <1>1 DEF Without
<1>7. \A j \in 1..(Len(s) - 1) : Without(s, i)[j] = (below \o above)[j]
  BY <1>5 DEF Without
<1>8. Without(s, i) = below \o above
  BY <1>4, <1>6, <1>7, SeqEqual
<1> QED BY <1>8 DEF below, above

\* The constructor joins its handler to the chain.
LEMMA CtorJoins ==
  ASSUME ChainInv, ChainInv', NEW t \in Threads, CtorExit(t)
  PROVE  \E h \in Handlers : Chain!Join(h)
<1>1. IInv /\ IInv' /\ mutex = t /\ pc[t] = "ctor" /\ mutex' = None
        /\ None \notin Threads
  BY ConstantsAssumption DEF ChainInv, IInv, MutexHeld, At, CtorExit
<1>2. Asking = None /\ Asking' = None
  BY <1>1 DEF Asking
<1>3. obj[t] \in Handlers \ Live
  BY <1>1 DEF IInv, ObjectsOK, At
<1>4. stack' = Append(stack, obj[t])
  BY DEF CtorExit, Push
<1> QED BY <1>2, <1>3, <1>4 DEF Chain!Join, Live

\* The destructor takes its handler from the chain.
LEMMA DtorLeaves ==
  ASSUME ChainInv, ChainInv', NEW t \in Threads, DtorExit(t)
  PROVE  \E h \in Handlers : Chain!Leave(h)
<1>1. IInv /\ IInv' /\ mutex = t /\ pc[t] = "dtor" /\ mutex' = None
        /\ None \notin Threads /\ stack \in Seq(Handlers)
  BY ConstantsAssumption DEF ChainInv, IInv, TypeOK, MutexHeld, At, DtorExit
<1>2. Asking = None /\ Asking' = None
  BY <1>1 DEF Asking
<1>3. PICK i \in 1..Len(stack) :
        /\ stack[i] = obj[t]
        /\ IF Len(stack) = 1 THEN stack' = <<>> ELSE stack' = Without(stack, i)
  BY DEF DtorExit
<1>4. stack[i] \in Handlers /\ Len(stack) \in Nat
  BY <1>1, <1>3, ElementOfSeq, LenProperties
<1>5. stack' = Without(stack, i)
  <2>1. CASE Len(stack) = 1
    <3>1. stack \in Seq(Handlers)
      BY <1>1
    <3>2. /\ Without(stack, i) \in Seq(Handlers)
          /\ Len(Without(stack, i)) = Len(stack) - 1
      BY <3>1, WithoutIsSeq
    <3>3. Without(stack, i) = <<>>
      BY <2>1, <3>2, EmptySeq
    <3> QED BY <1>3, <2>1, <3>3
  <2> QED BY <1>3, <2>1
<1>6. stack' = SubSeq(stack, 1, i - 1) \o SubSeq(stack, i + 1, Len(stack))
  BY <1>1, <1>3, <1>5, WithoutIsConcat
<1> QED BY <1>2, <1>3, <1>4, <1>6 DEF Chain!Leave

\* EnterLoop is the beginning of a crash, or its end by the kernel.
LEMMA EnterBegins ==
  ASSUME ChainInv, ChainInv', NEW t \in Threads, EnterLoop(t)
  PROVE  (\E u \in Threads : Chain!Begin(u)) \/ UNCHANGED Chain!vars
<1>1. IInv /\ IInv' /\ mutex = t /\ pc[t] = "check" /\ None \notin Threads
        /\ ~frame[t].handled /\ stack \in Seq(Handlers) /\ t # None
  BY ConstantsAssumption
  DEF ChainInv, FreshOK, IInv, TypeOK, MutexHeld, HandlerLocked, EnterLoop
<1>2. Asking = None
  BY <1>1 DEF Asking
<1>3. CASE Die("fault")
  BY <1>3 DEF Die, Chain!vars, Asking
<1>4. CASE /\ idx' = [idx EXCEPT ![t] = Newest] /\ Goto(t, "loop")
           /\ UNCHANGED <<stack, mutex, frame>>
  <2>1. idx'[t] = Len(stack) /\ pc'[t] = "loop"
    BY <1>1, <1>4, Domains DEF Newest, Goto
  <2>2. Asking' = t
    BY <1>1, <1>4, <2>1 DEF Asking
  <2>3. SubSeq(stack, 1, Len(stack)) = stack
    BY <1>1, SubSeqFull
  <2>4. Chain!Begin(t)
    BY <1>1, <1>2, <1>4, <2>1, <2>2, <2>3 DEF Chain!Begin
  <2> QED BY <2>4
<1> QED BY <1>3, <1>4 DEF EnterLoop

\* In the loop, a handler declines or deals with the crash, or it is asked.
LEMMA LoopAsks ==
  ASSUME ChainInv, ChainInv', NEW t \in Threads,
         FilterDeclines(t) \/ FillContext(t) \/ FinishHandle(t)
  PROVE  Chain!Decline \/ Chain!Accept \/ UNCHANGED Chain!vars
<1>1. IInv /\ IInv' /\ pc[t] \in Loop /\ None \notin Threads /\ t # None
  BY ConstantsAssumption
  DEF ChainInv, Loop, FilterDeclines, FillContext, FinishHandle
<1>2. Asking = t
  BY <1>1, AskingIsInLoop
<1>3. pc'[t] \in Loop /\ stack' = stack
  BY <1>1, Domains
  DEF Loop, FilterDeclines, FillContext, FinishHandle, Goto, Die
<1>4. Asking' = t
  BY <1>1, <1>3, AskingIsInLoopThen
<1>5. /\ stack \in Seq(Handlers) /\ Len(stack) \in Nat
      /\ idx[t] \in 0..Len(stack) /\ frame[t].handled \in BOOLEAN
      /\ Len(SubSeq(stack, 1, idx[t])) = idx[t]
      /\ frame[t] \in Frames
  BY <1>1, <1>2, AskingHas, Domains
<1>6. CASE UNCHANGED <<frame, idx>>
  BY <1>2, <1>3, <1>4, <1>6 DEF Chain!vars
<1>7. ASSUME idx[t] > 0, ~frame[t].handled, frame' = frame,
             idx' = [idx EXCEPT ![t] = @ - 1]
      PROVE  Chain!Decline
  <2>1. idx'[t] = idx[t] - 1
    BY <1>1, <1>7, Domains
  <2>2. SubSeq(stack, 1, idx[t]) # <<>>
    BY <1>5, <1>7
  <2>3. SubSeq(SubSeq(stack, 1, idx[t]), 1, idx[t] - 1) = SubSeq(stack, 1, idx[t] - 1)
    <3>1. \A j \in 1..(idx[t] - 1) : j \in 1..Len(SubSeq(stack, 1, idx[t]))
      BY <1>5
    <3> QED BY <1>5, <1>7, SubSeqOfSubSeq
  <2> QED BY <1>1, <1>2, <1>3, <1>4, <1>5, <1>7, <2>1, <2>2, <2>3 DEF Chain!Decline
<1>8. ASSUME idx[t] > 0, frame' = [frame EXCEPT ![t].handled = TRUE], idx' = idx
      PROVE  Chain!Accept
  <2>1. frame'[t].handled
    BY <1>1, <1>5, <1>8, Domains DEF Frames
  <2>2. SubSeq(stack, 1, idx[t]) # <<>>
    BY <1>5, <1>8
  <2> QED BY <1>1, <1>2, <1>3, <1>4, <1>8, <2>1, <2>2 DEF Chain!Accept
<1>9. CASE FilterDeclines(t)
  BY <1>7, <1>9 DEF FilterDeclines
<1>10. CASE FillContext(t)
  BY <1>6, <1>10 DEF FillContext, Die
<1>11. CASE FinishHandle(t)
  <2>1. idx[t] > 0 /\ ~frame[t].handled
    BY <1>1, <1>5, <1>11 DEF FinishHandle, ChainInv, FreshOK, IInv, LoopOK
  <2> QED BY <1>7, <1>8, <1>11, <2>1 DEF FinishHandle
<1> QED BY <1>9, <1>10, <1>11

\* After the loop, the crash leaves the chain.
LEMMA SettleEnds ==
  ASSUME ChainInv, ChainInv', NEW t \in Threads, SettleDisposition(t)
  PROVE  Chain!End
<1>1. IInv /\ pc[t] \in Loop /\ None \notin Threads /\ t # None /\ mutex' = None
        /\ stack' = stack
  BY ConstantsAssumption DEF ChainInv, Loop, SettleDisposition
<1>2. Asking = t /\ Asking' = None
  BY <1>1, AskingIsInLoop DEF Asking
<1>3. frame[t].handled \/ idx[t] = 0
  BY DEF SettleDisposition
<1>4. stack \in Seq(Handlers) /\ SubSeq(stack, 1, 0) = <<>>
  BY <1>1, <1>2, AskingHas, SubSeqEmpty
<1> QED BY <1>1, <1>2, <1>3, <1>4 DEF Chain!End

\* The stack of handlers under its mutex is a chain of handlers: crashes ask them
\* newest first, skip none, stop at the first that has handled the crash, and see
\* none join or leave meanwhile, whoever constructs, destroys, crashes, simulates
\* or meddles.
THEOREM ImplementsChainHolds == Spec => ImplementsChain
<1>1. Init => ChainInv
  BY InitIInv, NoFrameOK DEF ChainInv, FreshOK, Init
<1>2. ChainInv /\ [Next]_vars => ChainInv'
  <2> SUFFICES ASSUME ChainInv, [Next]_vars PROVE FreshOK'
    BY NextIInv DEF ChainInv
  <2>1. CASE UNCHANGED vars
    BY <2>1 DEF vars, ChainInv, FreshOK
  <2> QED BY <2>1, StepFreshOK DEF Next, Dead
<1>3. Init => Chain!Init
  BY ConstantsAssumption DEF Init, Chain!Init, Asking
<1>4. ChainInv /\ ChainInv' /\ [Next]_vars => [Chain!Next]_(Chain!vars)
  <2> SUFFICES ASSUME ChainInv, ChainInv', [Next]_vars
               PROVE  [Chain!Next]_(Chain!vars)
    OBVIOUS
  <2>1. CASE UNCHANGED vars
    BY <2>1 DEF vars, Chain!vars, Asking
  <2>2. ASSUME NEW t \in Threads, Step(t) PROVE [Chain!Next]_(Chain!vars)
    <3>1. \/ stack' = stack /\ pc[t] \notin Loop /\ pc'[t] \notin Loop
          \/ CtorExit(t) \/ DtorExit(t) \/ EnterLoop(t)
          \/ FilterDeclines(t) \/ FillContext(t) \/ FinishHandle(t)
          \/ SettleDisposition(t)
      BY <2>2, StepOutside DEF ChainInv
    <3> QED
      BY <2>2, <3>1, StepStutters, CtorJoins, DtorLeaves, EnterBegins, LoopAsks,
         SettleEnds DEF Chain!Next
  <2> QED BY <2>1, <2>2 DEF Next, Dead
<1> QED BY <1>1, <1>2, <1>3, <1>4, PTL DEF Spec, ImplementsChain, Chain!Spec

=============================================================================
