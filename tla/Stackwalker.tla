----------------------------- MODULE Stackwalker -----------------------------
(***************************************************************************)
(* The walk from the frame in which a thread was stopped to its callers    *)
(* (processor/stackwalker.cc, stackwalker.h) on ARM (stackwalker_arm.cc),  *)
(* over memory that may hold anything.  A caller is found by the call      *)
(* frame information of the symbols, which may say anything as well; on    *)
(* iOS, where that is ignored, by the frame pointer; or else by searching  *)
(* the stack for what looks like a return address.                         *)
(*                                                                         *)
(* Addresses are counted in words: 0 stands for those that are too low for *)
(* an instruction, MaxStack + 1 for the ones of code in a module that has  *)
(* symbols for them.                                                       *)
(***************************************************************************)
EXTENDS Integers, Sequences, FiniteSets

CONSTANTS
  MaxStack,            \* the highest address that is not in a module
  StackStart, StackEnd, \* the memory that was dumped: from the first to below the second
  kRASearchWords,
  max_frames,          \* max_frames_
  max_frames_scanned,  \* max_frames_scanned_
  MaxInlined           \* functions inlined in one frame: a bound

Code == MaxStack + 1
Words == 0..Code
Stack == StackStart..(StackEnd - 1)

VARIABLES
  os,       \* "ios" or "android"
  memory,   \* memory_, or empty: no memory
  frame,    \* the frame that Walk has at the moment
  frames,   \* stack->frames_
  scanned,  \* scanned_frames
  walking   \* "frame", "caller", "ended" or "interrupted"

walkVars == <<os, memory, frame, frames, scanned, walking>>

\* valid: those of lr and the frame pointer that are.
Frame(trust, pc, sp, lr, fp, valid) ==
  [trust |-> trust, pc |-> pc, sp |-> sp, lr |-> lr, fp |-> fp, valid |-> valid]

\* Where frame pointers are not followed, a word is one of code or is not.
Init ==
  /\ os \in {"ios", "android"}
  /\ memory \in [Stack -> IF os = "ios" THEN Words ELSE {0, Code}] \cup {<<>>}
  /\ \E sp \in 0..MaxStack, lr \in {0, Code}, fp \in 0..MaxStack :
       /\ frame = Frame("context", Code, sp, lr, fp, {"lr", "fp"})
       /\ os = "ios" \/ (lr = 0 /\ fp = 0)
  /\ frames = <<>>
  /\ scanned = 0
  /\ walking = "frame"

Readable(address) == address \in DOMAIN memory

(***************************************************************************)
(* Walk.                                                                   *)
(***************************************************************************)

IsReal(f) == f.trust # "inline"
IsGuess(f) == f.trust = "scan"

\* What Walk does with a frame: the functions that are inlined in it come before
\* it, and count like it.
AddFrame ==
  /\ walking = "frame"
  /\ \E n \in 0..MaxInlined :
       frames' = Append(frames \o [i \in 1..n |-> [frame EXCEPT !.trust = "inline"]],
                        frame)
  /\ scanned' = IF IsGuess(frame) THEN scanned + 1 ELSE scanned
  /\ walking' = IF Len(frames') > max_frames THEN "ended" ELSE "caller"
  /\ UNCHANGED <<os, memory, frame>>

\* Symbols for the frame are not there yet.
Interrupt ==
  /\ walking = "frame"
  /\ walking' = "interrupted"
  /\ UNCHANGED <<os, memory, frame, frames, scanned>>

(***************************************************************************)
(* GetCallerFrame.                                                         *)
(***************************************************************************)

Last == frames[Len(frames)]
IsContext == Last.trust = "context"

\* GetCallerByCFIFrameInfo: what is said of pc and sp is all that matters here.
ByCFI ==
  IF os = "ios" THEN {}
  ELSE {Frame("cfi", pc, sp, 0, 0, {}) : pc \in {0, Code}, sp \in 0..MaxStack}

\* GetCallerByFramePointer: a frame pointer of 0 ends the chain.
ByFramePointer ==
  IF os # "ios" \/ "fp" \notin Last.valid THEN {}
  ELSE IF Last.fp = 0 THEN {Frame("fp", Last.lr, Last.sp, 0, 0, {"lr", "fp"})}
  ELSE IF ~(Readable(Last.fp) /\ Readable(Last.fp + 1)) THEN {}
  ELSE {Frame("fp", Last.lr, Last.fp + 2, memory[Last.fp + 1], memory[Last.fp],
              {"lr", "fp"})}

\* ScanForReturnAddress: the first of that many words and one more, as far as
\* they can be read.
SearchWords == IF IsContext THEN 4 * kRASearchWords ELSE kRASearchWords
Found == {at \in Last.sp..(Last.sp + SearchWords) :
            /\ \A a \in Last.sp..at : Readable(a)
            /\ memory[at] = Code
            /\ \A a \in Last.sp..(at - 1) : memory[a] # Code}

ByStackScan ==
  IF scanned < max_frames_scanned
  THEN {Frame("scan", Code, at + 1, Last.lr, Last.fp, {}) : at \in Found}
  ELSE {}

FirstOf(a, b) == IF a # {} THEN a ELSE b

\* The call frame information may be there, or not for this frame.
Callers == ByCFI \cup FirstOf(ByFramePointer, ByStackScan)
MayHaveNone == FirstOf(ByFramePointer, ByStackScan) = {}

TerminateWalk(caller) ==
  \/ caller.pc = 0
  \/ IF IsContext THEN caller.sp < Last.sp ELSE caller.sp <= Last.sp

GetCallerFrame ==
  /\ walking = "caller"
  /\ \/ /\ memory # <<>>
        /\ \E caller \in Callers :
             IF TerminateWalk(caller)
             THEN walking' = "ended" /\ UNCHANGED frame
             ELSE walking' = "frame" /\ frame' = caller
     \/ /\ memory = <<>> \/ MayHaveNone
        /\ walking' = "ended" /\ UNCHANGED frame
  /\ UNCHANGED <<os, memory, frames, scanned>>

WalkStep == AddFrame \/ Interrupt \/ GetCallerFrame
WalkIsOver == walking \in {"ended", "interrupted"}

WalkSpec ==
  /\ Init
  /\ [][WalkStep \/ (WalkIsOver /\ UNCHANGED walkVars)]_walkVars
  /\ WF_walkVars(WalkStep)

(***************************************************************************)
(* Properties.                                                             *)
(***************************************************************************)

TypeOK ==
  /\ os \in {"ios", "android"}
  /\ memory \in [Stack -> Words] \cup {<<>>}
  /\ {frame} \cup {frames[i] : i \in DOMAIN frames} \subseteq
       [trust : {"context", "cfi", "fp", "scan", "inline"}, pc : Words,
        sp : 0..(StackEnd + 1) \cup 0..MaxStack, lr : Words, fp : Words,
        valid : SUBSET {"lr", "fp"}]
  /\ scanned \in 0..max_frames_scanned
  /\ walking \in {"frame", "caller", "ended", "interrupted"}

\* The frames that are real, by their index, and those that are guesses; real frames
\* are numbered from the one with the context.
Real == {i \in DOMAIN frames : IsReal(frames[i])}
Guessed == {i \in DOMAIN frames : IsGuess(frames[i])}
Number(i) == Cardinality({j \in Real : j <= i})

\* The walk goes up the stack, in every step but the first, so that without call
\* frame information it has no more frames than the memory has words, and two,
\* and every caller is in that memory, unless its callee had no frame pointer
\* ("strictly monotonic and practically bounded by the size of the stack memory
\* range", stackwalker.cc:70).  It keeps both limits, but for the last frame and
\* what is inlined in it.
WalkGoesUp ==
  /\ \A i, j \in Real : i < j =>
       /\ frames[i].sp <= frames[j].sp
       /\ frames[i].sp = frames[j].sp => Number(i) = 1 /\ Number(j) = 2
  /\ \A i \in Real :
       /\ frames[i].trust = "scan" => frames[i].sp \in (StackStart + 1)..StackEnd
       /\ frames[i].trust = "fp" =>
            \/ frames[i].sp \in (StackStart + 2)..StackEnd
            \/ Number(i) = 2 /\ \E j \in Real : Number(j) = 1 /\ frames[j].fp = 0
  /\ os = "ios" => Cardinality(Real) <= StackEnd - StackStart + 2
  /\ Len(frames) <= max_frames + 1 + MaxInlined
  /\ Cardinality(Guessed) <= max_frames_scanned

=============================================================================
