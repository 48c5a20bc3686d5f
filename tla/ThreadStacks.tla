---------------------------- MODULE ThreadStacks ----------------------------
(***************************************************************************)
(* Which memory of its threads a dump takes: GetStackInfo, FillThreadStack *)
(* and the loop of WriteThreadListStream (linux_dumper.cc,                 *)
(* minidump_writer.cc).  With a limit on the size of the dump, only a      *)
(* short piece of the stacks of most threads is taken.                     *)
(*                                                                         *)
(* Addresses and lengths are counted in words.  One mapping holds all      *)
(* stacks and the code; other addresses are not mapped.                    *)
(***************************************************************************)
EXTENDS Integers, Sequences

CONSTANTS
  Page,           \* getpagesize()
  Capture,        \* kStackToCapture
  MaxExtra,       \* kLimitMaxExtraThreadStackLen
  BaseThreads,    \* kLimitBaseThreadCount
  AroundIP,       \* kIPMemorySize / 2
  Low, High,      \* the mapping: from Low to below High, in pages
  NumThreads      \* threads().size()

VARIABLES
  exceeds,         \* is the dump expected to exceed its size limit
  crash_thread,    \* the index of the thread whose context was given
  memory_blocks,   \* memory_blocks_, and the address that each was taken for
  stacks,          \* thread.stack of the threads that are written
  dumping          \* "threads", "done" or "failed"

stackVars == <<exceeds, crash_thread, memory_blocks, stacks, dumping>>

Mapped == (Low * Page)..(High * Page - 1)
AnyAddress == 0..((High + 1) * Page - 1)
Nowhere == [start |-> 0, length |-> 0, around |-> 0]

Init ==
  /\ exceeds \in BOOLEAN
  /\ crash_thread \in 1..NumThreads
  /\ memory_blocks = <<>>
  /\ stacks = <<>>
  /\ dumping = "threads"

Smaller(a, b) == IF a <= b THEN a ELSE b
Greater(a, b) == IF a >= b THEN a ELSE b

\* GetStackInfo: from the page of the stack pointer to the end of the mapping,
\* but no more than Capture.
PageOf(sp) == (sp \div Page) * Page
HasStackInfo(sp) == PageOf(sp) \in Mapped
StackInfo(sp) ==
  [start |-> PageOf(sp), length |-> Smaller(Capture, High * Page - PageOf(sp)),
   around |-> sp]

\* The loop that skips chunks: the first chunk that ends no lower than sp.
Skipped(start, sp) ==
  CHOOSE s \in {start + k * MaxExtra : k \in 0..Page} :
    /\ s + MaxExtra >= sp
    /\ s = start \/ s < sp

\* Where the limit is exceeded, MaxExtra is left to all but the first threads and
\* the one that crashed.
IsLimited(i) == exceeds /\ i # crash_thread /\ i > BaseThreads
ShortStack(block) ==
  [start |-> Skipped(block.start, block.around), length |-> MaxExtra,
   around |-> block.around]
StackCopy(i, sp) ==
  IF IsLimited(i) /\ StackInfo(sp).length > MaxExtra
  THEN ShortStack(StackInfo(sp))
  ELSE StackInfo(sp)

\* 128 bytes before and after the instruction that crashed, or what there is.
IPMemory(ip) ==
  LET start == Greater(Low * Page, ip - AroundIP)
  IN [start |-> start, length |-> Smaller(ip + AroundIP, High * Page) - start,
      around |-> ip]

\* One turn of the loop.  A stack that does not refer to the module of interest
\* may be left out; only the thread with the context has memory around its
\* instruction pointer.
WriteThread(sp, ip, skips) ==
  LET i     == Len(stacks) + 1
      stack == IF HasStackInfo(sp) /\ ~skips THEN <<StackCopy(i, sp)>> ELSE <<>>
      code  == IF i = crash_thread /\ ip \in Mapped THEN <<IPMemory(ip)>> ELSE <<>>
  IN /\ dumping = "threads"
     /\ i <= NumThreads
     /\ memory_blocks' = memory_blocks \o stack \o code
     /\ stacks' = Append(stacks, IF stack = <<>> THEN [Nowhere EXCEPT !.start = sp]
                                 ELSE stack[1])
     /\ UNCHANGED <<exceeds, crash_thread, dumping>>

\* There is no room in the file, or no information about the thread.
WriteFails ==
  /\ dumping = "threads"
  /\ dumping' = "failed"
  /\ UNCHANGED <<exceeds, crash_thread, memory_blocks, stacks>>

ThreadsAreWritten ==
  /\ dumping = "threads"
  /\ Len(stacks) = NumThreads
  /\ dumping' = "done"
  /\ UNCHANGED <<exceeds, crash_thread, memory_blocks, stacks>>

StackPointers == AnyAddress
InstructionPointers == {0, Low * Page, High * Page - 1}

Step ==
  \/ \E sp \in StackPointers, ip \in InstructionPointers, skips \in BOOLEAN :
       WriteThread(sp, ip, skips)
  \/ WriteFails
  \/ ThreadsAreWritten

Over == dumping # "threads"
Spec == Init /\ [][Step \/ (Over /\ UNCHANGED stackVars)]_stackVars

(***************************************************************************)
(* Properties.                                                             *)
(***************************************************************************)

TypeOK ==
  /\ exceeds \in BOOLEAN
  /\ crash_thread \in 1..NumThreads
  /\ \A i \in DOMAIN memory_blocks :
       memory_blocks[i] \in [start : AnyAddress, length : 1..Capture, around : AnyAddress]
  /\ Len(stacks) <= NumThreads
  /\ dumping \in {"threads", "done", "failed"}

Holds(block, address) ==
  block.start <= address /\ address < block.start + block.length

\* What the dump takes for a stack or around an instruction is memory of the
\* mapping that the address is in, and whatever the thread, a stack that is not
\* limited has the word at the stack pointer and all above it, up to Capture less
\* a page.
TakesWhatIsThere ==
  /\ \A i \in DOMAIN memory_blocks :
       LET b == memory_blocks[i]
       IN b.start..(b.start + b.length - 1) \subseteq Mapped
  /\ \A i \in DOMAIN stacks : stacks[i].length > 0 =>
       IF IsLimited(i)
       THEN stacks[i].length <= MaxExtra
       ELSE \A a \in Mapped : stacks[i].around <= a /\ a <= stacks[i].around + Capture - Page
                              => Holds(stacks[i], a)

\* The stack of a thread that is kept has the word at its stack pointer: the
\* chunks that are skipped are empty, those that are kept are not
\* ("Skip empty chunks of length max_stack_len").
StackPointerIsCopied ==
  \A i \in DOMAIN stacks : stacks[i].length > 0 => Holds(stacks[i], stacks[i].around)

=============================================================================
