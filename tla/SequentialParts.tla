--------------------------- MODULE SequentialParts ---------------------------
(***************************************************************************)
(* The parts of Breakpad that one thread runs alone: the file of a dump,   *)
(* the allocator, the range map, the lines of /proc, the way of a module   *)
(* from there to the reader of the dump, the way of a stack to the reader, *)
(* the walk over it, and the search for its symbols; and the app's count   *)
(* of its cores.  A behaviour is of one part; the others stay as they are  *)
(* at first.                                                               *)
(***************************************************************************)
EXTENDS MinidumpFileWriter, PageAllocator, RangeMap

CONSTANTS
  LineFeed, Char, kMaxLineLen, MaxFile,                  \* as in LineReader
  Files, NoName, LastPage, EntryPoints, MaxLines, Ashmem, \* as in ModuleList
  StackPage, Capture, MaxExtra, BaseThreads, AroundIP,   \* as in ThreadStacks
  FirstPage, EndPage, NumThreads,
  MaxCores, Frequencies,                                 \* as in CpuInformation
  MaxStack, StackStart, StackEnd, kRASearchWords,        \* as in Stackwalker
  max_frames, max_frames_scanned, MaxInlined,
  CodeFiles, ThreadIds, MaxThreads, MaxDumps             \* as in MinidumpProcessor

ASSUME LinesAssumption == {kMaxLineLen, MaxFile} \subseteq Nat

\* No mapping reaches the largest address; 0 stands for no entry point.
ASSUME ModulesAssumption ==
  /\ {LastPage, MaxLines} \subseteq Nat /\ LastPage <= MaxAddress
  /\ 0 \in EntryPoints /\ EntryPoints \subseteq 0..LastPage

\* A page is so many of the pieces to which a stack is limited (2048 bytes, and 4096
\* or a multiple of it), a stack has more words than are taken around an instruction,
\* and the lowest page is not mapped.
ASSUME StacksAssumption ==
  /\ {StackPage, MaxExtra, AroundIP, FirstPage} \subseteq Nat \ {0}
  /\ {Capture, EndPage, NumThreads, BaseThreads} \subseteq Nat
  /\ StackPage % MaxExtra = 0
  /\ 2 * AroundIP <= Capture

\* No thread has the id that stands for none.
ASSUME ProcessorAssumption == 0 \notin ThreadIds /\ {MaxThreads, MaxDumps} \subseteq Nat

\* The memory that was dumped does not end below its start.
ASSUME WalkAssumption ==
  /\ {MaxStack, StackStart, StackEnd, kRASearchWords, max_frames, max_frames_scanned,
      MaxInlined} \subseteq Nat
  /\ StackStart <= StackEnd

ASSUME CoresAssumption == MaxCores \in Nat /\ Frequencies \subseteq Nat

VARIABLES
  part,
  text, rest, buf, hit_eof, line, lines, reading,
  maps, mappings, entry_point, stage,
  modules, module_of, module_index, last_end_address, reading_list,
  exceeds, crash_thread, memory_blocks, stacks, dumping,
  region_index, memory_list,
  directories, freq, online, been_offline, core, max_freq, counting,
  os, memory, frame, frames, scanned, walking,
  has, fast, dump, dumps, thread_index, found_requesting_thread, interrupted,
  requesting_thread, threads, without, corrupt, no_symbol_modules, loaded,
  corrupt_modules, memory_buffers, allocated, processing, seen, answered

Reader == INSTANCE LineReader WITH End <- LineFeed
List == INSTANCE ModuleList
Threads == INSTANCE MemoryList
  WITH Page <- StackPage, Low <- FirstPage, High <- EndPage
Cpu == INSTANCE CpuInformation
Walk == INSTANCE Stackwalker
Processor == INSTANCE MinidumpProcessor

readerVars == <<text, rest, buf, hit_eof, line, lines, reading>>
listVars == <<maps, mappings, entry_point, stage,
              modules, module_of, module_index, last_end_address, reading_list>>
threadVars == <<exceeds, crash_thread, memory_blocks, stacks, dumping,
                region_index, memory_list>>
cpuVars == <<directories, freq, online, been_offline, core, max_freq, counting>>
walkVars == <<os, memory, frame, frames, scanned, walking>>
processorVars == <<has, fast, dump, dumps, thread_index, found_requesting_thread,
                   interrupted, requesting_thread, threads, without, corrupt,
                   no_symbol_modules, loaded, corrupt_modules, memory_buffers,
                   allocated, processing, seen, answered>>
partVars == <<part, vars, allocatorVars, rangeVars, readerVars, listVars, threadVars,
              cpuVars, walkVars, processorVars>>

Parts == {"file", "allocator", "ranges", "lines", "modules", "stacks",
          "walk", "symbols", "cores"}

\* Only the part that has steps may begin in more ways than one.  What holds the
\* others to one comes first, so that TLC need not try all of them.
PartInit ==
  /\ part \in Parts
  /\ Init
  /\ part = "file" \/ (owned /\ ~workaround)
  /\ AllocatorInit
  /\ RangeInit
  /\ part = "lines" \/ text = <<>>
  /\ Reader!Init
  /\ CASE part = "ranges" -> TRUE
       [] part = "stacks" -> Threads!RangesInit
       [] OTHER -> List!RangesInit
  /\ part = "modules" \/ entry_point = 0
  /\ List!ListInit
  /\ Threads!MemoryInit
  /\ part = "stacks" \/ (~exceeds /\ crash_thread = 1)
  /\ part = "cores" \/ directories = {}
  /\ Cpu!Init
  /\ part = "walk" \/ (os = "android" /\ memory = <<>>)
  /\ Walk!Init
  /\ part = "walk" \/ frame.sp = 0
  /\ part = "symbols" \/ has = {}
  /\ Processor!ProcessorInit
  /\ part = "symbols" \/ fast

FileSteps ==
  /\ part = "file"
  /\ Next
  /\ UNCHANGED <<part, allocatorVars, rangeVars, readerVars, listVars, threadVars,
                 cpuVars, walkVars, processorVars>>

AllocatorSteps ==
  /\ part = "allocator"
  /\ AllocatorStep
  /\ UNCHANGED <<part, vars, rangeVars, readerVars, listVars, threadVars,
                 cpuVars, walkVars, processorVars>>

RangeSteps ==
  /\ part = "ranges"
  /\ RangeStep
  /\ UNCHANGED <<part, vars, allocatorVars, readerVars, listVars, threadVars,
                 cpuVars, walkVars, processorVars>>

ReaderSteps ==
  /\ part = "lines"
  /\ Reader!Step
  /\ UNCHANGED <<part, vars, allocatorVars, rangeVars, listVars, threadVars,
                 cpuVars, walkVars, processorVars>>

ListSteps ==
  /\ part = "modules"
  /\ List!ListStep
  /\ UNCHANGED <<part, vars, allocatorVars, readerVars, threadVars,
                 cpuVars, walkVars, processorVars>>

ThreadSteps ==
  /\ part = "stacks"
  /\ Threads!MemoryStep
  /\ UNCHANGED <<part, vars, allocatorVars, readerVars, listVars, cpuVars,
                 walkVars, processorVars>>

CpuSteps ==
  /\ part = "cores"
  /\ Cpu!Step
  /\ UNCHANGED <<part, vars, allocatorVars, rangeVars, readerVars, listVars, threadVars,
                 walkVars, processorVars>>

WalkSteps ==
  /\ part = "walk"
  /\ Walk!WalkStep
  /\ UNCHANGED <<part, vars, allocatorVars, rangeVars, readerVars, listVars, threadVars,
                 cpuVars, processorVars>>

SymbolSteps ==
  /\ part = "symbols"
  /\ Processor!ProcessStep
  /\ UNCHANGED <<part, vars, allocatorVars, rangeVars, readerVars, listVars, threadVars,
                 cpuVars, walkVars>>

\* The part has nothing left to do.
PartIsOver ==
  /\ CASE part = "allocator" -> ~exists
       [] part = "lines" -> Reader!Over
       [] part = "modules" -> List!ListIsOver
       [] part = "stacks" -> Threads!MemoryIsOver
       [] part = "cores" -> Cpu!Over
       [] part = "walk" -> Walk!WalkIsOver
       [] part = "symbols" -> Processor!ProcessorIsOver
       [] OTHER -> FALSE
  /\ UNCHANGED partVars

PartStep ==
  \/ FileSteps
  \/ AllocatorSteps
  \/ RangeSteps
  \/ ReaderSteps
  \/ ListSteps
  \/ ThreadSteps
  \/ CpuSteps
  \/ WalkSteps
  \/ SymbolSteps
  \/ PartIsOver

\* A call that one thread has made goes on, in every part that has a range map,
\* and a walk goes on.
CallGoesOn ==
  /\ \/ part # "stacks" /\ StoreRangeInternal
     \/ part = "stacks" /\ Threads!Ranges!StoreRangeInternal
  /\ UNCHANGED <<part, vars, allocatorVars, readerVars, listVars, threadVars,
                 cpuVars, walkVars, processorVars>>

PartSpec ==
  /\ PartInit
  /\ [][PartStep]_partVars
  /\ WF_partVars(CallGoesOn)
  /\ WF_partVars(WalkSteps)

(***************************************************************************)
(* Properties.                                                             *)
(***************************************************************************)

\* Every variable has its type in the part it belongs to.
PartsTypeOK ==
  /\ part = "file" => TypeOK
  /\ part = "allocator" => AllocatorTypeOK
  /\ part = "ranges" => RangeTypeOK
  /\ part = "lines" => Reader!TypeOK
  /\ part = "modules" => List!ListTypeOK
  /\ part = "stacks" => Threads!MemoryTypeOK
  /\ part = "cores" => Cpu!TypeOK
  /\ part = "walk" => Walk!TypeOK
  /\ part = "symbols" => Processor!ProcessorTypeOK

\* The file of a dump in which nothing failed has all that was allocated in it,
\* and the list of memory has of every thread what it should.
EverythingIsThere == EverythingWritten /\ Threads!TakesWhatIsThere

\* What is looked up is what was put in: the lines of a file of /proc are read
\* whole, an address is found in the mapping that maps has for it, in the range
\* that the strategy says, by the reader of a dump in its module, and by who walks
\* a thread in the memory of that thread; the callers that a walk finds lie above
\* each other on the stack; each thread of a report is there with its symbols, or
\* they are reported to be missing; and the highest frequency is that of the cores
\* that are there.
LookupsAreRight ==
  /\ part = "lines" => Reader!LinesAreWhole
  /\ part = "modules" => List!LookupsMatchMaps /\ List!ModulesAreFound
  /\ part = "stacks" => Threads!StacksAreFound
  /\ part \in {"ranges", "modules"} => FollowsStrategy
  /\ part = "walk" => Walk!WalkGoesUp
  /\ part = "symbols" => /\ Processor!ThreadsAreKept
                         /\ Processor!SymbolsAreReported
                         /\ Processor!SymbolsAreFetchedOnce
  /\ part = "cores" => Cpu!MaximumIsFound

\* A call of StoreRange returns, however often it has to call itself, and a walk
\* ends, whatever the stack and the call frame information say.
CallsReturn == []<>(call = NoCall /\ (part = "walk" => Walk!WalkIsOver))

=============================================================================
