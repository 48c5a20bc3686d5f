-------------------------- MODULE MinidumpProcessor --------------------------
(***************************************************************************)
(* How the processor goes through the threads of a dump and finds symbols  *)
(* for their frames (MinidumpProcessor::Process, minidump_processor.cc;    *)
(* stack_frame_symbolizer.cc; simple_symbol_supplier.cc;                   *)
(* source_line_resolver_base.cc).  One processor reads dump after dump:    *)
(* what the symbolizer knows to be missing is forgotten in between, what   *)
(* the resolver has loaded stays.                                          *)
(*                                                                         *)
(* A frame is its module here, and a module its code file: the symbols are *)
(* kept by that name alone.  Frames outside all modules have no effect and *)
(* are left out; where frames come from is in Stackwalker.  What a         *)
(* supplier answers is up to it: the symbols are there, or not, or it      *)
(* interrupts the processing to fetch them.                                *)
(***************************************************************************)
EXTENDS Integers, Sequences, FiniteSets

CONSTANTS
  CodeFiles,   \* the code files
  ThreadIds,
  MaxThreads,  \* the threads of a dump: a bound
  MaxDumps     \* the dumps that are processed: a bound

NoId == 0
Ids == ThreadIds \cup {NoId}

VARIABLES
  has,                      \* those of supplier_, resolver_ that are not NULL
  fast,                     \* ~ShouldDeleteMemoryBufferAfterLoadModule
  dump,                     \* what is read of the dump
  dumps,                    \* how many dumps have been read
  thread_index,             \* the thread that is looked at, from 1
  found_requesting_thread,
  interrupted,
  requesting_thread,        \* process_state->requesting_thread_
  threads,                  \* the ids of process_state->threads_
  without, corrupt,         \* modules_without_symbols_, modules_with_corrupt_symbols_
  no_symbol_modules,        \* no_symbol_modules_
  loaded,                   \* modules_
  corrupt_modules,          \* corrupt_modules_
  memory_buffers,           \* memory_buffers_ of the supplier
  allocated,                \* the memory of the supplier that nobody has freed
  processing,               \* "idle", "threads", "walk", or what Process returned
  seen,                     \* the modules of the frames of this dump
  answered                  \* how often the supplier had an answer for a module

stateVars == <<requesting_thread, threads, without, corrupt>>
symbolVars == <<no_symbol_modules, loaded, corrupt_modules, memory_buffers, allocated>>
processorVars == <<has, fast, dump, dumps, thread_index, found_requesting_thread,
                   interrupted, stateVars, symbolVars, processing, seen, answered>>

\* What a dump says of its threads.  The exception's thread is the requesting one,
\* whatever the Breakpad information says.
Dumps == [threads : UNION {[1..n -> ThreadIds] : n \in 0..MaxThreads},
          dump_thread : Ids, requesting : Ids]
Blank == [threads |-> <<>>, dump_thread |-> NoId, requesting |-> NoId]

ClearState ==
  /\ requesting_thread' = -1
  /\ threads' = <<>>
  /\ without' = {} /\ corrupt' = {}

ProcessorInit ==
  /\ has \in SUBSET {"supplier", "resolver"}
  /\ fast \in BOOLEAN
  /\ dump = Blank
  /\ dumps = 0
  /\ thread_index = 1
  /\ found_requesting_thread = FALSE
  /\ interrupted = FALSE
  /\ requesting_thread = -1 /\ threads = <<>> /\ without = {} /\ corrupt = {}
  /\ no_symbol_modules = {} /\ loaded = {} /\ corrupt_modules = {}
  /\ memory_buffers = {} /\ allocated = 0
  /\ processing = "idle"
  /\ seen = {}
  /\ answered = [f \in CodeFiles |-> 0]

(***************************************************************************)
(* Process.                                                                *)
(***************************************************************************)

Returned == processing \notin {"threads", "walk"}

Process(d) ==
  /\ Returned
  /\ dumps < MaxDumps
  /\ dumps' = dumps + 1
  /\ dump' = d
  /\ thread_index' = 1
  /\ found_requesting_thread' = FALSE
  /\ interrupted' = FALSE
  /\ ClearState
  /\ no_symbol_modules' = {}
  /\ processing' = "threads"
  /\ seen' = {}
  /\ answered' = [f \in CodeFiles |-> 0]
  /\ UNCHANGED <<has, fast, loaded, corrupt_modules, memory_buffers, allocated>>

ThreadId == dump.threads[thread_index]
IsRequesting == dump.requesting # NoId /\ ThreadId = dump.requesting
IsDumpThread == dump.dump_thread # NoId /\ ThreadId = dump.dump_thread

\* The thread that took the dump is passed over.
PassOver ==
  /\ IsDumpThread
  /\ thread_index' = thread_index + 1
  /\ UNCHANGED <<found_requesting_thread, requesting_thread, processing>>

\* There cannot be more than one requesting thread.
Duplicate ==
  /\ ~IsDumpThread /\ IsRequesting /\ found_requesting_thread
  /\ processing' = "duplicate"
  /\ UNCHANGED <<thread_index, found_requesting_thread, requesting_thread>>

\* The requesting thread is known by its place among the threads that are kept.
BeginWalk ==
  /\ ~IsDumpThread /\ ~(IsRequesting /\ found_requesting_thread)
  /\ found_requesting_thread' = (found_requesting_thread \/ IsRequesting)
  /\ requesting_thread' = IF IsRequesting THEN Len(threads) ELSE requesting_thread
  /\ processing' = "walk"
  /\ UNCHANGED thread_index

LookAtThread ==
  /\ processing = "threads"
  /\ thread_index <= Len(dump.threads)
  /\ PassOver \/ Duplicate \/ BeginWalk
  /\ UNCHANGED <<has, fast, dump, dumps, interrupted, threads, without, corrupt,
                 symbolVars, seen, answered>>

KeepThread ==
  /\ threads' = Append(threads, ThreadId)
  /\ thread_index' = thread_index + 1
  /\ processing' = "threads"

\* The walk has no more frames, or none for want of a context.
EndWalk ==
  /\ processing = "walk"
  /\ KeepThread
  /\ UNCHANGED <<has, fast, dump, dumps, found_requesting_thread, interrupted,
                 requesting_thread, without, corrupt, symbolVars, seen, answered>>

Finish ==
  /\ processing = "threads"
  /\ thread_index > Len(dump.threads)
  /\ IF interrupted
     THEN processing' = "interrupted" /\ UNCHANGED requesting_thread
     ELSE /\ processing' = "ok"
          /\ requesting_thread' =
               IF found_requesting_thread THEN requesting_thread ELSE -1
  /\ UNCHANGED <<has, fast, dump, dumps, thread_index, found_requesting_thread,
                 interrupted, threads, without, corrupt, symbolVars, seen, answered>>

(***************************************************************************)
(* FillSourceLineInfo for an address in module f.                          *)
(***************************************************************************)

MustFetch(f) == "resolver" \in has /\ f \notin no_symbol_modules \cup loaded

Answers(f) == answered' = [answered EXCEPT ![f] = @ + 1]

\* No resolver, no supplier, or no symbols when last asked.
KnownMissing(f) ==
  /\ \/ "resolver" \notin has
     \/ f \in no_symbol_modules
     \/ MustFetch(f) /\ "supplier" \notin has
  /\ UNCHANGED <<symbolVars, answered>>

HasModule(f) ==
  /\ "resolver" \in has
  /\ f \in loaded \ no_symbol_modules
  /\ UNCHANGED <<symbolVars, answered>>

Asks(f) == MustFetch(f) /\ "supplier" \in has

\* Corrupt or not; it fails only for a module that has been loaded, and that is not
\* asked for.
LoadModuleUsingMemoryBuffer(f) ==
  /\ loaded' = loaded \cup {f}
  /\ corrupt_modules' \in {corrupt_modules, corrupt_modules \cup {f}}

\* The supplier keeps the first memory it had for a module; a resolver that has made a
\* copy lets it free that.
SymbolData(f) ==
  IF fast
  THEN memory_buffers' = memory_buffers \cup {f} /\ allocated' = allocated + 1
  ELSE memory_buffers' = memory_buffers \ {f} /\ UNCHANGED allocated

Found(f) ==
  /\ Asks(f)
  /\ SymbolData(f)
  /\ LoadModuleUsingMemoryBuffer(f)
  /\ Answers(f)
  /\ UNCHANGED no_symbol_modules

NotFound(f) ==
  /\ Asks(f)
  /\ no_symbol_modules' = no_symbol_modules \cup {f}
  /\ Answers(f)
  /\ UNCHANGED <<loaded, corrupt_modules, memory_buffers, allocated>>

Interrupts(f) == Asks(f) /\ UNCHANGED <<symbolVars, answered>>

(***************************************************************************)
(* What a walk makes of the result.                                        *)
(***************************************************************************)

GoesOn == UNCHANGED <<thread_index, interrupted, threads, processing>>

\* A frame: its module is reported for kError and for kWarningCorruptSymbols.  For
\* kInterrupt the walk is given up; the thread is kept, and the next one walked.
AddFrame(f) ==
  /\ processing = "walk"
  /\ seen' = seen \cup {f}
  /\ \/ /\ KnownMissing(f) \/ NotFound(f)
        /\ without' = without \cup {f}
        /\ GoesOn /\ UNCHANGED corrupt
     \/ /\ HasModule(f) \/ Found(f)
        /\ corrupt' = corrupt \cup ({f} \cap corrupt_modules')
        /\ GoesOn /\ UNCHANGED without
     \/ /\ Interrupts(f)
        /\ interrupted' = TRUE
        /\ KeepThread /\ UNCHANGED <<without, corrupt>>
  /\ UNCHANGED <<has, fast, dump, dumps, found_requesting_thread, requesting_thread>>

\* A word on the stack that may be a return address: nothing is reported, and nothing
\* interrupted.
InstructionAddressSeemsValid(f) ==
  /\ processing = "walk"
  /\ KnownMissing(f) \/ HasModule(f) \/ Found(f) \/ NotFound(f) \/ Interrupts(f)
  /\ GoesOn
  /\ UNCHANGED <<has, fast, dump, dumps, found_requesting_thread, requesting_thread,
                 without, corrupt, seen>>

ProcessStep ==
  \/ \E d \in Dumps : Process(d)
  \/ LookAtThread
  \/ EndWalk
  \/ Finish
  \/ \E f \in CodeFiles : AddFrame(f) \/ InstructionAddressSeemsValid(f)

ProcessorIsOver == Returned /\ dumps = MaxDumps

(***************************************************************************)
(* Properties.                                                             *)
(***************************************************************************)

Results == {"ok", "interrupted", "duplicate"}

ProcessorTypeOK ==
  /\ has \subseteq {"supplier", "resolver"} /\ fast \in BOOLEAN
  /\ dump \in Dumps /\ dumps \in 0..MaxDumps
  /\ thread_index \in 1..MaxThreads + 1
  /\ found_requesting_thread \in BOOLEAN /\ interrupted \in BOOLEAN
  /\ requesting_thread \in -1..MaxThreads - 1
  /\ threads \in UNION {[1..n -> ThreadIds] : n \in 0..MaxThreads}
  /\ without \cup corrupt \cup seen \cup no_symbol_modules \subseteq CodeFiles
  /\ loaded \cup corrupt_modules \cup memory_buffers \subseteq CodeFiles
  /\ allocated \in Nat
  /\ processing \in {"idle", "threads", "walk"} \cup Results
  /\ answered \in [CodeFiles -> Nat]

\* The place of a thread in the report is how many are kept, up to it.
Keeps(i) == dump.threads[i] # dump.dump_thread
Place(i) == Cardinality({j \in 1..i : Keeps(j)})

\* Whoever reads the report finds the requesting thread at the index it is given,
\* although threads before it may be left out: it is the only one with its id, and
\* without an index no thread that is kept has that id.  And no thread is lost to an
\* interruption of the walk before it.
ThreadsAreKept ==
  processing \in {"ok", "interrupted"} =>
    /\ Len(threads) = Place(Len(dump.threads))
    /\ \A i \in DOMAIN dump.threads : Keeps(i) => threads[Place(i)] = dump.threads[i]
    /\ {i \in DOMAIN threads : threads[i] = dump.requesting} =
         IF requesting_thread = -1 THEN {} ELSE {requesting_thread + 1}

\* Each module of a frame has its symbols loaded or is reported to have none, never
\* both, though the supplier may interrupt one thread and answer the next, or be
\* asked while the stack is scanned; and one that is reported as corrupt has been
\* loaded.
SymbolsAreReported ==
  /\ without \cap loaded = {}
  /\ corrupt \subseteq loaded
  /\ processing = "ok" => seen \subseteq without \cup loaded

\* In one dump a supplier has to answer once for a module; nothing is reported as
\* missing from what it said of an earlier dump; and the resolver's symbols lie in
\* memory that the supplier still has, all of which it can free.
SymbolsAreFetchedOnce ==
  /\ \A f \in CodeFiles : answered[f] <= 1
  /\ has = {"supplier", "resolver"} => \A f \in without : answered[f] = 1
  /\ memory_buffers = IF fast THEN loaded ELSE {}
  /\ allocated = Cardinality(memory_buffers)

=============================================================================
