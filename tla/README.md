# Verification of the crash reporter in android_performance

This directory holds TLA+ models of the native part of the android_performance demo app, the TLC
configurations that check them, and proofs that TLAPS checks. The app shows performance problems
of Android (leaks, ANRs, hooks, native crashes); the substance of its native code is the crash
reporter it links, Google Breakpad, with its signal handlers, its cloned dumper and its ptrace.
The repository holds all of Breakpad: the servers that dump a process from outside, the handlers of
the other platforms and the processor that reads the dumps. The models begin with what the app
compiles and go on to the parts that are concurrent or that read what the first ones write.

Paths below are relative to `src/app/src/main/cpp/` or, for Breakpad, to
`src/app/src/main/cpp/breakpad/src/`. "eh" is `client/linux/handler/exception_handler.cc`.

## Inventory

| Component | State | Operations | Hard part | Correct when |
|---|---|---|---|---|
| Signal handling (eh) | `g_handler_stack_`, its mutex, `g_crash_context_`, `old_handlers`, `handlers_installed`, dispositions in the kernel | constructor, destructor, `SignalHandler`, `HandleSignal`, `SimulateSignalDelivery`, `SetFirstChanceExceptionHandler` | any number of threads crash, construct and destroy at once; other code uses `signal()` | a handler in use is alive, handlers are asked newest first, a dump has its own context, no crash is swallowed or hangs |
| In-process dump (eh, `minidump_descriptor.cc`) | `fdes`, the pipe, `PR_SET_PTRACER`, the path, the child | `WriteMinidump`, `GenerateDump`, `ThreadEntry`, `WaitForContinueSignal`, `DoDump` | parent and child, several dumps, death of the process, failing `pipe` and `clone` | the child waits for its permission, descriptors come back, a success is a complete file, everything ends |
| Minidump writer, ptrace dumper (`minidump_writer.cc`, `linux_ptrace_dumper.cc`) | `threads_`, `threads_suspended_`, `crashing_thread_context_`, `memory_blocks_` | `Init`, `ThreadsSuspend`, `Dump`, `ThreadsResume`, destructor | the dumped process runs on while it is stopped: threads start, exit, get signals; stacks are cut when the file is limited | threads are copied while they stand still, none is lost, all run again, what is taken of a stack is what is needed |
| Minidump file writer (`minidump_file_writer.cc`) | `position_`, `size_`, the file | `Allocate`, `Copy`, MDRVA objects and their destructors, `WriteString`, `Close` | failing `ftruncate` and `write`, out-of-order copies, UTF-8 to UTF-16 | every byte is written by the object it was allocated to |
| Alternate signal stack (eh 134-186) | `stack_installed`, `old_stack`, `new_stack` | install, restore | globals against a per-thread kernel setting | each thread gets its own stack back, none is used after it is freed |
| Crash generation on Linux (`client/linux/crash_generation/`) | a socket, a pipe per request, the server's thread and its command pipe | `RequestDump`, `Start`, `Stop`, `ClientEvent`, `ControlEvent` | several processes; a way out of `ClientEvent` for every failure | every client is answered or sees the end, stopping ends |
| Crash generation on Windows (`client/windows/crash_generation/`) | `server_state_`, the named pipe, `clients_`, the waits registered for each client | registration, acknowledgement, dump requests, client exit, destructor | callbacks of a thread pool against the destructor; clients that die at any point | no client is used after it is deleted, the server serves again, everything ends |
| Handler on Windows (`client/windows/handler/`) | `handler_stack_`, `handler_stack_index_`, the filter, two semaphores per handler | constructor, destructor, `HandleException`, `HandleInvalidParameter`, `WriteMinidump`, `ExceptionHandlerThreadMain` | handlers that call each other through the filter, one dumping thread per handler | the chain is asked in order, an answer reaches who asked |
| Handler on macOS (`client/mac/handler/`) | a Mach port, the handler's thread, a mutex locked twice, suspended threads | constructor, destructor, `WaitForMessage`, `WriteMinidump` | messages in a queue of limited length, an object that goes while its thread works | nobody stays suspended, exceptions and calls are resolved |
| Mappings and modules (`linux_dumper.cc`, `line_reader.h`, `minidump_writer.cc`; on the reading side `minidump.cc`, `basic_code_modules.cc`) | `mappings_`, the list in the file, the range map of the reader | `EnumerateMappings`, `LatePostprocessMappings`, `WriteMappings`, `MinidumpModuleList::Read`, the copy of `BasicCodeModules` | libraries whose load bias moves them over others; one bad module refuses the list | an address in the process is found in its module by the reader |
| Range map (`processor/range_map-inl.h`) | `map_`, the strategy | `StoreRange`, `StoreRangeInternal`, `RetrieveRange` | recursion that cuts ranges in two directions, sums at the end of the address space | ranges are apart, the strategy is kept |
| Symbols (`minidump_processor.cc`, `stack_frame_symbolizer.cc`, `simple_symbol_supplier.cc`, `source_line_resolver_base.cc`) | `no_symbol_modules_`, `modules_`, `memory_buffers_`, what a report says | `Process`, `FillSourceLineInfo`, `LoadModuleUsingMemoryBuffer` | a supplier that answers one thread and interrupts another; what is forgotten and kept between dumps | each thread is kept, each module has symbols or is reported, once |
| Stack memory and walker (`minidump_writer.cc`; on the reading side `minidump.cc`, `minidump_processor.cc`, `stackwalker.cc`, `stackwalker_arm.cc`) | `memory_blocks_`, the memory list, the frames of a walk | `FillThreadStack`, `MinidumpMemoryList::Read`, `Walk`, `GetCallerFrame` | stacks that overlap or were cut or left out; stacks that were overwritten before the crash | each thread is walked in its own stack; a walk goes up and ends |
| Page allocator (`common/memory_allocator.h`) | the current page, the list of pages | `Alloc`, `FreeAll` | blocks longer than a page, the offset at the end of one | blocks are apart and inside their pages |
| Microdump writer, ELF, registers, text and UUID helpers | data | parsing and formatting | none of it concurrent | outputs follow inputs |
| Demo crashes (`native_capture.cpp`, `mock_native_crash.cpp`) | one handler in a scope | construct, crash | the handler must outlive the crash | the crash is reported |
| Hooks (`hook_functions.cpp`) | `originFunc`, a GOT slot | install, call through | other threads allocate during the installation; installing twice | a call reaches the real function once |
| CPU information (`optimize.cpp`) | none | count cores, maximum frequency | cores that are numbered with gaps, go offline, come back | the maximum over all cores |
| Activities (Java), ASM plugin (Groovy) | handlers and delayed messages; nothing | button handlers | main thread against delays | the demo shows its effect |

How they interact: an activity calls a native method; `captureNativeCrash` constructs an
`ExceptionHandler` (no filter, a callback that returns false, in process) and crashes. The kernel
calls `SignalHandler`, which asks the handlers on the stack; `HandleSignal` copies the crash context
and calls `GenerateDump`; that clones a child; the child runs `WriteMinidump`, which drives the
ptrace dumper and writes through the file writer; its exit status comes back to the callback, and the
signal is retriggered. A handler that has a crash generation client sends a request to a server
instead, and that runs the same writer. The processor reads what the writer wrote: the mappings of
the dumper become modules in the file and ranges in its map.

## Modules

| Module | Models | State and actions |
|---|---|---|
| `ExceptionHandler` | the process-wide half of eh | one variable per global and per kernel disposition; `pc`, `frame`, `idx` are where each thread is, the arguments and the loop variable of its `SignalHandler`. `CtorEnter`/`CtorExit`, `DtorEnter`/`DtorExit` are the code before and inside the mutex; `Raise`, `Deliver`, `Retrigger` are the kernel; `FirstChance*`, `Lock`, `ResetFlags`, `EnterLoop`, `FilterDeclines`, `FillContext`, `FinishHandle`, `SettleDisposition`, `Reraise` are `SignalHandler` and `HandleSignal` in their order; `MeddleSave`/`MeddleRestore` the buggy code with `signal()` that its comment describes |
| `HandlerChain` | what a stack of handlers promises | handlers join and leave; a crash asks them newest first, undisturbed |
| `ExceptionHandlerChain` | the refinement of the second by the first | `ImplementsChain` |
| `GenerateDump` | one process, several dumping threads, one child each | file tables of the process and of the children, bytes in the pipes, the one permitted tracer, paths and files; one action per system call of `GenerateDump` and of the child |
| `MinidumpWriter` | the dumper against the threads it dumps | thread states, tracers and pending signals in the kernel; `threads_` and its loop variable in the dumper; `DumperInit`, `Attach`/`AttachFails`/`Waited`/`SuspendEnds`, `Open`, `WriteThread`, `WriteStreams`, `ResumeThread`/`ResumeEnds`, `Destroy`, `ExitDumper` |
| `InProcessDump` | the two above composed | the one step `DoDump` of `GenerateDump` is the whole run of a dumper, which stops the very thread that waits for it |
| `LinuxCrashGeneration`, `WindowsCrashGeneration` | a server with its clients, on each platform | Linux: the queue of the socket, the descriptors of each request, the server's thread. Windows: the states of `server_state_`, the pipe, `AddClient` between its calls, one callback per client and kind, both destructors. The calls of the system that may fail do (`poll`, the handles of a `ClientInfo`, a wait) |
| `DumpRequests` | what both servers promise | a client that asks waits until the server has finished with that request or is gone; nothing, where the server is still at an earlier request of that client |
| `OutOfProcessDump` | the two servers beside `DumpRequests` | `ImplementsDumpRequests` |
| `WindowsExceptionHandler`, `MacExceptionHandler` | the handler on the other platforms | Windows: the stack and its lock, the filters that handlers found and call, the two semaphores of a handler's thread. macOS: the port, the thread, the mutex of `WriteMinidump` |
| `AlternateStack` | eh 134-186 | globals of the process, one kernel setting per thread, other code that sets it |
| `PltHook` | the app's hook of `malloc` | the slot, `originFunc`, the installer between them, the threads that call through |
| `OtherHandlers` | the four above | `ImplementsChain`: the handlers of Windows keep the promise of `HandlerChain` as well |
| `MinidumpFileWriter` | the file | a byte is the number of the object that wrote it; `NewTyped`, `NewString`, `WriteElement`, `WriteString`, `Destroy`, `CarryOn`, `Close`, `Leave` |
| `PageAllocator` | the allocator under a dump | a set of pages is its length; `Alloc` by its three ways |
| `LineReader` | the reader of `/proc` | the file in pieces as `read` delivers them, the buffer, the lines returned |
| `Mappings` | `mappings_` and the two lookups | one action per line, one for moving the program to the front, one for the load biases |
| `ModuleList` | the list of modules from the writer to the reader | extends `Mappings` with the list in the file, its reading and its copy; the range map is an instance of `RangeMap` |
| `RangeMap` | the map of ranges | one action per branch of `StoreRangeInternal`; `call` is the recursive call to come |
| `ThreadStacks` | the memory of the threads that a dump takes | `GetStackInfo`, `FillThreadStack` and the thread loop |
| `MemoryList` | the way of that memory to the walker | extends `ThreadStacks` with the reading of the list, again over an instance of `RangeMap`, and with the processor's choice of a thread's memory |
| `Stackwalker` | a walk on ARM | the frames found so far and the frame at hand; `AddFrame` and `Interrupt` are the two outcomes of the symbolizer, `GetCallerFrame` asks for a caller by call frame information, by the frame pointer (on iOS) or by scanning |
| `MinidumpProcessor` | the threads and the symbols of a report | one processor over several dumps: `Process`, `LookAtThread`, `EndWalk`, `Finish` are the thread loop; `KnownMissing`, `HasModule`, `Found`, `NotFound`, `Interrupts` are the ways through `FillSourceLineInfo`, taken for a frame (`AddFrame`) or for a word that is scanned (`InstructionAddressSeemsValid`) |
| `CpuInformation` | `optimize.cpp` | one action per turn of the loop, cores that come and go |
| `SequentialParts` | the parts from `MinidumpFileWriter` to here, each of which runs in one thread | one behaviour is of one part |

The `MC*` modules give values that a configuration file cannot write. The theorems are in
`ExceptionHandlerProofs`, `GenerateDumpProofs`, `MinidumpWriterProofs`, `InProcessDumpProofs`,
`OutOfProcessProofs`, `OtherHandlersProofs`, `SequentialProofs` (the allocator, the range map, the file)
and `PartsProofs` (the other sequential parts, and all of them together).

What a step is. In `ExceptionHandler`, what a thread does between two points at which another
thread or a delivery can observe it. The six `sigaction` calls of an installation are one step: the
kernel reads only the disposition of the signal it delivers, so a delivery among the calls is one
before or after the step. In `GenerateDump` a step is one system call, in `MinidumpWriter` one ptrace
operation or one thread written, in the servers one callback or event up to the next call that can
block, in the sequential parts one call or one turn of a loop.

Three modules are sums: `OtherHandlers`, `OutOfProcessDump` and `SequentialParts` choose in their
initial state which of their parts has steps (`system`, `platform`, `part`), and the state of the
others stays as it was. A state of a sum is a state of one part, so a property of a part means there
what it means alone; fairness is that of each part. What is shared between platforms, the promise, is
stated once over the sum.

Two abstractions deserve naming. `GenerateDump` leaves the dump itself as "ok or failed";
`InProcessDump` puts `MinidumpWriter` in the place of that step, and `MinidumpFileWriter` is the
inside of its writes. And a dump has no contents except whose context, which threads, which memory
and which objects are in it.

Beside some definitions stand variants with one plausible mistake (`AcquireWithoutWaiting`,
`DropTheNext`, `GrowthByPages`...). Nothing refers to them: put in the place of the definition, each
breaks the property that `PROJECT.json` pairs it with, which shows that the property can fail.

## Runs

Run one with `tlc -workers 2 -config <run>.cfg <module>` (module as in `PROJECT.json`).

| Run | Instance | Shows |
|---|---|---|
| `EH_core` | 2 threads that both construct, destroy and crash; 2 installing handlers; 1 signal; fairness | types, `DumpsOwnContext`, `HandlerInUse`, `OldHandlersAreForeign`; the stack implements `HandlerChain`; `CrashResolved` |
| `EH_one` | 2 threads, 1 permanent handler, a fault and SIGABRT: the app's own use | `CrashNeverSwallowed`, `NeverFaults` |
| `EH_hostile` | an installing and a passive handler; a simulating and a meddling thread beside a crash and a destructor | the chain survives both |
| `GD_parallel` | a crash and an explicit dump at once, two handlers, failing `pipe` and `clone`, the process may be killed | `Handshake`, `FdsReturned`, `DumpEnds` |
| `DUMP_core` | one thread that dumps twice, three threads, one of them starting late; failures everywhere, the process may be killed | `CopiedWhileStopped`, `ProcessRunsOn`, `HeldWhileAwaited`, `SuccessIsComplete`, `DumpEnds` across parent, child and dumped threads |
| `OOP_core` | 2 clients against the Linux server, or against the Windows server; they ask twice, time out and end at any time, and calls of the server fail | `WaitsWhileDumped`, `NoUseAfterDelete`, `NothingIsLeft`, `Answered`, `StopEnds`, `Serves`; both implement `DumpRequests` |
| `HND_core` | 2 nested handlers on Windows, one on macOS, 3 threads and their alternate stacks on Linux, the hook with 2 callers | `InstalledIsLive`, `AnswersItsRequester`, `WritesForTheLiving`, `NoFreedStack`, `ExceptionResolved`; Windows implements `HandlerChain` |
| `SEQ_core` | the sequential parts, each over all its small inputs | `OwnWritesOnly`, `EverythingIsThere`, `BlocksAreApart`, `RangesApart`, `LookupsAreRight`, `CallsReturn` |

Four runs end in a counterexample; each refutes a sentence of the repository (quoted in
`PROJECT.json` under findings):

| Run | Counterexample |
|---|---|
| `EH_bug_destroyed` | a crash waits for the mutex while the last handler is destroyed; it then reads `g_handler_stack_`, which is NULL |
| `MW_bug_exit` | a thread that exits between attach and stop is kept, and the whole dump fails on it |
| `OOP_bug_leak` | the Linux server cannot make a file name and forgets the descriptor that its client waits on |
| `STACK_bug_chunk` | with a limit on the size, a thread whose stack pointer is just at the end of a chunk is left an empty chunk |

### What the properties leave out

A property that the code does not keep in every state says which states it is about. These are the
states it excludes, each found by TLC when the exclusion was not there:

- The resolver keeps symbols by code file and over dumps: a second dump with another build of a file
  gets the symbols of the first. `SymbolsAreReported` says nothing of builds. `symbol_supplier.h:52`
  has an interruption stop the processing at once, but `Process` walks the other threads first (it looks
  at `interrupted` after the loop, 360), and a scan takes an interruption for a valid address
  (`stackwalker.cc:346-351`); `ThreadsAreKept` is about the code.
- `SignalHandler`, put back by `signal()` after the old handlers were restored, takes the same crash
  for ever: `OldHandlersAreForeign` and `NeverFaults` are about processes without `signal()`.
- The path of a handler is new after each dump, but a descriptor used twice without its
  `UpdatePath` finds the file existing (`O_EXCL`): `SuccessIsComplete` has a handler per path.
- A surrogate pair is copied to its index times four in the string (`minidump_file_writer.cc:204`):
  the strings of `SEQ_core` have none.
- Two dumps of one process at once take the permission to trace away from each other and drop each
  other's threads; the children of two dumps inherit each other's write end, and if the process is
  killed then, neither sees the end of file. `DUMP_core` has one dump at a time.
- A dumper that finds another signal than its SIGSTOP loses it, and its own SIGSTOP arrives later and
  stops the process: `ProcessRunsOn` and `DumpEnds` name that state.
- On Windows, a client that ends while `AddClient` is at it may be deleted by `OnClientEnd` before it is
  listed (`crash_generation_server.cc:777-808`): `NoUseAfterDelete` says of every other client that what
  the list or `AddClient` has is not deleted, and names these (`early`). A client that times out and asks
  again at once (`crash_generation_client.cc:351-377`) may take the late answer to its first request for
  that to its second, and its second may be reset unseen: `DumpRequests` promises nothing for a request
  that is made while the server is at an earlier one of that client (`late`).
- On Windows, `NothingIsLeft` names the two callbacks that may still run when the destructor is done:
  `HandleErrorState`, which has taken the handle of its wait away from the destructor (278) and closes
  the pipe and the event as the destructor does; and an `OnClientEnd` that has taken its client off the
  list (869-870) and is about to delete it, which the destructor neither sees nor waits for.
- An exception in a handler's thread on Windows waits for the lock whose holder waits for that thread.
- On Linux, an error of `poll` ends the server's thread, and `Stop` has not been called: who waits then
  waits on (`GivenUp`). A request that `Stop` leaves in the socket is let go when the socket is
  closed, which the repository leaves to the program that made it.
- On Linux, `CreateReportChannel` and `Start` leave descriptors behind when they fail half-way; a
  context of the wrong size leaks the client's descriptor (`Foreign`); `generate_dumps_` is kept and
  never read; `RequestDump` returns true also when the dump failed.
- On macOS, a second `WriteMinidump` on one handler locks the mutex that the first one left locked;
  the thread reads its port from an object that the destructor may have freed; after an exception that
  the previous port recovers from nobody resumes the threads; and where the message of `WriteMinidump`
  cannot be sent, `use_minidump_write_mutex_` stays set.
- When another thread than the first destroys the last handler, the first is left with an alternate
  stack that is freed: `NoFreedStack` has one thread that constructs and destroys.
- Installed twice, the hook of `malloc` calls itself; between the two assignments of one installation
  a call may go wrong; nothing checks `mprotect` nor that the slot was found; and
  `hookMallocByPLTHook` is declared `[[noreturn]]` and returns. `my_write`, beside it, writes the
  buffer as a C string whatever `count` says (`hook_functions.cpp:190-194`).
- Cores whose numbers have a gap are not all looked at.
- An address of a library that was moved down over the program's mapping is looked up as the
  program's; code of a library above another module may be in no module for the reader. The reader's
  second attempt without the correction (`minidump.cc:3246-3253`) is not taken for a plain overlap
  any more, since the map cuts (3104).
- Two threads whose stacks are close together in one mapping, or code next to a stack, have some
  memory taken twice, and the reader then refuses the whole memory list (`minidump.cc:3514`):
  `StacksAreFound` says that nothing else does it. Threads with a stack of their own are walked all
  the same; one whose stack was left out has then no memory.
- The walk passes both of its limits a little: `max_frames_` is compared with `>` after a frame was
  added (`stackwalker.cc:191`), and a scan looks at one word more than it was told (`<=`,
  `stackwalker.h:169-170`). Its header says that at most 1024 frames are scanned by default
  (`stackwalker.h:253`); the code has 1 << 14. `WalkGoesUp` has the limits of the code.
- A walk over call frame information that is wrong still goes up, but is bounded by the frames only:
  the stack pointer it computes may leave the memory.
- With a limit on the size, the thread that crashed is limited as well where no context was given,
  unlike `minidump_writer.cc:125-127` says: the crashing thread of `ThreadStacks` is the one whose
  context was given.

### Bounds

`EH_*`: two threads are enough for every hazard listed for `ExceptionHandler`: one in
`SignalHandler`, one that does what must not disturb it; two handlers make the order of asking
matter. Signals differ only in the SIGABRT test, so two are all there are. `GD_parallel`: two dumps at
once; `MaxFd` 4 is what two pipes take, and `MakePipe` may fail at any time, for the rest of the
process may hold the others. `DUMP_core` (about 460 000 states): the thread that dumps, one that exits
or gets a signal and one that starts late are the roles a thread can have for the dumper; `Budget` 2
lets a second dump meet what the first left. `OOP_core` (about 97 000): on Linux
two clients, one of which asks twice, compete for the one event loop and the socket of `Capacity` 1;
`Starts` 2 lets a client meet a server that was stopped and started. On Windows (`Visits`) one client
that asks twice meets the late answer to its first request, and two that only come and go compete for the
one instance of the pipe and for the list; what a request does is between one client and its own two
events, so that two clients that also ask add no hazard. `HND_core` (about 57 000): two
nested handlers are the least that call each other through the filter; a third thread waits for the
lock; `QueueLimit` 2 is filled by three threads; `Allocs` 3 alternate stacks let a handler be created
after a failure and after a restore.

`SEQ_core` (about 1.7 million): an outer and two inner objects or strings in a file; a string of two
bytes is two characters, one, or one and a byte that is none, and ends like an empty one; `Bound` is
three of the largest, `Page` is smaller than the largest so that both sides of the growth are taken,
`Modulus` stands for 2^32 and only has to exceed every sum that does not wrap. Three sets of pages of
8 bytes with a header of 2: `Sizes` has what fits, fits exactly, does not, and takes more than a page.
Files of up to 6 characters around a buffer of 3. Three mappings in 4 pages, three ranges in 5
addresses: three are the least that overlap in both directions at once. The entry point is in the
third page or not known: among all the ways the mappings can lie, that page is in the first, the
second, the third or none. Two stacks in 3 pages, with capture and chunk of 2 pages and half a page;
two are the least that overlap. Three words of stack with every content (where no frame pointer is
followed, each is of code or not: the walk asks for nothing else), any frame pointer and stack pointer
in and around them, `kRASearchWords` 1, `max_frames` 5 and `max_frames_scanned` 2: a cycle of two
frame pointers, a chain that leaves the memory, a guess between two others, and each limit before the
end of the stack all occur. Two dumps of up to two threads and frames in two modules: two threads are
the least of which one took the dump and moves the index of the other, or which have one id; the
second dump meets what is kept of the first. Four cores.

### Fairness and deadlock

`ExceptionHandler`: weak fairness for each thread's next step in `SignalHandler`; strong fairness for
getting the mutex (a futex that is released over and over is got) and for leaving a constructor or
destructor, finite code that a first-chance handler may interrupt again and again. No fairness for
crashing, constructing, simulating or meddling. `GenerateDump`: every thread and every child that can
run does; nobody has to dump or to die. `MinidumpWriter`: the dumper runs, and the kernel stops a
thread that has a reason to stop; nothing is promised of the threads. A thread in an uninterruptible
sleep breaks that assumption, and the dump then hangs, as the code would. `InProcessDump` has the
fairness of both.

The servers: their thread and callbacks run, clients that wait return when they can. On Windows nobody
has to take too long, but for a client that nobody hears (`Unheard`): one that the server has dropped
before listing it, or whose request may be reset unseen. Its wait is bounded by
`kWaitForServerTimeoutMs`, and only that ends it. Closing the socket on Linux is strongly fair, for the server
may be started again before it comes to it; no code of the repository closes it, so that `Answered` rests
here on the program that embeds the server, or on its end. Nothing is promised of who asks, connects or dies. In
`OtherHandlers` strong fairness stands for a lock that is released over and over and got in the end
(`Proceed`). `SequentialParts`: a call that was made goes on, and so does a walk that was begun; nobody
has to make one.

The deadlock check is off in the `EH_*` runs and in `HND_core`, because the program can really stop there.
In `EH_*` the mutex is not recursive, and a thread that crashes in a constructor or destructor waits for
itself; `CrashResolved` names that state. In `HND_core` an exception ends the process, a call through a
slot that is not yet right does, an exception in the handler's thread waits for a lock whose holder waits for that thread, and
on macOS a second `WriteMinidump` waits for a mutex that the first has left locked; `ExceptionResolved` names the states in which somebody waits.
All other runs check it: where a process ends, or nothing is left to do, the modules have a step that says
so (`Over`, `PartIsOver`).

## Proofs

The theorems are about any sets of threads, handlers, clients and signals, any number of dumps and
requests, and any sizes; where sets must be finite, that is said. Every safety property, action property
and refinement that a passing run checks is a theorem; what is left to TLC is liveness.

**`ExceptionHandlerProofs`.**

- `Invariance`: `IInv` is an invariant. The safety properties are not inductive: nothing in
  `HandlerInUse` says why the stack does not change. `IInv` adds that whoever is in the loop, the
  constructor or the destructor, even interrupted there by a signal, holds the mutex
  (`MutexHeld`); that a thread past the lock has interrupted ordinary code (`FramesOK`); that an object
  under construction is new (`ObjectsOK`); that the loop variable is inside the stack (`LoopOK`); that
  the stack has no handler twice or destroyed (`StackOK`).
- `TypeCorrect`, `HandlerInUseHolds`: no assumption beyond the constants' own.
- `DumpsOwnContextHolds`: assumes that nobody calls `SimulateSignalDelivery`, which writes the context
  without the mutex.
- `OldHandlersAreForeignHolds`: assumes that nobody uses `signal()` (`Meddlers = {}`).
- `NeverFaultsHolds`: assumes that handlers live as long as the process and nobody uses `signal()`,
  which is how `native_capture.cpp` uses it. `EH_bug_destroyed` shows that the first is needed.
- `CrashNeverSwallowedHolds`, an action property: assumes that nobody uses `signal()`. It needs of the
  states before that the arguments of a `SignalHandler` are then genuine (`GenuineOK`), for a signal
  whose `si_code` is garbage is not sent again.
- `ImplementsChainHolds`, the refinement, with no assumption. Every step of the loop maps to a step of
  `HandlerChain`, every other one to a stutter. From `Invariance`, whoever is in the loop holds the
  mutex, so that there is one at most and the stack does not change under it; `FreshOK` adds that a
  crash nobody was asked about is not handled yet.

**`GenerateDumpProofs`**: `HandshakeHolds`, `FdsReturnedHolds`, `TypeOKHolds`, with
the process killed at any time and any of `pipe`, `clone` and the writes failing, for finitely many
threads. `Handshake` says what a child may do, but why it waits is in who has the pipe open. `PipeOK`
and `Apart`: from `pipe` to the two `close`s a dump owns the descriptors that `fdes` of its handler
names, and no two dumps have the same pipe. `ChildOK`: the child of a living parent has its read end
and has not read until the parent has written. `Owned`: who owns no descriptor has none open, which is
`FdsReturned` at the end. The hypothesis `HandlersApart` is the code's: `fdes` is a member of the
handler, crashes are apart by the mutex, and two explicit calls of `WriteMinidump` on one handler are
not. `Numbers` is only on the way: the pipes made are no more than the dumps that have begun, so that a
new one is of the type that the model gives it.

**`MinidumpWriterProofs`**, for finitely many threads, under `WriterAssumption`:

- `CopiedWhileStoppedHolds` and `ProcessRunsOnHolds`, for any number of dumps of one process at the
  same time (TLC has one). The first is not inductive, because it speaks of the moment at which the
  list is written: `DumperOK` says for each place of a dumper, by the loop variable, which of its
  threads it holds, and that none is in `threads_` twice, without which resuming one could let go of
  another. `ThreadOK` says that what is traced and still runs is what its dumper waits for.
- `OkDumpHolds` (`OkDumpIsComplete` and `OkDumpHasContext`), for one dumper. `SuccessInv`: a thread
  that was found is in the list, or has a record, or has exited (`FindsOK`, `RecordsOK`); that a thread
  is dropped from the list only because it went is true for one dumper only, since a second one makes
  the attach fail.

**`InProcessDumpProofs`**: `TypeOKHolds`, `CopiedWhileStoppedHolds`, `HeldWhileAwaitedHolds`,
`ProcessRunsOnHolds` and `SuccessIsCompleteHolds`, for the composition. The step lemmas of the two modules
above are used as they are: a step of the whole is a step of one half, or leaves it alone, or kills the
process, which is new to `MinidumpWriter` and has its own lemmas. `Linked` ties the halves together: a
dumper is at work only in a child that was permitted, and what traces a thread has begun.
`HeldWhileAwaited` then needs the handshake, that the parent of a child that has not ended is still before
the end of its `waitpid` (`ChildOK`), and that from `prctl` on the permission is this child's or that of
another dump since (`Permitted`, which has an induction of its own). `Assumptions` are those of the two halves.
`SuccessIsComplete` joins an exit status, a list of records and a file, and is only true where

- dumps do not overlap (`OneAtATime`): all are crashes, which the mutex puts in order, or there is one
  dumping thread. Otherwise each dumper loses the threads that the other has attached to;
- every handler has a path of its own, and a handler that crashes dumps once (`PathsApart`): the path
  is made by the constructor and by `WriteMinidump`, not by a crash.

`FilesInv` says whose file a path is from `open` to the callback.

**`OutOfProcessProofs`**, under `ServersAssumption`:

- On Linux, `WaitsWhileDumpedHolds`: who has a message in the socket or a descriptor with the server
  waits or is dead (`AskedOK`), for the end of file that would release it cannot come before.
- On Windows every call may fail, and clients end and ask at any time. The argument of `ClientOK` is one of
  ownership: whatever has a wait or a callback has a `ClientInfo`, and each `ClientInfo` has one who is to delete
  it: the destructor, if it is listed, the callback of the pipe while it adds it or gives that up
  (`Busy`), or an `OnClientEnd` past the lock. A process registers once (`Fresh`, `AskOK`), so that nothing is put back
  that was taken away. `BusyOK` has how far `AddClient`, or the deletion after it, has come, and
  `DestructorOK` the same for the destructor.
- `NoUseAfterDeleteHolds` and `NothingIsLeftHolds` follow without a hypothesis; the exceptions are in the properties.
- `ImplementsDumpRequestsHolds`, the refinement, for both servers and without a hypothesis either: `WaitingOK`
  on Linux says that who waits with nothing left to wait for has been dealt with, for this request;
  `RequestOK` on Windows that the event of a client is set only for its last request, or for one that was
  late, or when it is dead.
- `TypeOKHolds`, for both.

**`OtherHandlersProofs`**, under `HandlersAssumption`. The invariant of each system is inductive by
itself.

- Windows (`WindowsInv`): who has the lock is the one whose exception is dealt with, and
  `handler_stack_index_` counts whom it has asked (`LockOK`); a handler has found no filter exactly if it
  is the oldest (`StackOK`); the lock of a handler goes from the request to the collection of its
  result, over two semaphores (`RendezvousOK`). From these, `InstalledIsLiveHolds` (with `HookOK` for
  `malloc`), `AnswersItsRequesterHolds`, and the refinement `ImplementsChainHolds`: `PositionIs` finds
  the place in the chain from the index and from how deep in the old filters the exception is.
- macOS (`MacInv`): between the first lock of the mutex and its unlocking by the handler's thread there
  is one request at most (`RequestOK`, `RaisedOK`), and who made it cannot destroy the object meanwhile
  (`CallersOK`, `WorkerOK`). Hence `WritesForTheLivingHolds`.
- Linux (`LinuxInv`): `NoFreedStackHolds`, where one thread constructs and destroys the handlers and
  other code has stacks of its own. A thread has what other code gave it or Breakpad's stack, and while
  it has that, `old_stack` is what it had (`LiveOK`, `OldStackOK`).
- `TypeOKHolds`, for all of them.

**`SequentialProofs`**:

- `BlocksAreApartHolds`, for pages, headers and requests of any size (`AllocatorAssumption`). Disjoint
  blocks say nothing about the next one, so the invariant adds `RestIsFree`: what is left of the current
  page is inside its set of pages and has no byte of any block.
- `RangesApartHolds`, for any address space and any number of conflicts, hence for every depth of the
  recursion (`RangeAssumption`). The invariant says in addition what the call to come has (`CallOK`) and
  that a range ends at the address it is kept under (`MapOK`); each way to cut has its lemma. The proof
  relies on no sum that wraps, as the code does once `AddWithOverflowCheck` has let the first one pass.
- `OwnWritesOnlyHolds` and `EverythingWrittenHolds`, for the file of a dump, any objects, strings and
  pages (`FileAssumption`). `FileInv` has the objects in the order of their places, all below `position_`
  and that below `size_` (`InOrder`, `ObjectOK`); for every byte that it is its writer's (`OwnBytes`);
  and for every object which of its bytes must be there: the elements before its index, and its head
  once it has gone out of scope (`WrittenOK`). A copy inside of its object then disturbs nobody's
  (`CopyKeeps`); that the copies of all callers are inside is one lemma per action. The hypothesis
  `Characters \subseteq 1..3` leaves out characters of four bytes in UTF-8: the surrogate pair of one
  goes to its index times four, which in a long string is beyond its object.

- `FollowsStrategyHolds`, with each of the three strategies: a lookup finds exactly the entry that the
  strategy says. `StrategyInv` says of every entry which part of what was asked for is its range now:
  what is cut off its lower or upper end lies in another entry (`LowerOK`, `UpperOK`), under the
  exclusive strategy nothing is cut (`ExclusiveOK`), and the call to come has what is left of the newest
  (`ShapesOK`). Each way to cut (this or the other, above or below) has its lemma.

**`PartsProofs`**, with one invariant per part. The range maps of the two readers are instances of
`SequentialProofs` (`StackRanges`, `ListRanges`), so that `StrategyInv` is proved once and used three
times.

- Cores (`CoresInv`): `MaximumIsFoundHolds`, for cores that go offline and come back between any two
  turns of the loop.
- Stacks (`StacksInv`, then `MemoryInv` with the list of memory and its reading): `TakesWhatIsThereHolds`
  needs that skipping whole pieces stops in the piece of the stack pointer, whatever the size of a piece
  (`Multiples`); `StacksAreFoundHolds` that every region before `region_index` is stored as it is, for the
  reader's map is exclusive and the first conflict ends the reading (`ListOK`).
- Lines (`LinesInv`): the lines returned, the buffer and the rest of the file are the file, up to the line
  feed that is added at its end. `LinesAreWholeHolds`.
- Mappings (`MappingsInv`): the mappings are in order except for the program (`PlacesOK`), each line is in
  a mapping of its name and a mapping has no address but of a line (`LinesOK`). `LookupsMatchMapsHolds`.
- Modules (`ListInv`): the mappings, and the range map over the list made of them. `ModulesAreFoundHolds`
  needs for each range which module it was asked for and what became of it (`AskedOK`): as in the list,
  or with the correction backed out, which leaves the end of the module or, where the size wraps, no range.
  A range is *sure* if it was the first or its module meets no other; no sure range is refused or cut.
  `ReadingOK` has where the reading and the copying of the list are.
- Walk (`WalkInv`): the frames go up (`UpInv`), with the one exception at the second; guesses are counted
  and the frames have a limit (`LimitsInv`). `WalkGoesUpHolds`.
- Symbols (`SymbolsInv`, over all dumps of one processor: a module that was answered for is loaded or known
  to have none, never both) and threads (`KeptInv`: the report so far is what is kept of the threads so
  far, by a count). `SymbolsAreRightHolds`, `ThreadsAreKeptHolds`.
- `LookupsAreRightHolds` and `PartsTypeOKHolds` join the parts: `PartsInv` is the invariant of the part
  that has steps, and `FileShape`, the types of the file for characters of any length.
  `EverythingIsThereHolds` has `Characters \subseteq 1..3` like the theorems on the file that it rests on.

Each conjunct that several steps disturb has its own lemma with one step per action; a theorem combines
the initial states, the steps and temporal logic. The assumptions are those that the modules name
(`ConstantsAssumption`, `DumpAssumption`, `WriterAssumption`, `ProcessAssumption`, `ServersAssumption`,
`HandlersAssumption`, `FileAssumption`, `AllocatorAssumption`, `RangeAssumption`, `LinesAssumption`,
`ModulesAssumption`, `StacksAssumption`, `WalkAssumption`, `ProcessorAssumption`, `CoresAssumption`), which
TLC evaluates in the runs, and those given above for a theorem, which hold of the constants of the runs that check the
property.

Only model-checked: liveness (`CrashResolved`, `DumpEnds`, `CallsReturn`, `Answered`, `StopEnds`, `Serves`,
`ExceptionResolved`), because a proof under fairness needs ENABLED, which the prover does not do. And a
theorem with a hypothesis says nothing of the states outside of it; those are the ones listed under "What
the properties leave out".

## Not modelled, and why

- A second exception signal inside `SignalHandler` (a different one than the one being handled is
  blocked by `sa_mask`, a fault with the signal blocked ends the process): only the NULL stack and the
  garbage arguments, where it matters, appear as the death "fault".
- In `ExceptionHandler` the path made by the constructor (it is in `GenerateDump`), `RegisterAppMemory`
  and the mapping list.
- In `GenerateDump` the descriptors given as a file and the console microdump, which the app does not
  use, and `WriteMinidumpForChild`. The callback replaces the result for the caller; the result in the
  model is what the callback is told.
- In `MinidumpWriter` what the streams without a module of their own contain, and the x86 test of the
  stack pointer: the app is built for armeabi-v7a only.
- In `MinidumpFileWriter` `WriteMemory` and wchar_t strings, which have no caller. After a failed
  allocation the client in the model always leaves the scope of that object, as all callers do.
- In `ModuleList` mappings that the caller provides, a list of more than `max_modules_`, read errors;
  in `Mappings` the parsing of a line and the names of deleted files.
- On Windows and macOS handlers that dump out of process; the races on the lazily created lock of the
  Windows handler that its source names itself.
- The other streams of the processor, the walkers of other architectures, what call frame information
  and symbols say (any answer is possible in `Stackwalker`), the test of a scanned word against the
  modules (a word either looks like a return address or does not), the contents of symbol files, DWARF and the tools:
  offline programs over file formats in one thread, whose substance is data. They are most of the
  repository's lines.
- Microdumps, register contexts, ELF headers and the text helpers: formatting and copying.
- Activities and the ASM plugin: single statements between calls of Android.

## Plan

Done: the dump chain and its composition, the servers and handlers of the three platforms with their
common promises, the mappings and the stacks from the process to the reader, the walk, the symbols, the
allocator, the hook, the cores; proofs of every safety property, action property and refinement that a
passing run checks.

Next:

1. `ContainedRangeMap`, the nested ranges of inlined functions.
2. The walkers of x86 and AMD64, which add ways to guess to those of ARM.
3. Proofs without the hypotheses that a longer invariant could spare: `EverythingIsThere` for strings
   whose surrogate pairs come early enough to stay inside of their object.
