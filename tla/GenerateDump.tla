---------------------------- MODULE GenerateDump ----------------------------
(***************************************************************************)
(* How a minidump is taken in process: ExceptionHandler::GenerateDump      *)
(* clones a child that waits on a pipe until its parent has allowed it to  *)
(* ptrace, then writes the dump file while the parent waits for it.        *)
(*                                                                         *)
(* The child shares no memory and no file table with the process: clone is *)
(* called with neither CLONE_VM nor CLONE_FILES, so it works on copies of  *)
(* the handler (fdes, the path) and of every descriptor open at that time. *)
(* In the process, fdes is a member of the handler, not a local variable.  *)
(*                                                                         *)
(* A crash dumps with the handlers' mutex held, so one crash at a time;    *)
(* WriteMinidump takes no lock.                                            *)
(*                                                                         *)
(* The variants beside a definition, which nothing refers to, are seeded   *)
(* faults, each of which must break a property.                            *)
(***************************************************************************)
EXTENDS Naturals, FiniteSets

CONSTANTS
  Threads,      \* threads of the process that dump
  HandlerOf,    \* the ExceptionHandler object that each of them dumps with
  Crashers,     \* those that dump because of a crash, the others explicitly
  Budget,       \* how many dumps each thread takes: a bound
  MaxFd,        \* descriptors the pipes may take: a bound, two per thread
  Mortal,       \* can the process be killed at any time
  None

Handlers == {HandlerOf[t] : t \in Threads}

ASSUME DumpAssumption ==
  /\ DOMAIN HandlerOf = Threads
  /\ Crashers \subseteq Threads
  /\ Budget \in Nat
  /\ MaxFd \in Nat
  /\ Mortal \in BOOLEAN
  /\ None \notin Threads
  /\ None \notin [pipe : Nat, end : {"read", "write"}]
  /\ None \notin Nat

VARIABLES
  alive,     \* has the process not died
  pc,        \* where each thread is in GenerateDump
  left,      \* how many dumps each thread may still take
  fds,       \* the file table of the process: the pipe end of a descriptor
  fdes,      \* handler->fdes; 0 is an invalid descriptor
  pipes,     \* number of pipes created; they are numbered from 1
  bytes,     \* how many bytes each pipe holds
  ptracer,   \* the dump whose child may ptrace the process: PR_SET_PTRACER
  path,      \* the path in the descriptor of each handler
  paths,     \* number of paths made by UpdatePath; each is new, a GUID
  files,     \* the files that exist, and which dump each of them holds
  child,     \* the state of the child of each thread
  copy,      \* what the child has its own copy of: fds, fdes, path
  result     \* what GenerateDump found out about its last dump

process == <<fds, fdes, ptracer, path, paths>>
vars == <<alive, pc, left, fds, fdes, pipes, bytes, ptracer, path, paths,
          files, child, copy, result>>

Fds == 1..MaxFd
NoFd == 0
Total == Budget * Cardinality(Threads)
Pipes == 1..Total
End(p, e) == [pipe |-> p, end |-> e]
Ends == [pipe : Pipes, end : {"read", "write"}]
NoEnds == [f \in Fds |-> None]
NoFdes == [read |-> NoFd, write |-> NoFd]
NoCopy == [fds |-> NoEnds, fdes |-> NoFdes, path |-> 0]

ParentStates == {"idle", "pipe", "clone", "closeRead", "prctl", "write",
                 "wait", "closeWrite"}
ChildStates == {"none", "born", "reading", "permitted", "ok", "failed"}
Exited == {"none", "ok", "failed"}

\* The constructor of each handler has called UpdatePath.
Init ==
  /\ alive = TRUE
  /\ pc = [t \in Threads |-> "idle"]
  /\ left = [t \in Threads |-> Budget]
  /\ fds = NoEnds
  /\ fdes \in [Handlers -> {NoFdes}]
  /\ pipes = 0
  /\ bytes = [p \in Pipes |-> 0]
  /\ ptracer = None
  /\ path \in [Handlers -> 1..Cardinality(Handlers)]
  /\ \A g, h \in Handlers : g # h => path[g] # path[h]
  /\ paths = Cardinality(Handlers)
  /\ files = <<>>
  /\ child = [t \in Threads |-> "none"]
  /\ copy = [t \in Threads |-> NoCopy]
  /\ result = [t \in Threads |-> "none"]

Goto(t, place) == pc' = [pc EXCEPT ![t] = place]

Close(table, f) == IF f \in Fds THEN [table EXCEPT ![f] = None] ELSE table

\* A descriptor that names the given end of a pipe, or None.
Names(table, f, e) ==
  IF f \in Fds /\ table[f] # None /\ table[f].end = e
  THEN table[f].pipe ELSE None

HoldsEnd(table, p, e) == \E f \in Fds : table[f] = End(p, e)

Running(t) == child[t] \notin Exited

\* Does the process or one of the children have the given end of p open.
Open(p, e) ==
  \/ alive /\ HoldsEnd(fds, p, e)
  \/ \E t \in Threads : Running(t) /\ HoldsEnd(copy[t].fds, p, e)

(***************************************************************************)
(* The process: WriteMinidump or HandleSignal, and GenerateDump.           *)
(***************************************************************************)

KeepPath(h) == UNCHANGED <<path, paths>>
UpdatePath(h) ==
  /\ path' = [path EXCEPT ![h] = paths + 1]
  /\ paths' = paths + 1

\* WriteMinidump makes a new path first.
WriteMinidump(t) ==
  /\ t \notin Crashers
  /\ UpdatePath(HandlerOf[t])

\* A crash uses the path the handler has, under the handlers' mutex.
HandleSignal(t) ==
  /\ t \in Crashers
  /\ \A u \in Crashers : pc[u] = "idle"
  /\ UNCHANGED <<path, paths>>

Call(t) ==
  /\ pc[t] = "idle"
  /\ left[t] > 0
  /\ WriteMinidump(t) \/ HandleSignal(t)
  /\ left' = [left EXCEPT ![t] = @ - 1]
  /\ result' = [result EXCEPT ![t] = "none"]
  /\ child' = [child EXCEPT ![t] = "none"]
  /\ Goto(t, "pipe")
  /\ UNCHANGED <<alive, fds, fdes, pipes, bytes, ptracer, files, copy>>

\* pipe() takes the two lowest free descriptors, or fails: the rest of the
\* process may have taken them all.  The code carries on with invalid ones.
MakePipe(t) ==
  LET free == {f \in Fds : fds[f] = None}
      lowest(S) == CHOOSE f \in S : \A g \in S : f <= g
      r == lowest(free)
      w == lowest(free \ {r})
  IN /\ pc[t] = "pipe"
     /\ \/ /\ Cardinality(free) >= 2
           /\ pipes' = pipes + 1
           /\ fds' = [fds EXCEPT ![r] = End(pipes + 1, "read"),
                                 ![w] = End(pipes + 1, "write")]
           /\ fdes' = [fdes EXCEPT ![HandlerOf[t]] =
                                     [read |-> r, write |-> w]]
        \/ /\ fdes' = [fdes EXCEPT ![HandlerOf[t]] = NoFdes]
           /\ UNCHANGED <<fds, pipes>>
     /\ Goto(t, "clone")
     /\ UNCHANGED <<alive, left, bytes, ptracer, path, paths, files, child,
                    copy, result>>

\* The child gets copies of the file table and of the handler.
Clone(t) ==
  /\ pc[t] = "clone"
  /\ child' = [child EXCEPT ![t] = "born"]
  /\ copy' = [copy EXCEPT ![t] = [fds |-> fds, fdes |-> fdes[HandlerOf[t]],
                                  path |-> path[HandlerOf[t]]]]
  /\ Goto(t, "closeRead")
  /\ UNCHANGED <<alive, left, pipes, bytes, process, files, result>>

CloneFailsAndLeaks(t) ==
  /\ pc[t] = "clone"
  /\ result' = [result EXCEPT ![t] = "failed"]
  /\ Goto(t, "idle")
  /\ UNCHANGED <<alive, left, process, pipes, bytes, files, child, copy>>

\* No stack for the child, or no child: both ends are closed.
CloneFails(t) ==
  /\ pc[t] = "clone"
  /\ fds' = Close(Close(fds, fdes[HandlerOf[t]].read),
                  fdes[HandlerOf[t]].write)
  /\ result' = [result EXCEPT ![t] = "failed"]
  /\ Goto(t, "idle")
  /\ UNCHANGED <<alive, left, fdes, pipes, bytes, ptracer, path, paths, files,
                 child, copy>>

CloseReadEnd(t) ==
  /\ pc[t] = "closeRead"
  /\ fds' = Close(fds, fdes[HandlerOf[t]].read)
  /\ Goto(t, "prctl")
  /\ UNCHANGED <<alive, left, fdes, pipes, bytes, ptracer, path, paths, files,
                 child, copy, result>>

\* The dump that a thread takes, told from its other dumps.
Dump(t) == [by |-> t, left |-> left[t]]

\* There is one permitted tracer per process: a later call replaces it.
AllowPtrace(t) ==
  /\ pc[t] = "prctl"
  /\ ptracer' = Dump(t)
  /\ Goto(t, "write")
  /\ UNCHANGED <<alive, left, fds, fdes, pipes, bytes, path, paths, files,
                 child, copy, result>>

\* A write to a pipe that nobody can read raises SIGPIPE; an invalid
\* descriptor only fails.
SendContinueSignalToChild(t) ==
  LET p == Names(fds, fdes[HandlerOf[t]].write, "write")
  IN /\ pc[t] = "write"
     /\ IF p # None /\ ~Open(p, "read")
        THEN alive' = FALSE /\ UNCHANGED bytes
        ELSE /\ bytes' = IF p = None THEN bytes ELSE [bytes EXCEPT ![p] = @ + 1]
             /\ UNCHANGED alive
     /\ Goto(t, "wait")
     /\ UNCHANGED <<left, pipes, process, files, child, copy, result>>

\* The exit status of the child is the result.  (The callback is told it and
\* replaces it by its own for the caller.)
Succeeded(status) == status = "ok"

WaitOnce(t) ==
  /\ pc[t] = "wait"
  /\ result' = [result EXCEPT ![t] =
                  IF Succeeded(child[t]) THEN "ok" ELSE "failed"]
  /\ Goto(t, "closeWrite")
  /\ UNCHANGED <<alive, left, pipes, bytes, process, files, child, copy>>

\* A signal that interrupts waitpid makes it wait again (HANDLE_EINTR).
Wait(t) ==
  /\ pc[t] = "wait"
  /\ ~Running(t)
  /\ result' = [result EXCEPT ![t] =
                  IF Succeeded(child[t]) THEN "ok" ELSE "failed"]
  /\ Goto(t, "closeWrite")
  /\ UNCHANGED <<alive, left, pipes, bytes, process, files, child, copy>>

CloseWriteEnd(t) ==
  /\ pc[t] = "closeWrite"
  /\ fds' = Close(fds, fdes[HandlerOf[t]].write)
  /\ Goto(t, "idle")
  /\ UNCHANGED <<alive, left, fdes, pipes, bytes, ptracer, path, paths, files,
                 child, copy, result>>

\* The process is killed: the kernel closes its descriptors.
Kill ==
  /\ Mortal
  /\ alive' = FALSE
  /\ UNCHANGED <<pc, left, process, pipes, bytes, files, child, copy, result>>

(***************************************************************************)
(* The child: ThreadEntry, WaitForContinueSignal, DoDump.                  *)
(***************************************************************************)

\* It closes its copy of the write end, so that it sees when the parent dies.
ChildClosesReadEnd(t) ==
  /\ child[t] = "born"
  /\ copy' = [copy EXCEPT ![t].fds = Close(@, copy[t].fdes.read)]
  /\ child' = [child EXCEPT ![t] = "reading"]
  /\ UNCHANGED <<alive, pc, left, process, pipes, bytes, files, result>>

ChildClosesWriteEnd(t) ==
  /\ child[t] = "born"
  /\ copy' = [copy EXCEPT ![t].fds = Close(@, copy[t].fdes.write)]
  /\ child' = [child EXCEPT ![t] = "reading"]
  /\ UNCHANGED <<alive, pc, left, process, pipes, bytes, files, result>>

RetriesForEver(t) ==
  LET p == Names(copy[t].fds, copy[t].fdes.read, "read")
  IN /\ child[t] = "reading"
     /\ IF p = None \/ (bytes[p] = 0 /\ ~Open(p, "write"))
        THEN UNCHANGED <<bytes, child, copy>>
        ELSE /\ bytes[p] > 0
             /\ bytes' = [bytes EXCEPT ![p] = @ - 1]
             /\ copy' = [copy EXCEPT ![t].fds = Close(@, copy[t].fdes.read)]
             /\ child' = [child EXCEPT ![t] = "permitted"]
     /\ UNCHANGED <<alive, pc, left, process, pipes, files, result>>

\* read() returns a byte, or at the end of file when no write end is open, or
\* with EBADF; in every case the child closes its read end and goes on.
WaitForContinueSignal(t) ==
  LET p == Names(copy[t].fds, copy[t].fdes.read, "read")
  IN /\ child[t] = "reading"
     /\ \/ p = None /\ UNCHANGED bytes
        \/ /\ p # None
           /\ bytes[p] > 0
           /\ bytes' = [bytes EXCEPT ![p] = @ - 1]
        \/ /\ p # None
           /\ bytes[p] = 0
           /\ ~Open(p, "write")
           /\ UNCHANGED bytes
     /\ copy' = [copy EXCEPT ![t].fds = Close(@, copy[t].fdes.read)]
     /\ child' = [child EXCEPT ![t] = "permitted"]
     /\ UNCHANGED <<alive, pc, left, process, pipes, files, result>>

\* The file is created with O_EXCL: one that exists makes the dump fail.
\* Then the dump comes off or not, which is for MinidumpWriter to say.  (That
\* the process lets another child ptrace it is no obstacle without Yama.)
OpensAnyway(p) == TRUE
Creates(p) == p \notin DOMAIN files

DoDump(t) ==
  /\ child[t] = "permitted"
  /\ IF Creates(copy[t].path)
     THEN \E status \in {"ok", "failed"} :
            /\ child' = [child EXCEPT ![t] = status]
            /\ files' = [p \in DOMAIN files \cup {copy[t].path} |->
                           IF p # copy[t].path THEN files[p]
                           ELSE IF status = "ok" THEN Dump(t) ELSE None]
     ELSE child' = [child EXCEPT ![t] = "failed"] /\ UNCHANGED files
  /\ UNCHANGED <<alive, pc, left, process, pipes, bytes, copy, result>>

(***************************************************************************)
(* The specification.                                                      *)
(***************************************************************************)

ParentStep(t) ==
  \/ MakePipe(t) \/ Clone(t) \/ CloneFails(t) \/ CloseReadEnd(t)
  \/ AllowPtrace(t) \/ SendContinueSignalToChild(t) \/ Wait(t)
  \/ CloseWriteEnd(t)

ChildStep(t) ==
  ChildClosesWriteEnd(t) \/ WaitForContinueSignal(t) \/ DoDump(t)

\* Nobody dumps any more.  Of a process that was killed during several dumps,
\* the children hold each other's write ends and may wait for ever.
Quiet ==
  \/ ~alive
  \/ \A t \in Threads : pc[t] = "idle" /\ left[t] = 0 /\ ~Running(t)

Done == Quiet /\ UNCHANGED vars

Next ==
  \/ alive /\ \E t \in Threads : Call(t) \/ ParentStep(t)
  \/ alive /\ Kill
  \/ \E t \in Threads : ChildStep(t)
  \/ Done

Spec == Init /\ [][Next]_vars

\* Every thread and every child that can run does; nobody has to dump or die.
Fairness ==
  \A t \in Threads : /\ WF_vars(alive /\ ParentStep(t))
                     /\ WF_vars(ChildStep(t))

FairSpec == Spec /\ Fairness

(***************************************************************************)
(* The type invariant.                                                     *)
(***************************************************************************)

\* Every variable has its type: the only type invariant of the module.
TypeOK ==
  /\ alive \in BOOLEAN
  /\ pc \in [Threads -> ParentStates]
  /\ left \in [Threads -> 0..Budget]
  /\ fds \in [Fds -> Ends \cup {None}]
  /\ fdes \in [Handlers -> [read : Fds \cup {NoFd}, write : Fds \cup {NoFd}]]
  /\ pipes \in 0..Total
  /\ bytes \in [Pipes -> 0..Total]
  /\ ptracer \in [by : Threads, left : 0..Budget] \cup {None}
  /\ path \in [Handlers -> 1..paths]
  /\ paths \in Nat
  /\ DOMAIN files \subseteq 1..paths
  /\ \A p \in DOMAIN files :
       files[p] \in [by : Threads, left : 0..Budget] \cup {None}
  /\ child \in [Threads -> ChildStates]
  /\ \A t \in Threads : copy[t].fds \in [Fds -> Ends \cup {None}]
  /\ result \in [Threads -> {"none", "ok", "failed"}]

(***************************************************************************)
(* Safety.                                                                 *)
(***************************************************************************)

\* Does the child of t wait for its parent: was there a pipe when it was made.
HasPipe(t) == copy[t].fdes.read # NoFd

\* A child does not start to dump before its own parent has sent the byte that
\* says that it may ptrace (the reason for the pipe in GenerateDump).
WaitsForItsParent ==
  \A t \in Threads :
    alive /\ child[t] = "permitted" /\ HasPipe(t) => pc[t] = "wait"

\* Writing the continue byte never raises SIGPIPE: the child keeps its read end
\* open until it has read.
NoSigPipe ==
  \A t \in Threads :
    LET p == Names(fds, fdes[HandlerOf[t]].write, "write")
    IN alive /\ pc[t] = "write" /\ p # None => Open(p, "read")

\* The handshake over the pipe of a dump: the child waits for its own parent,
\* and the parent survives telling it to go on.
Handshake == WaitsForItsParent /\ NoSigPipe

\* When no thread dumps, every pipe end is closed, on every path through
\* GenerateDump: dumping does not use up the descriptors of the process.
FdsReturned == (\A t \in Threads : pc[t] = "idle") => fds = NoEnds

\* No dump is lost because its path is that of an earlier one: O_EXCL never
\* fails.
PathIsFresh ==
  \A t \in Threads : child[t] = "permitted" => copy[t].path \notin DOMAIN files

(***************************************************************************)
(* Liveness.                                                               *)
(***************************************************************************)

\* A thread that dumps comes to the end of GenerateDump: in a crash it holds
\* the handlers' mutex and every other crash waits for it.
DumpEnds ==
  \A t \in Threads : pc[t] # "idle" ~> (pc[t] = "idle" \/ ~alive)

=============================================================================
