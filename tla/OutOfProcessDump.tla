-------------------------- MODULE OutOfProcessDump --------------------------
(***************************************************************************)
(* Crash generation out of process: the Linux and the Windows server, each *)
(* with its clients, beside what both promise (DumpRequests).  A behaviour *)
(* is of one platform; what the other one has stays as it is at first.     *)
(***************************************************************************)
EXTENDS Naturals

CONSTANTS Clients, None,
          Budget, Foreign, Starts, Capacity, GuidFails,    \* of the Linux server
          Visits                                           \* of the Windows one

ASSUME ServersAssumption ==
  /\ Budget \in [Clients -> Nat]
  /\ Starts \in Nat /\ Capacity \in Nat
  /\ \A asks \in Visits : \E C \in SUBSET Clients : asks \in [C -> Nat]

VARIABLES
  platform,
  client, left, answer, finished,
  queue, open, server, ready, current, leaked, quit, owner, starts, dumped,
  state, event, listening, peer, inbox, outbox, client_info, handler, pipeWait,
  listed, valid, dumpWait, exitWait, requested, generated, dumping, exiting,
  early, late, shutting_down, dtor, victim, up

Linux == INSTANCE LinuxCrashGeneration
Windows == INSTANCE WindowsCrashGeneration

linuxVars == <<queue, open, server, ready, current, leaked, quit, owner, starts,
               dumped>>
windowsVars == <<state, event, listening, peer, inbox, outbox, client_info,
                 handler, pipeWait, listed, valid, dumpWait, exitWait, requested,
                 generated, dumping, exiting, early, late, shutting_down, dtor,
                 victim, up>>
vars == <<platform, client, left, answer, finished, linuxVars, windowsVars>>

Init ==
  \/ platform = "linux" /\ Linux!Init /\ Windows!InitServer
  \/ platform = "windows" /\ Windows!Init /\ Linux!InitServer

OnLinux(A) == platform = "linux" /\ A /\ UNCHANGED <<platform, windowsVars>>
OnWindows(A) == platform = "windows" /\ A /\ UNCHANGED <<platform, linuxVars>>

Next == OnLinux(Linux!Next) \/ OnWindows(Windows!Next)

Spec == Init /\ [][Next]_vars

\* As in the two modules, of which only one has steps in a behaviour.
Fairness ==
  /\ \A c \in Clients :
       /\ WF_vars(OnLinux(Linux!Waits(c)) \/ OnWindows(Windows!Waits(c)))
       /\ WF_vars(OnWindows(Windows!Callback(c)))
  /\ WF_vars(OnLinux(Linux!ServerStep) \/ OnWindows(Windows!Handler))
  /\ WF_vars(OnLinux(Linux!Join) \/ OnWindows(Windows!Destructor))
  /\ SF_vars(OnLinux(Linux!CloseSocket))

FairSpec == Spec /\ Fairness

(***************************************************************************)
(* Properties.                                                             *)
(***************************************************************************)

\* Every variable has its type, on the platform it belongs to.
TypeOK == IF platform = "linux" THEN Linux!TypeOK ELSE Windows!TypeOK

\* While the Linux server dumps a client, that client waits in RequestDump, or
\* it is dead: nobody is dumped while its stack changes.
WaitsWhileDumped == Linux!WaitsWhileDumped

\* The Windows server deletes no ClientInfo under a callback that still uses it,
\* nor with a wait that could call one: the point of the order in
\* HandleClientProcessExit and in the destructors.  And what its list holds, or
\* AddClient has at hand, is not deleted ("as long as it is referenced by the
\* clients_ list it is guaranteed to be valid", HandleReadingAckState), but for
\* a client that has ended while AddClient was at it.
NoUseAfterDelete == Windows!NoUseAfterDelete /\ Windows!ListedIsValid

\* When the destructor of the Windows server is done, no wait is registered, no
\* dump is under way, and every ClientInfo is deleted or about to be, by the
\* OnClientEnd that has taken it off the list and is done with the server.  Only
\* HandleErrorState may still be at the server: where it has taken away the wait
\* handle of the pipe, the destructor does not wait for it.
NothingIsLeft == Windows!NothingIsLeft

\* A client that waits gets its answer: the Linux server closes its pipe however
\* the dump goes, also when it is stopped, unless its thread has given up after an
\* error of poll; the Windows server sets its event, or is found to have ended.
Answered ==
  \A c \in Clients : client[c] = "waiting" ~> client[c] # "waiting" \/ Linux!GivenUp

\* The servers can be stopped.  On Linux Stop comes back, for the thread sees
\* the command after the event it is at; on Windows the destructor comes to its
\* end, for it and the callbacks it waits for do not wait for each other.
StopEnds == Linux!StopEnds /\ Windows!DestructorEnds

\* However a registration ends, the Windows server is ready for the next client,
\* unless it is in the error state or shuts down.
Serves == Windows!Serves

Requests ==
  INSTANCE DumpRequests
    WITH phase <- IF platform = "linux" THEN Linux!Phase ELSE Windows!Phase,
         handled <- finished,
         serving <- open /\ up

\* Both servers and their clients keep the promise of DumpRequests: RequestDump
\* returns true only when the server has finished with this very request, or
\* has gone, or was still at an earlier request of the client when it asked.
ImplementsDumpRequests == Requests!Spec

=============================================================================
