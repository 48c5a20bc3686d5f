----------------------- MODULE WindowsCrashGeneration -----------------------
(***************************************************************************)
(* Crash generation out of process on Windows.  A client registers with    *)
(* the server over a named pipe of a single instance, which the server     *)
(* runs as a state machine (state, driven by one event); the server makes  *)
(* two events for it and waits on one of them, and on the end of the       *)
(* process, with callbacks of the thread pool.  A client asks by setting   *)
(* the first event and waits for the second.                               *)
(*                                                                         *)
(* The destructor of the server runs beside all of this.  The variants     *)
(* beside a definition, which nothing refers to, are seeded faults.        *)
(***************************************************************************)
EXTENDS Naturals, FiniteSets

CONSTANTS
  Clients,       \* client processes
  Visits,        \* who of them comes, and how many dumps each asks for: each a
                 \* function from those that come to a number
  None

VARIABLES
  \* the clients
  client,        \* where each client is
  left,          \* how many dumps it may still ask for
  answer,        \* what its last RequestDump returned
  \* the pipe and the state machine of the server
  state,         \* server_state_
  event,         \* overlapped_.hEvent: "off", "set", or set when an I/O is done
  listening,     \* can a client open the pipe
  peer,          \* the client the instance is connected to
  inbox,         \* the message from it that has not been read
  outbox,        \* has a reply been written and not been read
  client_info,   \* the client being registered
  handler,       \* where the callback of the pipe is
  pipeWait,      \* pipe_wait_handle_ is registered
  \* what the server has for each client
  listed,        \* clients_
  valid,         \* the clients whose ClientInfo is made and not deleted
  dumpWait,      \* those with dump_request_wait_handle_
  exitWait,      \* those with process_exit_wait_handle_
  requested,     \* those whose dump_requested_handle_ is set
  generated,     \* those whose dump_generated_handle_ is set
  dumping,       \* where OnDumpRequest is for each client
  exiting,       \* where OnClientEnd is for each client
  finished,      \* those whose last request has been dealt with
  \* history: what the properties must tell apart
  early,         \* those that have ended while AddClient was at them
  late,          \* those whose last request came during a dump for another one
  \* the destructor
  shutting_down,
  dtor,          \* where the destructor is
  victim,        \* the client whose ClientInfo it deletes
  up             \* does the server hold the mutex server_alive

asking == <<client, left, answer>>
machine == <<state, event, listening, peer, inbox, outbox, client_info,
             handler, pipeWait>>
infos == <<listed, valid, dumpWait, exitWait, requested, generated, dumping,
           exiting, finished>>
history == <<early, late>>
ending == <<shutting_down, dtor, victim, up>>
vars == <<asking, machine, infos, history, ending>>

InPipe == {"connected", "asked", "replied"}
Registered == {"registered", "asking", "waiting"}
Adding == {"waits", "exit", "list"}
Dropping == {"drop", "delete"}

\* Start has made the instance and set the event.
InitServer ==
  /\ state = "INITIAL" /\ event = "set" /\ listening = TRUE
  /\ peer = None /\ inbox = "none" /\ outbox = FALSE
  /\ client_info = None /\ handler = "idle" /\ pipeWait = TRUE
  /\ listed = {} /\ valid = {} /\ dumpWait = {} /\ exitWait = {}
  /\ requested = {} /\ generated = {} /\ early = {} /\ late = {}
  /\ dumping = [c \in Clients |-> "idle"]
  /\ exiting = [c \in Clients |-> "idle"]
  /\ shutting_down = FALSE /\ dtor = "no" /\ victim = None /\ up = TRUE

Init ==
  /\ \E asks \in Visits :
       /\ client = [c \in Clients |-> IF c \in DOMAIN asks THEN "new" ELSE "unregistered"]
       /\ left = [c \in Clients |-> IF c \in DOMAIN asks THEN asks[c] ELSE 0]
  /\ answer = [c \in Clients |-> "none"]
  /\ finished = {}
  /\ InitServer

Goto(c, place) == client' = [client EXCEPT ![c] = place]

(***************************************************************************)
(* The client: Register.                                                   *)
(***************************************************************************)

\* CreateFile opens the instance if nobody has it.
Connect(c) ==
  /\ client[c] = "new"
  /\ listening /\ peer = None
  /\ peer' = c
  /\ inbox' = "none" /\ outbox' = FALSE
  /\ Goto(c, "connected")
  /\ UNCHANGED <<left, answer, state, event, listening, client_info, handler,
                 pipeWait, infos, history, ending>>

\* The pipe is busy, twice for two seconds, or it does not exist.
ConnectFails(c) ==
  /\ client[c] = "new"
  /\ ~(listening /\ peer = None)
  /\ Goto(c, "unregistered")
  /\ UNCHANGED <<left, answer, machine, infos, history, ending>>

Write(c, message, place) ==
  /\ peer = c
  /\ inbox' = message
  /\ Goto(c, place)
  /\ UNCHANGED <<left, answer, state, event, listening, peer, outbox, client_info,
                 handler, pipeWait, infos, history, ending>>

\* TransactNamedPipe writes and waits for the reply.
Ask(c) == client[c] = "connected" /\ Write(c, "register", "asked")

\* RequestUpload writes and closes the pipe.
RequestUpload(c) == client[c] = "connected" /\ Write(c, "upload", "unregistered")

ReadReply(c) ==
  /\ client[c] = "asked"
  /\ peer = c /\ outbox
  /\ outbox' = FALSE
  /\ Goto(c, "replied")
  /\ UNCHANGED <<left, answer, state, event, listening, peer, inbox, client_info,
                 handler, pipeWait, infos, history, ending>>

\* The acknowledgement; then the client closes its end of the pipe.
Acknowledge(c) ==
  /\ client[c] = "replied"
  /\ Write(c, "ack", "registered")

\* The server has disconnected the pipe.
RegisterFails(c) ==
  /\ client[c] \in InPipe
  /\ peer # c
  /\ Goto(c, "unregistered")
  /\ UNCHANGED <<left, answer, machine, infos, history, ending>>

(***************************************************************************)
(* The client: RequestDump.                                                *)
(***************************************************************************)

NoReset(c) == UNCHANGED generated
ResetGenerated(c) == generated' = generated \ {c}

\* ResetEvent(crash_generated_), after the exception has been noted.  Nothing
\* keeps a client from asking while the server is at an earlier request of its.
RequestDump(c) ==
  /\ client[c] = "registered"
  /\ left[c] > 0
  /\ left' = [left EXCEPT ![c] = @ - 1]
  /\ answer' = [answer EXCEPT ![c] = "none"]
  /\ ResetGenerated(c)
  /\ finished' = finished \ {c}
  /\ late' = IF dumping[c] = "idle" THEN late \ {c} ELSE late \cup {c}
  /\ Goto(c, "asking")
  /\ UNCHANGED <<machine, listed, valid, dumpWait, exitWait, requested, dumping,
                 exiting, early, ending>>

SetCrashEvent(c) ==
  /\ client[c] = "asking"
  /\ requested' = requested \cup {c}
  /\ Goto(c, "waiting")
  /\ UNCHANGED <<left, answer, machine, listed, valid, dumpWait, exitWait,
                 generated, dumping, exiting, finished, history, ending>>

\* WaitForMultipleObjects prefers the first of its objects.
Woken(c) ==
  /\ client[c] = "waiting"
  /\ c \in generated \/ ~up
  /\ answer' = [answer EXCEPT ![c] = IF c \in generated THEN "true" ELSE "false"]
  /\ Goto(c, "registered")
  /\ UNCHANGED <<left, machine, infos, history, ending>>

\* The server takes longer than kWaitForServerTimeoutMs.
Timeout(c) ==
  /\ client[c] = "waiting"
  /\ answer' = [answer EXCEPT ![c] = "false"]
  /\ Goto(c, "registered")
  /\ UNCHANGED <<left, machine, infos, history, ending>>

\* A client process ends, at any time since it has opened the pipe: before that,
\* or once it is refused, nobody sees it.
Die(c) ==
  /\ client[c] \in InPipe \cup Registered
  /\ Goto(c, "dead")
  /\ left' = [left EXCEPT ![c] = 0]
  /\ answer' = [answer EXCEPT ![c] = "none"]
  /\ finished' = finished \ {c} /\ late' = late \ {c}
  /\ early' = IF handler \in Adding /\ client_info = c THEN early \cup {c} ELSE early
  /\ UNCHANGED <<machine, listed, valid, dumpWait, exitWait, requested, generated,
                 dumping, exiting, ending>>

(***************************************************************************)
(* The server: HandleConnectionRequest, a callback of the event.           *)
(***************************************************************************)

PeerOpen == peer # None /\ client[peer] \in InPipe
Broken == peer = None \/ (~PeerOpen /\ inbox = "none")

Signalled ==
  \/ event = "set"
  \/ event = "connect" /\ (peer # None \/ ~listening)
  \/ event = "read" /\ (inbox # "none" \/ Broken)

Enter(next, how) == state' = next /\ event' = how
Immediately(next) == Enter(next, "set")

\* What every handler leaves alone.
Called(s) ==
  /\ handler = "idle" /\ pipeWait /\ up
  /\ Signalled
  /\ state = s
  /\ ~shutting_down
  /\ UNCHANGED <<asking, pipeWait, history, ending>>

\* What the handlers of the pipe's own states leave alone besides.
quiet == <<peer, inbox, outbox, client_info, handler, infos>>

\* The server is shutting down.
HandleShutdown ==
  /\ handler = "idle" /\ pipeWait /\ up
  /\ Signalled
  /\ shutting_down
  /\ Enter("ERROR", "off")
  /\ UNCHANGED <<asking, listening, quiet, pipeWait, history, ending>>

\* ConnectNamedPipe: a client that opened the instance before is connected at
\* once; the call may fail, as when that client has closed it again.
HandleInitialState ==
  /\ Called("INITIAL")
  /\ \/ peer = None /\ listening' = TRUE /\ Enter("CONNECTING", "connect")
     \/ PeerOpen /\ UNCHANGED listening /\ Immediately("CONNECTED")
     \/ UNCHANGED listening /\ Immediately("ERROR")
  /\ UNCHANGED quiet

HandleConnectingState ==
  /\ Called("CONNECTING")
  /\ Immediately(IF peer # None THEN "CONNECTED" ELSE "DISCONNECTING")
  /\ UNCHANGED <<listening, quiet>>

HandleConnectedState ==
  /\ Called("CONNECTED")
  /\ IF Broken THEN Immediately("DISCONNECTING") ELSE Enter("READING", "read")
  /\ UNCHANGED <<listening, quiet>>

ReadingWaits ==
  /\ Called("READING")
  /\ IF inbox = "none" THEN Enter("READING", "off") ELSE Immediately("READ_DONE")
  /\ UNCHANGED <<listening, quiet>>

HandleReadingState ==
  /\ Called("READING")
  /\ Immediately(IF inbox = "none" THEN "DISCONNECTING" ELSE "READ_DONE")
  /\ UNCHANGED <<listening, quiet>>

\* An upload request, an invalid message, a client that has ended or closed its
\* end of the pipe; or its process cannot be opened, no event be made, no handle
\* be duplicated, the reply not be written.
RefuseClient ==
  /\ Called("READ_DONE")
  /\ inbox' = "none"
  /\ Immediately("DISCONNECTING")
  /\ UNCHANGED <<listening, peer, outbox, client_info, handler, infos>>

\* ClientInfo::Initialize, PrepareReply, and the reply, before AddClient.
HandleReadDoneState ==
  /\ Called("READ_DONE")
  /\ inbox = "register" /\ PeerOpen
  /\ inbox' = "none"
  /\ outbox' = TRUE
  /\ client_info' = peer
  /\ valid' = valid \cup {peer}
  /\ handler' = "waits"
  /\ UNCHANGED <<state, event, listening, peer, listed, dumpWait, exitWait,
                 requested, generated, dumping, exiting, finished>>

\* What AddClient, and the deletion when it fails, leave alone.
Adds(place) ==
  /\ up
  /\ handler = place
  /\ UNCHANGED <<asking, listening, peer, inbox, outbox, pipeWait, requested,
                 generated, dumping, exiting, finished, history, ending>>

\* AddClient registers the wait for dumps, and then that for the end of the
\* process.
RegisterWaits ==
  \/ /\ Adds("waits")
     /\ dumpWait' = dumpWait \cup {client_info}
     /\ handler' = "exit"
     /\ UNCHANGED <<state, event, client_info, listed, valid, exitWait>>
  \/ /\ Adds("exit")
     /\ exitWait' = exitWait \cup {client_info}
     /\ handler' = "list"
     /\ UNCHANGED <<state, event, client_info, listed, valid, dumpWait>>

Admits == ~shutting_down

\* Then it adds the client to the list, under the lock.
AddClient ==
  /\ Adds("list")
  /\ Admits
  /\ listed' = listed \cup {client_info}
  /\ handler' = "idle"
  /\ Enter("WRITING", "set")
  /\ UNCHANGED <<client_info, valid, dumpWait, exitWait>>

\* A wait cannot be registered, or the server is shutting down: the destructor
\* of the ClientInfo unregisters the wait for dumps,
AddClientFails ==
  /\ Adds("waits") \/ Adds("exit") \/ (Adds("list") /\ ~Admits)
  /\ dumpWait' = dumpWait \ {client_info}
  /\ handler' = "drop"
  /\ UNCHANGED <<state, event, client_info, listed, valid, exitWait>>

DoesNotWait(c) == TRUE
NoRequestPending(c) == dumping[c] = "idle" /\ c \notin requested
NoDumpPending(c) == dumping[c] = "idle"

ExitCallbackIsDone(c) == exiting[c] \in {"idle", "done"}

\* waits for its callback, and then for that of the other wait.
DropClient ==
  \/ /\ Adds("drop")
     /\ NoDumpPending(client_info)
     /\ exitWait' = exitWait \ {client_info}
     /\ handler' = "delete"
     /\ UNCHANGED <<state, event, client_info, listed, valid, dumpWait>>
  \/ /\ Adds("delete")
     /\ ExitCallbackIsDone(client_info)
     /\ valid' = valid \ {client_info}
     /\ client_info' = None
     /\ handler' = "idle"
     /\ Immediately("DISCONNECTING")
     /\ UNCHANGED <<listed, dumpWait, exitWait>>

\* The write is done at once: the reply fits in the buffer of the pipe.
HandleWritingState ==
  /\ Called("WRITING")
  /\ \/ Immediately("WRITE_DONE")
     \/ ~PeerOpen /\ Immediately("DISCONNECTING")
  /\ UNCHANGED <<listening, quiet>>

HandleWriteDoneState ==
  /\ Called("WRITE_DONE")
  /\ IF Broken THEN Immediately("DISCONNECTING") ELSE Enter("READING_ACK", "read")
  /\ UNCHANGED <<listening, quiet>>

\* Here the connect callback is called, if the client is still in the list.
HandleReadingAckState ==
  /\ Called("READING_ACK")
  /\ Immediately("DISCONNECTING")
  /\ inbox' = "none"
  /\ UNCHANGED <<listening, peer, outbox, client_info, handler, infos>>

HandleDisconnectingState ==
  /\ Called("DISCONNECTING")
  /\ listening' = FALSE
  /\ peer' = None /\ inbox' = "none" /\ outbox' = FALSE
  /\ client_info' = None
  /\ Immediately("INITIAL") \/ Immediately("ERROR")
  /\ UNCHANGED <<handler, infos>>

\* HandleErrorState looks at shutting_down_ and then cleans up: the wait, the
\* pipe, the event.
HandleErrorState ==
  /\ Called("ERROR")
  /\ handler' = "unregister"
  /\ UNCHANGED <<state, event, listening, peer, inbox, outbox, client_info, infos>>

CleanUp ==
  /\ up
  /\ \/ /\ handler = "unregister"
        /\ pipeWait' = FALSE
        /\ handler' = "close"
        /\ UNCHANGED <<listening, event>>
     \/ /\ handler = "close"
        /\ listening' = FALSE
        /\ event' = "off"
        /\ handler' = "idle"
        /\ UNCHANGED pipeWait
  /\ UNCHANGED <<asking, state, peer, inbox, outbox, client_info, infos, history,
                 ending>>

Handler ==
  \/ HandleShutdown \/ HandleInitialState \/ HandleConnectingState
  \/ HandleConnectedState \/ HandleReadingState \/ RefuseClient
  \/ HandleReadDoneState \/ RegisterWaits \/ AddClient \/ AddClientFails
  \/ DropClient \/ HandleWritingState \/ HandleWriteDoneState
  \/ HandleReadingAckState \/ HandleDisconnectingState
  \/ HandleErrorState \/ CleanUp

(***************************************************************************)
(* The server: the callbacks for a client.                                 *)
(***************************************************************************)

\* OnDumpRequest.  Whether the dump comes off or not, the client is answered.
StartDump(c) ==
  /\ up
  /\ c \in dumpWait \cap requested
  /\ dumping[c] = "idle"
  /\ dumping' = [dumping EXCEPT ![c] = "dumping"]
  /\ UNCHANGED <<asking, machine, listed, valid, dumpWait, exitWait, requested,
                 generated, exiting, finished, history, ending>>

AnswerSuccessOnly(c) ==
  /\ up
  /\ dumping[c] = "dumping"
  /\ \/ generated' = generated \cup {c} /\ finished' = finished \cup ({c} \ late)
     \/ UNCHANGED <<generated, finished>>
  /\ dumping' = [dumping EXCEPT ![c] = "reset"]
  /\ UNCHANGED <<asking, machine, listed, valid, dumpWait, exitWait, requested,
                 exiting, history, ending>>

HandleDumpRequest(c) ==
  /\ up
  /\ dumping[c] = "dumping"
  /\ generated' = generated \cup {c}
  /\ finished' = finished \cup ({c} \ late)
  /\ dumping' = [dumping EXCEPT ![c] = "reset"]
  /\ UNCHANGED <<asking, machine, listed, valid, dumpWait, exitWait, requested,
                 exiting, history, ending>>

\* ResetEvent(dump_requested_handle) comes last.
FinishDump(c) ==
  /\ up
  /\ dumping[c] = "reset"
  /\ requested' = requested \ {c}
  /\ dumping' = [dumping EXCEPT ![c] = "idle"]
  /\ UNCHANGED <<asking, machine, listed, valid, dumpWait, exitWait, generated,
                 exiting, finished, history, ending>>

\* OnClientEnd, once, on a thread of its own: it unregisters the wait for dumps.
ClientEnds(c) ==
  /\ up
  /\ c \in exitWait
  /\ client[c] = "dead"
  /\ exiting[c] = "idle"
  /\ dumpWait' = dumpWait \ {c}
  /\ exiting' = [exiting EXCEPT ![c] = "wait"]
  /\ UNCHANGED <<asking, machine, listed, valid, exitWait, requested, generated,
                 dumping, finished, history, ending>>

ListWithout(c) == IF Admits THEN listed \ {c} ELSE listed

\* When no dump is pending it calls the exit callback and takes the client off
\* the list; in a shutdown that is for the destructor.
HandleClientProcessExit(c) ==
  /\ up
  /\ exiting[c] = "wait"
  /\ NoDumpPending(c)
  /\ exiting' = [exiting EXCEPT ![c] = IF Admits THEN "delete" ELSE "done"]
  /\ listed' = ListWithout(c)
  /\ UNCHANGED <<asking, machine, valid, dumpWait, exitWait, requested,
                 generated, dumping, finished, history, ending>>

DeleteClientInfo(c) ==
  /\ up
  /\ exiting[c] = "delete"
  /\ exitWait' = exitWait \ {c}
  /\ valid' = valid \ {c}
  /\ exiting' = [exiting EXCEPT ![c] = "done"]
  /\ UNCHANGED <<asking, machine, listed, dumpWait, requested, generated,
                 dumping, finished, history, ending>>

DumpCallback(c) == StartDump(c) \/ HandleDumpRequest(c) \/ FinishDump(c)

ExitCallback(c) ==
  ClientEnds(c) \/ HandleClientProcessExit(c) \/ DeleteClientInfo(c)

(***************************************************************************)
(* The server: the destructor.                                             *)
(***************************************************************************)

Step(from, to) == dtor = from /\ up /\ dtor' = to /\ UNCHANGED history

\* The flag, under the lock.
ShutDown ==
  /\ Step("no", "disconnect")
  /\ shutting_down' = TRUE
  /\ UNCHANGED <<asking, machine, infos, victim, up>>

\* Pending I/O fails.
DisconnectPipe ==
  /\ Step("disconnect", "await")
  /\ listening' = FALSE /\ peer' = None
  /\ inbox' = "none" /\ outbox' = FALSE
  /\ UNCHANGED <<asking, state, event, client_info, handler, pipeWait, infos, shutting_down, victim, up>>

\* It waits for the state ERROR, a second at most, and unregisters the wait.
AwaitError ==
  /\ Step("await", IF pipeWait THEN "callback" ELSE "pipe")
  /\ pipeWait' = FALSE
  /\ UNCHANGED <<asking, state, event, listening, peer, inbox, outbox,
                 client_info, handler, infos, shutting_down,
                 victim, up>>

CallbackMayRun == TRUE
CallbackIsDone == handler = "idle"

UnregisterPipeWait ==
  /\ Step("callback", "pipe")
  /\ CallbackIsDone
  /\ UNCHANGED <<asking, machine, infos, shutting_down, victim, up>>

ClosePipe ==
  /\ Step("pipe", "clients")
  /\ UNCHANGED <<asking, machine, infos, shutting_down, victim, up>>

\* First the wait for the end of the process, then the one for dumps; each is
\* unregistered, and its running callback waited for.
UnregisterExitWait ==
  /\ Step("clients", "exit")
  /\ \E c \in listed :
       /\ victim' = c
       /\ exitWait' = exitWait \ {c}
  /\ UNCHANGED <<asking, machine, listed, valid, dumpWait, requested, generated,
                 dumping, exiting, finished, shutting_down, up>>

UnregisterDumpWait ==
  /\ Step("exit", "dump")
  /\ ExitCallbackIsDone(victim)
  /\ dumpWait' = dumpWait \ {victim}
  /\ UNCHANGED <<asking, machine, listed, valid, exitWait, requested, generated,
                 dumping, exiting, finished, shutting_down, victim, up>>

DeleteVictim ==
  /\ Step("dump", "clients")
  /\ NoDumpPending(victim)
  /\ listed' = listed \ {victim}
  /\ valid' = valid \ {victim}
  /\ victim' = None
  /\ UNCHANGED <<asking, machine, dumpWait, exitWait, requested, generated,
                 dumping, exiting, finished, shutting_down, up>>

\* The mutex is released: who waits for a dump sees it.
ReleaseAlive ==
  /\ Step("clients", "done")
  /\ listed = {}
  /\ up' = FALSE
  /\ UNCHANGED <<asking, machine, infos, shutting_down, victim>>

Destructor ==
  \/ DisconnectPipe \/ AwaitError \/ UnregisterPipeWait \/ ClosePipe
  \/ UnregisterExitWait \/ UnregisterDumpWait \/ DeleteVictim \/ ReleaseAlive

\* The server process is killed: its memory is gone, the pipe broken, the mutex
\* abandoned.  What the clients share with it stays.
Kill ==
  /\ up
  /\ up' = FALSE
  /\ Enter("ERROR", "off")
  /\ listening' = FALSE /\ peer' = None /\ inbox' = "none" /\ outbox' = FALSE
  /\ client_info' = None /\ handler' = "idle" /\ pipeWait' = FALSE
  /\ listed' = {} /\ valid' = {} /\ dumpWait' = {} /\ exitWait' = {}
  /\ dumping' = [c \in Clients |-> "idle"]
  /\ exiting' = [c \in Clients |-> "idle"]
  /\ shutting_down' = FALSE /\ dtor' = "no" /\ victim' = None
  /\ UNCHANGED <<asking, requested, generated, finished, history>>

(***************************************************************************)
(* The specification.                                                      *)
(***************************************************************************)

RegisterStep(c) ==
  \/ Connect(c) \/ ConnectFails(c) \/ Ask(c) \/ RequestUpload(c) \/ ReadReply(c)
  \/ Acknowledge(c) \/ RegisterFails(c)

RequestStep(c) == SetCrashEvent(c) \/ Woken(c)

\* Nobody hears the client: the server has dropped it before it was in the list,
\* or may have reset its request unseen.
Unheard(c) == c \in late \/ c \notin valid

\* A client that has opened the pipe, or asks.
Waits(c) ==
  \/ client[c] \in InPipe /\ RegisterStep(c)
  \/ RequestStep(c)
  \/ Unheard(c) /\ Timeout(c)

Callback(c) == DumpCallback(c) \/ ExitCallback(c)

Over == ~up /\ UNCHANGED vars

Next ==
  \/ \E c \in Clients : \/ RegisterStep(c) \/ RequestDump(c) \/ RequestStep(c)
                        \/ Timeout(c) \/ Die(c) \/ Callback(c)
  \/ Handler
  \/ ShutDown \/ Destructor
  \/ Kill
  \/ Over

Spec == Init /\ [][Next]_vars

\* Callbacks run and clients carry on with what they have begun; nobody has to
\* ask, to end, or to take too long, but for a client that nobody hears.
Fairness ==
  /\ \A c \in Clients : WF_vars(Waits(c)) /\ WF_vars(Callback(c))
  /\ WF_vars(Handler)
  /\ WF_vars(Destructor)

FairSpec == Spec /\ Fairness

(***************************************************************************)
(* Properties.                                                             *)
(***************************************************************************)

States == {"ERROR", "INITIAL", "CONNECTING", "CONNECTED", "READING",
           "READ_DONE", "WRITING", "WRITE_DONE", "READING_ACK", "DISCONNECTING"}

\* Every variable has its type: the only type invariant of the module.
TypeOK ==
  /\ client \in [Clients -> {"new", "unregistered", "dead"} \cup InPipe
                               \cup Registered]
  /\ left \in [Clients -> Nat]
  /\ answer \in [Clients -> {"none", "true", "false"}]
  /\ state \in States
  /\ event \in {"off", "set", "connect", "read"}
  /\ {peer, client_info, victim} \subseteq Clients \cup {None}
  /\ inbox \in {"none", "register", "upload", "ack"}
  /\ handler \in {"idle", "unregister", "close"} \cup Adding \cup Dropping
  /\ handler \in Adding \cup Dropping => client_info # None
  /\ listed \cup valid \cup dumpWait \cup exitWait \subseteq Clients
  /\ requested \cup generated \cup finished \cup early \cup late \subseteq Clients
  /\ dumping \in [Clients -> {"idle", "dumping", "reset"}]
  /\ exiting \in [Clients -> {"idle", "wait", "delete", "done"}]
  /\ dtor \in {"no", "disconnect", "await", "callback", "pipe", "clients",
               "exit", "dump", "done"}
  /\ {listening, outbox, pipeWait, shutting_down, up} \subseteq BOOLEAN

\* No ClientInfo is deleted under a callback that still uses it, nor with a wait
\* that could call one: the point of the order in HandleClientProcessExit and
\* in the destructors.
NoUseAfterDelete ==
  \A c \in Clients \ valid :
    /\ dumping[c] = "idle" /\ exiting[c] \in {"idle", "done"}
    /\ c \notin dumpWait \cup exitWait

\* "As long as it is referenced by the clients_ list it is guaranteed to be
\* valid" (the comment in HandleReadingAckState), and as long as AddClient is at
\* it: but for a client that has ended before AddClient had it in the list, which
\* OnClientEnd may delete all the same.
ListedIsValid ==
  /\ listed \subseteq valid \cup early
  /\ handler \in Adding \cup Dropping => client_info \in valid \cup early

\* When the destructor is done, no wait is registered, no dump is under way, and
\* there is no ClientInfo but those that OnClientEnd has taken off the list and
\* is about to delete itself, with no more use of the server.  The callback of
\* the pipe does not run, unless HandleErrorState has taken the wait handle away
\* from the destructor, which then does not wait for it: it may yet close the
\* pipe and the event.
NothingIsLeft ==
  dtor = "done" =>
    /\ handler \in {"idle", "close"}
    /\ listed = {} /\ dumpWait = {}
    /\ \A c \in Clients : /\ dumping[c] = "idle" /\ exiting[c] # "wait"
                         /\ c \in valid \cup exitWait => exiting[c] = "delete"

\* The destructor comes to its end: it and the callbacks that it waits for do
\* not wait for each other.
DestructorEnds == shutting_down ~> ~up

\* A client that asks gets an answer, whether it times out or not, from a server
\* that lives or from its end.
Answered == \A c \in Clients : client[c] = "waiting" ~> client[c] # "waiting"

\* However a registration ends, the server is ready for the next client, unless
\* it is in the error state or shuts down.
Serves ==
  state = "CONNECTED" ~> (state \in {"CONNECTING", "ERROR"} \/ shutting_down \/ ~up)

\* The state of DumpRequests that this one stands for.
Phase ==
  [c \in Clients |-> IF client[c] \in {"asking", "waiting"} THEN "waiting"
                     ELSE IF client[c] = "dead" THEN "dead" ELSE "running"]

=============================================================================
