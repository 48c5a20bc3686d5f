------------------------ MODULE LinuxCrashGeneration ------------------------
(***************************************************************************)
(* Crash generation out of process on Linux: CrashGenerationClient asks,   *)
(* over a socket that all clients share, a CrashGenerationServer for its   *)
(* dump, and waits for its answer on a pipe made for this request.  The    *)
(* answer is the end of file: the server is the last to close the write    *)
(* end, which has come to it in the message (SCM_RIGHTS).                  *)
(*                                                                         *)
(* Who owns the server starts and stops its thread and closes the socket   *)
(* in the end; the dump is a run of MinidumpWriter, done or failed here.   *)
(*                                                                         *)
(* The variants beside a definition, which nothing refers to, are seeded   *)
(* faults, each of which must break a property.                            *)
(***************************************************************************)
EXTENDS Naturals, Sequences, FiniteSets

CONSTANTS
  Clients,    \* the processes that may ask for dumps
  Foreign,    \* those whose build has a CrashContext of another size
  Budget,     \* how many dumps each of them asks for: a bound
  Starts,     \* how many times the owner starts the server: a bound
  Capacity,   \* how many messages the socket takes before a sender waits
  GuidFails   \* can CreateGUID fail: /dev/urandom cannot be read

VARIABLES
  client,     \* where each client is in RequestDump
  left,       \* how many requests it may still make
  answer,     \* what its last RequestDump returned
  queue,      \* the messages in the socket; each is the client it is from
  open,       \* is the server's end of the socket open
  server,     \* where the server's thread is
  ready,      \* the events that poll has reported
  current,    \* the clients whose signal_fd the server works with: one or none
  leaked,     \* the clients whose signal_fd was never closed
  quit,       \* has Stop written to the control pipe
  owner,      \* what the owner of the server does
  starts,     \* how many times it may still start it
  dumped,     \* the clients whose last request has given a dump
  finished    \* the clients whose last request the server has finished with

request == <<client, left, answer>>
thread == <<server, ready, current, leaked, dumped, finished>>
control == <<quit, owner, starts>>
vars == <<request, queue, open, thread, control>>

InitServer ==
  /\ queue = <<>> /\ open = TRUE
  /\ server = "off" /\ ready = {} /\ current = {} /\ leaked = {} /\ dumped = {}
  /\ quit = FALSE /\ owner = "stopped" /\ starts = Starts

Init ==
  /\ client = [c \in Clients |-> "running"]
  /\ left = Budget
  /\ answer = [c \in Clients |-> "none"]
  /\ finished = {}
  /\ InitServer

InSocket(c) == \E i \in DOMAIN queue : queue[i] = c

(***************************************************************************)
(* The client: RequestDump.                                                *)
(***************************************************************************)

Returns(c, value) ==
  /\ client' = [client EXCEPT ![c] = "running"]
  /\ answer' = [answer EXCEPT ![c] = value]

\* No pipe can be made.
PipeFails(c) ==
  /\ client[c] = "running"
  /\ left[c] > 0
  /\ left' = [left EXCEPT ![c] = @ - 1]
  /\ answer' = [answer EXCEPT ![c] = "false"]
  /\ UNCHANGED <<client, queue, open, thread, control>>

\* The client asks: from here on it is the server's.
MakePipe(c) ==
  /\ client[c] = "running"
  /\ left[c] > 0
  /\ left' = [left EXCEPT ![c] = @ - 1]
  /\ client' = [client EXCEPT ![c] = "sending"]
  /\ answer' = [answer EXCEPT ![c] = "none"]
  /\ dumped' = dumped \ {c}
  /\ finished' = finished \ {c}
  /\ UNCHANGED <<queue, open, server, ready, current, leaked, control>>

\* sendmsg, and the client's own write end is closed.
Send(c) ==
  /\ client[c] = "sending"
  /\ open
  /\ Len(queue) < Capacity
  /\ queue' = Append(queue, c)
  /\ client' = [client EXCEPT ![c] = "waiting"]
  /\ UNCHANGED <<left, answer, open, thread, control>>

SendFails(c) ==
  /\ client[c] = "sending"
  /\ ~open
  /\ Returns(c, "false")
  /\ UNCHANGED <<left, queue, open, thread, control>>

\* The read returns 0 when nobody has the write end any more: no message in
\* the socket, and no descriptor of the server.
ServerHasClosed(c) == c \notin current \cup leaked
WriteEndClosed(c) == ~InSocket(c) /\ c \notin current \cup leaked

Acknowledged(c) ==
  /\ client[c] = "waiting"
  /\ WriteEndClosed(c)
  /\ Returns(c, "true")
  /\ UNCHANGED <<left, queue, open, thread, control>>

\* A client is killed, at any time.
Die(c) ==
  /\ client[c] # "dead"
  /\ client' = [client EXCEPT ![c] = "dead"]
  /\ left' = [left EXCEPT ![c] = 0]
  /\ answer' = [answer EXCEPT ![c] = "none"]
  /\ finished' = finished \ {c}
  /\ UNCHANGED <<queue, open, server, ready, current, leaked, dumped, control>>

(***************************************************************************)
(* The owner: Start, Stop.                                                 *)
(***************************************************************************)

Start ==
  /\ owner = "stopped"
  /\ open
  /\ starts > 0
  /\ starts' = starts - 1
  /\ \/ owner' = "started" /\ server' = "poll"
     \/ UNCHANGED <<owner, server>>  \* no pipe, no thread
  /\ quit' = FALSE
  /\ UNCHANGED <<request, queue, open, ready, current, leaked, dumped, finished>>

\* Stop writes the command and joins the thread, which may have ended before.
Stop ==
  /\ owner = "started"
  /\ quit' = TRUE
  /\ owner' = "joining"
  /\ UNCHANGED <<request, queue, open, thread, starts>>

Join ==
  /\ owner = "joining"
  /\ server = "off"
  /\ owner' = "stopped"
  /\ UNCHANGED <<request, queue, open, thread, quit, starts>>

\* The owner closes the socket: the kernel drops the messages in it, and the
\* descriptors in them.
CloseSocket ==
  /\ owner = "stopped"
  /\ open
  /\ open' = FALSE
  /\ queue' = <<>>
  /\ UNCHANGED <<request, thread, control>>

(***************************************************************************)
(* The server's thread: Run, ClientEvent, ControlEvent.                    *)
(***************************************************************************)

HangUp == \A c \in Clients : client[c] = "dead"
Events ==
  {e \in {"hup", "client", "control"} :
     CASE e = "hup"     -> HangUp
       [] e = "client"  -> queue # <<>>
       [] e = "control" -> quit}

Poll ==
  /\ server = "poll"
  /\ Events # {}
  /\ ready' = Events
  /\ server' = IF HangUp THEN "off"
               ELSE IF queue # <<>> THEN "receive" ELSE "control"
  /\ UNCHANGED <<request, queue, open, current, leaked, dumped, finished, control>>

\* An error that is not EINTR: the thread ends, and its owner does not learn of it.
PollFails ==
  /\ server = "poll"
  /\ server' = "off"
  /\ UNCHANGED <<request, queue, open, ready, current, leaked, dumped, finished,
                 control>>

\* A message of another size is dropped, the descriptor that came with it is
\* not closed.
Receive ==
  /\ server = "receive"
  /\ LET c == Head(queue)
     IN IF c \in Foreign
        THEN server' = "control" /\ leaked' = leaked \cup {c} /\ UNCHANGED current
        ELSE server' = "dump" /\ current' = {c} /\ UNCHANGED leaked
  /\ queue' = Tail(queue)
  /\ UNCHANGED <<request, open, ready, dumped, finished, control>>

\* MakeMinidumpFilename fails: the function returns with signal_fd open.
FilenameFails ==
  /\ server = "dump"
  /\ GuidFails
  /\ leaked' = leaked \cup current
  /\ current' = {}
  /\ server' = "control"
  /\ UNCHANGED <<request, queue, open, ready, dumped, finished, control>>

AnswerBeforeTheDump ==
  /\ server = "dump"
  /\ dumped' = dumped \cup current
  /\ server' = "close"
  /\ current' = {}
  /\ UNCHANGED <<request, queue, open, ready, leaked, finished, control>>

\* WriteMinidump, and the callback if it has succeeded.
WriteMinidump ==
  /\ server = "dump"
  /\ \/ dumped' = dumped \cup current
     \/ UNCHANGED dumped
  /\ server' = "close"
  /\ UNCHANGED <<request, queue, open, ready, current, leaked, finished, control>>

\* close(signal_fd) releases the client.
Release ==
  /\ server = "close"
  /\ finished' = finished \cup current
  /\ current' = {}
  /\ server' = "control"
  /\ UNCHANGED <<request, queue, open, ready, leaked, dumped, control>>

\* Whatever ControlEvent reads, the loop ends.
ControlEvent ==
  /\ server = "control"
  /\ server' = IF "control" \in ready THEN "off" ELSE "poll"
  /\ UNCHANGED <<request, queue, open, ready, current, leaked, dumped, finished,
                 control>>

(***************************************************************************)
(* The specification.                                                      *)
(***************************************************************************)

\* A client that has begun to ask, or waits.
Waits(c) == Send(c) \/ SendFails(c) \/ Acknowledged(c)

ClientStep(c) == PipeFails(c) \/ MakePipe(c) \/ Waits(c)

ServerStep ==
  Poll \/ PollFails \/ Receive \/ FilenameFails \/ WriteMinidump \/ Release \/ ControlEvent

OwnerStep == Start \/ Stop \/ Join \/ CloseSocket

Over ==
  /\ \A c \in Clients : client[c] = "dead"
  /\ server = "off" /\ ~open
  /\ UNCHANGED vars

Next ==
  \/ \E c \in Clients : ClientStep(c) \/ Die(c)
  \/ ServerStep
  \/ OwnerStep
  \/ Over

Spec == Init /\ [][Next]_vars

\* Threads run; the owner gets past the join, and a socket that nobody serves
\* any more is closed in the end, with its process.
Fairness ==
  /\ \A c \in Clients : WF_vars(Waits(c))
  /\ WF_vars(ServerStep)
  /\ WF_vars(Join)
  /\ SF_vars(CloseSocket)

FairSpec == Spec /\ Fairness

\* The thread has ended although nobody has stopped it.
GivenUp == server = "off" /\ owner = "started"

(***************************************************************************)
(* Properties.                                                             *)
(***************************************************************************)

\* Every variable has its type: the only type invariant of the module.
TypeOK ==
  /\ client \in [Clients -> {"running", "sending", "waiting", "dead"}]
  /\ \A c \in Clients : left[c] \in 0..Budget[c]
  /\ answer \in [Clients -> {"none", "true", "false"}]
  /\ queue \in Seq(Clients) /\ Len(queue) <= Capacity
  /\ open \in BOOLEAN /\ quit \in BOOLEAN
  /\ server \in {"off", "poll", "receive", "dump", "close", "control"}
  /\ ready \subseteq {"hup", "client", "control"}
  /\ current \cup leaked \cup dumped \cup finished \subseteq Clients
  /\ (server \in {"dump", "close"}) = (Cardinality(current) = 1)
  /\ owner \in {"stopped", "started", "joining"}
  /\ starts \in 0..Starts

\* While the server dumps a client, that client waits in RequestDump, or it is
\* dead: nobody is dumped while its stack changes, nor is a client dumped for a
\* request that it has given up.
WaitsWhileDumped ==
  \A c \in current : client[c] \in {"waiting", "dead"}

\* A client that waits is released, whether its dump succeeds or not, and also
\* if the server is stopped with the request in the socket (the comment before
\* close(signal_fd)), unless the thread has given up.  A descriptor the server
\* has lost holds the client for ever.
Answered ==
  \A c \in Clients : client[c] = "waiting" ~> client[c] # "waiting" \/ GivenUp

\* Stop comes back: the thread sees the command after the event it is at.
StopEnds == owner = "joining" ~> owner = "stopped"

\* The state of DumpRequests that this one stands for.
Phase ==
  [c \in Clients |-> IF client[c] = "sending" THEN "waiting" ELSE client[c]]

=============================================================================
