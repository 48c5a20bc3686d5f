------------------------- MODULE OutOfProcessProofs -------------------------
(***************************************************************************)
(* Theorems about OutOfProcessDump, for any clients and any number of      *)
(* requests, and for servers that are stopped, started and killed.         *)
(*                                                                         *)
(* The argument on Linux: who has a message in the socket, or a descriptor *)
(* with the server, waits or is dead, for its end of file cannot come      *)
(* before (AskedOK); and who waits without either has been finished with,  *)
(* or the socket is closed (WaitingOK).                                    *)
(*                                                                         *)
(* On Windows: a process registers once (Fresh), so that nothing is ever   *)
(* put back that a callback or the destructor has taken away.  Whatever    *)
(* has a wait or a callback has a ClientInfo, and each ClientInfo has one  *)
(* who is to delete it: the destructor, by the list, the callback that     *)
(* adds it, or OnClientEnd (ClientOK).  Only a client that ends while it   *)
(* is added can come into the list when it is deleted.                     *)
(***************************************************************************)
EXTENDS OutOfProcessDump, Sequences, FiniteSetTheorems, TLAPS

(***************************************************************************)
(* Linux.                                                                  *)
(***************************************************************************)

ServerOK ==
  /\ owner = "stopped" => server = "off"
  /\ server = "receive" => queue # <<>>
  /\ IF server \in {"dump", "close"} THEN \E c \in Clients : current = {c} ELSE current = {}

AskedOK ==
  \A c \in Clients : Linux!InSocket(c) \/ c \in current => client[c] \in {"waiting", "dead"}

WaitingOK ==
  \A c \in Clients : client[c] = "waiting" =>
    c \in finished \/ ~open \/ Linux!InSocket(c) \/ c \in current \cup leaked

LinuxInv ==
  /\ Linux!TypeOK /\ left \in [Clients -> Nat]
  /\ ServerOK
  /\ AskedOK
  /\ WaitingOK

(***************************************************************************)
(* Windows.                                                                *)
(***************************************************************************)

\* The server has never had anything for the client.
Fresh(c) ==
  /\ c \notin listed \cup valid \cup dumpWait \cup exitWait \cup early
  /\ dumping[c] = "idle" /\ exiting[c] = "idle"

\* The callback of the pipe is at AddClient, or deletes what could not be added.
Busy == handler \in Windows!Adding \cup Windows!Dropping

\* A process that has not registered is not known, and one whose end has been seen
\* is not dumped again.  What has a wait or a callback is not deleted, nor what is
\* listed, and what is not deleted has somebody who is to do that.
ClientOK(c) ==
  /\ client[c] \in {"new", "connected"} => Fresh(c)
  /\ exiting[c] # "idle" => c \notin dumpWait /\ client[c] = "dead"
  /\ exiting[c] = "delete" => dumping[c] = "idle" /\ (c \notin listed \/ c \in early)
  /\ \/ c \in dumpWait \cup exitWait \/ dumping[c] # "idle"
     \/ exiting[c] \in {"wait", "delete"}
     => c \in valid
  /\ c \in listed => c \in valid \cup early
  /\ c \in valid =>
       c \in listed \/ (Busy /\ client_info = c) \/ exiting[c] = "delete"

\* A request to register is of a client that is not known, and comes once.
AskOK ==
  inbox = "register" =>
    /\ peer \in Clients /\ client[peer] \notin {"new", "connected"} /\ Fresh(peer)
    /\ Busy => peer # client_info

\* What the server has of the client that it adds, or does not add after all.
BusyOK ==
  /\ Busy => /\ client[client_info] \notin {"new", "connected"}
             /\ client_info \notin listed
             /\ client_info \in valid \cup early
  /\ handler = "waits" => /\ client_info \in valid
                          /\ client_info \notin dumpWait \cup exitWait
                          /\ dumping[client_info] = "idle"
                          /\ exiting[client_info] = "idle"
  /\ handler = "exit" => /\ client_info \in valid /\ client_info \notin exitWait
                         /\ exiting[client_info] = "idle"
  /\ handler \in Windows!Adding => client[client_info] # "dead" \/ client_info \in early
  /\ handler \in Windows!Dropping =>
       /\ client_info \notin dumpWait
       /\ shutting_down \/ (client_info \notin exitWait /\ exiting[client_info] = "idle")
       /\ exiting[client_info] = "delete" => client_info \in early
  /\ handler = "delete" => client_info \notin exitWait /\ dumping[client_info] = "idle"

HandlerOK == AskOK /\ BusyOK

\* The destructor deletes what nobody else deletes any more; and the callback of
\* the pipe that it has waited for does not come back.
DestructorOK ==
  /\ dtor # "no" => shutting_down
  /\ dtor \in {"exit", "dump"} => victim \in listed \ exitWait
  /\ dtor = "dump" => exiting[victim] \in {"idle", "done"} /\ victim \notin dumpWait
  /\ ~pipeWait /\ dtor # "callback" => handler \in {"idle", "close"}
  /\ dtor \in {"callback", "pipe", "clients", "exit", "dump", "done"} => ~pipeWait
  /\ dtor = "done" => ~up /\ listed = {}

\* The event of a client is set only for the request it has made last, or for one
\* that was late; and a request that the server is at is one that its client waits
\* for, has got an answer to, or has died with.
RequestOK ==
  \A c \in Clients :
    /\ c \in generated => c \in finished \cup late \/ client[c] = "dead"
    /\ c \in requested \/ dumping[c] # "idle" =>
         client[c] \in {"asking", "waiting", "dead"} \/ answer[c] # "none"

WindowsInv ==
  /\ Windows!TypeOK
  /\ \A c \in Clients : ClientOK(c)
  /\ HandlerOK
  /\ DestructorOK
  /\ RequestOK

\* What the Windows server has when there is none.
NoWindows ==
  /\ up /\ dtor = "no" /\ handler = "idle"
  /\ listed = {} /\ valid = {} /\ dumpWait = {} /\ exitWait = {} /\ late = {}
  /\ \A c \in Clients : dumping[c] = "idle" /\ exiting[c] = "idle"

\* Only one of the platforms has steps.
Inv ==
  /\ platform \in {"linux", "windows"}
  /\ platform = "linux" => LinuxInv /\ NoWindows
  /\ platform = "windows" => WindowsInv /\ open /\ current = {}

USE DEF Busy, Windows!Adding, Windows!Dropping

(***************************************************************************)
(* The Linux server.                                                       *)
(***************************************************************************)

\* Whether the server has a request at hand can be told from where its thread is.
LEMMA Counted ==
  ServerOK => (server \in {"dump", "close"}) = (Linux!Cardinality(current) = 1)
<1>0. \A S : Linux!Cardinality(S) = Cardinality(S)
  BY DEF Linux!Cardinality, Cardinality
<1>1. Linux!Cardinality({}) = 0
  BY <1>0, FS_EmptySet
<1>2. \A c \in Clients : Linux!Cardinality({c}) = 1
  BY <1>0, FS_Singleton
<1> QED
  BY <1>1, <1>2 DEF ServerOK

LEMMA Bounds == Capacity \in Nat /\ Starts \in Nat /\ \A c \in Clients : Budget[c] \in Nat
  BY ServersAssumption

LEMMA LinuxInit == Linux!Init => LinuxInv
<1> SUFFICES ASSUME Linux!Init PROVE LinuxInv
  OBVIOUS
<1> USE DEF Linux!Init, Linux!InitServer
<1>1. left \in [Clients -> Nat] /\ \A c \in Clients : left[c] \in 0..Budget[c]
  BY ServersAssumption
<1>2. ServerOK
  BY DEF ServerOK
<1>3. AskedOK /\ WaitingOK
  BY DEF AskedOK, WaitingOK, Linux!InSocket
<1>5. /\ client \in [Clients -> {"running", "sending", "waiting", "dead"}]
      /\ answer \in [Clients -> {"none", "true", "false"}]
      /\ queue \in Seq(Clients) /\ Len(queue) <= Capacity /\ starts \in 0..Starts
  BY ServersAssumption
<1>4. Linux!TypeOK
  BY <1>1, <1>2, <1>5, Counted DEF Linux!TypeOK
<1> QED BY <1>1, <1>2, <1>3, <1>4 DEF LinuxInv

LEMMA LinuxClientInv ==
  ASSUME LinuxInv, NEW c \in Clients, Linux!ClientStep(c) \/ Linux!Die(c)
  PROVE  LinuxInv'
<1> USE DEF Linux!request, Linux!thread, Linux!control, Linux!Returns
<1>1. CASE Linux!PipeFails(c)
  <2> USE <1>1 DEF Linux!PipeFails
  <2>1. left' \in [Clients -> Nat] /\ \A d \in Clients : left'[d] \in 0..Budget[d]
    BY Bounds DEF LinuxInv, Linux!TypeOK
  <2>2. answer' \in [Clients -> {"none", "true", "false"}]
    BY DEF LinuxInv, Linux!TypeOK
  <2>3. Linux!TypeOK'
    BY <2>1, <2>2 DEF LinuxInv, Linux!TypeOK
  <2> QED
    BY <2>1, <2>3 DEF LinuxInv, ServerOK, AskedOK, WaitingOK, Linux!InSocket
<1>2. CASE Linux!MakePipe(c)
  <2> USE <1>2 DEF Linux!MakePipe
  <2>1. left' \in [Clients -> Nat] /\ \A d \in Clients : left'[d] \in 0..Budget[d]
    BY Bounds DEF LinuxInv, Linux!TypeOK
  <2>2. /\ answer' \in [Clients -> {"none", "true", "false"}]
        /\ client' \in [Clients -> {"running", "sending", "waiting", "dead"}]
    BY DEF LinuxInv, Linux!TypeOK
  <2>3. Linux!TypeOK'
    BY <2>1, <2>2 DEF LinuxInv, Linux!TypeOK
  <2>4. AskedOK'
    BY DEF LinuxInv, Linux!TypeOK, AskedOK, Linux!InSocket
  <2>5. WaitingOK'
    BY DEF LinuxInv, Linux!TypeOK, WaitingOK, Linux!InSocket
  <2> QED
    BY <2>1, <2>3, <2>4, <2>5 DEF LinuxInv, ServerOK
<1>3. CASE Linux!Send(c)
  <2> USE <1>3 DEF Linux!Send
  <2>1. client' \in [Clients -> {"running", "sending", "waiting", "dead"}]
    BY DEF LinuxInv, Linux!TypeOK
  <2>2. /\ queue' \in Seq(Clients) /\ Len(queue') = Len(queue) + 1 /\ queue' # <<>>
        /\ \A i \in 1..Len(queue) : queue'[i] = queue[i]
        /\ queue'[Len(queue) + 1] = c
    <3>1. queue \in Seq(Clients) /\ queue' = Append(queue, c)
      BY DEF LinuxInv, Linux!TypeOK
    <3> QED BY <3>1
  <2>3. Len(queue') <= Capacity
    <3>1. Len(queue) \in Nat /\ Len(queue) < Capacity /\ Capacity \in Nat
      BY Bounds DEF LinuxInv, Linux!TypeOK
    <3> QED BY <2>2, <3>1
  <2>4. Linux!TypeOK'
    BY <2>1, <2>2, <2>3 DEF LinuxInv, Linux!TypeOK
  <2>5. \A d \in Clients : Linux!InSocket(d)' <=> Linux!InSocket(d) \/ d = c
    <3>1. queue \in Seq(Clients) /\ Len(queue) \in Nat
          /\ DOMAIN queue = 1..Len(queue) /\ DOMAIN queue' = 1..Len(queue')
      BY <2>2 DEF LinuxInv, Linux!TypeOK
    <3> QED BY <2>2, <3>1 DEF Linux!InSocket
  <2>6. AskedOK' /\ WaitingOK'
    BY <2>5 DEF LinuxInv, Linux!TypeOK, AskedOK, WaitingOK
  <2> QED
    BY <2>2, <2>4, <2>6 DEF LinuxInv, ServerOK
<1>4. CASE Linux!SendFails(c) \/ Linux!Acknowledged(c)
  <2> USE <1>4 DEF Linux!SendFails, Linux!Acknowledged
  <2>1. answer' \in [Clients -> {"none", "true", "false"}]
    <3>1. answer' = [answer EXCEPT ![c] = "false"] \/ answer' = [answer EXCEPT ![c] = "true"]
      OBVIOUS
    <3> QED BY <3>1 DEF LinuxInv, Linux!TypeOK
  <2>5. client' \in [Clients -> {"running", "sending", "waiting", "dead"}]
    <3>1. client' = [client EXCEPT ![c] = "running"]
      OBVIOUS
    <3> QED BY <3>1 DEF LinuxInv, Linux!TypeOK
  <2>2. Linux!TypeOK'
    BY <2>1, <2>5 DEF LinuxInv, Linux!TypeOK
  <2>6. /\ ~Linux!InSocket(c) \/ client[c] = "sending"
        /\ c \notin current \/ client[c] = "sending"
        /\ \A d \in Clients : Linux!InSocket(d)' = Linux!InSocket(d)
        /\ \A d \in Clients : d # c => client'[d] = client[d]
        /\ client'[c] = "running" /\ current' = current /\ leaked' = leaked
        /\ finished' = finished /\ open' = open
    <3>1. client'[c] = "running" /\ \A d \in Clients : d # c => client'[d] = client[d]
      BY DEF LinuxInv, Linux!TypeOK
    <3>2. /\ ~Linux!InSocket(c) \/ client[c] = "sending"
          /\ c \notin current \/ client[c] = "sending"
      BY DEF Linux!WriteEndClosed
    <3>3. \A d \in Clients : Linux!InSocket(d)' = Linux!InSocket(d)
      BY DEF Linux!InSocket
    <3> QED BY <3>1, <3>2, <3>3
  <2>3. AskedOK'
    BY <2>6 DEF LinuxInv, AskedOK
  <2>4. WaitingOK'
    BY <2>6 DEF LinuxInv, WaitingOK
  <2> QED
    BY <2>2, <2>3, <2>4 DEF LinuxInv, ServerOK
<1>5. CASE Linux!Die(c)
  <2> USE <1>5 DEF Linux!Die
  <2>1. client' \in [Clients -> {"running", "sending", "waiting", "dead"}]
        /\ answer' \in [Clients -> {"none", "true", "false"}]
    BY DEF LinuxInv, Linux!TypeOK
  <2>4. left' \in [Clients -> Nat] /\ \A d \in Clients : left'[d] \in 0..Budget[d]
    BY Bounds DEF LinuxInv, Linux!TypeOK
  <2>2. Linux!TypeOK'
    BY <2>1, <2>4 DEF LinuxInv, Linux!TypeOK
  <2>3. AskedOK' /\ WaitingOK'
    BY DEF LinuxInv, Linux!TypeOK, AskedOK, WaitingOK, Linux!InSocket
  <2> QED
    BY <2>2, <2>3, <2>4 DEF LinuxInv, ServerOK
<1> QED
  BY <1>1, <1>2, <1>3, <1>4, <1>5 DEF Linux!ClientStep, Linux!Waits

LEMMA LinuxOwnerInv ==
  ASSUME LinuxInv, Linux!OwnerStep
  PROVE  LinuxInv'
<1> USE DEF Linux!request, Linux!thread, Linux!control
<1>1. CASE Linux!Start
  <2>1. starts' \in 0..Starts
    BY <1>1, Bounds DEF Linux!Start, LinuxInv, Linux!TypeOK
  <2>2. ServerOK'
    BY <1>1 DEF Linux!Start, LinuxInv, ServerOK
  <2>3. (ServerOK => (server \in {"dump", "close"}) = (Linux!Cardinality(current) = 1))'
    BY Counted, PTL
  <2>4. Linux!TypeOK'
    BY <1>1, <2>1, <2>2, <2>3 DEF Linux!Start, LinuxInv, Linux!TypeOK
  <2> QED
    BY <1>1, <2>2, <2>4 DEF Linux!Start, LinuxInv, AskedOK, WaitingOK, Linux!InSocket
<1>2. CASE Linux!Stop \/ Linux!Join
  <2> USE <1>2 DEF Linux!Stop, Linux!Join
  <2>1. Linux!TypeOK'
    BY DEF LinuxInv, Linux!TypeOK
  <2>2. ServerOK'
    BY DEF LinuxInv, ServerOK
  <2>3. \A c \in Clients : Linux!InSocket(c)' = Linux!InSocket(c)
    BY DEF Linux!InSocket
  <2>4. AskedOK' /\ WaitingOK'
    BY <2>3 DEF LinuxInv, AskedOK, WaitingOK
  <2>5. left' \in [Clients -> Nat]
    BY DEF LinuxInv
  <2> QED BY <2>1, <2>2, <2>4, <2>5 DEF LinuxInv
<1>3. CASE Linux!CloseSocket
  <2>3. queue' \in Seq(Clients) /\ Len(queue') <= Capacity /\ open' \in BOOLEAN
    <3>1. queue' = <<>>
      BY <1>3 DEF Linux!CloseSocket
    <3>2. queue' \in Seq(Clients) /\ Len(queue') <= Capacity
      BY <3>1, Bounds
    <3>3. open' \in BOOLEAN
      BY <1>3, Zenon DEF Linux!CloseSocket
    <3> QED BY <3>2, <3>3
  <2>4. UNCHANGED <<client, left, answer, server, ready, current, leaked, dumped, finished,
                    quit, owner, starts>>
    BY <1>3 DEF Linux!CloseSocket
  <2>1. Linux!TypeOK'
    BY <2>3, <2>4 DEF LinuxInv, Linux!TypeOK
  <2>2. ServerOK'
    BY <1>3 DEF Linux!CloseSocket, LinuxInv, ServerOK
  <2> QED
    BY <1>3, <2>1, <2>2 DEF Linux!CloseSocket, LinuxInv, AskedOK, WaitingOK, Linux!InSocket
<1> QED
  BY <1>1, <1>2, <1>3 DEF Linux!OwnerStep

LEMMA LinuxServerInv ==
  ASSUME LinuxInv, Linux!ServerStep
  PROVE  LinuxInv'
<1> USE DEF Linux!request, Linux!thread, Linux!control
<1>0. (ServerOK => (server \in {"dump", "close"}) = (Linux!Cardinality(current) = 1))'
  BY Counted, PTL
<1>1. CASE Linux!Poll
  <2>1. ServerOK'
    BY <1>1 DEF Linux!Poll, LinuxInv, ServerOK
  <2>2. Linux!TypeOK'
    BY <1>0, <1>1, <2>1 DEF Linux!Poll, Linux!Events, LinuxInv, Linux!TypeOK
  <2> QED
    BY <1>1, <2>1, <2>2 DEF Linux!Poll, LinuxInv, AskedOK, WaitingOK, Linux!InSocket
<1>2. CASE Linux!Receive
  <2> USE <1>2 DEF Linux!Receive
  <2>1. PICK c \in Clients : c = Head(queue) /\ c = queue[1]
    BY DEF LinuxInv, Linux!TypeOK, ServerOK
  <2>2. /\ queue' \in Seq(Clients) /\ Len(queue) >= 1 /\ Len(queue') = Len(queue) - 1
        /\ \A i \in 1..Len(queue') : queue'[i] = queue[i + 1]
    BY DEF LinuxInv, Linux!TypeOK, ServerOK
  <2>3. \A d \in Clients : Linux!InSocket(d) <=> Linux!InSocket(d)' \/ d = c
    <3> SUFFICES ASSUME NEW d \in Clients
                 PROVE  Linux!InSocket(d) <=> Linux!InSocket(d)' \/ d = c
      OBVIOUS
    <3>1. queue \in Seq(Clients)
      BY DEF LinuxInv, Linux!TypeOK
    <3>2. ASSUME Linux!InSocket(d), d # c PROVE Linux!InSocket(d)'
      <4>1. PICK i \in 1..Len(queue) : queue[i] = d
        BY <3>1, <3>2 DEF Linux!InSocket
      <4>3. i # 1 /\ Len(queue) \in Nat
        BY <3>1, <3>2, <4>1, <2>1
      <4>2. i - 1 \in 1..Len(queue') /\ (i - 1) + 1 = i
        BY <4>1, <4>3, <2>2
      <4>4. queue'[i - 1] = d
        BY <4>1, <4>2, <2>2
      <4>5. DOMAIN queue' = 1..Len(queue')
        BY <2>2
      <4> QED BY <4>2, <4>4, <4>5 DEF Linux!InSocket
    <3>3. ASSUME Linux!InSocket(d)' PROVE Linux!InSocket(d)
      <4>1. PICK i \in 1..Len(queue') : queue'[i] = d
        BY <2>2, <3>3 DEF Linux!InSocket
      <4> QED BY <2>2, <3>1, <4>1 DEF Linux!InSocket
    <3>4. Linux!InSocket(c)
      BY <2>1, <2>2, <3>1 DEF Linux!InSocket
    <3> QED BY <3>2, <3>3, <3>4
  <2>4. /\ current = {}
        /\ \/ server' = "control" /\ leaked' = leaked \cup {c} /\ current' = {}
           \/ server' = "dump" /\ leaked' = leaked /\ current' = {c}
    BY <2>1 DEF LinuxInv, ServerOK
  <2>5. ServerOK'
    BY <2>4 DEF LinuxInv, ServerOK
  <2>6. Linux!TypeOK'
    BY <1>0, <2>2, <2>4, <2>5, Bounds DEF LinuxInv, Linux!TypeOK
  <2>7. AskedOK'
    BY <2>3, <2>4 DEF LinuxInv, AskedOK
  <2>8. WaitingOK'
    BY <2>3, <2>4 DEF LinuxInv, WaitingOK
  <2> QED
    BY <2>5, <2>6, <2>7, <2>8 DEF LinuxInv
<1>3. CASE \/ Linux!PollFails \/ Linux!FilenameFails \/ Linux!WriteMinidump \/ Linux!Release
           \/ Linux!ControlEvent
  <2> USE <1>3 DEF Linux!PollFails, Linux!FilenameFails, Linux!WriteMinidump, Linux!Release,
                   Linux!ControlEvent
  <2>1. ServerOK'
    BY DEF LinuxInv, ServerOK
  <2>2. Linux!TypeOK'
    BY <1>0, <2>1 DEF LinuxInv, Linux!TypeOK
  <2>3. AskedOK' /\ WaitingOK'
    BY DEF LinuxInv, AskedOK, WaitingOK, Linux!InSocket
  <2> QED
    BY <2>1, <2>2, <2>3 DEF LinuxInv
<1> QED
  BY <1>1, <1>2, <1>3 DEF Linux!ServerStep

LEMMA LinuxStep ==
  ASSUME LinuxInv, Linux!Next \/ UNCHANGED <<client, left, answer, finished, linuxVars>>
  PROVE  LinuxInv'
<1>1. CASE UNCHANGED <<client, left, answer, finished, linuxVars>>
  BY <1>1 DEF linuxVars, LinuxInv, Linux!TypeOK, ServerOK, AskedOK, WaitingOK, Linux!InSocket
<1>2. CASE Linux!Over
  BY <1>1, <1>2 DEF Linux!Over, Linux!vars, Linux!request, Linux!thread, Linux!control, linuxVars
<1> QED
  BY <1>1, <1>2, LinuxClientInv, LinuxOwnerInv, LinuxServerInv DEF Linux!Next

(***************************************************************************)
(* The Windows server.                                                     *)
(***************************************************************************)

\* The type invariant, by who has the variables.
ClientTypes ==
  /\ client \in [Clients -> {"new", "unregistered", "dead"} \cup Windows!InPipe
                               \cup Windows!Registered]
  /\ left \in [Clients -> Nat]
  /\ answer \in [Clients -> {"none", "true", "false"}]

PipeTypes ==
  /\ state \in Windows!States
  /\ event \in {"off", "set", "connect", "read"}
  /\ peer \in Clients \cup {None} /\ client_info \in Clients \cup {None}
  /\ inbox \in {"none", "register", "upload", "ack"}
  /\ handler \in {"idle", "unregister", "close"} \cup Windows!Adding \cup Windows!Dropping
  /\ Busy => client_info # None
  /\ listening \in BOOLEAN /\ outbox \in BOOLEAN /\ pipeWait \in BOOLEAN

InfoTypes ==
  /\ listed \cup valid \cup dumpWait \cup exitWait \subseteq Clients
  /\ requested \cup generated \cup finished \cup early \cup late \subseteq Clients
  /\ dumping \in [Clients -> {"idle", "dumping", "reset"}]
  /\ exiting \in [Clients -> {"idle", "wait", "delete", "done"}]

EndTypes ==
  /\ victim \in Clients \cup {None}
  /\ dtor \in {"no", "disconnect", "await", "callback", "pipe", "clients",
               "exit", "dump", "done"}
  /\ shutting_down \in BOOLEAN /\ up \in BOOLEAN

LEMMA TypesByOwner ==
  Windows!TypeOK <=> ClientTypes /\ PipeTypes /\ InfoTypes /\ EndTypes
  BY Zenon DEF Windows!TypeOK, ClientTypes, PipeTypes, InfoTypes, EndTypes

\* What the steps of the rest have to show, and what it is made of.
Parts ==
  /\ ClientTypes /\ PipeTypes /\ InfoTypes /\ EndTypes
  /\ \A c \in Clients : ClientOK(c)
  /\ HandlerOK
  /\ DestructorOK
  /\ RequestOK

LEMMA WindowsParts == WindowsInv <=> Parts
  BY TypesByOwner DEF WindowsInv, Parts

LEMMA WindowsInit == Windows!Init => WindowsInv
<1> SUFFICES ASSUME Windows!Init PROVE Parts
  BY WindowsParts
<1> USE DEF Windows!Init, Windows!InitServer
<1>1. ClientTypes
  <2>1. PICK asks \in Visits :
          /\ client = [c \in Clients |-> IF c \in DOMAIN asks THEN "new" ELSE "unregistered"]
          /\ left = [c \in Clients |-> IF c \in DOMAIN asks THEN asks[c] ELSE 0]
    OBVIOUS
  <2>2. PICK C \in SUBSET Clients : asks \in [C -> Nat]
    BY ServersAssumption
  <2>3. left \in [Clients -> Nat]
    BY <2>1, <2>2
  <2> QED BY <2>1, <2>3 DEF ClientTypes
<1>2. PipeTypes
  <2>1. listening \in BOOLEAN /\ outbox \in BOOLEAN /\ pipeWait \in BOOLEAN
    BY Zenon
  <2> QED BY <2>1 DEF PipeTypes, Windows!States
<1>3. InfoTypes
  BY DEF InfoTypes
<1>4. EndTypes
  <2>1. shutting_down \in BOOLEAN /\ up \in BOOLEAN
    BY Zenon
  <2> QED BY <2>1 DEF EndTypes
<1>5. ASSUME NEW c \in Clients PROVE ClientOK(c)
  BY DEF ClientOK, Fresh
<1>6. HandlerOK /\ DestructorOK /\ RequestOK
  BY DEF HandlerOK, AskOK, BusyOK, DestructorOK, RequestOK
<1> QED BY <1>1, <1>2, <1>3, <1>4, <1>5, <1>6 DEF Parts

\* What a step of the client's registration does, whichever it is.
LEMMA RegisterStepDoes ==
  ASSUME Parts, NEW c \in Clients, Windows!RegisterStep(c)
  PROVE  /\ UNCHANGED <<left, answer, state, event, listening, client_info, handler, pipeWait,
                        listed, valid, dumpWait, exitWait, requested, generated, dumping,
                        exiting, finished, early, late, shutting_down, dtor, victim, up>>
         /\ client[c] \in {"new"} \cup Windows!InPipe
         /\ \E place \in {"connected", "asked", "unregistered", "replied", "registered"} :
              /\ client' = [client EXCEPT ![c] = place]
              /\ place = "connected" => client[c] = "new"
              /\ inbox' = "register" =>
                   \/ inbox' = inbox /\ peer' = peer
                   \/ client[c] = "connected" /\ place = "asked" /\ peer' = c
         /\ peer' \in {peer, c}
         /\ inbox' \in {inbox, "none", "register", "upload", "ack"}
         /\ outbox' \in {outbox, FALSE}
<1> USE DEF Windows!Goto, Windows!Write, Windows!infos, Windows!history, Windows!ending,
            Windows!machine, Windows!InPipe
<1>1. CASE Windows!Connect(c)
  BY <1>1 DEF Windows!Connect
<1>2. CASE Windows!ConnectFails(c)
  BY <1>2 DEF Windows!ConnectFails
<1>3. CASE Windows!Ask(c)
  BY <1>3 DEF Windows!Ask
<1>4. CASE Windows!RequestUpload(c)
  BY <1>4 DEF Windows!RequestUpload
<1>5. CASE Windows!ReadReply(c)
  BY <1>5 DEF Windows!ReadReply
<1>6. CASE Windows!Acknowledge(c)
  BY <1>6 DEF Windows!Acknowledge
<1>7. CASE Windows!RegisterFails(c)
  BY <1>7 DEF Windows!RegisterFails
<1> QED
  BY <1>1, <1>2, <1>3, <1>4, <1>5, <1>6, <1>7 DEF Windows!RegisterStep

LEMMA RegisterStepInv ==
  ASSUME Parts, NEW c \in Clients, Windows!RegisterStep(c)
  PROVE  Parts'
<1>1. UNCHANGED <<left, answer, state, event, listening, client_info, handler, pipeWait,
                  listed, valid, dumpWait, exitWait, requested, generated, dumping,
                  exiting, finished, early, late, shutting_down, dtor, victim, up>>
  BY RegisterStepDoes, Zenon
<1>2. /\ client[c] \in {"new"} \cup Windows!InPipe
      /\ peer' \in {peer, c}
      /\ inbox' \in {inbox, "none", "register", "upload", "ack"}
      /\ outbox' \in {outbox, FALSE}
  BY RegisterStepDoes, Zenon
<1>3. PICK place \in {"connected", "asked", "unregistered", "replied", "registered"} :
        /\ client' = [client EXCEPT ![c] = place]
        /\ place = "connected" => client[c] = "new"
        /\ inbox' = "register" =>
             \/ inbox' = inbox /\ peer' = peer
             \/ client[c] = "connected" /\ place = "asked" /\ peer' = c
  BY RegisterStepDoes, Zenon
<1>4. ClientTypes'
  BY <1>1, <1>3 DEF Parts, ClientTypes, Windows!InPipe, Windows!Registered
<1>5. PipeTypes'
  <2>1. outbox' \in BOOLEAN
    BY <1>2, Zenon DEF Parts, PipeTypes
  <2> QED BY <1>1, <1>2, <2>1 DEF Parts, PipeTypes
<1>6. InfoTypes' /\ EndTypes'
  BY <1>1 DEF Parts, InfoTypes, EndTypes
<1>7. ASSUME NEW d \in Clients PROVE ClientOK(d)'
  <2>1. client[c] # "dead" /\ ClientOK(d)
    BY <1>2 DEF Parts, Windows!InPipe
  <2>2. CASE d = c
    BY <1>1, <1>3, <2>1, <2>2 DEF Parts, ClientTypes, ClientOK, Fresh
  <2>3. CASE d # c
    BY <1>1, <1>3, <2>1, <2>3 DEF Parts, ClientTypes, ClientOK, Fresh
  <2> QED BY <2>2, <2>3
<1>8. HandlerOK'
  <2>1. Busy => client_info \in Clients
    BY DEF Parts, PipeTypes
  <2>2. AskOK'
    BY <1>1, <1>3, <2>1 DEF Parts, ClientTypes, HandlerOK, AskOK, BusyOK, ClientOK, Fresh
  <2>3. BusyOK'
    BY <1>1, <1>3, <2>1 DEF Parts, ClientTypes, HandlerOK, BusyOK
  <2> QED BY <2>2, <2>3 DEF HandlerOK
<1>9. DestructorOK'
  BY <1>1 DEF Parts, DestructorOK
<1>10. RequestOK'
  BY <1>1, <1>2, <1>3 DEF Parts, ClientTypes, RequestOK, Windows!InPipe
<1> QED
  BY <1>4, <1>5, <1>6, <1>7, <1>8, <1>9, <1>10 DEF Parts

LEMMA RequestStepsInv ==
  ASSUME Parts, NEW c \in Clients,
         \/ Windows!RequestDump(c) \/ Windows!RequestStep(c) \/ Windows!Timeout(c)
         \/ Windows!Die(c)
  PROVE  Parts'
<1> USE DEF Windows!Goto, Windows!infos, Windows!history, Windows!ending, Windows!machine
<1>1. /\ UNCHANGED <<state, event, listening, peer, inbox, outbox, client_info, handler,
                     pipeWait, listed, valid, dumpWait, exitWait, dumping, exiting,
                     shutting_down, dtor, victim, up>>
      /\ \E place \in {"registered", "asking", "waiting", "dead"} :
           /\ client' = [client EXCEPT ![c] = place]
           /\ handler \in Windows!Adding /\ client_info = c /\ place = "dead" => c \in early'
      /\ early' = early \/ (early' = early \cup {c} /\ Busy /\ client_info = c)
      /\ client[c] # "dead"
  BY DEF Windows!InPipe, Windows!Registered, Windows!RequestDump, Windows!RequestStep, Windows!SetCrashEvent, Windows!Woken,
     Windows!Timeout, Windows!Die
<1>2. PICK place \in {"registered", "asking", "waiting", "dead"} :
        /\ client' = [client EXCEPT ![c] = place]
        /\ handler \in Windows!Adding /\ client_info = c /\ place = "dead" => c \in early'
  BY <1>1
<1>3. /\ left' \in [Clients -> Nat]
      /\ answer' \in [Clients -> {"none", "true", "false"}]
      /\ requested' \cup generated' \cup finished' \cup late' \subseteq Clients
  <2> USE DEF Parts, ClientTypes, InfoTypes
  <2>1. CASE Windows!RequestDump(c)
    BY <2>1 DEF Windows!RequestDump, Windows!ResetGenerated
  <2>2. CASE Windows!SetCrashEvent(c)
    BY <2>2 DEF Windows!SetCrashEvent
  <2>3. CASE Windows!Woken(c)
    BY <2>3 DEF Windows!Woken
  <2>4. CASE Windows!Timeout(c)
    BY <2>4 DEF Windows!Timeout
  <2>5. CASE Windows!Die(c)
    BY <2>5 DEF Windows!Die
  <2> QED BY <2>1, <2>2, <2>3, <2>4, <2>5 DEF Windows!RequestStep
<1>4. ClientTypes'
  BY <1>2, <1>3 DEF Parts, ClientTypes, Windows!InPipe, Windows!Registered
<1>5. PipeTypes' /\ EndTypes'
  BY <1>1 DEF Parts, PipeTypes, EndTypes
<1>6. InfoTypes'
  BY <1>1, <1>3 DEF Parts, InfoTypes
<1>7. ASSUME NEW d \in Clients PROVE ClientOK(d)'
  BY <1>1, <1>2 DEF Parts, ClientTypes, ClientOK, HandlerOK, BusyOK, Fresh
<1>8. HandlerOK'
  <2>1. Busy => client_info \in Clients
    BY DEF Parts, PipeTypes
  <2>2. AskOK'
    BY <1>1, <1>2, <2>1 DEF Parts, ClientTypes, HandlerOK, AskOK, Fresh
  <2>3. BusyOK'
    BY <1>1, <1>2, <2>1 DEF Parts, ClientTypes, HandlerOK, BusyOK
  <2> QED BY <2>2, <2>3 DEF HandlerOK
<1>9. DestructorOK'
  BY <1>1 DEF Parts, DestructorOK
<1>10. RequestOK'
  <2> USE DEF Parts, ClientTypes, InfoTypes, RequestOK
  <2>1. CASE Windows!RequestDump(c)
    BY <2>1 DEF Windows!RequestDump, Windows!ResetGenerated
  <2>2. CASE Windows!SetCrashEvent(c)
    BY <2>2 DEF Windows!SetCrashEvent
  <2>3. CASE Windows!Woken(c)
    BY <2>3 DEF Windows!Woken
  <2>4. CASE Windows!Timeout(c)
    BY <2>4 DEF Windows!Timeout
  <2>5. CASE Windows!Die(c)
    BY <2>5 DEF Windows!Die
  <2> QED BY <2>1, <2>2, <2>3, <2>4, <2>5 DEF Windows!RequestStep
<1> QED
  BY <1>4, <1>5, <1>6, <1>7, <1>8, <1>9, <1>10 DEF Parts

\* What a callback of the pipe does that does not add a client: the request to
\* register that it may find is refused.
PipeStep ==
  \/ Windows!HandleShutdown \/ Windows!HandleInitialState \/ Windows!HandleConnectingState
  \/ Windows!HandleConnectedState \/ Windows!HandleReadingState \/ Windows!RefuseClient
  \/ Windows!HandleWritingState \/ Windows!HandleWriteDoneState
  \/ Windows!HandleReadingAckState \/ Windows!HandleDisconnectingState
  \/ Windows!HandleErrorState \/ Windows!CleanUp

LEMMA PipeStepDoes ==
  ASSUME Parts, PipeStep
  PROVE  /\ UNCHANGED <<client, left, answer, listed, valid, dumpWait, exitWait, requested,
                        generated, dumping, exiting, finished, early, late, shutting_down,
                        dtor, victim, up>>
         /\ handler \in {"idle", "unregister", "close"}
         /\ handler' \in {"idle", "unregister", "close"}
         /\ handler' = "unregister" => pipeWait
         /\ inbox' = "none" \/ (inbox' = inbox /\ peer' = peer)
         /\ peer' \in {peer, None} /\ client_info' \in {client_info, None}
         /\ state' \in Windows!States /\ event' \in {"off", "set", "connect", "read"}
<1> USE DEF Windows!infos, Windows!history, Windows!ending, Windows!asking, Windows!quiet,
            Windows!Called, Windows!Enter, Windows!Immediately, Windows!States
<1>1. state \in Windows!States /\ event \in {"off", "set", "connect", "read"}
  BY DEF Parts, PipeTypes
<1>2. CASE Windows!HandleShutdown
  BY <1>1, <1>2 DEF Windows!HandleShutdown
<1>3. CASE Windows!HandleInitialState
  BY <1>1, <1>3 DEF Windows!HandleInitialState
<1>4. CASE Windows!HandleConnectingState
  BY <1>1, <1>4 DEF Windows!HandleConnectingState
<1>5. CASE Windows!HandleConnectedState
  BY <1>1, <1>5 DEF Windows!HandleConnectedState
<1>6. CASE Windows!HandleReadingState
  BY <1>1, <1>6 DEF Windows!HandleReadingState
<1>7. CASE Windows!RefuseClient
  BY <1>1, <1>7 DEF Windows!RefuseClient
<1>8. CASE Windows!HandleWritingState
  BY <1>1, <1>8 DEF Windows!HandleWritingState
<1>9. CASE Windows!HandleWriteDoneState
  BY <1>1, <1>9 DEF Windows!HandleWriteDoneState
<1>10. CASE Windows!HandleReadingAckState
  BY <1>1, <1>10 DEF Windows!HandleReadingAckState
<1>11. CASE Windows!HandleDisconnectingState
  BY <1>1, <1>11 DEF Windows!HandleDisconnectingState
<1>12. CASE Windows!HandleErrorState
  BY <1>1, <1>12 DEF Windows!HandleErrorState
<1>13. CASE Windows!CleanUp
  BY <1>1, <1>13 DEF Windows!CleanUp
<1> QED
  BY <1>2, <1>3, <1>4, <1>5, <1>6, <1>7, <1>8, <1>9, <1>10, <1>11, <1>12, <1>13
  DEF PipeStep

LEMMA PipeFlags ==
  ASSUME Parts, PipeStep
  PROVE  /\ pipeWait' \in BOOLEAN /\ outbox' \in BOOLEAN /\ listening' \in BOOLEAN
         /\ pipeWait' => pipeWait
         /\ ~pipeWait' => ~pipeWait \/ handler' = "close"
<1> USE DEF Windows!Called, Windows!quiet
<1>1. pipeWait \in BOOLEAN /\ outbox \in BOOLEAN /\ listening \in BOOLEAN
  BY DEF Parts, PipeTypes
<1>2. CASE Windows!HandleShutdown
  BY <1>1, <1>2, Zenon DEF Windows!HandleShutdown
<1>3. CASE Windows!HandleInitialState
  BY <1>1, <1>3, Zenon DEF Windows!HandleInitialState
<1>4. CASE Windows!HandleConnectingState
  BY <1>1, <1>4, Zenon DEF Windows!HandleConnectingState
<1>5. CASE Windows!HandleConnectedState
  BY <1>1, <1>5, Zenon DEF Windows!HandleConnectedState
<1>6. CASE Windows!HandleReadingState
  BY <1>1, <1>6, Zenon DEF Windows!HandleReadingState
<1>7. CASE Windows!RefuseClient
  BY <1>1, <1>7, Zenon DEF Windows!RefuseClient
<1>8. CASE Windows!HandleWritingState
  BY <1>1, <1>8, Zenon DEF Windows!HandleWritingState
<1>9. CASE Windows!HandleWriteDoneState
  BY <1>1, <1>9, Zenon DEF Windows!HandleWriteDoneState
<1>10. CASE Windows!HandleReadingAckState
  BY <1>1, <1>10, Zenon DEF Windows!HandleReadingAckState
<1>11. CASE Windows!HandleDisconnectingState
  BY <1>1, <1>11, Zenon DEF Windows!HandleDisconnectingState
<1>12. CASE Windows!HandleErrorState
  BY <1>1, <1>12, Zenon DEF Windows!HandleErrorState
<1>13. CASE Windows!CleanUp
  <2>1. CASE handler = "unregister"
    <3>1. pipeWait' = FALSE /\ listening' = listening /\ outbox' = outbox /\ handler' = "close"
      BY <1>13, <2>1 DEF Windows!CleanUp
    <3> QED BY <1>1, <3>1, Zenon
  <2>2. CASE handler = "close"
    <3>1. pipeWait' = pipeWait /\ listening' = FALSE /\ outbox' = outbox
      BY <1>13, <2>2 DEF Windows!CleanUp
    <3> QED BY <1>1, <3>1, Zenon
  <2> QED BY <1>13, <2>1, <2>2 DEF Windows!CleanUp
<1> QED
  BY <1>2, <1>3, <1>4, <1>5, <1>6, <1>7, <1>8, <1>9, <1>10, <1>11, <1>12, <1>13
  DEF PipeStep

LEMMA PipeStepInv ==
  ASSUME Parts, PipeStep
  PROVE  Parts'
<1>1. /\ UNCHANGED <<client, left, answer, listed, valid, dumpWait, exitWait, requested,
                     generated, dumping, exiting, finished, early, late, shutting_down, dtor,
                     victim, up>>
      /\ handler \in {"idle", "unregister", "close"}
      /\ handler' \in {"idle", "unregister", "close"}
      /\ handler' = "unregister" => pipeWait
  BY PipeStepDoes, Zenon
<1>2. /\ inbox' = "none" \/ (inbox' = inbox /\ peer' = peer)
      /\ peer' \in {peer, None} /\ client_info' \in {client_info, None}
      /\ state' \in Windows!States /\ event' \in {"off", "set", "connect", "read"}
  BY PipeStepDoes, Zenon
<1>3. /\ pipeWait' \in BOOLEAN /\ outbox' \in BOOLEAN /\ listening' \in BOOLEAN
      /\ pipeWait' => pipeWait
      /\ ~pipeWait' => ~pipeWait \/ handler' = "close"
  BY PipeFlags, Zenon
<1>4. ClientTypes' /\ InfoTypes' /\ EndTypes'
  BY <1>1 DEF Parts, ClientTypes, InfoTypes, EndTypes
<1>5. PipeTypes'
  <2>1. inbox' \in {"none", "register", "upload", "ack"}
    BY <1>2 DEF Parts, PipeTypes
  <2> QED BY <1>1, <1>2, <1>3, <2>1 DEF Parts, PipeTypes
<1>6. ASSUME NEW d \in Clients PROVE ClientOK(d)'
  BY <1>1 DEF Parts, ClientOK, Fresh
<1>7. HandlerOK'
  <2>1. AskOK'
    BY <1>1, <1>2 DEF Parts, HandlerOK, AskOK, Fresh
  <2>2. BusyOK'
    BY <1>1 DEF BusyOK
  <2> QED BY <2>1, <2>2 DEF HandlerOK
<1>8. DestructorOK'
  <2>1. ~pipeWait' => handler' \in {"idle", "close"} \/ (handler' = handler /\ ~pipeWait)
    BY <1>1, <1>3 DEF Parts, PipeTypes, DestructorOK
  <2>2. ~pipeWait => ~pipeWait'
    BY <1>3
  <2>3. handler = "idle" \/ handler = "close" \/ pipeWait \/ dtor = "callback"
    BY <1>1 DEF Parts, DestructorOK
  <2>4. ~pipeWait' /\ dtor # "callback" => handler' \in {"idle", "close"}
    BY <2>1, <2>3
  <2> QED BY <1>1, <2>2, <2>4 DEF Parts, DestructorOK
<1>9. RequestOK'
  BY <1>1 DEF Parts, RequestOK
<1> QED
  BY <1>4, <1>5, <1>6, <1>7, <1>8, <1>9 DEF Parts

\* The steps that make the ClientInfo of a client, and add it or delete it again.
AddingStep ==
  \/ Windows!HandleReadDoneState \/ Windows!RegisterWaits \/ Windows!AddClient
  \/ Windows!AddClientFails \/ Windows!DropClient

LEMMA HandlerSteps == Windows!Handler <=> PipeStep \/ AddingStep
  BY Zenon DEF Windows!Handler, PipeStep, AddingStep

\* What they leave alone.
LEMMA AddingStepDoes ==
  ASSUME Parts, AddingStep
  PROVE  UNCHANGED <<client, left, answer, listening, peer, pipeWait, requested, generated,
                     dumping, exiting, finished, early, late, shutting_down, dtor, victim, up>>
  BY DEF AddingStep, Windows!HandleReadDoneState, Windows!Called, Windows!RegisterWaits,
     Windows!AddClient, Windows!AddClientFails, Windows!DropClient, Windows!Adds,
     Windows!asking, Windows!history, Windows!ending

LEMMA ReadDoneInv ==
  ASSUME Parts, Windows!HandleReadDoneState
  PROVE  Parts'
<1>1. UNCHANGED <<client, left, answer, listening, peer, pipeWait, requested, generated,
                  dumping, exiting, finished, early, late, shutting_down, dtor, victim, up>>
  BY AddingStepDoes DEF AddingStep
<1>2. /\ handler = "idle" /\ pipeWait /\ handler' = "waits"
      /\ inbox = "register" /\ inbox' = "none"
      /\ peer \in Clients /\ peer # None /\ client[peer] \in Windows!InPipe
      /\ client_info' = peer
      /\ valid' = valid \cup {peer}
      /\ UNCHANGED <<state, event, listed, dumpWait, exitWait>>
  BY DEF Parts, PipeTypes, Windows!HandleReadDoneState, Windows!Called, Windows!PeerOpen
<1>3. Fresh(peer) /\ client[peer] \notin {"new", "connected"}
  BY <1>2 DEF Parts, HandlerOK, AskOK
<1>4. outbox' \in BOOLEAN
  BY Zenon DEF Windows!HandleReadDoneState
<1>5. ClientTypes' /\ PipeTypes' /\ InfoTypes' /\ EndTypes'
  <2>1. ClientTypes' /\ InfoTypes' /\ EndTypes'
    BY <1>1, <1>2 DEF Parts, ClientTypes, InfoTypes, EndTypes
  <2>2. listening' \in BOOLEAN /\ pipeWait' \in BOOLEAN
    BY <1>1, Zenon DEF Parts, PipeTypes
  <2>3. PipeTypes'
    BY <1>1, <1>2, <1>4, <2>2 DEF Parts, PipeTypes
  <2> QED BY <2>1, <2>3
<1>6. ASSUME NEW d \in Clients PROVE ClientOK(d)'
  BY <1>1, <1>2, <1>3 DEF Parts, ClientOK, Fresh
<1>7. HandlerOK'
  BY <1>1, <1>2, <1>3 DEF HandlerOK, AskOK, BusyOK, Fresh, Windows!InPipe
<1>8. DestructorOK' /\ RequestOK'
  BY <1>1, <1>2 DEF Parts, DestructorOK, RequestOK
<1> QED
  BY <1>5, <1>6, <1>7, <1>8 DEF Parts

LEMMA AddingInv ==
  ASSUME Parts,
         \/ Windows!RegisterWaits \/ Windows!AddClient \/ Windows!AddClientFails
         \/ Windows!DropClient
  PROVE  Parts'
<1> USE DEF Windows!Adds, Windows!Enter, Windows!Immediately
<1>1. UNCHANGED <<client, left, answer, listening, peer, pipeWait, requested, generated,
                  dumping, exiting, finished, early, late, shutting_down, dtor, victim, up>>
  BY AddingStepDoes DEF AddingStep
<1>2. /\ client_info \in Clients /\ Busy
      /\ UNCHANGED <<inbox, outbox>> /\ up
  BY DEF Parts, PipeTypes, Windows!RegisterWaits, Windows!AddClient, Windows!AddClientFails,
     Windows!DropClient
<1>3. ClientTypes' /\ EndTypes' /\ RequestOK'
  BY <1>1 DEF Parts, ClientTypes, EndTypes, RequestOK
<1>4. SUFFICES PipeTypes' /\ InfoTypes' /\ (\A d \in Clients : ClientOK(d)')
               /\ HandlerOK' /\ DestructorOK'
  BY <1>3 DEF Parts
<1>5. CASE Windows!RegisterWaits /\ handler = "waits"
  <2> USE <1>5 DEF Windows!RegisterWaits
  <2>1. PipeTypes' /\ InfoTypes'
    BY <1>1, <1>2 DEF Parts, PipeTypes, InfoTypes, Windows!States
  <2>2. ASSUME NEW d \in Clients PROVE ClientOK(d)'
    BY <1>1, <1>2 DEF Parts, ClientOK, HandlerOK, BusyOK, Fresh
  <2>3. AskOK'
    BY <1>1, <1>2 DEF Parts, HandlerOK, AskOK, Fresh
  <2>4. BusyOK'
    BY <1>1, <1>2 DEF Parts, ClientOK, HandlerOK, BusyOK
  <2>5. DestructorOK'
    BY <1>1, <1>2 DEF Parts, HandlerOK, BusyOK, DestructorOK
  <2> QED BY <2>1, <2>2, <2>3, <2>4, <2>5 DEF HandlerOK
<1>6. CASE Windows!RegisterWaits /\ handler = "exit"
  <2> USE <1>6 DEF Windows!RegisterWaits
  <2>1. PipeTypes' /\ InfoTypes'
    BY <1>1, <1>2 DEF Parts, PipeTypes, InfoTypes, Windows!States
  <2>2. ASSUME NEW d \in Clients PROVE ClientOK(d)'
    BY <1>1, <1>2 DEF Parts, ClientOK, HandlerOK, BusyOK, Fresh
  <2>3. AskOK'
    BY <1>1, <1>2 DEF Parts, HandlerOK, AskOK, Fresh
  <2>4. BusyOK'
    BY <1>1, <1>2 DEF Parts, ClientOK, HandlerOK, BusyOK
  <2>5. DestructorOK'
    BY <1>1, <1>2 DEF Parts, HandlerOK, BusyOK, DestructorOK
  <2> QED BY <2>1, <2>2, <2>3, <2>4, <2>5 DEF HandlerOK
<1>7. CASE Windows!AddClient
  <2> USE <1>7 DEF Windows!AddClient, Windows!Admits
  <2>1. PipeTypes' /\ InfoTypes'
    BY <1>1, <1>2 DEF Parts, PipeTypes, InfoTypes, Windows!States
  <2>2. ASSUME NEW d \in Clients PROVE ClientOK(d)'
    BY <1>1, <1>2 DEF Parts, ClientOK, HandlerOK, BusyOK, Fresh
  <2>3. AskOK'
    BY <1>1, <1>2 DEF Parts, HandlerOK, AskOK, Fresh
  <2>4. BusyOK'
    BY <1>1, <1>2 DEF Parts, ClientOK, HandlerOK, BusyOK
  <2>5. DestructorOK'
    BY <1>1, <1>2 DEF Parts, HandlerOK, BusyOK, DestructorOK
  <2> QED BY <2>1, <2>2, <2>3, <2>4, <2>5 DEF HandlerOK
<1>8. CASE Windows!AddClientFails
  <2> USE <1>8 DEF Windows!AddClientFails, Windows!Admits
  <2>1. PipeTypes' /\ InfoTypes'
    BY <1>1, <1>2 DEF Parts, PipeTypes, InfoTypes, Windows!States
  <2>2. ASSUME NEW d \in Clients PROVE ClientOK(d)'
    BY <1>1, <1>2 DEF Parts, ClientOK, HandlerOK, BusyOK, Fresh
  <2>3. AskOK'
    BY <1>1, <1>2 DEF Parts, HandlerOK, AskOK, Fresh
  <2>4. BusyOK'
    BY <1>1, <1>2 DEF Parts, ClientOK, HandlerOK, BusyOK
  <2>5. DestructorOK'
    BY <1>1, <1>2 DEF Parts, HandlerOK, BusyOK, DestructorOK
  <2> QED BY <2>1, <2>2, <2>3, <2>4, <2>5 DEF HandlerOK
<1>9. CASE Windows!DropClient /\ handler = "drop"
  <2> USE <1>9 DEF Windows!DropClient, Windows!NoDumpPending
  <2>1. PipeTypes' /\ InfoTypes'
    BY <1>1, <1>2 DEF Parts, PipeTypes, InfoTypes, Windows!States
  <2>2. ASSUME NEW d \in Clients PROVE ClientOK(d)'
    BY <1>1, <1>2 DEF Parts, ClientOK, HandlerOK, BusyOK, Fresh
  <2>3. AskOK'
    BY <1>1, <1>2 DEF Parts, HandlerOK, AskOK, Fresh
  <2>4. BusyOK'
    BY <1>1, <1>2 DEF Parts, ClientOK, HandlerOK, BusyOK
  <2>5. DestructorOK'
    BY <1>1, <1>2 DEF Parts, HandlerOK, BusyOK, DestructorOK
  <2> QED BY <2>1, <2>2, <2>3, <2>4, <2>5 DEF HandlerOK
<1>10. CASE Windows!DropClient /\ handler = "delete"
  <2> USE <1>10 DEF Windows!DropClient, Windows!ExitCallbackIsDone
  <2>1. PipeTypes' /\ InfoTypes'
    BY <1>1, <1>2 DEF Parts, PipeTypes, InfoTypes, Windows!States
  <2>2. ASSUME NEW d \in Clients PROVE ClientOK(d)'
    BY <1>1, <1>2 DEF Parts, ClientOK, HandlerOK, BusyOK, Fresh
  <2>3. AskOK'
    BY <1>1, <1>2 DEF Parts, HandlerOK, AskOK, Fresh
  <2>4. BusyOK'
    BY <1>1, <1>2 DEF Parts, ClientOK, HandlerOK, BusyOK
  <2>5. DestructorOK'
    BY <1>1, <1>2 DEF Parts, HandlerOK, BusyOK, DestructorOK
  <2> QED BY <2>1, <2>2, <2>3, <2>4, <2>5 DEF HandlerOK
<1> QED
  BY <1>5, <1>6, <1>7, <1>8, <1>9, <1>10 DEF Windows!RegisterWaits, Windows!DropClient

LEMMA CallbackInv ==
  ASSUME Parts, NEW c \in Clients, Windows!Callback(c)
  PROVE  Parts'
<1>1. /\ UNCHANGED <<client, left, answer, state, event, listening, peer, inbox, outbox,
                     client_info, handler, pipeWait, early, late, shutting_down, dtor,
                     victim, up>>
      /\ up
  BY DEF Windows!asking, Windows!machine, Windows!history, Windows!ending, Windows!Callback,
     Windows!DumpCallback, Windows!ExitCallback, Windows!StartDump, Windows!HandleDumpRequest,
     Windows!FinishDump, Windows!ClientEnds, Windows!HandleClientProcessExit,
     Windows!DeleteClientInfo
<1>2. ClientTypes' /\ PipeTypes' /\ EndTypes'
  BY <1>1 DEF Parts, ClientTypes, PipeTypes, EndTypes
<1>3. /\ dumping \in [Clients -> {"idle", "dumping", "reset"}]
      /\ exiting \in [Clients -> {"idle", "wait", "delete", "done"}]
      /\ Busy => client_info \in Clients
  BY DEF Parts, InfoTypes, PipeTypes
<1>4. SUFFICES /\ InfoTypes' /\ (\A d \in Clients : ClientOK(d)')
               /\ AskOK' /\ BusyOK' /\ DestructorOK' /\ RequestOK'
  BY <1>2 DEF Parts, HandlerOK
<1>5. \A d \in Clients : ClientOK(d)
  BY DEF Parts
<1>6. ASSUME NEW d \in Clients, d # c PROVE ClientOK(d)'
  <2>1. /\ dumping'[d] = dumping[d] /\ exiting'[d] = exiting[d]
        /\ d \in listed' <=> d \in listed
        /\ d \in valid' <=> d \in valid
        /\ d \in dumpWait' <=> d \in dumpWait
        /\ d \in exitWait' <=> d \in exitWait
    BY <1>3, <1>6 DEF Windows!Callback, Windows!DumpCallback, Windows!ExitCallback,
       Windows!StartDump, Windows!HandleDumpRequest, Windows!FinishDump, Windows!ClientEnds,
       Windows!HandleClientProcessExit, Windows!ListWithout, Windows!DeleteClientInfo
  <2> QED BY <1>1, <1>5, <2>1 DEF ClientOK, Fresh
<1>7. CASE Windows!StartDump(c)
  <2> USE <1>7 DEF Windows!StartDump
  <2>1. InfoTypes'
    BY <1>1, <1>3 DEF Parts, InfoTypes
  <2>2. ClientOK(c)'
    BY <1>1, <1>3, <1>5 DEF ClientOK, Fresh
  <2>3. AskOK'
    BY <1>1, <1>3, <1>5 DEF Parts, HandlerOK, AskOK, ClientOK, Fresh
  <2>4. BusyOK'
    BY <1>1, <1>3, <1>5 DEF Parts, HandlerOK, BusyOK, ClientOK
  <2>5. DestructorOK'
    BY <1>1, <1>3, <1>5 DEF Parts, DestructorOK, ClientOK
  <2>6. RequestOK'
    BY <1>1, <1>3 DEF Parts, InfoTypes, RequestOK
  <2> QED BY <1>6, <2>1, <2>2, <2>3, <2>4, <2>5, <2>6
<1>8. CASE Windows!HandleDumpRequest(c)
  <2> USE <1>8 DEF Windows!HandleDumpRequest
  <2>1. InfoTypes'
    BY <1>1, <1>3 DEF Parts, InfoTypes
  <2>2. ClientOK(c)'
    BY <1>1, <1>3, <1>5 DEF ClientOK, Fresh
  <2>3. AskOK'
    BY <1>1, <1>3, <1>5 DEF Parts, HandlerOK, AskOK, ClientOK, Fresh
  <2>4. BusyOK'
    BY <1>1, <1>3, <1>5 DEF Parts, HandlerOK, BusyOK, ClientOK
  <2>5. DestructorOK'
    BY <1>1, <1>3, <1>5 DEF Parts, DestructorOK, ClientOK
  <2>6. RequestOK'
    BY <1>1, <1>3 DEF Parts, InfoTypes, RequestOK
  <2> QED BY <1>6, <2>1, <2>2, <2>3, <2>4, <2>5, <2>6
<1>9. CASE Windows!FinishDump(c)
  <2> USE <1>9 DEF Windows!FinishDump
  <2>1. InfoTypes'
    BY <1>1, <1>3 DEF Parts, InfoTypes
  <2>2. ClientOK(c)'
    BY <1>1, <1>3, <1>5 DEF ClientOK, Fresh
  <2>3. AskOK'
    BY <1>1, <1>3, <1>5 DEF Parts, HandlerOK, AskOK, ClientOK, Fresh
  <2>4. BusyOK'
    BY <1>1, <1>3, <1>5 DEF Parts, HandlerOK, BusyOK, ClientOK
  <2>5. DestructorOK'
    BY <1>1, <1>3, <1>5 DEF Parts, DestructorOK, ClientOK
  <2>6. RequestOK'
    BY <1>1, <1>3 DEF Parts, InfoTypes, RequestOK
  <2> QED BY <1>6, <2>1, <2>2, <2>3, <2>4, <2>5, <2>6
<1>10. CASE Windows!ClientEnds(c)
  <2> USE <1>10 DEF Windows!ClientEnds
  <2>1. InfoTypes'
    BY <1>1, <1>3 DEF Parts, InfoTypes
  <2>2. ClientOK(c)'
    BY <1>1, <1>3, <1>5 DEF ClientOK, Fresh
  <2>3. AskOK'
    BY <1>1, <1>3, <1>5 DEF Parts, HandlerOK, AskOK, ClientOK, Fresh
  <2>4. BusyOK'
    BY <1>1, <1>3, <1>5 DEF Parts, HandlerOK, BusyOK, ClientOK
  <2>5. DestructorOK'
    BY <1>1, <1>3, <1>5 DEF Parts, DestructorOK, ClientOK
  <2>6. RequestOK'
    BY <1>1, <1>3 DEF Parts, InfoTypes, RequestOK
  <2> QED BY <1>6, <2>1, <2>2, <2>3, <2>4, <2>5, <2>6
<1>11. CASE Windows!HandleClientProcessExit(c)
  <2> USE <1>11 DEF Windows!HandleClientProcessExit, Windows!NoDumpPending, Windows!ListWithout,
           Windows!Admits
  <2>1. InfoTypes'
    BY <1>1, <1>3 DEF Parts, InfoTypes
  <2>2. ClientOK(c)'
    BY <1>1, <1>3, <1>5 DEF ClientOK, Fresh
  <2>3. AskOK'
    BY <1>1, <1>3, <1>5 DEF Parts, HandlerOK, AskOK, ClientOK, Fresh
  <2>4. BusyOK'
    BY <1>1, <1>3, <1>5 DEF Parts, HandlerOK, BusyOK, ClientOK
  <2>5. DestructorOK'
    BY <1>1, <1>3, <1>5 DEF Parts, DestructorOK, ClientOK
  <2>6. RequestOK'
    BY <1>1, <1>3 DEF Parts, InfoTypes, RequestOK
  <2> QED BY <1>6, <2>1, <2>2, <2>3, <2>4, <2>5, <2>6
<1>12. CASE Windows!DeleteClientInfo(c)
  <2> USE <1>12 DEF Windows!DeleteClientInfo
  <2>1. InfoTypes'
    BY <1>1, <1>3 DEF Parts, InfoTypes
  <2>2. ClientOK(c)'
    BY <1>1, <1>3, <1>5 DEF ClientOK, Fresh
  <2>3. AskOK'
    BY <1>1, <1>3, <1>5 DEF Parts, HandlerOK, AskOK, ClientOK, Fresh
  <2>4. BusyOK'
    BY <1>1, <1>3, <1>5 DEF Parts, HandlerOK, BusyOK, ClientOK
  <2>5. DestructorOK'
    BY <1>1, <1>3, <1>5 DEF Parts, DestructorOK, ClientOK
  <2>6. RequestOK'
    BY <1>1, <1>3 DEF Parts, InfoTypes, RequestOK
  <2> QED BY <1>6, <2>1, <2>2, <2>3, <2>4, <2>5, <2>6
<1> QED
  BY <1>7, <1>8, <1>9, <1>10, <1>11, <1>12 DEF Windows!Callback, Windows!DumpCallback,
     Windows!ExitCallback

\* The steps of the destructor up to the clients, and its last one.
LEMMA PipeDestructorInv ==
  ASSUME Parts,
         \/ Windows!ShutDown \/ Windows!DisconnectPipe \/ Windows!AwaitError
         \/ Windows!UnregisterPipeWait \/ Windows!ClosePipe \/ Windows!ReleaseAlive
  PROVE  Parts'
<1> USE DEF Windows!asking, Windows!infos, Windows!history, Windows!machine, Windows!Step
<1>1. /\ UNCHANGED <<client, left, answer, listed, valid, dumpWait, exitWait, requested,
                     generated, dumping, exiting, finished, early, late, state, event,
                     client_info, handler, victim>>
      /\ up /\ dtor' \in {"disconnect", "await", "callback", "pipe", "clients", "done"}
      /\ dtor' = "done" => ~up' /\ listed = {}
      /\ dtor' # "done" => up' = up
      /\ inbox' = "none" \/ (inbox' = inbox /\ peer' = peer)
      /\ peer' \in {peer, None} /\ inbox' \in {inbox, "none"}
  BY DEF Windows!ShutDown, Windows!DisconnectPipe, Windows!AwaitError,
     Windows!UnregisterPipeWait, Windows!ClosePipe, Windows!ReleaseAlive
<1>2. /\ listening' \in BOOLEAN /\ outbox' \in BOOLEAN /\ pipeWait' \in BOOLEAN
      /\ shutting_down' \in BOOLEAN /\ up' \in BOOLEAN
  <2>1. /\ listening \in BOOLEAN /\ outbox \in BOOLEAN /\ pipeWait \in BOOLEAN
        /\ shutting_down \in BOOLEAN /\ up \in BOOLEAN
    BY DEF Parts, PipeTypes, EndTypes
  <2>2. CASE Windows!ShutDown
    BY <2>1, <2>2, Zenon DEF Windows!ShutDown
  <2>3. CASE Windows!DisconnectPipe
    BY <2>1, <2>3, Zenon DEF Windows!DisconnectPipe
  <2>4. CASE Windows!AwaitError
    BY <2>1, <2>4, Zenon DEF Windows!AwaitError
  <2>5. CASE Windows!UnregisterPipeWait
    BY <2>1, <2>5, Zenon DEF Windows!UnregisterPipeWait
  <2>6. CASE Windows!ClosePipe
    BY <2>1, <2>6, Zenon DEF Windows!ClosePipe
  <2>7. CASE Windows!ReleaseAlive
    BY <2>1, <2>7, Zenon DEF Windows!ReleaseAlive
  <2> QED BY <2>2, <2>3, <2>4, <2>5, <2>6, <2>7
<1>3. ClientTypes' /\ InfoTypes'
  BY <1>1 DEF Parts, ClientTypes, InfoTypes
<1>4. PipeTypes' /\ EndTypes'
  BY <1>1, <1>2 DEF Parts, PipeTypes, EndTypes
<1>5. ASSUME NEW d \in Clients PROVE ClientOK(d)'
  BY <1>1 DEF Parts, ClientOK, Fresh
<1>6. HandlerOK'
  <2>1. AskOK'
    BY <1>1 DEF Parts, HandlerOK, AskOK, Fresh
  <2>2. shutting_down => shutting_down'
    BY DEF Windows!ShutDown, Windows!DisconnectPipe, Windows!AwaitError,
       Windows!UnregisterPipeWait, Windows!ClosePipe, Windows!ReleaseAlive
  <2>3. BusyOK'
    BY <1>1, <2>2 DEF Parts, HandlerOK, BusyOK
  <2> QED BY <2>1, <2>3 DEF HandlerOK
<1>7. DestructorOK'
  <2>1. CASE Windows!ShutDown
    BY <1>1, <2>1 DEF Windows!ShutDown, Parts, DestructorOK
  <2>2. CASE Windows!DisconnectPipe
    BY <1>1, <2>2 DEF Windows!DisconnectPipe, Parts, DestructorOK
  <2>3. CASE Windows!AwaitError
    BY <1>1, <2>3 DEF Windows!AwaitError, Parts, DestructorOK
  <2>4. CASE Windows!UnregisterPipeWait
    BY <1>1, <2>4 DEF Windows!UnregisterPipeWait, Windows!CallbackIsDone, Parts, DestructorOK
  <2>5. CASE Windows!ClosePipe
    BY <1>1, <2>5 DEF Windows!ClosePipe, Parts, DestructorOK
  <2>6. CASE Windows!ReleaseAlive
    BY <1>1, <2>6 DEF Windows!ReleaseAlive, Parts, DestructorOK
  <2> QED BY <2>1, <2>2, <2>3, <2>4, <2>5, <2>6
<1>8. RequestOK'
  BY <1>1 DEF Parts, RequestOK
<1> QED
  BY <1>3, <1>4, <1>5, <1>6, <1>7, <1>8 DEF Parts

\* The steps that delete the clients one by one.
LEMMA ClientDestructorInv ==
  ASSUME Parts,
         Windows!UnregisterExitWait \/ Windows!UnregisterDumpWait \/ Windows!DeleteVictim
  PROVE  Parts'
<1> USE DEF Windows!asking, Windows!machine, Windows!history, Windows!Step
<1>1. /\ UNCHANGED <<client, left, answer, state, event, listening, peer, inbox, outbox,
                     client_info, handler, pipeWait, requested, generated, dumping, exiting,
                     finished, early, late, shutting_down, up>>
      /\ up
  BY DEF Windows!UnregisterExitWait, Windows!UnregisterDumpWait, Windows!DeleteVictim
<1>2. ClientTypes' /\ PipeTypes' /\ RequestOK'
  BY <1>1 DEF Parts, ClientTypes, PipeTypes, RequestOK
<1>3. SUFFICES /\ InfoTypes' /\ EndTypes' /\ (\A d \in Clients : ClientOK(d)')
               /\ AskOK' /\ BusyOK' /\ DestructorOK'
  BY <1>2 DEF Parts, HandlerOK
\* The callback of the pipe is not at any client any more.
<1>4. ~Busy
  BY DEF Parts, DestructorOK, Windows!UnregisterExitWait, Windows!UnregisterDumpWait,
     Windows!DeleteVictim
<1>5. CASE Windows!UnregisterExitWait
  <2> USE <1>5 DEF Windows!UnregisterExitWait
  <2>1. InfoTypes' /\ EndTypes'
    BY <1>1 DEF Parts, InfoTypes, EndTypes
  <2>2. ASSUME NEW d \in Clients PROVE ClientOK(d)'
    BY <1>1, <1>4 DEF Parts, ClientOK, DestructorOK, Fresh
  <2>3. AskOK'
    BY <1>1, <1>4 DEF Parts, HandlerOK, AskOK, Fresh
  <2>4. BusyOK'
    BY <1>1, <1>4 DEF BusyOK
  <2>5. DestructorOK'
    BY <1>1 DEF Parts, DestructorOK
  <2> QED BY <2>1, <2>2, <2>3, <2>4, <2>5
<1>6. CASE Windows!UnregisterDumpWait
  <2> USE <1>6 DEF Windows!UnregisterDumpWait, Windows!ExitCallbackIsDone
  <2>1. InfoTypes' /\ EndTypes'
    BY <1>1 DEF Parts, InfoTypes, EndTypes
  <2>2. ASSUME NEW d \in Clients PROVE ClientOK(d)'
    BY <1>1, <1>4 DEF Parts, ClientOK, DestructorOK, Fresh
  <2>3. AskOK'
    BY <1>1, <1>4 DEF Parts, HandlerOK, AskOK, Fresh
  <2>4. BusyOK'
    BY <1>1, <1>4 DEF BusyOK
  <2>5. DestructorOK'
    BY <1>1 DEF Parts, DestructorOK
  <2> QED BY <2>1, <2>2, <2>3, <2>4, <2>5
<1>7. CASE Windows!DeleteVictim
  <2> USE <1>7 DEF Windows!DeleteVictim, Windows!NoDumpPending
  <2>1. InfoTypes' /\ EndTypes'
    BY <1>1 DEF Parts, InfoTypes, EndTypes
  <2>2. ASSUME NEW d \in Clients PROVE ClientOK(d)'
    BY <1>1, <1>4 DEF Parts, ClientOK, DestructorOK, Fresh
  <2>3. AskOK'
    BY <1>1, <1>4 DEF Parts, HandlerOK, AskOK, Fresh
  <2>4. BusyOK'
    BY <1>1, <1>4 DEF BusyOK
  <2>5. DestructorOK'
    BY <1>1 DEF Parts, DestructorOK
  <2> QED BY <2>1, <2>2, <2>3, <2>4, <2>5
<1> QED
  BY <1>5, <1>6, <1>7

LEMMA KillInv ==
  ASSUME Parts, Windows!Kill
  PROVE  Parts'
<1> USE DEF Windows!Kill, Windows!Enter, Windows!asking, Windows!history
<1>1. ClientTypes'
  BY DEF Parts, ClientTypes
<1>2. PipeTypes'
  <2>1. listening' \in BOOLEAN /\ outbox' \in BOOLEAN /\ pipeWait' \in BOOLEAN
    BY Zenon
  <2> QED BY <2>1 DEF PipeTypes, Windows!States
<1>3. InfoTypes'
  BY DEF Parts, InfoTypes
<1>4. EndTypes'
  <2>1. shutting_down' \in BOOLEAN /\ up' \in BOOLEAN
    BY Zenon
  <2> QED BY <2>1 DEF EndTypes
<1>5. ASSUME NEW d \in Clients PROVE ClientOK(d)'
  BY DEF Parts, ClientOK, Fresh
<1>6. HandlerOK' /\ DestructorOK'
  BY DEF HandlerOK, AskOK, BusyOK, DestructorOK
<1>7. RequestOK'
  BY DEF Parts, RequestOK
<1> QED
  BY <1>1, <1>2, <1>3, <1>4, <1>5, <1>6, <1>7 DEF Parts

LEMMA WindowsStep ==
  ASSUME WindowsInv,
         Windows!Next \/ UNCHANGED <<client, left, answer, finished, windowsVars>>
  PROVE  WindowsInv'
<1>0. Parts /\ (WindowsInv <=> Parts)'
  BY WindowsParts, PTL
<1>1. CASE UNCHANGED <<client, left, answer, finished, windowsVars>>
  <2>1. UNCHANGED <<client, left, answer, state, event, listening, peer, inbox, outbox,
                    client_info, handler, pipeWait, listed, valid, dumpWait, exitWait,
                    requested, generated, dumping, exiting, finished, early, late,
                    shutting_down, dtor, victim, up>>
    BY <1>1 DEF windowsVars
  <2>2. (ClientTypes /\ PipeTypes /\ InfoTypes /\ EndTypes)'
    BY <1>0, <2>1 DEF Parts, ClientTypes, PipeTypes, InfoTypes, EndTypes
  <2>3. HandlerOK' /\ DestructorOK' /\ RequestOK'
    BY <1>0, <2>1 DEF Parts, HandlerOK, AskOK, BusyOK, DestructorOK, RequestOK, Fresh
  <2>4. ASSUME NEW d \in Clients PROVE ClientOK(d)'
    BY <1>0, <2>1 DEF Parts, ClientOK, Fresh
  <2> QED BY <1>0, <2>2, <2>3, <2>4 DEF Parts
<1>2. CASE Windows!Over
  BY <1>1, <1>2 DEF Windows!Over, Windows!vars, Windows!asking, Windows!machine, Windows!infos,
     Windows!history, Windows!ending, windowsVars
<1>3. CASE \E c \in Clients :
             \/ Windows!RegisterStep(c) \/ Windows!RequestDump(c) \/ Windows!RequestStep(c)
             \/ Windows!Timeout(c) \/ Windows!Die(c) \/ Windows!Callback(c)
  BY <1>0, <1>3, RegisterStepInv, RequestStepsInv, CallbackInv
<1>4. CASE Windows!Handler
  BY <1>0, <1>4, HandlerSteps, PipeStepInv, ReadDoneInv, AddingInv DEF AddingStep
<1>5. CASE Windows!ShutDown \/ Windows!Destructor \/ Windows!Kill
  BY <1>0, <1>5, PipeDestructorInv, ClientDestructorInv, KillInv DEF Windows!Destructor
<1> QED
  BY <1>1, <1>2, <1>3, <1>4, <1>5 DEF Windows!Next

(***************************************************************************)
(* Both servers.                                                           *)
(***************************************************************************)

LEMMA InitInv == Init => Inv
<1>1. Linux!InitServer => open /\ current = {}
  BY Zenon DEF Linux!InitServer
<1>2. Windows!InitServer => NoWindows
  BY DEF Windows!InitServer, NoWindows
<1> QED
  BY <1>1, <1>2, LinuxInit, WindowsInit DEF Init, Inv, Linux!Init, Windows!Init

\* A step is of one platform.
LEMMA StepInv == Inv /\ [Next]_vars => Inv'
<1> SUFFICES ASSUME Inv, [Next]_vars PROVE Inv'
  OBVIOUS
<1>1. platform' = platform
  BY DEF Next, OnLinux, OnWindows, vars
<1>2. CASE platform = "linux"
  <2>1. Linux!Next \/ UNCHANGED <<client, left, answer, finished, linuxVars>>
    BY <1>2 DEF Next, OnLinux, OnWindows, vars
  <2>2. UNCHANGED <<up, dtor, handler, listed, valid, dumpWait, exitWait, late, dumping,
                    exiting>>
    BY <1>2 DEF Next, OnLinux, OnWindows, vars, windowsVars
  <2>3. NoWindows'
    BY <1>2, <2>2 DEF Inv, NoWindows
  <2> QED BY <1>1, <1>2, <2>1, <2>3, LinuxStep DEF Inv
<1>3. CASE platform = "windows"
  <2>1. Windows!Next \/ UNCHANGED <<client, left, answer, finished, windowsVars>>
    BY <1>3 DEF Next, OnLinux, OnWindows, vars
  <2>2. UNCHANGED <<open, current>>
    BY <1>3 DEF Next, OnLinux, OnWindows, vars, linuxVars
  <2> QED BY <1>1, <1>3, <2>1, <2>2, WindowsStep DEF Inv
<1> QED
  BY <1>2, <1>3 DEF Inv

\* Every variable of the platform has its type: what clients ask for and the server
\* does, callbacks of the pipe and the thread pool included.
THEOREM TypeOKHolds == Spec => []TypeOK
<1>1. Inv => TypeOK
  BY DEF Inv, LinuxInv, WindowsInv, TypeOK
<1> QED
  BY InitInv, StepInv, <1>1, PTL DEF Spec

\* While the Linux server has a client at hand (ClientEvent), that client waits in
\* RequestDump or is dead.
THEOREM WaitsWhileDumpedHolds == Spec => []WaitsWhileDumped
<1>1. Inv => WaitsWhileDumped
  <2> SUFFICES ASSUME Inv, NEW c \in current PROVE client[c] \in {"waiting", "dead"}
    BY DEF WaitsWhileDumped, Linux!WaitsWhileDumped
  <2>1. platform = "linux"
    BY DEF Inv
  <2>2. c \in Clients
    BY <2>1 DEF Inv, LinuxInv, ServerOK
  <2> QED BY <2>1, <2>2 DEF Inv, LinuxInv, AskedOK
<1> QED
  BY InitInv, StepInv, <1>1, PTL DEF Spec

\* When the destructor of the Windows server is done, no wait is registered, no dump
\* is under way, and each ClientInfo is deleted or left to the OnClientEnd that has
\* taken it off the list; of the callbacks of the pipe only HandleErrorState can run.
THEOREM NothingIsLeftHolds == Spec => []NothingIsLeft
<1>1. Inv => NothingIsLeft
  <2> SUFFICES ASSUME Inv, dtor = "done" PROVE Windows!NothingIsLeft
    BY DEF NothingIsLeft, Windows!NothingIsLeft
  <2>1. Parts
    BY WindowsParts DEF Inv, NoWindows
  <2>2. handler \in {"idle", "close"} /\ listed = {}
    BY <2>1 DEF Parts, DestructorOK
  <2>3. ASSUME NEW c \in Clients
        PROVE  c \notin dumpWait /\ (c \in valid \cup exitWait => exiting[c] = "delete")
               /\ dumping[c] = "idle" /\ exiting[c] # "wait"
    BY <2>1, <2>2 DEF Parts, ClientOK
  <2>4. dumpWait \subseteq Clients
    BY <2>1 DEF Parts, InfoTypes
  <2> QED BY <2>2, <2>3, <2>4 DEF Windows!NothingIsLeft
<1> QED
  BY InitInv, StepInv, <1>1, PTL DEF Spec

\* No ClientInfo is deleted under a callback or with a wait, and none that is in the
\* list, or that AddClient has at hand, is deleted, but that of a client that ended
\* while it was added.
THEOREM NoUseAfterDeleteHolds == Spec => []NoUseAfterDelete
<1>1. Inv => NoUseAfterDelete
  <2> SUFFICES ASSUME Inv PROVE Windows!NoUseAfterDelete /\ Windows!ListedIsValid
    BY DEF NoUseAfterDelete
  <2>1. CASE platform = "linux"
    BY <2>1 DEF Inv, NoWindows, Windows!NoUseAfterDelete, Windows!ListedIsValid
  <2>2. CASE platform = "windows"
    <3>1. Parts
      BY <2>2, WindowsParts DEF Inv
    <3>2. ASSUME NEW c \in Clients \ valid
          PROVE  /\ dumping[c] = "idle" /\ exiting[c] \in {"idle", "done"}
                 /\ c \notin dumpWait \cup exitWait
      BY <3>1 DEF Parts, InfoTypes, ClientOK
    <3>3. Windows!ListedIsValid
      BY <3>1 DEF Parts, InfoTypes, ClientOK, HandlerOK, BusyOK, Windows!ListedIsValid
    <3> QED BY <3>2, <3>3 DEF Windows!NoUseAfterDelete
  <2> QED BY <2>1, <2>2 DEF Inv
<1> QED
  BY InitInv, StepInv, <1>1, PTL DEF Spec

(***************************************************************************)
(* The refinement of DumpRequests.                                         *)
(***************************************************************************)

Phase == IF platform = "linux" THEN Linux!Phase ELSE Windows!Phase
Serving == open /\ up

\* What a place in RequestDump is in DumpRequests.
LinuxPlace(place) == IF place = "sending" THEN "waiting" ELSE place
WindowsPlace(place) ==
  IF place \in {"asking", "waiting"} THEN "waiting"
  ELSE IF place = "dead" THEN "dead" ELSE "running"

\* Whoever stays at its place stays in its phase.
LEMMA PhaseStays ==
  ASSUME UNCHANGED <<platform, client>>
  PROVE  Phase' = Phase
  BY DEF Phase, Linux!Phase, Windows!Phase

LEMMA LinuxPhase ==
  ASSUME platform = "linux", platform' = "linux", NEW c \in Clients, NEW place,
         LinuxInv, client' = [client EXCEPT ![c] = place]
  PROVE  /\ Phase[c] = LinuxPlace(client[c])
         /\ Phase' = [Phase EXCEPT ![c] = LinuxPlace(place)]
         /\ LinuxPlace(place) = LinuxPlace(client[c]) => Phase' = Phase
  BY DEF Phase, Linux!Phase, LinuxPlace, LinuxInv, Linux!TypeOK

LEMMA WindowsPhase ==
  ASSUME platform = "windows", platform' = "windows", NEW c \in Clients, NEW place,
         ClientTypes, client' = [client EXCEPT ![c] = place]
  PROVE  /\ Phase[c] = WindowsPlace(client[c])
         /\ Phase' = [Phase EXCEPT ![c] = WindowsPlace(place)]
         /\ WindowsPlace(place) = WindowsPlace(client[c]) => Phase' = Phase
  BY DEF Phase, Windows!Phase, WindowsPlace, ClientTypes

\* The abstract steps, in the terms of the servers.
LEMMA SameRequests ==
  ASSUME Phase' = Phase, UNCHANGED <<answer, finished, late, Serving>>
  PROVE  UNCHANGED Requests!vars
  BY DEF Requests!vars, Phase, Serving

LEMMA Asks ==
  ASSUME NEW c \in Clients, Phase[c] = "running", Phase' = [Phase EXCEPT ![c] = "waiting"],
         answer' = [answer EXCEPT ![c] = "none"], finished' = finished \ {c},
         late' = late \ {c} \/ (answer[c] # "none" /\ late' = late \cup {c}),
         Serving' = Serving
  PROVE  Requests!Next
  BY Zenon DEF Requests!Next, Requests!Ask, Phase, Serving

LEMMA Handles ==
  ASSUME NEW c \in Clients, Phase[c] \in {"waiting", "dead"} \/ answer[c] # "none",
         c \notin late, finished' = finished \cup {c}, Phase' = Phase,
         UNCHANGED <<answer, late, Serving>>
  PROVE  Requests!Next
  BY Zenon DEF Requests!Next, Requests!Handle, Phase, Serving

LEMMA IsAnswered ==
  ASSUME NEW c \in Clients, Phase[c] = "waiting", c \in finished \cup late \/ ~Serving,
         Phase' = [Phase EXCEPT ![c] = "running"],
         answer' = [answer EXCEPT ![c] = "true"], UNCHANGED <<finished, late, Serving>>
  PROVE  Requests!Next
  BY Zenon DEF Requests!Next, Requests!Return, Requests!Answer, Phase, Serving

LEMMA GivesUp ==
  ASSUME NEW c \in Clients, Phase[c] # "dead", Phase' = [Phase EXCEPT ![c] = "running"],
         answer' = [answer EXCEPT ![c] = "false"], UNCHANGED <<finished, late, Serving>>
  PROVE  Requests!Next
  BY Zenon DEF Requests!Next, Requests!GiveUp, Requests!Answer, Phase, Serving

LEMMA Dies ==
  ASSUME NEW c \in Clients, Phase' = [Phase EXCEPT ![c] = "dead"],
         answer' = [answer EXCEPT ![c] = "none"], finished' = finished \ {c},
         late' = late \ {c}, Serving' = Serving
  PROVE  Requests!Next
  BY Zenon DEF Requests!Next, Requests!Die, Phase, Serving

LEMMA Closes ==
  ASSUME ~Serving', Phase' = Phase, UNCHANGED <<answer, finished, late>>
  PROVE  Requests!Next
  BY Zenon DEF Requests!Next, Requests!Close, Phase, Serving

LEMMA LinuxRefines ==
  ASSUME platform = "linux", platform' = "linux", LinuxInv, up' = up, late = {}, late' = {},
         Linux!Next
  PROVE  [Requests!Next]_Requests!vars
<1> USE DEF Linux!request, Linux!thread, Linux!control, Linux!Returns
<1>1. ASSUME open' = open PROVE Serving' = Serving
  BY <1>1 DEF Serving
<1>2. ASSUME Phase' = Phase, UNCHANGED <<answer, finished, Serving>>
      PROVE  UNCHANGED Requests!vars
  BY <1>2, SameRequests
<1>3. ASSUME NEW c \in Clients, Linux!ClientStep(c) \/ Linux!Die(c)
      PROVE  [Requests!Next]_Requests!vars
  <2>1. open' = open /\ Serving' = Serving
    BY <1>1, <1>3 DEF Linux!ClientStep, Linux!Waits, Linux!PipeFails, Linux!MakePipe,
       Linux!Send, Linux!SendFails, Linux!Acknowledged, Linux!Die
  <2>2. CASE Linux!PipeFails(c)
    <3>1. /\ client[c] = "running" /\ client' = client
          /\ answer' = [answer EXCEPT ![c] = "false"] /\ finished' = finished
      BY <2>2 DEF Linux!PipeFails
    <3>2. client' = [client EXCEPT ![c] = "running"]
      BY <3>1 DEF LinuxInv, Linux!TypeOK
    <3>3. Phase[c] = "running" /\ Phase' = [Phase EXCEPT ![c] = "running"]
      BY <3>1, <3>2, LinuxPhase DEF LinuxPlace
    <3> QED BY <2>1, <3>1, <3>3, GivesUp
  <2>3. CASE Linux!MakePipe(c)
    <3>1. /\ client[c] = "running" /\ client' = [client EXCEPT ![c] = "sending"]
          /\ answer' = [answer EXCEPT ![c] = "none"] /\ finished' = finished \ {c}
      BY <2>3 DEF Linux!MakePipe
    <3>2. Phase[c] = "running" /\ Phase' = [Phase EXCEPT ![c] = "waiting"]
      BY <3>1, LinuxPhase DEF LinuxPlace
    <3> QED BY <2>1, <3>1, <3>2, Asks
  <2>4. CASE Linux!Send(c)
    <3>1. /\ client[c] = "sending" /\ client' = [client EXCEPT ![c] = "waiting"]
          /\ answer' = answer /\ finished' = finished
      BY <2>4 DEF Linux!Send
    <3>2. Phase' = Phase
      BY <3>1, LinuxPhase DEF LinuxPlace
    <3> QED BY <1>2, <2>1, <3>1, <3>2
  <2>5. CASE Linux!SendFails(c)
    <3>1. /\ client[c] = "sending" /\ client' = [client EXCEPT ![c] = "running"]
          /\ answer' = [answer EXCEPT ![c] = "false"] /\ finished' = finished
      BY <2>5 DEF Linux!SendFails
    <3>2. Phase[c] = "waiting" /\ Phase' = [Phase EXCEPT ![c] = "running"]
      BY <3>1, LinuxPhase DEF LinuxPlace
    <3> QED BY <2>1, <3>1, <3>2, GivesUp
  <2>6. CASE Linux!Acknowledged(c)
    <3>1. /\ client[c] = "waiting" /\ client' = [client EXCEPT ![c] = "running"]
          /\ answer' = [answer EXCEPT ![c] = "true"] /\ finished' = finished
          /\ Linux!WriteEndClosed(c)
      BY <2>6 DEF Linux!Acknowledged
    <3>2. Phase[c] = "waiting" /\ Phase' = [Phase EXCEPT ![c] = "running"]
      BY <3>1, LinuxPhase DEF LinuxPlace
    <3>3. c \in finished \cup late \/ ~Serving
      BY <3>1 DEF LinuxInv, WaitingOK, Linux!WriteEndClosed, Serving
    <3> QED BY <2>1, <3>1, <3>2, <3>3, IsAnswered
  <2>7. CASE Linux!Die(c)
    <3>1. /\ client' = [client EXCEPT ![c] = "dead"]
          /\ answer' = [answer EXCEPT ![c] = "none"] /\ finished' = finished \ {c}
      BY <2>7 DEF Linux!Die
    <3>2. Phase' = [Phase EXCEPT ![c] = "dead"]
      BY <3>1, LinuxPhase DEF LinuxPlace
    <3> QED BY <2>1, <3>1, <3>2, Dies
  <2> QED
    BY <1>3, <2>2, <2>3, <2>4, <2>5, <2>6, <2>7 DEF Linux!ClientStep, Linux!Waits
<1>4. ASSUME UNCHANGED <<client, answer, finished, open>> PROVE UNCHANGED Requests!vars
  BY <1>1, <1>2, <1>4, PhaseStays
<1>5. CASE Linux!ServerStep
  <2>1. CASE Linux!Release
    <3>1. UNCHANGED <<client, answer, open>> /\ finished' = finished \cup current
          /\ server = "close"
      BY <2>1 DEF Linux!Release
    <3>2. PICK c \in Clients : current = {c}
      BY <3>1 DEF LinuxInv, ServerOK
    <3>3. client[c] \in {"waiting", "dead"} /\ client' = [client EXCEPT ![c] = client[c]]
      BY <3>1, <3>2 DEF LinuxInv, AskedOK, Linux!TypeOK
    <3>4. Phase[c] \in {"waiting", "dead"}
      BY <3>3, LinuxPhase DEF LinuxPlace
    <3> QED BY <1>1, <3>1, <3>2, <3>4, PhaseStays, Handles
  <2>2. CASE ~Linux!Release
    <3>1. UNCHANGED <<client, answer, finished, open>>
      BY <1>5, <2>2 DEF Linux!ServerStep, Linux!Poll, Linux!PollFails, Linux!Receive,
         Linux!FilenameFails, Linux!WriteMinidump, Linux!ControlEvent
    <3> QED BY <1>4, <3>1
  <2> QED BY <2>1, <2>2
<1>6. CASE Linux!OwnerStep
  <2>1. CASE Linux!CloseSocket
    <3>1. UNCHANGED <<client, answer, finished>> /\ open' = FALSE
      BY <2>1 DEF Linux!CloseSocket
    <3>2. ~Serving'
      BY <3>1, Zenon DEF Serving
    <3> QED BY <3>1, <3>2, PhaseStays, Closes
  <2>2. CASE ~Linux!CloseSocket
    <3>1. UNCHANGED <<client, answer, finished, open>>
      BY <1>6, <2>2 DEF Linux!OwnerStep, Linux!Start, Linux!Stop, Linux!Join
    <3> QED BY <1>4, <3>1
  <2> QED BY <2>1, <2>2
<1>7. CASE Linux!Over
  BY <1>4, <1>7 DEF Linux!Over, Linux!vars
<1> QED
  BY <1>3, <1>5, <1>6, <1>7 DEF Linux!Next

LEMMA WindowsRefines ==
  ASSUME platform = "windows", platform' = "windows", WindowsInv, open, open' = open,
         Windows!Next
  PROVE  [Requests!Next]_Requests!vars
<1> USE DEF Windows!asking, Windows!machine, Windows!infos, Windows!history, Windows!ending,
            Windows!Goto
<1>0. Parts /\ ClientTypes
  BY WindowsParts DEF Parts
<1>1. ASSUME up' = up PROVE Serving' = Serving
  BY <1>1 DEF Serving
<1>2. ASSUME Phase' = Phase, UNCHANGED <<answer, finished, late, Serving>>
      PROVE  UNCHANGED Requests!vars
  BY <1>2, SameRequests
<1>3. ASSUME UNCHANGED <<client, answer, finished, late, up>> PROVE UNCHANGED Requests!vars
  BY <1>1, <1>2, <1>3, PhaseStays
<1>4. ASSUME NEW c \in Clients, Windows!RegisterStep(c) PROVE UNCHANGED Requests!vars
  <2>1. /\ UNCHANGED <<answer, finished, late, up>> /\ client[c] \in {"new"} \cup Windows!InPipe
        /\ \E place \in {"connected", "asked", "unregistered", "replied", "registered"} :
             client' = [client EXCEPT ![c] = place]
    BY <1>0, <1>4, RegisterStepDoes
  <2>2. PICK place \in {"connected", "asked", "unregistered", "replied", "registered"} :
          client' = [client EXCEPT ![c] = place]
    BY <2>1
  <2>3. WindowsPlace(place) = WindowsPlace(client[c])
    BY <2>1, <2>2 DEF WindowsPlace, Windows!InPipe
  <2>4. Phase' = Phase
    BY <1>0, <2>2, <2>3, WindowsPhase
  <2> QED BY <1>1, <1>2, <2>1, <2>4
<1>5. ASSUME NEW c \in Clients, Windows!RequestDump(c) PROVE Requests!Next
  <2>1. /\ client[c] = "registered" /\ client' = [client EXCEPT ![c] = "asking"]
        /\ answer' = [answer EXCEPT ![c] = "none"] /\ finished' = finished \ {c}
        /\ late' = late \ {c} \/ (dumping[c] # "idle" /\ late' = late \cup {c})
        /\ up' = up
    BY <1>5 DEF Windows!RequestDump
  <2>2. Phase[c] = "running" /\ Phase' = [Phase EXCEPT ![c] = "waiting"]
    BY <1>0, <2>1, WindowsPhase DEF WindowsPlace
  <2>3. dumping[c] # "idle" => answer[c] # "none"
    BY <1>0, <2>1 DEF Parts, RequestOK
  <2> QED BY <1>1, <2>1, <2>2, <2>3, Asks
<1>6. ASSUME NEW c \in Clients, Windows!SetCrashEvent(c) PROVE UNCHANGED Requests!vars
  <2>1. /\ client[c] = "asking" /\ client' = [client EXCEPT ![c] = "waiting"]
        /\ UNCHANGED <<answer, finished, late, up>>
    BY <1>6 DEF Windows!SetCrashEvent
  <2>2. WindowsPlace("waiting") = WindowsPlace(client[c])
    BY <2>1 DEF WindowsPlace
  <2>3. Phase' = Phase
    BY <1>0, <2>1, <2>2, WindowsPhase
  <2> QED BY <1>1, <1>2, <2>1, <2>3
<1>7. ASSUME NEW c \in Clients, Windows!Woken(c) \/ Windows!Timeout(c) PROVE Requests!Next
  <2>1. /\ client[c] = "waiting" /\ client' = [client EXCEPT ![c] = "registered"]
        /\ UNCHANGED <<finished, late, up>>
        /\ \/ answer' = [answer EXCEPT ![c] = "true"] /\ c \in generated
           \/ answer' = [answer EXCEPT ![c] = "false"]
    BY <1>7 DEF Windows!Woken, Windows!Timeout
  <2>2. Phase[c] = "waiting" /\ Phase' = [Phase EXCEPT ![c] = "running"]
    BY <1>0, <2>1, WindowsPhase DEF WindowsPlace
  <2>3. c \in generated => c \in finished \cup late
    BY <1>0, <2>1 DEF Parts, RequestOK
  <2> QED BY <1>1, <2>1, <2>2, <2>3, IsAnswered, GivesUp
<1>8. ASSUME NEW c \in Clients, Windows!Die(c) PROVE Requests!Next
  <2>1. /\ client' = [client EXCEPT ![c] = "dead"] /\ up' = up
        /\ answer' = [answer EXCEPT ![c] = "none"]
        /\ finished' = finished \ {c} /\ late' = late \ {c}
    BY <1>8 DEF Windows!Die
  <2>2. Phase' = [Phase EXCEPT ![c] = "dead"]
    BY <1>0, <2>1, WindowsPhase DEF WindowsPlace
  <2> QED BY <1>1, <2>1, <2>2, Dies
<1>9. ASSUME NEW c \in Clients, Windows!Callback(c) PROVE [Requests!Next]_Requests!vars
  <2>1. CASE Windows!HandleDumpRequest(c)
    <3>1. /\ up /\ dumping[c] = "dumping" /\ finished' = finished \cup ({c} \ late)
          /\ UNCHANGED <<client, answer, late, up>>
      BY <2>1 DEF Windows!HandleDumpRequest
    <3>2. CASE c \in late
      <4>1. finished' = finished
        BY <3>1, <3>2
      <4> QED BY <1>3, <3>1, <4>1
    <3>3. CASE c \notin late
      <4>1. finished' = finished \cup {c}
        BY <3>1, <3>3
      <4>2. client[c] \in {"asking", "waiting", "dead"} \/ answer[c] # "none"
        BY <1>0, <3>1 DEF Parts, RequestOK
      <4>3. client' = [client EXCEPT ![c] = client[c]]
        BY <1>0, <3>1 DEF ClientTypes
      <4>4. Phase[c] \in {"waiting", "dead"} \/ answer[c] # "none"
        BY <1>0, <4>2, <4>3, WindowsPhase DEF WindowsPlace
      <4> QED BY <1>1, <3>1, <3>3, <4>1, <4>4, PhaseStays, Handles
    <3> QED BY <3>2, <3>3
  <2>2. CASE ~Windows!HandleDumpRequest(c)
    <3>1. UNCHANGED <<client, answer, finished, late, up>>
      BY <1>9, <2>2 DEF Windows!Callback, Windows!DumpCallback, Windows!ExitCallback,
         Windows!StartDump, Windows!FinishDump, Windows!ClientEnds,
         Windows!HandleClientProcessExit, Windows!DeleteClientInfo
    <3> QED BY <1>3, <3>1
  <2> QED BY <2>1, <2>2
<1>10. CASE Windows!Handler
  <2>1. UNCHANGED <<client, answer, finished, late, up>>
    BY <1>0, <1>10, HandlerSteps, PipeStepDoes, AddingStepDoes, Zenon
  <2> QED BY <1>3, <2>1
<1>11. CASE Windows!ShutDown \/ Windows!Destructor \/ Windows!Kill
  <2>1. UNCHANGED <<client, answer, finished, late>> /\ (up' = up \/ up' = FALSE)
    BY <1>11 DEF Windows!Step, Windows!ShutDown, Windows!Destructor, Windows!Kill,
       Windows!DisconnectPipe, Windows!AwaitError, Windows!UnregisterPipeWait,
       Windows!ClosePipe, Windows!UnregisterExitWait, Windows!UnregisterDumpWait,
       Windows!DeleteVictim, Windows!ReleaseAlive
  <2>2. CASE up' = FALSE
    <3>1. ~Serving'
      BY <2>2, Zenon DEF Serving
    <3> QED BY <2>1, <3>1, PhaseStays, Closes
  <2>3. CASE up' = up
    BY <1>3, <2>1, <2>3
  <2> QED BY <2>1, <2>2, <2>3
<1>12. CASE Windows!Over
  BY <1>3, <1>12 DEF Windows!Over, Windows!vars
<1> QED
  BY <1>4, <1>5, <1>6, <1>7, <1>8, <1>9, <1>10, <1>11, <1>12
  DEF Windows!Next, Windows!RequestStep

\* Both servers keep the promise of DumpRequests: RequestDump returns true only when
\* the server has closed this client's pipe, or set its event, for this very request,
\* or is there no more, or was still at an earlier request of this client.
THEOREM ImplementsDumpRequestsHolds == Spec => ImplementsDumpRequests
<1>1. Init => Requests!Init
  <2> SUFFICES ASSUME Init PROVE Requests!Init
    OBVIOUS
  <2>1. /\ Phase = [c \in Clients |-> "running"]
        /\ finished = {} /\ answer = [c \in Clients |-> "none"]
    <3>1. CASE platform = "linux"
      BY <3>1 DEF Init, Linux!Init, Phase, Linux!Phase
    <3>2. CASE platform = "windows"
      BY <3>2 DEF Init, Windows!Init, Phase, Windows!Phase
    <3> QED BY <3>1, <3>2 DEF Init
  <2>2. open = TRUE /\ up = TRUE /\ late = {}
    BY DEF Init, Linux!Init, Windows!Init, Linux!InitServer, Windows!InitServer
  <2> QED BY <2>1, <2>2, Zenon DEF Requests!Init, Phase
<1>2. Inv /\ [Next]_vars => [Requests!Next]_Requests!vars
  <2> SUFFICES ASSUME Inv, [Next]_vars PROVE [Requests!Next]_Requests!vars
    OBVIOUS
  <2>1. platform' = platform
    BY DEF Next, OnLinux, OnWindows, vars
  <2>2. CASE OnLinux(Linux!Next)
    <3>1. platform = "linux" /\ Linux!Next /\ up' = up /\ late' = late
      BY <2>2 DEF OnLinux, windowsVars
    <3> QED BY <2>1, <3>1, LinuxRefines DEF Inv, NoWindows
  <2>3. CASE OnWindows(Windows!Next)
    <3>1. platform = "windows" /\ Windows!Next /\ open' = open
      BY <2>3 DEF OnWindows, linuxVars
    <3> QED BY <2>1, <3>1, WindowsRefines DEF Inv
  <2>4. CASE UNCHANGED vars
    <3>1. UNCHANGED <<platform, client, answer, finished, late, open, up>>
      BY <2>4 DEF vars, linuxVars, windowsVars
    <3>2. Serving' = Serving
      BY <3>1 DEF Serving
    <3> QED BY <3>1, <3>2, PhaseStays, SameRequests
  <2> QED BY <2>2, <2>3, <2>4 DEF Next
<1> QED
  BY InitInv, StepInv, <1>1, <1>2, PTL DEF Spec, ImplementsDumpRequests, Requests!Spec

=============================================================================
