------------------------- MODULE OtherHandlersProofs -------------------------
(***************************************************************************)
(* Theorems about OtherHandlers, for any threads, handlers and calls.      *)
(*                                                                         *)
(* The argument on Windows: who has the lock of the stack is the one whose *)
(* exception is dealt with; index counts the handlers it has asked, and    *)
(* the handler it asks is the next one below (LockOK).  A handler has      *)
(* found no filter exactly when it is the oldest (StackOK), which is why   *)
(* the chain of filters ends where the stack does.  And the lock of a      *)
(* handler goes from a request to the collection of its result             *)
(* (RendezvousOK).                                                         *)
(*                                                                         *)
(* On macOS: from the first lock of the mutex to the unlocking by the      *)
(* handler's thread there is one request at most (RequestOK), and its      *)
(* thread waits for it, for which the object must be there (CallersOK).    *)
(*                                                                         *)
(* The invariants of the four systems (WindowsInv, MacInv, LinuxInv,       *)
(* HookInv) are inductive each by itself: a step is of one system and      *)
(* leaves the variables of the others as they are.                         *)
(***************************************************************************)
EXTENDS OtherHandlers, Integers, SequenceTheorems, TLAPS

Actors == WindowsThreads \cup Handlers

Raised == {"exception", "handle", "parameter"}

\* A handler has found a filter of Breakpad unless it is the oldest.
StackOK ==
  /\ \A i, j \in 1..Len(handler_stack) : handler_stack[i] = handler_stack[j] => i = j
  /\ \A i \in 1..Len(handler_stack) :
       previous[handler_stack[i]] = IF i = 1 THEN None ELSE "HandleException"
  /\ Windows!FilterIsLive

\* The handler that is asked is the index-th from the top.
Asked == handler_stack[Len(handler_stack) - index + 1]

LockOK ==
  /\ (index = 0) = (lock = None)
  /\ lock # None =>
       /\ pc[lock] \in {"enter", "ask", "lock", "wait", "handled", "declined", "leave"}
       /\ kind[lock] \in Raised
       /\ pc[lock] = "enter" => index < Len(handler_stack)
       /\ pc[lock] # "leave" => target[lock] = Asked
       /\ pc[lock] = "leave" =>
            /\ Windows!Live(target[lock])
            /\ action[lock] = "search" => target[lock] = handler_stack[1]

\* Whoever is on the way through HandleException has the lock; whoever wants a
\* dump for itself wants it of a handler that is there.
ActorOK(a) ==
  /\ pc[a] = "enter" => kind[a] \in Raised
  /\ pc[a] \in {"ask", "handled", "declined", "leave"} => lock = a
  /\ pc[a] \in {"lock", "wait"} => lock = a \/ kind[a] = "user"
  /\ kind[a] = "user" =>
       a \in WindowsThreads /\ pc[a] \in {"lock", "wait"} /\ Windows!Live(target[a])
  /\ pc[a] = "wait" => target[a] \in Handlers /\ handler_lock[target[a]] = a

\* The lock of a handler, and which of the three the request is at.
RendezvousOK(h) ==
  /\ requester[h] = handler_lock[h]
  /\ pc[h] # "run"
  /\ Windows!Live(h) => pc[h] # "none"
  /\ handler_lock[h] = None =>
       start[h] = 0 /\ finish[h] = 0 /\ pc[h] \in {"none", "idle"}
  /\ handler_lock[h] # None =>
       pc[handler_lock[h]] = "wait" /\ target[handler_lock[h]] = h
  /\ start[h] = 1 => finish[h] = 0 /\ pc[h] = "idle"
  /\ finish[h] = 1 => pc[h] = "idle"

WindowsInv ==
  /\ Windows!TypeOK
  /\ StackOK
  /\ LockOK
  /\ \A a \in Actors : ActorOK(a)
  /\ \A h \in Handlers : RendezvousOK(h)

(***************************************************************************)
(* macOS.                                                                  *)
(***************************************************************************)

Busy == worker \in {"suspend", "write", "resume", "unlock", "forward"}
Works == Busy /\ message.what = "dump"
Requests == {i \in 1..Len(port) : port[i].what = "dump"}
Exceptions == {i \in 1..Len(port) : port[i].what = "exception"}

\* There is one request at most, being sent, sent or worked at, and its thread
\* waits for it.
RequestOK ==
  /\ \A t, u \in Threads : caller[t] = "send" /\ caller[u] = "send" => t = u
  /\ (\E t \in Threads : caller[t] = "send") => mutex /\ Requests = {} /\ ~Works
  /\ \A i, j \in Requests : i = j
  /\ \A i \in Requests : mutex /\ caller[port[i].from] = "relock" /\ ~Works
  /\ Works => mutex /\ caller[message.from] = "relock"

\* A thread waits for the one exception that it has raised.
RaisedOK ==
  /\ \A i \in Exceptions : caller[port[i].from] = "raised"
  /\ \A i, j \in Exceptions : port[i].from = port[j].from => i = j
  /\ Busy /\ message.what = "exception" =>
       /\ caller[message.from] = "raised"
       /\ \A i \in Exceptions : port[i].from # message.from

\* WriteMinidump is at work only between the constructor and the destructor.
CallersOK ==
  \A t \in Threads : caller[t] \in {"set", "lock", "send", "relock"} =>
    object = "alive" /\ caller[Owner] # "teardown"

WorkerOK ==
  /\ object = "new" => worker = "none"
  /\ Busy => message.what \in {"dump", "exception"} /\ message.from \in Threads
  /\ worker \in {"resume", "unlock"} => message.what = "dump"
  /\ worker = "forward" => message.what = "exception"
  /\ worker \in {"write", "resume", "forward"} => suspensions > 0
  /\ ~forwarded =>
       suspensions = IF worker \in {"write", "resume", "forward"} THEN 1 ELSE 0

MacInv ==
  /\ Mac!TypeOK
  /\ RequestOK
  /\ RaisedOK
  /\ CallersOK
  /\ WorkerOK

(***************************************************************************)
(* The hook.                                                               *)
(***************************************************************************)

\* Installed once, the hook has found malloc in the slot; until it is written to,
\* nobody gets to the hook.
HookOK ==
  installs <= 1 =>
    /\ slot = "malloc" => \A t \in Callers : at[t] # "hook"
    /\ slot = "hook" => installer \in {"matched", "idle"}
    /\ installer = "matched" => saved = "malloc" /\ originFunc \in {"slot", "malloc"}
    /\ installer = "idle" /\ slot = "hook" => originFunc = "malloc"
    /\ installs = 0 => installer = "idle" /\ slot = "malloc"
    /\ installer = "searching" => originFunc = "slot"
    /\ fault = "call" => installer = "matched"

HookInv == Hook!TypeOK /\ HookOK

(***************************************************************************)
(* Windows: safety.                                                        *)
(***************************************************************************)

\* A sequence without its last element.
LEMMA Shorter ==
  ASSUME NEW S, NEW s \in Seq(S), NEW n \in Nat, Len(s) = n, n > 0
  PROVE  /\ SubSeq(s, 1, n - 1) \in Seq(S)
         /\ Len(SubSeq(s, 1, n - 1)) = n - 1
         /\ \A i \in 1..(n - 1) : SubSeq(s, 1, n - 1)[i] = s[i]
         /\ SubSeq(s, 1, n - 1) = <<>> <=> n = 1
<1>1. \A i \in 1..(n - 1) : i \in 1..n /\ s[i] \in S
  OBVIOUS
<1>2. /\ SubSeq(s, 1, n - 1) \in Seq(S)
      /\ Len(SubSeq(s, 1, n - 1)) = n - 1
      /\ \A i \in 1..(n - 1) : SubSeq(s, 1, n - 1)[i] = s[i]
  BY <1>1
<1> QED
  BY <1>2

LEMMA WindowsInit == Init => WindowsInv
<1> SUFFICES ASSUME Windows!Init PROVE WindowsInv
  BY DEF Init
<1> USE DEF Windows!Init, Windows!InitHandlers, Windows!Actors, Actors
<1>1. Windows!TypeOK
  BY HandlersAssumption DEF Windows!TypeOK, Windows!Kinds
<1>2. StackOK
  BY HandlersAssumption DEF StackOK, Windows!FilterIsLive
<1>3. LockOK
  BY DEF LockOK
<1>4. \A a \in Actors : ActorOK(a)
  BY DEF ActorOK
<1>5. \A h \in Handlers : RendezvousOK(h)
  BY HandlersAssumption DEF RendezvousOK, Windows!Live
<1> QED
  BY <1>1, <1>2, <1>3, <1>4, <1>5 DEF WindowsInv

\* The stack does not change, nor what the handlers have found: whoever is live
\* stays so.
LEMMA StackStays ==
  ASSUME WindowsInv, UNCHANGED <<handler_stack, previous, lock, filter>>
  PROVE  /\ StackOK'
         /\ \A h : Windows!Live(h)' <=> Windows!Live(h)
BY DEF WindowsInv, StackOK, Windows!FilterIsLive, Windows!Live

\* Who is asked is on the stack.
LEMMA AskedIsLive ==
  ASSUME WindowsInv
  PROVE  /\ Len(handler_stack) \in Nat /\ index \in 0..Len(handler_stack)
         /\ \A i \in 1..Len(handler_stack) : handler_stack[i] \in Handlers
         /\ \A i \in 1..Len(handler_stack) : Windows!Live(handler_stack[i])
         /\ index > 0 => /\ Len(handler_stack) - index + 1 \in 1..Len(handler_stack)
                         /\ Windows!Live(Asked)
         /\ lock # None => index > 0 /\ Windows!Live(target[lock])
BY DEF WindowsInv, Windows!TypeOK, Windows!Live, LockOK, Asked

\* An exception: its thread waits for the lock of the stack.
LEMMA RaiseInv ==
  ASSUME WindowsInv, NEW a \in Actors, NEW k \in Windows!Kinds, Windows!Raise(a, k)
  PROVE  WindowsInv'
<1> USE DEF Windows!Raise, Windows!stackVars, Windows!rendezvous, Windows!threadVars
<1>0. a \in Windows!Actors
  BY DEF Actors, Windows!Actors
<1>1. Windows!TypeOK'
  BY <1>0 DEF WindowsInv, Windows!TypeOK, Windows!GoTo
<1>2. StackOK' /\ \A h : Windows!Live(h)' <=> Windows!Live(h)
  BY StackStays
<1>3. LockOK'
  BY <1>0, <1>2 DEF WindowsInv, LockOK, Asked, Windows!TypeOK, Windows!GoTo
<1>4. \A b \in Actors : ActorOK(b)'
  BY <1>0, <1>2 DEF WindowsInv, ActorOK, Windows!TypeOK, Windows!GoTo, Windows!Kinds, Raised,
     Actors, Windows!Actors
<1>5. \A h \in Handlers : RendezvousOK(h)'
  BY <1>0, <1>2, HandlersAssumption DEF WindowsInv, RendezvousOK, Windows!TypeOK, Windows!GoTo,
     Actors, Windows!Actors
<1> QED
  BY <1>1, <1>2, <1>3, <1>4, <1>5 DEF WindowsInv

\* The handler that is asked says something, or the next one is to be asked.
LEMMA AnswerInv ==
  ASSUME WindowsInv, NEW a \in Actors,
         Windows!Consume(a) \/ Windows!Ask(a) \/ Windows!Handled(a) \/ Windows!NextInChain(a)
  PROVE  WindowsInv'
<1> USE DEF Windows!Consume, Windows!Ask, Windows!Handled, Windows!NextInChain,
        Windows!stackVars, Windows!rendezvous, Windows!GoTo
<1>0. a \in Windows!Actors
  BY DEF Actors, Windows!Actors
<1>1. Windows!TypeOK'
  BY <1>0 DEF WindowsInv, Windows!TypeOK
<1>2. StackOK' /\ \A h : Windows!Live(h)' <=> Windows!Live(h)
  BY StackStays
<1>3. lock = a /\ lock' = a /\ a # None /\ pc[a] \in {"ask", "handled", "declined"}
  BY HandlersAssumption DEF WindowsInv, ActorOK, Actors
<1>4. LockOK'
  <2>1. target[a] = Asked /\ Windows!Live(target[a]) /\ kind[a] \in Raised
    BY <1>3, AskedIsLive DEF WindowsInv, LockOK
  <2>2. CASE Windows!NextInChain(a)
    <3>1. previous[target[a]] = None <=> Len(handler_stack) - index + 1 = 1
      BY <1>3, <2>1, AskedIsLive, HandlersAssumption DEF WindowsInv, LockOK, StackOK, Asked
    <3>2. previous[target[a]] # None => index < Len(handler_stack)
      BY <1>3, <3>1, AskedIsLive
    <3>3. previous[target[a]] = None => target[a] = handler_stack[1]
      BY <2>1, <3>1 DEF Asked
    <3> QED BY <1>0, <1>2, <1>3, <2>1, <2>2, <3>2, <3>3
            DEF WindowsInv, LockOK, Asked, Windows!TypeOK
  <2>3. CASE Windows!Consume(a) \/ Windows!Ask(a) \/ Windows!Handled(a)
    BY <1>0, <1>2, <1>3, <2>1, <2>3 DEF WindowsInv, LockOK, Asked, Windows!TypeOK
  <2> QED BY <2>2, <2>3
<1>5. \A b \in Actors : ActorOK(b)'
  <2>1. kind[a] \in Raised /\ kind' = kind
    BY <1>3 DEF WindowsInv, LockOK
  <2> QED BY <1>0, <1>2, <1>3, <2>1 DEF WindowsInv, ActorOK, Windows!TypeOK, Raised,
     Actors, Windows!Actors
<1>6. \A h \in Handlers : RendezvousOK(h)'
  BY <1>0, <1>2, <1>3 DEF WindowsInv, RendezvousOK, Windows!TypeOK, Actors, Windows!Actors
<1> QED
  BY <1>1, <1>2, <1>4, <1>5, <1>6 DEF WindowsInv

\* The next handler is found, from the top of the stack or below the last one.
LEMMA LocateInv ==
  ASSUME WindowsInv, NEW a \in Actors, Windows!AutoExceptionHandler(a)
  PROVE  WindowsInv'
<1> USE DEF Windows!AutoExceptionHandler, Windows!rendezvous
<1>0. a \in Windows!Actors /\ a # None /\ kind[a] \in Raised /\ pc[a] = "enter"
  BY HandlersAssumption DEF Actors, Windows!Actors, WindowsInv, ActorOK
<1>1. CASE handler_stack = <<>>
  BY <1>1 DEF WindowsInv, Windows!TypeOK, StackOK, Windows!FilterIsLive, LockOK, Asked,
     ActorOK, RendezvousOK, Windows!Live
<1>2. CASE handler_stack # <<>>
  <2> DEFINE h == handler_stack[Len(handler_stack) - index]
  <2>1. /\ index' = index + 1 /\ lock' = a /\ target' = [target EXCEPT ![a] = h]
        /\ filter' = previous[h] /\ pc' = [pc EXCEPT ![a] = "ask"]
        /\ UNCHANGED <<over, handler_stack, previous, handler_lock, start, finish, requester,
                       result, kind, action>>
    BY <1>2 DEF Windows!Located, Windows!GoTo
  <2>2. index < Len(handler_stack)
    BY <1>0, <1>2, AskedIsLive DEF WindowsInv, LockOK, Windows!TypeOK
  <2>3. /\ Len(handler_stack) - index \in 1..Len(handler_stack)
        /\ Len(handler_stack) - (index + 1) + 1 = Len(handler_stack) - index
    BY <2>2, AskedIsLive
  <2>4. h \in Handlers /\ Windows!Live(h) /\ previous[h] \in {None, "HandleException"}
    BY <2>3, AskedIsLive DEF WindowsInv, Windows!TypeOK
  <2>5. target'[a] = h /\ pc'[a] = "ask" /\ Asked' = h
    BY <1>0, <2>1, <2>3 DEF WindowsInv, Windows!TypeOK, Asked
  <2> HIDE DEF h
  <2>6. Windows!TypeOK'
    BY <1>0, <2>1, <2>2, <2>4, AskedIsLive DEF WindowsInv, Windows!TypeOK
  <2>7. StackOK' /\ \A g : Windows!Live(g)' <=> Windows!Live(g)
    BY <1>0, <2>1 DEF WindowsInv, StackOK, Windows!FilterIsLive, Windows!Live
  <2>8. LockOK'
    BY <1>0, <2>1, <2>5, AskedIsLive DEF WindowsInv, LockOK
  <2>9. ASSUME NEW b \in Actors PROVE ActorOK(b)'
    <3>1. b # a => lock # b
      BY HandlersAssumption DEF Actors
    <3> QED BY <1>0, <2>1, <2>5, <2>7, <3>1 DEF WindowsInv, ActorOK, Windows!TypeOK, Raised,
         Actors, Windows!Actors
  <2>10. \A g \in Handlers : RendezvousOK(g)'
    BY <1>0, <2>1, <2>7 DEF WindowsInv, RendezvousOK, Windows!TypeOK, Actors, Windows!Actors
  <2> QED BY <2>6, <2>7, <2>8, <2>9, <2>10 DEF WindowsInv
<1> QED
  BY <1>1, <1>2

\* HandleException returns, or the handlers above have had their turn; the filter
\* is that of the newest handler again.
LEMMA LeaveInv ==
  ASSUME WindowsInv, NEW a \in Actors, Windows!Leave(a)
  PROVE  WindowsInv'
<1> USE DEF Windows!Leave, Windows!rendezvous, Windows!stackVars, Windows!threadVars
<1>0. a \in Windows!Actors /\ a # None /\ lock = a /\ pc[a] = "leave" /\ kind[a] \in Raised
  BY HandlersAssumption DEF Actors, Windows!Actors, WindowsInv, ActorOK, LockOK
<1>1. CASE kind[a] = "parameter"
  BY <1>1 DEF WindowsInv, Windows!TypeOK, StackOK, Windows!FilterIsLive, LockOK, Asked,
     ActorOK, RendezvousOK, Windows!Live
<1>2. CASE kind[a] # "parameter"
  <2>1. /\ filter' = "HandleException" /\ index' = index - 1
        /\ UNCHANGED <<handler_stack, previous, target, handler_lock, start, finish,
                       requester, result>>
    BY <1>2 DEF Windows!Decremented
  <2>2. index > 0 /\ index \in 0..Len(handler_stack) /\ Len(handler_stack) \in Nat
    BY <1>0, AskedIsLive
  <2>3. \A g : Windows!Live(g)' <=> Windows!Live(g)
    BY <2>1 DEF Windows!Live
  <2>4. handler_stack # <<>>
    BY <2>2
  <2>5. StackOK'
    BY <2>1, <2>4 DEF WindowsInv, StackOK, Windows!FilterIsLive
  <2>6. CASE index # 1
    <3>1. UNCHANGED <<lock, over, pc, kind, action>>
      BY <1>2, <2>6
    <3>2. Windows!TypeOK'
      BY <2>1, <2>2, <2>6, <3>1 DEF WindowsInv, Windows!TypeOK
    <3>3. LockOK'
      BY <1>0, <2>1, <2>2, <2>3, <2>6, <3>1 DEF WindowsInv, LockOK
    <3> QED BY <2>1, <2>3, <2>5, <3>1, <3>2, <3>3 DEF WindowsInv, ActorOK, RendezvousOK
  <2>7. CASE index = 1
    <3>1. /\ lock' = None
          /\ pc' = [pc EXCEPT ![a] = Windows!Resumed(a)]
          /\ kind' = [kind EXCEPT ![a] = "none"]
          /\ action' = [action EXCEPT ![a] = "none"]
          /\ over' = (action[a] # "continue")
      BY <1>2, <2>7 DEF Windows!GoTo
    <3>2. Windows!Resumed(a) = IF a \in WindowsThreads THEN "run" ELSE "working"
      BY DEF Windows!Resumed
    <3>3. Windows!TypeOK'
      BY <1>0, <2>1, <2>2, <2>7, <3>1, <3>2 DEF WindowsInv, Windows!TypeOK
    <3>4. LockOK'
      BY <2>1, <2>7, <3>1 DEF LockOK
    <3>5. ASSUME NEW b \in Actors PROVE ActorOK(b)'
      <4>1. b # a => lock # b
        BY <1>0
      <4> QED BY <1>0, <2>1, <2>3, <3>1, <3>2, <4>1 DEF WindowsInv, ActorOK, Windows!TypeOK,
           Raised, Actors, Windows!Actors
    <3>6. \A g \in Handlers : RendezvousOK(g)'
      BY <1>0, <2>1, <2>3, <3>1, <3>2, HandlersAssumption
      DEF WindowsInv, RendezvousOK, Windows!TypeOK, Actors, Windows!Actors
    <3> QED BY <2>5, <3>3, <3>4, <3>5, <3>6 DEF WindowsInv
  <2> QED BY <2>6, <2>7
<1> QED
  BY <1>1, <1>2

\* The calls of WriteMinidump, and both ends of a request.
LEMMA RequestInv ==
  ASSUME WindowsInv, NEW a \in Actors,
         \/ a \in WindowsThreads /\ \E h \in Handlers : Windows!WriteMinidump(a, h)
         \/ Windows!Request(a)
         \/ Windows!Collect(a)
  PROVE  WindowsInv'
<1> USE DEF Windows!stackVars, Windows!rendezvous, Windows!GoTo
<1>0. a \in Windows!Actors /\ a # None
  BY HandlersAssumption DEF Actors, Windows!Actors
<1>1. CASE a \in WindowsThreads /\ \E h \in Handlers : Windows!WriteMinidump(a, h)
  <2>1. PICK h \in Handlers : Windows!WriteMinidump(a, h)
    BY <1>1
  <2> USE DEF Windows!WriteMinidump
  <2>2. lock # a
    BY <1>0, <2>1 DEF WindowsInv, LockOK
  <2>3. Windows!TypeOK'
    BY <1>0, <2>1 DEF WindowsInv, Windows!TypeOK, Windows!Kinds
  <2>4. StackOK' /\ \A g : Windows!Live(g)' <=> Windows!Live(g)
    BY <2>1, StackStays
  <2>5. LockOK'
    BY <1>0, <2>1, <2>2, <2>4 DEF WindowsInv, LockOK, Asked, Windows!TypeOK
  <2>6. \A b \in Actors : ActorOK(b)'
    BY <1>0, <1>1, <2>1, <2>4 DEF WindowsInv, ActorOK, Windows!TypeOK, Actors, Windows!Actors,
       Raised
  <2>7. \A g \in Handlers : RendezvousOK(g)'
    BY <1>0, <1>1, <2>1, <2>4, HandlersAssumption
    DEF WindowsInv, RendezvousOK, Windows!TypeOK, Actors, Windows!Actors
  <2> QED BY <2>3, <2>4, <2>5, <2>6, <2>7 DEF WindowsInv
<1>2. CASE Windows!Request(a)
  <2> USE <1>2 DEF Windows!Request, Windows!MayEnter
  <2> DEFINE h == target[a]
  <2>1. h \in Handlers /\ Windows!Live(h)
    <3>1. lock = a \/ kind[a] = "user"
      BY DEF WindowsInv, ActorOK
    <3>2. Windows!Live(h)
      BY <1>0, <3>1, AskedIsLive DEF WindowsInv, ActorOK
    <3> QED BY <3>2, AskedIsLive DEF Windows!Live, WindowsInv, Windows!TypeOK
  <2>2. handler_lock[h] = None
    BY <1>0, <2>1 DEF WindowsInv, RendezvousOK
  <2>3. /\ pc[a] = "lock" /\ pc' = [pc EXCEPT ![a] = "wait"]
        /\ handler_lock' = [handler_lock EXCEPT ![h] = a]
        /\ requester' = [requester EXCEPT ![h] = a]
        /\ start' = [start EXCEPT ![h] = 1]
        /\ UNCHANGED <<handler_stack, index, lock, filter, previous, finish, result, kind,
                       target, action, over>>
    OBVIOUS
  <2> HIDE <1>2 DEF Windows!Request, h
  <2>4. Windows!TypeOK'
    BY <1>0, <2>1, <2>3 DEF WindowsInv, Windows!TypeOK
  <2>5. StackOK' /\ \A g : Windows!Live(g)' <=> Windows!Live(g)
    BY <2>3, StackStays
  <2>6. LockOK'
    BY <1>0, <2>3, <2>5 DEF WindowsInv, LockOK, Asked, Windows!TypeOK
  <2>7. ASSUME NEW b \in Actors PROVE ActorOK(b)'
    <3>1. b # a => ~(pc[b] = "wait" /\ target[b] = h)
      BY <1>0, <2>2, HandlersAssumption DEF WindowsInv, ActorOK, Actors, h
    <3> QED BY <1>0, <2>1, <2>2, <2>3, <2>5, <3>1, HandlersAssumption
        DEF WindowsInv, ActorOK, Windows!TypeOK, Actors, Windows!Actors, Raised, h
  <2>8. ASSUME NEW g \in Handlers PROVE RendezvousOK(g)'
    <3>1. pc[h] = "idle"
      <4>1. h \in Windows!Actors
        BY <2>1 DEF Windows!Actors
      <4> QED BY <2>1, <2>2 DEF WindowsInv, RendezvousOK
    <3> QED BY <1>0, <2>1, <2>2, <2>3, <2>5, <3>1
        DEF WindowsInv, RendezvousOK, Windows!TypeOK, Actors, Windows!Actors, h
  <2> QED BY <2>4, <2>5, <2>6, <2>7, <2>8 DEF WindowsInv
<1>3. CASE Windows!Collect(a)
  <2> USE <1>3 DEF Windows!Collect
  <2> DEFINE h == target[a]
  <2>1. h \in Handlers /\ handler_lock[h] = a /\ pc[a] = "wait" /\ pc[h] = "idle" /\ start[h] = 0
    BY <1>0 DEF WindowsInv, ActorOK, RendezvousOK, Windows!TypeOK
  <2>2. /\ handler_lock' = [handler_lock EXCEPT ![h] = None]
        /\ requester' = [requester EXCEPT ![h] = None]
        /\ finish' = [finish EXCEPT ![h] = 0]
        /\ \/ /\ kind[a] = "user" /\ pc' = [pc EXCEPT ![a] = "run"]
              /\ kind' = [kind EXCEPT ![a] = "none"]
           \/ /\ kind[a] # "user" /\ kind' = kind
              /\ \/ pc' = [pc EXCEPT ![a] = "handled"]
                 \/ pc' = [pc EXCEPT ![a] = "declined"]
        /\ UNCHANGED <<handler_stack, index, lock, filter, previous, start, result,
                       target, action, over>>
    OBVIOUS
  <2> HIDE <1>3 DEF Windows!Collect, h
  <2>3. Windows!TypeOK'
    BY <1>0, <2>1, <2>2 DEF WindowsInv, Windows!TypeOK
  <2>4. StackOK' /\ \A g : Windows!Live(g)' <=> Windows!Live(g)
    BY <2>2, StackStays
  <2>5. kind[a] = "user" => lock # a /\ a \in WindowsThreads
    BY <1>0 DEF WindowsInv, LockOK, ActorOK, Raised
  <2>6. LockOK'
    BY <1>0, <2>1, <2>2, <2>4, <2>5 DEF WindowsInv, LockOK, Asked, Windows!TypeOK
  <2>7. ASSUME NEW b \in Actors PROVE ActorOK(b)'
    <3>1. b # a => ~(pc[b] = "wait" /\ target[b] = h)
      BY <1>0, <2>1 DEF WindowsInv, ActorOK, Actors, h
    <3> QED BY <1>0, <2>1, <2>2, <2>4, <2>5, <3>1, HandlersAssumption
        DEF WindowsInv, ActorOK, Windows!TypeOK, Actors, Windows!Actors, Raised, h
  <2>8. ASSUME NEW g \in Handlers PROVE RendezvousOK(g)'
    <3>1. g # h => handler_lock[g] # a
      BY <1>0, <2>1 DEF WindowsInv, RendezvousOK, h
    <3>2. a # h /\ (a \in Handlers => a # g \/ pc'[g] \notin {"none", "idle", "run"})
      BY <1>0, <2>1, <2>2, <2>5, HandlersAssumption DEF WindowsInv, Windows!TypeOK
    <3> QED BY <1>0, <2>1, <2>2, <2>4, <2>5, <3>1, <3>2, HandlersAssumption
        DEF WindowsInv, RendezvousOK, Windows!TypeOK, Actors, Windows!Actors
  <2> QED BY <2>3, <2>4, <2>6, <2>7, <2>8 DEF WindowsInv
<1> QED
  BY <1>1, <1>2, <1>3

\* The handler's thread takes a request, and is done with it.
LEMMA HandlerThreadInv ==
  ASSUME WindowsInv, NEW h \in Handlers, Windows!Begin(h) \/ Windows!Finish(h)
  PROVE  WindowsInv'
<1> USE DEF Windows!Begin, Windows!Finish, Windows!stackVars, Windows!GoTo
<1>0. h \in Windows!Actors /\ h # None /\ h \notin WindowsThreads
  BY HandlersAssumption DEF Windows!Actors
<1>1. handler_lock[h] # None /\ lock # h
  BY <1>0 DEF WindowsInv, RendezvousOK, LockOK
<1>2. Windows!TypeOK'
  <2>1. result' \in [Handlers -> BOOLEAN]
    BY DEF WindowsInv, Windows!TypeOK
  <2>2. start' \in [Handlers -> 0..1] /\ finish' \in [Handlers -> 0..1]
    BY DEF WindowsInv, Windows!TypeOK
  <2> QED BY <1>0, <2>1, <2>2 DEF WindowsInv, Windows!TypeOK
<1>3. StackOK' /\ \A g : Windows!Live(g)' <=> Windows!Live(g)
  BY StackStays
<1>4. LockOK'
  BY <1>0, <1>1, <1>3 DEF WindowsInv, LockOK, Asked, Windows!TypeOK
<1>5. \A b \in Actors : ActorOK(b)'
  BY <1>0, <1>3 DEF WindowsInv, ActorOK, Windows!TypeOK, Actors, Windows!Actors
<1>6. \A g \in Handlers : RendezvousOK(g)'
  BY <1>0, <1>1, <1>3, HandlersAssumption
  DEF WindowsInv, RendezvousOK, Windows!TypeOK, Actors, Windows!Actors
<1> QED
  BY <1>2, <1>3, <1>4, <1>5, <1>6 DEF WindowsInv

\* Nobody wants anything of a handler that is not on the stack.
LEMMA NobodyWaits ==
  ASSUME WindowsInv, NEW h \in Handlers,
         ~Windows!Live(h) \/ (lock = None /\ \A t \in WindowsThreads :
                                               ~(kind[t] = "user" /\ target[t] = h))
  PROVE  /\ handler_lock[h] = None
         /\ start[h] = 0 /\ finish[h] = 0 /\ pc[h] \in {"none", "idle"}
         /\ \A a \in Actors : ~(pc[a] \in {"lock", "wait"} /\ target[a] = h)
<1>1. ASSUME NEW a \in Actors, pc[a] \in {"lock", "wait"}, target[a] = h PROVE FALSE
  <2>1. lock = a \/ kind[a] = "user"
    BY <1>1 DEF WindowsInv, ActorOK
  <2>2. a # None
    BY HandlersAssumption DEF Actors
  <2>3. CASE lock = a
    BY <1>1, <2>2, <2>3, AskedIsLive
  <2>4. CASE kind[a] = "user"
    BY <1>1, <2>4 DEF WindowsInv, ActorOK
  <2> QED BY <2>1, <2>3, <2>4
<1>2. handler_lock[h] = None
  BY <1>1 DEF WindowsInv, RendezvousOK, Windows!TypeOK, Actors, Windows!Actors
<1> QED
  BY <1>1, <1>2 DEF WindowsInv, RendezvousOK

\* A handler that is constructed has found the filter of the newest one, or none.
LEMMA InitializeInv ==
  ASSUME WindowsInv, NEW h \in Handlers, Windows!Initialize(h)
  PROVE  WindowsInv'
<1> USE DEF Windows!Initialize, Windows!GoTo
<1> DEFINE n == Len(handler_stack)
<1>0. h \in Windows!Actors /\ h \in Actors /\ h # None /\ h \notin WindowsThreads
  BY HandlersAssumption DEF Windows!Actors, Actors
<1>1. /\ handler_lock[h] = None
      /\ \A a \in Actors : ~(pc[a] \in {"lock", "wait"} /\ target[a] = h)
      /\ pc[h] \in {"none", "idle"}
  BY NobodyWaits
<1>2. /\ n \in Nat /\ handler_stack \in Seq(Handlers)
      /\ Len(handler_stack') = n + 1 /\ handler_stack'[n + 1] = h
      /\ \A i \in 1..n : handler_stack'[i] = handler_stack[i] /\ handler_stack[i] # h
  BY DEF WindowsInv, Windows!TypeOK, Windows!Live
<1>3. Windows!TypeOK'
  <2>1. handler_stack' \in Seq(Handlers)
    BY <1>2
  <2>2. index' = 0
    BY DEF WindowsInv, LockOK
  <2> HIDE DEF n
  <2> QED BY <1>0, <1>2, <2>1, <2>2 DEF WindowsInv, Windows!TypeOK
<1>4. StackOK'
  <2>1. filter = IF n = 0 THEN None ELSE "HandleException"
    BY <1>2, HandlersAssumption DEF WindowsInv, StackOK, Windows!FilterIsLive, Windows!TypeOK
  <2>2. \A i \in 1..(n + 1) : i = n + 1 \/ i \in 1..n
    BY <1>2
  <2>3. /\ previous'[h] = filter
        /\ \A g \in Handlers \ {h} : previous'[g] = previous[g]
    BY DEF WindowsInv, Windows!TypeOK
  <2>4. \A i \in 1..n : handler_stack[i] \in Handlers
    BY <1>2
  <2>5. handler_stack' # <<>>
    BY <1>2
  <2> HIDE DEF n
  <2>6. \A i, j \in 1..(n + 1) : handler_stack'[i] = handler_stack'[j] => i = j
    BY <1>2, <2>2 DEF WindowsInv, StackOK, n
  <2>7. \A i \in 1..(n + 1) :
          previous'[handler_stack'[i]] = IF i = 1 THEN None ELSE "HandleException"
    BY <1>2, <2>1, <2>2, <2>3, <2>4 DEF WindowsInv, StackOK, n
  <2> QED BY <1>2, <2>5, <2>6, <2>7 DEF StackOK, Windows!FilterIsLive
<1>5. \A g : g # h => (Windows!Live(g)' <=> Windows!Live(g))
  <2>1. \A i \in 1..(n + 1) : i = n + 1 \/ i \in 1..n
    BY <1>2
  <2>2. DOMAIN handler_stack' = 1..(n + 1) /\ DOMAIN handler_stack = 1..n
    BY <1>2
  <2> HIDE DEF n
  <2> QED BY <1>2, <2>1, <2>2 DEF Windows!Live
<1>6. LockOK'
  BY DEF WindowsInv, LockOK
<1>7. ASSUME NEW b \in Actors PROVE ActorOK(b)'
  <2>1. kind' = kind /\ target' = target /\ lock' = lock /\ handler_lock' = handler_lock
    OBVIOUS
  <2>2. pc'[h] = "idle" /\ (b # h => pc'[b] = pc[b])
    BY <1>0 DEF WindowsInv, Windows!TypeOK, Actors, Windows!Actors
  <2>3. pc[b] \in {"lock", "wait"} => target[b] # h
    BY <1>1
  <2> HIDE DEF Windows!Initialize
  <2> QED BY <1>0, <1>1, <1>5, <2>1, <2>2, <2>3 DEF WindowsInv, ActorOK
<1>8. \A g \in Handlers : RendezvousOK(g)'
  BY <1>0, <1>1, <1>5 DEF WindowsInv, RendezvousOK, Windows!TypeOK, Actors, Windows!Actors
<1> QED
  BY <1>3, <1>4, <1>6, <1>7, <1>8 DEF WindowsInv

\* The newest handler goes, and leaves the filter that it has found.
LEMMA DestroyInv ==
  ASSUME WindowsInv, Windows!Destroy
  PROVE  WindowsInv'
<1> USE DEF Windows!Destroy, Windows!GoTo, Windows!Newest, Windows!Restored,
        Windows!rendezvous
<1>a. PICK n \in Nat : n = Len(handler_stack)
  BY DEF WindowsInv, Windows!TypeOK
<1>b. PICK h \in Handlers : h = handler_stack[n] /\ n > 0
  BY <1>a DEF WindowsInv, Windows!TypeOK
<1>1. /\ handler_stack \in Seq(Handlers) /\ n \in 1..n
      /\ handler_stack' = SubSeq(handler_stack, 1, n - 1)
  BY <1>a, <1>b DEF WindowsInv, Windows!TypeOK
<1>2. /\ handler_stack' \in Seq(Handlers) /\ Len(handler_stack') = n - 1
      /\ \A i \in 1..(n - 1) : handler_stack'[i] = handler_stack[i]
      /\ \A i \in 1..(n - 1) : i \in 1..n /\ i # n
      /\ handler_stack' = <<>> <=> n = 1
  <2> HIDE DEF Windows!Destroy
  <2> QED BY <1>a, <1>b, <1>1, Shorter
<1>3. /\ pc' = [pc EXCEPT ![h] = "none"] /\ filter' = previous[h] /\ lock = None
      /\ \A t \in WindowsThreads : ~(kind[t] = "user" /\ target[t] = h)
      /\ UNCHANGED <<index, lock, previous, handler_lock, start, finish, requester, result,
                     kind, target, action, over>>
  BY <1>a, <1>b
<1> HIDE DEF Windows!Destroy
<1>4. /\ handler_lock[h] = None
      /\ start[h] = 0 /\ finish[h] = 0 /\ pc[h] \in {"none", "idle"}
      /\ \A a \in Actors : ~(pc[a] \in {"lock", "wait"} /\ target[a] = h)
  BY <1>3, NobodyWaits
<1>0. h \in Windows!Actors /\ h \in Actors /\ h # None /\ h \notin WindowsThreads
  BY HandlersAssumption DEF Windows!Actors, Actors
<1>5. Windows!TypeOK'
  <2>1. index' = 0
    BY <1>3 DEF WindowsInv, LockOK
  <2> QED BY <1>0, <1>1, <1>2, <1>3, <2>1 DEF WindowsInv, Windows!TypeOK
<1>6. StackOK'
  <2>1. previous[h] = IF n = 1 THEN None ELSE "HandleException"
    BY <1>a, <1>b, <1>1 DEF WindowsInv, StackOK
  <2>3. Windows!FilterIsLive'
    BY <1>2, <1>3, <2>1, HandlersAssumption DEF Windows!FilterIsLive
  <2>4. \A i, j \in 1..(n - 1) : handler_stack'[i] = handler_stack'[j] => i = j
    BY <1>a, <1>2 DEF WindowsInv, StackOK
  <2>5. \A i \in 1..(n - 1) :
          previous'[handler_stack'[i]] = IF i = 1 THEN None ELSE "HandleException"
    BY <1>a, <1>2, <1>3 DEF WindowsInv, StackOK
  <2> QED BY <1>2, <2>3, <2>4, <2>5 DEF StackOK
<1>7. /\ \A g : g # h => (Windows!Live(g)' <=> Windows!Live(g))
      /\ ~Windows!Live(h)'
  <2>1. DOMAIN handler_stack' = 1..(n - 1) /\ DOMAIN handler_stack = 1..n
    BY <1>a, <1>1, <1>2
  <2>2. \A i \in 1..n : i = n \/ i \in 1..(n - 1)
    BY <1>1
  <2>3. n \in 1..n
    BY <1>1
  <2>4. ASSUME NEW i \in 1..(n - 1), handler_stack'[i] = h PROVE FALSE
    <3>1. i \in 1..Len(handler_stack) /\ n \in 1..Len(handler_stack) /\ i # n
      BY <1>a, <1>2, <2>3
    <3>2. handler_stack[i] = handler_stack[n]
      BY <1>b, <1>2, <2>4
    <3> QED BY <3>1, <3>2 DEF WindowsInv, StackOK
  <2>5. ~Windows!Live(h)'
    BY <2>1, <2>4 DEF Windows!Live
  <2>6. ASSUME NEW g, g # h PROVE Windows!Live(g)' <=> Windows!Live(g)
    BY <1>b, <1>2, <2>1, <2>2, <2>6 DEF Windows!Live
  <2> QED BY <2>5, <2>6
<1>8. LockOK'
  BY <1>3 DEF WindowsInv, LockOK
<1>9. \A b \in Actors : ActorOK(b)'
  BY <1>0, <1>3, <1>4, <1>7 DEF WindowsInv, ActorOK, Windows!TypeOK, Actors, Windows!Actors
<1>10. \A g \in Handlers : RendezvousOK(g)'
  BY <1>0, <1>1, <1>3, <1>4, <1>7 DEF WindowsInv, RendezvousOK, Windows!TypeOK, Actors, Windows!Actors
<1> QED
  BY <1>5, <1>6, <1>8, <1>9, <1>10 DEF WindowsInv

\* The invariant is inductive.
LEMMA WindowsStep ==
  ASSUME WindowsInv, [Next]_vars
  PROVE  WindowsInv'
<1>1. ASSUME Windows!Step PROVE WindowsInv'
  <2>1. ASSUME NEW h \in Handlers, Windows!Initialize(h) \/ Windows!HandlerThread(h)
        PROVE  WindowsInv'
    BY <2>1, InitializeInv, HandlerThreadInv DEF Windows!HandlerThread
  <2>2. ASSUME NEW a \in Actors, NEW k \in Windows!Kinds, Windows!Raise(a, k) PROVE WindowsInv'
    BY <2>2, RaiseInv
  <2>3. ASSUME NEW a \in Actors, Windows!Proceed(a) PROVE WindowsInv'
    BY <2>3, LocateInv, AnswerInv, LeaveInv, RequestInv DEF Windows!Proceed
  <2>4. ASSUME NEW t \in WindowsThreads, NEW h \in Handlers, Windows!WriteMinidump(t, h)
        PROVE  WindowsInv'
    BY <2>4, RequestInv DEF Actors
  <2> QED BY <1>1, <2>1, <2>2, <2>3, <2>4, DestroyInv DEF Windows!Step, Actors, Windows!Actors
<1>2. ASSUME UNCHANGED windowsVars PROVE WindowsInv'
  BY <1>2 DEF windowsVars, WindowsInv, Windows!TypeOK, StackOK, Windows!FilterIsLive, LockOK,
     Asked, ActorOK, RendezvousOK, Windows!Live
<1> QED
  BY <1>1, <1>2 DEF Next, OnWindows, OnMac, OnLinux, OnMalloc, vars

(***************************************************************************)
(* The hook.                                                               *)
(***************************************************************************)

LEMMA HookInit == Init => HookInv
<1> SUFFICES ASSUME Hook!Init PROVE HookInv
  BY DEF Init
<1>1. 0 \in 0..MaxInstalls
  BY HandlersAssumption
<1> QED
  BY <1>1 DEF Hook!Init, HookInv, Hook!TypeOK, HookOK

\* The invariant is inductive.
LEMMA HookStep ==
  ASSUME HookInv, [Next]_vars
  PROVE  HookInv'
<1>1. ASSUME Hook!Step PROVE HookInv'
  <2> USE <1>1, HandlersAssumption DEF HookInv, Hook!TypeOK, HookOK, Hook!Step
  <2>1. CASE Hook!Find
    BY <2>1 DEF Hook!Find
  <2>2. CASE Hook!Unprotect
    BY <2>2 DEF Hook!Unprotect
  <2>3. CASE Hook!SetTarget
    BY <2>3 DEF Hook!SetTarget
  <2>4. CASE Hook!Match
    BY <2>4 DEF Hook!Match
  <2>5. CASE Hook!SaveOrigin
    BY <2>5 DEF Hook!SaveOrigin, Hook!SavedIn
  <2>6. CASE Hook!Replace
    BY <2>6 DEF Hook!Replace, Hook!ReplacedWith
  <2>7. CASE Hook!Leave
    BY <2>7 DEF Hook!Leave, Hook!Written
  <2>8. ASSUME NEW t \in Callers, Hook!Call(t) \/ Hook!Return(t) \/ Hook!malloc_hook_by_plt(t)
        PROVE  HookInv'
    BY <2>8 DEF Hook!Call, Hook!Return, Hook!malloc_hook_by_plt
  <2> QED
    BY <2>1, <2>2, <2>3, <2>4, <2>5, <2>6, <2>7, <2>8 DEF Hook!Install
<1>2. ASSUME UNCHANGED hookVars PROVE HookInv'
  BY <1>2 DEF hookVars, HookInv, Hook!TypeOK, HookOK
<1> QED
  BY <1>1, <1>2 DEF Next, OnWindows, OnMac, OnLinux, OnMalloc, vars

LEMMA HookIsReached == HookInv => Hook!MallocIsReached
BY DEF HookInv, HookOK, Hook!TypeOK, Hook!MallocIsReached

(***************************************************************************)
(* What holds on Windows, and of the hook.                                 *)
(***************************************************************************)

\* Once nobody handles an exception, the filter on Windows is Breakpad's exactly
\* while there is a handler; and malloc, hooked once, is reached.
THEOREM InstalledIsLiveHolds == Spec => []InstalledIsLive
<1>1. Init => WindowsInv /\ HookInv
  BY WindowsInit, HookInit
<1>2. WindowsInv /\ HookInv /\ [Next]_vars => WindowsInv' /\ HookInv'
  BY WindowsStep, HookStep
<1>3. WindowsInv /\ HookInv => InstalledIsLive
  BY HookIsReached DEF WindowsInv, StackOK, InstalledIsLive
<1> QED
  BY <1>1, <1>2, <1>3, PTL DEF Spec

\* The thread of a handler on Windows works for who waits for it.
THEOREM AnswersItsRequesterHolds == Spec => []AnswersItsRequester
<1>1. Init => WindowsInv
  BY WindowsInit
<1>2. WindowsInv /\ [Next]_vars => WindowsInv'
  BY WindowsStep
<1>3. WindowsInv => AnswersItsRequester
  <2> SUFFICES ASSUME WindowsInv, NEW h \in Handlers,
                      start[h] + finish[h] > 0 \/ pc[h] = "working"
               PROVE  /\ requester[h] # None
                      /\ pc[requester[h]] = "wait" /\ target[requester[h]] = h
    BY DEF AnswersItsRequester, Windows!AnswersItsRequester
  <2>1. RendezvousOK(h)
    BY DEF WindowsInv
  <2> QED BY <2>1 DEF RendezvousOK
<1> QED
  BY <1>1, <1>2, <1>3, PTL DEF Spec

(***************************************************************************)
(* macOS: safety.                                                          *)
(***************************************************************************)

Messages == [what : {"dump", "exception", "shutdown"}, from : Threads]

LEMMA MacInit == Init => MacInv
<1> SUFFICES ASSUME Mac!Init PROVE MacInv
  BY DEF Init
<1> USE HandlersAssumption DEF Mac!Init, Mac!InitHandler, Mac!NoMessage
<1>1. Mac!TypeOK
  <2>1. message \in [what : {"none", "dump", "exception", "shutdown"}, from : Threads \cup {None}]
    OBVIOUS
  <2>2. calls \in 0..Calls
    OBVIOUS
  <2>3. /\ port \in Seq([what : {"dump", "exception", "shutdown"}, from : Threads])
        /\ Len(port) <= QueueLimit /\ suspensions \in Nat
    OBVIOUS
  <2> QED BY <2>1, <2>2, <2>3 DEF Mac!TypeOK
<1>2. Requests = {} /\ Exceptions = {}
  BY DEF Requests, Exceptions
<1>3. RequestOK /\ RaisedOK
  BY <1>2 DEF RequestOK, RaisedOK, Works, Busy
<1>4. CallersOK /\ WorkerOK
  BY DEF CallersOK, WorkerOK, Busy
<1> QED
  BY <1>1, <1>3, <1>4 DEF MacInv

\* What waits at the port is a message of a thread.
LEMMA Waiting ==
  ASSUME MacInv
  PROVE  /\ port \in Seq(Messages) /\ Len(port) \in Nat
         /\ \A i \in 1..Len(port) : port[i] \in Messages /\ port[i].from \in Threads
         /\ \A i \in Requests \cup Exceptions : port[i].from \in Threads
<1>1. port \in Seq(Messages)
  BY DEF MacInv, Mac!TypeOK, Messages
<1>2. \A m \in Messages : m.from \in Threads
  BY DEF Messages
<1> HIDE DEF Messages
<1> QED
  BY <1>1, <1>2 DEF Requests, Exceptions

\* A message joins those that wait.
LEMMA Sent ==
  ASSUME MacInv, NEW t \in Threads, NEW what \in {"dump", "exception", "shutdown"},
         ~Mac!Full, Mac!Send(what, t)
  PROVE  /\ port' \in Seq(Messages) /\ Len(port') <= QueueLimit
         /\ Len(port) \in Nat /\ Len(port') = Len(port) + 1
         /\ \A i \in 1..Len(port) : port'[i] = port[i] /\ port[i] \in Messages
         /\ port'[Len(port) + 1] = [what |-> what, from |-> t]
         /\ Requests' = Requests \cup {i \in {Len(port) + 1} : what = "dump"}
         /\ Exceptions' = Exceptions \cup {i \in {Len(port) + 1} : what = "exception"}
<1> DEFINE m == [what |-> what, from |-> t]
<1>1. port \in Seq(Messages) /\ m \in Messages /\ port' = Append(port, m)
  BY DEF MacInv, Mac!TypeOK, Messages, Mac!Send
<1>2. m.what = what
  OBVIOUS
<1> HIDE DEF m
<1>3. /\ port' \in Seq(Messages) /\ Len(port) \in Nat /\ Len(port') = Len(port) + 1
      /\ \A i \in 1..Len(port) : port'[i] = port[i] /\ port[i] \in Messages
      /\ port'[Len(port) + 1] = m
  BY <1>1
<1>4. Len(port') <= QueueLimit
  BY <1>3, HandlersAssumption DEF MacInv, Mac!TypeOK, Mac!Full
<1>5. 1..Len(port') = 1..Len(port) \cup {Len(port) + 1} /\ Len(port) + 1 \notin 1..Len(port)
  BY <1>3
<1> QED
  BY <1>2, <1>3, <1>4, <1>5 DEF Requests, Exceptions, m

\* The first one is taken.
LEMMA Received ==
  ASSUME MacInv, port # <<>>, port' = Tail(port)
  PROVE  /\ port' \in Seq(Messages) /\ Len(port') <= QueueLimit
         /\ 1 \in 1..Len(port) /\ Head(port) = port[1] /\ port[1] \in Messages
         /\ \A i \in 1..Len(port') :
              i + 1 \in 1..Len(port) /\ i + 1 # 1 /\ port'[i] = port[i + 1]
         /\ \A i, j \in 1..Len(port') : i + 1 = j + 1 => i = j
<1>1. port \in Seq(Messages) /\ Len(port) <= QueueLimit
  BY DEF MacInv, Mac!TypeOK, Messages
<1>2. PICK n \in Nat : n = Len(port) /\ n > 0
  BY <1>1
<1>3. /\ port' \in Seq(Messages) /\ Len(port') = n - 1
      /\ \A i \in 1..(n - 1) : port'[i] = port[i + 1]
      /\ Head(port) = port[1] /\ port[1] \in Messages
  BY <1>1, <1>2
<1> QED
  BY <1>1, <1>2, <1>3, HandlersAssumption

\* The constructor and the destructor.
LEMMA ObjectInv ==
  ASSUME MacInv, Mac!Setup \/ Mac!Teardown \/ Mac!SendShutdown
  PROVE  MacInv'
<1> USE HandlersAssumption DEF Mac!At, Mac!GoTo, Mac!dumpVars, Mac!workerVars, Mac!callVars
<1>1. CASE Mac!Setup
  <2> USE <1>1 DEF Mac!Setup
  <2>1. Mac!TypeOK'
    BY DEF MacInv, Mac!TypeOK
  <2>2. Requests' = Requests /\ Exceptions' = Exceptions /\ ~Busy /\ ~Busy'
    BY DEF Requests, Exceptions, Busy, MacInv, WorkerOK
  <2>3. RequestOK' /\ RaisedOK'
    BY <2>2 DEF MacInv, RequestOK, RaisedOK, Works
  <2>4. CallersOK' /\ WorkerOK'
    BY <2>2 DEF MacInv, CallersOK, WorkerOK, Busy
  <2> QED BY <2>1, <2>3, <2>4 DEF MacInv
<1>2. CASE Mac!Teardown
  <2> USE <1>2 DEF Mac!Teardown
  <2>1. Mac!TypeOK'
    BY DEF MacInv, Mac!TypeOK
  <2>2. Requests' = Requests /\ Exceptions' = Exceptions /\ (Busy' <=> Busy)
    BY DEF Requests, Exceptions, Busy
  <2>3. \A t \in Threads : t # Owner => caller'[t] = caller[t]
    BY DEF MacInv, Mac!TypeOK
  <2>4. caller'[Owner] = "teardown" /\ caller[Owner] = "run"
    BY DEF MacInv, Mac!TypeOK
  <2>5. \A i \in Requests \cup Exceptions : port[i].from \in Threads
    BY Waiting
  <2>6. Requests = {} /\ ~Works
    BY <2>5 DEF MacInv, RequestOK, WorkerOK, Works
  <2>7. RequestOK'
    BY <2>2, <2>3, <2>4, <2>6 DEF MacInv, RequestOK, Works
  <2>8. RaisedOK'
    BY <2>2, <2>3, <2>4, <2>5 DEF MacInv, RaisedOK, WorkerOK
  <2>9. CallersOK' /\ WorkerOK'
    BY <2>2, <2>3, <2>4 DEF MacInv, CallersOK, WorkerOK
  <2> QED BY <2>1, <2>7, <2>8, <2>9 DEF MacInv
<1>3. CASE Mac!SendShutdown
  <2>1. /\ caller' = [caller EXCEPT ![Owner] = "run"] /\ object' = "gone"
        /\ caller[Owner] = "teardown"
        /\ UNCHANGED <<installed, worker, message, suspensions, forwarded, writing, mutex,
                       last, answer, calls, ended>>
    BY <1>3 DEF Mac!SendShutdown
  <2>2. /\ port' \in Seq(Messages) /\ Len(port') <= QueueLimit
        /\ Requests' = Requests /\ Exceptions' = Exceptions
        /\ \A i \in Requests \cup Exceptions : port'[i] = port[i] /\ port[i].from \in Threads
    <3>1. CASE Mac!Full
      <4>1. port' = port
        BY <1>3, <3>1 DEF Mac!SendShutdown
      <4> QED BY <4>1, Waiting DEF MacInv, Mac!TypeOK, Requests, Exceptions
    <3>2. CASE ~Mac!Full
      <4>1. Mac!Send("shutdown", Owner)
        BY <1>3, <3>2 DEF Mac!SendShutdown
      <4>2. \A i \in 1..Len(port) : port[i].from \in Threads
        BY Waiting
      <4> QED BY <3>2, <4>1, <4>2, Sent DEF Requests, Exceptions
    <3> QED BY <3>1, <3>2
  <2>3. Mac!TypeOK'
    BY <2>1, <2>2 DEF MacInv, Mac!TypeOK, Messages
  <2>4. \A t \in Threads : t # Owner => caller'[t] = caller[t]
    BY <2>1 DEF MacInv, Mac!TypeOK
  <2>5. caller'[Owner] = "run"
    BY <2>1 DEF MacInv, Mac!TypeOK
  <2>6. RequestOK'
    BY <2>1, <2>2, <2>4, <2>5 DEF MacInv, RequestOK, WorkerOK, Works, Busy
  <2>7. RaisedOK'
    BY <2>1, <2>2, <2>4, <2>5 DEF MacInv, RaisedOK, WorkerOK, Busy
  <2>8. CallersOK'
    BY <2>1, <2>4, <2>5 DEF MacInv, CallersOK
  <2>9. WorkerOK'
    BY <2>1, <2>4, <2>5 DEF MacInv, WorkerOK, Busy
  <2> QED BY <2>3, <2>6, <2>7, <2>8, <2>9 DEF MacInv
<1> QED
  BY <1>1, <1>2, <1>3

\* A call of WriteMinidump, but for what it sends.
LEMMA CallInv ==
  ASSUME MacInv, NEW t \in Threads,
         Mac!WriteMinidump(t) \/ Mac!SetWriting(t) \/ Mac!Lock(t) \/ Mac!Relock(t) \/ Mac!Abort(t)
  PROVE  MacInv'
<1> USE HandlersAssumption
    DEF Mac!At, Mac!GoTo, Mac!dumpVars, Mac!workerVars, Mac!callVars,
        Mac!WriteMinidump, Mac!SetWriting, Mac!Lock, Mac!Relock, Mac!DumpIsWritten, Mac!Abort
<1>1. Mac!TypeOK'
  <2>1. caller' \in [Threads -> {"run", "set", "lock", "send", "relock", "raised", "teardown"}]
    BY DEF MacInv, Mac!TypeOK
  <2>2. answer' \in [Threads -> {"none", "true", "false"}] /\ calls' \in 0..Calls
    BY DEF MacInv, Mac!TypeOK
  <2>3. /\ {writing', mutex', last', ended'} \subseteq BOOLEAN
        /\ UNCHANGED <<object, installed, port, worker, message, suspensions, forwarded>>
    BY DEF MacInv, Mac!TypeOK
  <2> QED BY <2>1, <2>2, <2>3 DEF MacInv, Mac!TypeOK
<1>2. /\ port' = port /\ worker' = worker /\ message' = message /\ object' = object
      /\ suspensions' = suspensions /\ forwarded' = forwarded
  OBVIOUS
<1>3. /\ Requests' = Requests /\ Exceptions' = Exceptions
      /\ (Busy' <=> Busy) /\ (Works' <=> Works)
  BY <1>2 DEF Requests, Exceptions, Busy, Works
<1>4. \A u \in Threads : u # t => caller'[u] = caller[u]
  BY DEF MacInv, Mac!TypeOK
<1>5. caller[t] # "raised" /\ caller'[t] # "raised"
  BY DEF MacInv, Mac!TypeOK
<1>6. \A i \in Requests \cup Exceptions : port[i].from \in Threads
  BY Waiting
<1>7. RequestOK'
  <2>1. CASE Mac!Lock(t) \/ Mac!Relock(t)
    <3>1. ~mutex /\ mutex' /\ caller[t] \in {"lock", "relock"} /\ caller'[t] \in {"send", "run"}
      BY <2>1 DEF MacInv, Mac!TypeOK
    <3>2. Requests = {} /\ ~Works /\ \A u \in Threads : caller[u] # "send"
      BY <3>1 DEF MacInv, RequestOK
    <3> QED BY <1>3, <1>4, <3>1, <3>2 DEF RequestOK
  <2>2. CASE Mac!WriteMinidump(t) \/ Mac!SetWriting(t) \/ Mac!Abort(t)
    <3>1. /\ (mutex' <=> mutex) /\ caller[t] \in {"run", "set"}
          /\ caller'[t] \notin {"send", "relock"}
      BY <2>2 DEF MacInv, Mac!TypeOK
    <3> QED BY <1>2, <1>3, <1>4, <1>6, <3>1 DEF MacInv, RequestOK, Works, WorkerOK
  <2> QED BY <2>1, <2>2
<1>8. RaisedOK'
  BY <1>2, <1>3, <1>4, <1>5, <1>6 DEF MacInv, RaisedOK, WorkerOK
<1>9. CallersOK'
  BY <1>2, <1>4 DEF MacInv, CallersOK, Mac!TypeOK
<1>10. WorkerOK'
  BY <1>2, <1>3 DEF MacInv, WorkerOK
<1> QED
  BY <1>1, <1>7, <1>8, <1>9, <1>10 DEF MacInv

\* The request of WriteMinidump, and an exception.
LEMMA SendInv ==
  ASSUME MacInv, NEW t \in Threads, Mac!SendRequest(t) \/ Mac!Raise(t)
  PROVE  MacInv'
<1> USE HandlersAssumption
    DEF Mac!At, Mac!GoTo, Mac!dumpVars, Mac!workerVars, Mac!SendRequest, Mac!Raise
<1>2. /\ worker' = worker /\ message' = message /\ object' = object
      /\ suspensions' = suspensions /\ forwarded' = forwarded
      /\ UNCHANGED <<installed, writing, last, calls, ended>>
  OBVIOUS
<1>3. (Busy' <=> Busy) /\ (Works' <=> Works)
  BY <1>2 DEF Busy, Works
<1>4. \A u \in Threads : u # t => caller'[u] = caller[u]
  BY DEF MacInv, Mac!TypeOK
<1>5. /\ \A i \in Requests \cup Exceptions : port[i].from \in Threads
      /\ \A i \in Requests \cup Exceptions : i \in 1..Len(port)
      /\ Len(port) \in Nat
  BY Waiting DEF Requests, Exceptions
<1>6. WorkerOK'
  BY <1>2, <1>3 DEF MacInv, WorkerOK
<1>7. CASE Mac!SendRequest(t)
  <2>1. caller[t] = "send" /\ mutex /\ Requests = {} /\ ~Works
    BY <1>7 DEF MacInv, RequestOK
  <2>2. CallersOK'
    BY <1>2, <1>4, <1>7, <2>1 DEF MacInv, CallersOK, Mac!TypeOK
  <2>3. CASE Mac!Full
    <3>1. /\ port' = port /\ mutex' = FALSE /\ caller' = [caller EXCEPT ![t] = "run"]
          /\ answer' = [answer EXCEPT ![t] = "false"]
      BY <1>7, <2>3
    <3>2. Mac!TypeOK'
      BY <1>2, <3>1 DEF MacInv, Mac!TypeOK
    <3>3. Requests' = Requests /\ Exceptions' = Exceptions /\ caller'[t] = "run"
      BY <3>1 DEF Requests, Exceptions, MacInv, Mac!TypeOK
    <3>4. RequestOK'
      BY <1>3, <1>4, <2>1, <3>3 DEF MacInv, RequestOK
    <3>5. RaisedOK'
      BY <1>2, <1>3, <1>4, <1>5, <2>1, <3>1, <3>3 DEF MacInv, RaisedOK, WorkerOK
    <3> QED BY <1>6, <2>2, <3>2, <3>4, <3>5 DEF MacInv
  <2>4. CASE ~Mac!Full
    <3>1. /\ Mac!Send("dump", t) /\ (mutex' <=> mutex) /\ mutex' = mutex
          /\ caller' = [caller EXCEPT ![t] = "relock"] /\ answer' = answer
      BY <1>7, <2>4
    <3>2. /\ port' \in Seq(Messages) /\ Len(port') <= QueueLimit
          /\ \A i \in 1..Len(port) : port'[i] = port[i]
          /\ Requests' = {Len(port) + 1} /\ Exceptions' = Exceptions
          /\ port'[Len(port) + 1] = [what |-> "dump", from |-> t]
      BY <2>1, <2>4, <3>1, Sent
    <3>3. Mac!TypeOK'
      <4>1. caller' \in [Threads -> {"run", "set", "lock", "send", "relock", "raised",
                                      "teardown"}]
        BY <3>1 DEF MacInv, Mac!TypeOK
      <4> QED BY <1>2, <3>1, <3>2, <4>1 DEF MacInv, Mac!TypeOK, Messages
    <3>4. caller'[t] = "relock"
      BY <3>1 DEF MacInv, Mac!TypeOK
    <3>5. RequestOK'
      BY <1>3, <1>4, <2>1, <3>1, <3>2, <3>4 DEF MacInv, RequestOK
    <3>6. /\ \A i \in Exceptions : /\ port'[i] = port[i] /\ port[i].from \in Threads
                                   /\ port[i].from # t
          /\ Busy /\ message.what = "exception" => message.from \in Threads \ {t}
      BY <1>5, <2>1, <3>2 DEF MacInv, RaisedOK, WorkerOK
    <3>7. RaisedOK'
      BY <1>2, <1>3, <1>4, <3>2, <3>6 DEF MacInv, RaisedOK
    <3> QED BY <1>6, <2>2, <3>3, <3>5, <3>7 DEF MacInv
  <2> QED BY <2>3, <2>4
<1>8. CASE Mac!Raise(t)
  <2>1. /\ ~Mac!Full /\ Mac!Send("exception", t) /\ caller[t] = "run"
        /\ caller' = [caller EXCEPT ![t] = "raised"] /\ mutex' = mutex /\ answer' = answer
    BY <1>8
  <2>2. /\ port' \in Seq(Messages) /\ Len(port') <= QueueLimit
        /\ \A i \in 1..Len(port) : port'[i] = port[i]
        /\ Requests' = Requests /\ Exceptions' = Exceptions \cup {Len(port) + 1}
        /\ port'[Len(port) + 1] = [what |-> "exception", from |-> t]
    <3>1. /\ port' \in Seq(Messages) /\ Len(port') <= QueueLimit
          /\ \A i \in 1..Len(port) : port'[i] = port[i]
          /\ port'[Len(port) + 1] = [what |-> "exception", from |-> t]
      BY <2>1, Sent
    <3>2. /\ Requests' = Requests \cup {i \in {Len(port) + 1} : "exception" = "dump"}
          /\ Exceptions' = Exceptions \cup {i \in {Len(port) + 1} : "exception" = "exception"}
      BY <2>1, Sent
    <3>3. {i \in {Len(port) + 1} : "exception" = "dump"} = {}
      OBVIOUS
    <3> QED BY <3>1, <3>2, <3>3
  <2>3. Mac!TypeOK'
    <3>1. caller' \in [Threads -> {"run", "set", "lock", "send", "relock", "raised",
                                    "teardown"}]
      BY <2>1 DEF MacInv, Mac!TypeOK
    <3> QED BY <1>2, <2>1, <2>2, <3>1 DEF MacInv, Mac!TypeOK, Messages
  <2>4. caller'[t] = "raised"
    BY <2>1 DEF MacInv, Mac!TypeOK
  <2>5. RequestOK'
    BY <1>2, <1>3, <1>4, <1>5, <2>1, <2>2, <2>4 DEF MacInv, RequestOK, Works, WorkerOK
  <2>6. \A i \in Exceptions : port[i].from # t /\ port'[i] = port[i]
    BY <1>5, <2>1, <2>2 DEF MacInv, RaisedOK
  <2>7. Busy /\ message.what = "exception" => message.from # t /\ message.from \in Threads
    BY <2>1 DEF MacInv, RaisedOK, WorkerOK
  <2>8. RaisedOK'
    <3>1. port'[Len(port) + 1].from = t
      BY <2>2
    <3>2. \A i \in Exceptions' : caller'[port'[i].from] = "raised"
      BY <1>4, <1>5, <2>2, <2>4, <2>6, <3>1 DEF MacInv, RaisedOK
    <3>3. \A i, j \in Exceptions' : port'[i].from = port'[j].from => i = j
      BY <2>2, <2>6, <3>1 DEF MacInv, RaisedOK
    <3>4. (Busy /\ message.what = "exception")' =>
            /\ caller'[message'.from] = "raised"
            /\ \A i \in Exceptions' : port'[i].from # message'.from
      BY <1>2, <1>3, <1>4, <2>2, <2>6, <2>7, <3>1 DEF MacInv, RaisedOK
    <3> QED BY <3>2, <3>3, <3>4 DEF RaisedOK
  <2>9. CallersOK'
    BY <1>2, <1>4, <2>1, <2>4 DEF MacInv, CallersOK
  <2> QED BY <1>6, <2>3, <2>5, <2>8, <2>9 DEF MacInv
<1> QED
  BY <1>7, <1>8

\* The handler's thread, but for taking a message and forwarding an exception.
LEMMA WorkInv ==
  ASSUME MacInv,
         \/ Mac!Loop \/ Mac!SuspendThreads \/ Mac!WriteRequested \/ Mac!ResumeThreads
         \/ Mac!Unlock \/ Mac!WriteException
  PROVE  MacInv'
<1> USE DEF Mac!dumpVars, Mac!callVars, Mac!Loop, Mac!SuspendThreads, Mac!WriteRequested,
        Mac!ResumeThreads, Mac!Unlock, Mac!WriteException
<1>1. /\ UNCHANGED <<object, port, message, forwarded, caller, answer, calls>>
      /\ worker' \in {"lost", "receive", "write", "resume", "unlock", "loop", "forward"}
  BY DEF MacInv, Mac!TypeOK
<1>2. Mac!TypeOK'
  <2>1. suspensions' \in Nat
    BY DEF MacInv, Mac!TypeOK, WorkerOK
  <2>2. {installed', writing', mutex', last', ended'} \subseteq BOOLEAN
    BY DEF MacInv, Mac!TypeOK
  <2> QED BY <1>1, <2>1, <2>2 DEF MacInv, Mac!TypeOK
<1>3. Requests' = Requests /\ Exceptions' = Exceptions /\ (Busy' => Busy) /\ (Works' => Works)
  BY <1>1 DEF Requests, Exceptions, Busy, Works
<1>4. RequestOK'
  <2>1. CASE Mac!Unlock
    <3>1. Works /\ ~Works'
      BY <2>1 DEF MacInv, WorkerOK, Works, Busy
    <3>2. Requests = {} /\ \A t \in Threads : caller[t] # "send"
      BY <3>1 DEF MacInv, RequestOK
    <3> QED BY <1>1, <1>3, <3>1, <3>2 DEF RequestOK
  <2>2. CASE mutex' = mutex
    BY <1>1, <1>3, <2>2 DEF MacInv, RequestOK
  <2> QED BY <2>1, <2>2
<1>5. RaisedOK'
  BY <1>1, <1>3 DEF MacInv, RaisedOK
<1>6. CallersOK'
  BY <1>1 DEF MacInv, CallersOK
<1>7. WorkerOK'
  <2>1. suspensions \in Nat
    BY DEF MacInv, Mac!TypeOK
  <2> QED BY <1>1, <2>1 DEF MacInv, WorkerOK, Busy
<1> QED
  BY <1>2, <1>4, <1>5, <1>6, <1>7 DEF MacInv

LEMMA ReceiveInv ==
  ASSUME MacInv, Mac!Receive
  PROVE  MacInv'
<1> USE DEF Mac!dumpVars, Mac!callVars, Mac!Receive
<1>1. /\ UNCHANGED <<object, installed, forwarded, suspensions, writing, mutex, last, caller,
                     answer, calls, ended>>
      /\ worker = "receive" /\ port # <<>> /\ port' = Tail(port) /\ message' = Head(port)
      /\ worker' = IF message'.what = "shutdown" THEN "exited" ELSE "suspend"
  OBVIOUS
<1>2. /\ port' \in Seq(Messages) /\ Len(port') <= QueueLimit
      /\ 1 \in 1..Len(port) /\ message' = port[1] /\ port[1] \in Messages
      /\ \A i \in 1..Len(port') : i + 1 \in 1..Len(port) /\ i + 1 # 1 /\ port'[i] = port[i + 1]
      /\ \A i, j \in 1..Len(port') : i + 1 = j + 1 => i = j
  BY <1>1, Received
<1>3. Mac!TypeOK'
  BY <1>1, <1>2 DEF MacInv, Mac!TypeOK, Messages
<1>4. /\ \A i \in Requests' : i + 1 \in Requests /\ port'[i] = port[i + 1] /\ i + 1 # 1
      /\ \A i \in Exceptions' : i + 1 \in Exceptions /\ port'[i] = port[i + 1] /\ i + 1 # 1
      /\ \A i, j \in Requests' \cup Exceptions' : i + 1 = j + 1 => i = j
      /\ message'.what = "dump" => 1 \in Requests
      /\ message'.what = "exception" => 1 \in Exceptions
  BY <1>2 DEF Requests, Exceptions
<1>5. ~Busy /\ ~Works
  BY <1>1 DEF Busy, Works
<1>6. RequestOK'
  <2>1. Works' => 1 \in Requests /\ Requests' = {}
    BY <1>4, <1>5 DEF MacInv, RequestOK, Works
  <2>2. \A i \in Requests' : mutex /\ caller[port'[i].from] = "relock" /\ ~Works'
    BY <1>4, <2>1 DEF MacInv, RequestOK
  <2>3. (\E t \in Threads : caller[t] = "send") => Requests' = {} /\ ~Works'
    BY <1>4, <2>1 DEF MacInv, RequestOK
  <2>4. \A i, j \in Requests' : i = j
    BY <1>4 DEF MacInv, RequestOK
  <2>5. Works' => mutex /\ caller[message'.from] = "relock"
    BY <1>2, <2>1 DEF MacInv, RequestOK
  <2>6. /\ caller' = caller /\ mutex' = mutex
        /\ \A t, u \in Threads : caller[t] = "send" /\ caller[u] = "send" => t = u
        /\ (\E t \in Threads : caller[t] = "send") => mutex
    BY <1>1 DEF MacInv, RequestOK
  <2> HIDE DEF Mac!Receive, Mac!dumpVars, Mac!callVars
  <2>7. \A i \in Requests' : mutex' /\ caller'[port'[i].from] = "relock" /\ ~Works'
    BY <2>2, <2>6
  <2>8. (\E t \in Threads : caller'[t] = "send") => mutex' /\ Requests' = {} /\ ~Works'
    BY <2>3, <2>6
  <2> QED BY <2>4, <2>5, <2>6, <2>7, <2>8 DEF RequestOK
<1>7. RaisedOK'
  <2> HIDE DEF Mac!Receive
  <2>1. ASSUME NEW i \in Exceptions' PROVE caller'[port'[i].from] = "raised"
    <3>1. i + 1 \in Exceptions /\ port'[i] = port[i + 1] /\ caller' = caller
      BY <1>1, <1>4
    <3> QED BY <3>1 DEF MacInv, RaisedOK
  <2>2. ASSUME NEW i \in Exceptions', NEW j \in Exceptions', port'[i].from = port'[j].from
        PROVE  i = j
    <3>1. /\ i + 1 \in Exceptions /\ port'[i] = port[i + 1]
          /\ j + 1 \in Exceptions /\ port'[j] = port[j + 1]
      BY <1>4
    <3>2. i + 1 = j + 1
      BY <2>2, <3>1 DEF MacInv, RaisedOK
    <3> QED BY <1>4, <3>2
  <2>3. message'.what = "exception" =>
          /\ caller'[message'.from] = "raised"
          /\ \A i \in Exceptions' : port'[i].from # message'.from
    BY <1>1, <1>2, <1>4 DEF MacInv, RaisedOK
  <2> QED BY <2>1, <2>2, <2>3 DEF RaisedOK
<1>8. CallersOK'
  BY <1>1 DEF MacInv, CallersOK
<1>9. WorkerOK'
  <2>1. message'.what \in {"dump", "exception", "shutdown"} /\ message'.from \in Threads
    BY <1>2 DEF Messages
  <2> QED BY <1>1, <2>1 DEF MacInv, WorkerOK, Busy
<1> QED
  BY <1>3, <1>6, <1>7, <1>8, <1>9 DEF MacInv

\* The thread of an exception goes on.
LEMMA ForwardInv ==
  ASSUME MacInv, Mac!ForwardException
  PROVE  MacInv'
<1> USE DEF Mac!dumpVars, Mac!ForwardException, Mac!GoTo
<1>1. /\ UNCHANGED <<object, installed, port, message, suspensions, writing, mutex, last,
                     answer, calls>>
      /\ worker = "forward"
  OBVIOUS
<1>2. message.what = "exception" /\ message.from \in Threads /\ Busy
  BY <1>1 DEF MacInv, WorkerOK, Busy
<1>3. /\ caller[message.from] = "raised"
      /\ \A i \in Exceptions : port[i].from # message.from
  BY <1>2 DEF MacInv, RaisedOK
<1>4. Requests' = Requests /\ Exceptions' = Exceptions /\ ~Works
  BY <1>1, <1>2 DEF Requests, Exceptions, Works
<1>5. \A i \in Requests \cup Exceptions : port[i].from \in Threads
  BY Waiting
<1>6. CASE ended' = TRUE /\ UNCHANGED <<caller, worker, forwarded>>
  BY <1>1, <1>4, <1>6
  DEF MacInv, Mac!TypeOK, RequestOK, RaisedOK, CallersOK, WorkerOK, Works, Busy
<1>7. CASE /\ caller' = [caller EXCEPT ![message.from] = "run"]
           /\ worker' = "loop" /\ forwarded' = TRUE /\ UNCHANGED ended
  <2>1. /\ caller'[message.from] = "run"
        /\ \A t \in Threads : t # message.from => caller'[t] = caller[t]
    BY <1>2, <1>7 DEF MacInv, Mac!TypeOK
  <2>2. Mac!TypeOK'
    BY <1>1, <1>7 DEF MacInv, Mac!TypeOK
  <2>3. ~Busy' /\ ~Works'
    BY <1>7 DEF Busy, Works
  <2>4. RequestOK'
    BY <1>1, <1>2, <1>3, <1>4, <1>5, <2>1, <2>3 DEF MacInv, RequestOK
  <2>5. RaisedOK'
    BY <1>1, <1>2, <1>3, <1>4, <1>5, <2>1, <2>3 DEF MacInv, RaisedOK
  <2>6. CallersOK'
    BY <1>1, <1>2, <1>7, <2>1, HandlersAssumption DEF MacInv, CallersOK
  <2>7. WorkerOK'
    BY <1>1, <1>7, <2>3 DEF MacInv, WorkerOK
  <2> QED BY <2>2, <2>4, <2>5, <2>6, <2>7 DEF MacInv
<1> QED
  BY <1>6, <1>7

\* The invariant is inductive.
LEMMA MacStep ==
  ASSUME MacInv, [Next]_vars
  PROVE  MacInv'
<1>1. ASSUME Mac!Step PROVE MacInv'
  <2>1. CASE \E t \in Threads : Mac!WriteMinidump(t) \/ Mac!Proceed(t) \/ Mac!Raise(t)
                                \/ Mac!Abort(t)
    BY <2>1, CallInv, SendInv DEF Mac!Proceed
  <2>2. CASE Mac!Worker
    BY <2>2, WorkInv, ReceiveInv, ForwardInv DEF Mac!Worker
  <2> QED BY <1>1, <2>1, <2>2, ObjectInv DEF Mac!Step
<1>2. ASSUME UNCHANGED macVars PROVE MacInv'
  BY <1>2 DEF macVars, MacInv, Mac!TypeOK, RequestOK, RaisedOK, CallersOK, WorkerOK, Works,
     Busy, Requests, Exceptions
<1> QED
  BY <1>1, <1>2 DEF Next, OnWindows, OnMac, OnLinux, OnMalloc, vars

\* The handler's thread on macOS works at a request only while there is the object
\* it writes with, and when it waits for messages it has resumed all threads.
THEOREM WritesForTheLivingHolds == Spec => []WritesForTheLiving
<1>1. Init => MacInv
  BY MacInit
<1>2. MacInv /\ [Next]_vars => MacInv'
  BY MacStep
<1>3. MacInv => WritesForTheLiving
  <2> SUFFICES ASSUME MacInv PROVE Mac!WritesForTheLiving /\ Mac!NobodyStaysSuspended
    BY DEF WritesForTheLiving
  <2>1. Works => caller[message.from] = "relock" /\ message.from \in Threads
    BY DEF MacInv, RequestOK, WorkerOK, Works
  <2>2. Works => object = "alive"
    BY <2>1 DEF MacInv, CallersOK
  <2> QED BY <2>1, <2>2
    DEF Mac!WritesForTheLiving, Mac!NobodyStaysSuspended, Works, Busy, MacInv, WorkerOK
<1> QED
  BY <1>1, <1>2, <1>3, PTL DEF Spec

(***************************************************************************)
(* Linux: the alternate stack.  A thread has the stack that other code     *)
(* gave it last, or the one that Breakpad has installed; and as long as it *)
(* has that one, old_stack is what other code gave it (OldStackOK), so     *)
(* that what it is given back is not freed.                                *)
(***************************************************************************)

\* What is installed is alive, and is the stack that was allocated last.
LiveOK ==
  /\ Linux!OneStackLives
  /\ stack_installed => new_stack \in 1..allocated

\* A thread that has Breakpad's stack is the one that creates the handlers.
OldStackOK ==
  \A t \in Threads :
    /\ alt[t] # initial[t] => stack_installed /\ alt[t] = new_stack /\ t = Owner
    /\ stack_installed /\ alt[t] = new_stack => old_stack = initial[t]

LinuxInv == Linux!TypeOK /\ LiveOK /\ OldStackOK

LEMMA LinuxInit == Init => LinuxInv
<1> SUFFICES ASSUME Linux!Init PROVE LinuxInv
  BY DEF Init
<1>1. Allocs \in Nat
  BY HandlersAssumption
<1>2. Linux!TypeOK
  <2>1. alt \in [Threads -> Linux!Foreign \cup {None} \cup 1..Allocs]
    BY DEF Linux!Init
  <2>2. initial \in [Threads -> Linux!Foreign \cup {None}]
    BY DEF Linux!Init
  <2>3. /\ {old_stack, new_stack} \subseteq Linux!Foreign \cup {None} \cup 1..Allocs
        /\ stack_installed \in BOOLEAN /\ handlers \in 0..2
        /\ allocated \in 0..Allocs /\ live \subseteq 1..allocated
    <3>1. /\ old_stack = None /\ new_stack = None /\ stack_installed = FALSE
          /\ allocated = 0 /\ live = {} /\ handlers = 0
      BY DEF Linux!Init
    <3>2. 0 \in 0..Allocs
      BY <1>1
    <3>3. {old_stack, new_stack} \subseteq Linux!Foreign \cup {None} \cup 1..Allocs
      BY <1>1, <3>1
    <3>4. stack_installed \in BOOLEAN
      BY <3>1, Zenon
    <3>5. handlers \in 0..2
      BY <3>1
    <3>6. allocated \in 0..Allocs /\ live \subseteq 1..allocated
      BY <3>1, <3>2
    <3> QED BY <3>3, <3>4, <3>5, <3>6
  <2> QED BY <2>1, <2>2, <2>3 DEF Linux!TypeOK
<1> QED
  BY <1>2 DEF Linux!Init, LinuxInv, LiveOK, Linux!OneStackLives, OldStackOK

\* Constructing a handler: its thread exchanges what other code gave it for a stack
\* that is new.
LEMMA LinuxConstructInv ==
  ASSUME LinuxInv, Linux!Construct(Owner)
  PROVE  LinuxInv'
<1>0. /\ initial' = initial /\ handlers' \in 0..2
      /\ Owner \in Threads /\ Allocs \in Nat
      /\ \A s \in {Small, Large, None} : s \notin Nat
  BY HandlersAssumption DEF Linux!Construct, LinuxInv, Linux!TypeOK
<1>1. CASE UNCHANGED <<alt, old_stack, new_stack, stack_installed, allocated, live>>
  BY <1>0, <1>1 DEF LinuxInv, Linux!TypeOK, LiveOK, Linux!OneStackLives, OldStackOK
<1>2. CASE /\ Linux!InstallAlternateStackLocked(Owner)
           /\ ~stack_installed /\ alt[Owner] \in {None, Small}
  <2>1. /\ allocated < Allocs
        /\ allocated' = allocated + 1 /\ new_stack' = allocated' /\ old_stack' = alt[Owner]
        /\ \/ /\ alt' = [alt EXCEPT ![Owner] = new_stack']
              /\ live' = live \cup {new_stack'} /\ stack_installed' = TRUE
           \/ UNCHANGED <<alt, live, stack_installed>>
    BY <1>2 DEF Linux!InstallAlternateStackLocked
  <2>2. /\ allocated' \in 0..Allocs /\ new_stack' \in 1..Allocs /\ new_stack' \in 1..allocated'
        /\ old_stack' \in {Small, Large, None}
        /\ live = {} /\ 1..allocated \subseteq 1..allocated'
    BY <1>0, <1>2, <2>1 DEF LinuxInv, Linux!TypeOK, LiveOK, Linux!OneStackLives
  <2>3. \A u \in Threads : alt[u] = initial[u] /\ initial[u] # new_stack'
    BY <1>0, <1>2, <2>2 DEF LinuxInv, OldStackOK, Linux!TypeOK, Linux!Foreign
  <2>4. CASE UNCHANGED <<alt, live, stack_installed>>
    BY <1>0, <1>2, <2>1, <2>2, <2>3, <2>4
    DEF LinuxInv, Linux!TypeOK, Linux!Foreign, LiveOK, Linux!OneStackLives, OldStackOK
  <2>5. CASE /\ alt' = [alt EXCEPT ![Owner] = new_stack']
             /\ live' = live \cup {new_stack'} /\ stack_installed' = TRUE
    <3>1. alt'[Owner] = new_stack' /\ \A u \in Threads : u # Owner => alt'[u] = alt[u]
      BY <1>0, <2>5 DEF LinuxInv, Linux!TypeOK
    <3>2. alt' \in [Threads -> Linux!Foreign \cup {None} \cup 1..Allocs]
      BY <2>2, <2>5 DEF LinuxInv, Linux!TypeOK
    <3>3. Linux!TypeOK'
      BY <1>0, <2>2, <2>5, <3>2 DEF LinuxInv, Linux!TypeOK, Linux!Foreign
    <3>4. LiveOK'
      BY <2>2, <2>5 DEF LiveOK, Linux!OneStackLives
    <3>5. OldStackOK'
      BY <1>0, <2>1, <2>3, <2>5, <3>1 DEF OldStackOK
    <3> QED BY <3>3, <3>4, <3>5 DEF LinuxInv
  <2> QED
    BY <2>1, <2>4, <2>5
<1> QED
  BY <1>1, <1>2 DEF Linux!Construct, Linux!InstallAlternateStackLocked

\* Destroying one: what the thread is given back is not the stack that is freed.
LEMMA LinuxDestroyInv ==
  ASSUME LinuxInv, Linux!Destroy(Owner)
  PROVE  LinuxInv'
<1>0. initial' = initial /\ handlers' \in 0..2 /\ Owner \in Threads
  BY HandlersAssumption DEF Linux!Destroy, LinuxInv, Linux!TypeOK
<1>1. CASE Linux!RestoresNothing
  BY <1>0, <1>1
  DEF Linux!RestoresNothing, LinuxInv, Linux!TypeOK, LiveOK, Linux!OneStackLives, OldStackOK
<1>2. CASE Linux!RestoreAlternateStackLocked(Owner)
  <2>1. /\ stack_installed
        /\ alt' = [alt EXCEPT ![Owner] = Linux!PutBack(Owner)] /\ live' = {}
        /\ stack_installed' = FALSE /\ UNCHANGED <<old_stack, new_stack, allocated>>
    BY <1>2 DEF Linux!RestoreAlternateStackLocked, LinuxInv, LiveOK, Linux!OneStackLives
  <2>2. Linux!PutBack(Owner) = initial[Owner]
    BY <1>0, <2>1 DEF LinuxInv, OldStackOK, Linux!PutBack
  <2>3. \A u \in Threads : u # Owner => alt[u] = initial[u]
    BY DEF LinuxInv, OldStackOK
  <2>4. alt' = initial
    BY <2>1, <2>2, <2>3 DEF LinuxInv, Linux!TypeOK
  <2>5. Linux!TypeOK'
    <3>1. alt' \in [Threads -> Linux!Foreign \cup {None} \cup 1..Allocs]
      BY <2>4 DEF LinuxInv, Linux!TypeOK
    <3> QED BY <1>0, <2>1, <3>1 DEF LinuxInv, Linux!TypeOK
  <2> QED
    BY <1>0, <2>1, <2>4, <2>5 DEF LinuxInv, LiveOK, Linux!OneStackLives, OldStackOK
<1> QED
  BY <1>1, <1>2 DEF Linux!Destroy

\* Other code: the stack of a thread is then what it gave it.
LEMMA MeddleInv ==
  ASSUME LinuxInv, NEW t \in Meddlers, Linux!Meddle(t)
  PROVE  LinuxInv'
<1>1. PICK s \in {Small, Large, None} : alt' = [alt EXCEPT ![t] = s]
  BY DEF Linux!Meddle, Linux!Foreign
<1>2. t \in Threads /\ s \notin Nat
  BY HandlersAssumption
<1>3. UNCHANGED <<old_stack, new_stack, stack_installed, allocated, live, handlers>>
  BY DEF Linux!Meddle
<1>4. alt'[t] = s /\ \A u \in Threads : u # t => alt'[u] = alt[u]
  BY <1>1, <1>2 DEF LinuxInv, Linux!TypeOK
<1>5. initial' = [initial EXCEPT ![t] = s]
  BY <1>4 DEF Linux!Meddle
<1>6. initial'[t] = s /\ \A u \in Threads : u # t => initial'[u] = initial[u]
  BY <1>2, <1>5 DEF LinuxInv, Linux!TypeOK
<1>7. Linux!TypeOK'
  <2>1. alt' \in [Threads -> Linux!Foreign \cup {None} \cup 1..Allocs]
    BY <1>1 DEF LinuxInv, Linux!TypeOK, Linux!Foreign
  <2>2. initial' \in [Threads -> Linux!Foreign \cup {None}]
    BY <1>5 DEF LinuxInv, Linux!TypeOK, Linux!Foreign
  <2> QED BY <1>3, <2>1, <2>2 DEF LinuxInv, Linux!TypeOK
<1>8. stack_installed => new_stack \in Nat
  BY DEF LinuxInv, LiveOK, Linux!TypeOK
<1>9. OldStackOK'
  BY <1>2, <1>3, <1>4, <1>6, <1>8 DEF LinuxInv, OldStackOK
<1> QED
  BY <1>3, <1>7, <1>9 DEF LinuxInv, LiveOK, Linux!OneStackLives

\* The invariant is inductive.
LEMMA LinuxStep ==
  ASSUME LinuxInv, [Next]_vars
  PROVE  LinuxInv'
<1>1. ASSUME Linux!Next PROVE LinuxInv'
  BY <1>1, LinuxConstructInv, LinuxDestroyInv, MeddleInv DEF Linux!Next
<1>2. ASSUME UNCHANGED linuxVars PROVE LinuxInv'
  BY <1>2 DEF linuxVars, LinuxInv, Linux!TypeOK, LiveOK, Linux!OneStackLives, OldStackOK
<1> QED
  BY <1>1, <1>2 DEF Next, OnWindows, OnMac, OnLinux, OnMalloc, vars

\* No alternate stack is lost or freed twice, and no thread is left with one that
\* has been freed, whatever other code does to the stacks of its threads and
\* whichever calls of sigaltstack fail, as long as one thread creates and destroys
\* the handlers.
THEOREM NoFreedStackHolds == Spec => []NoFreedStack
<1>1. Init => LinuxInv
  BY LinuxInit
<1>2. LinuxInv /\ [Next]_vars => LinuxInv'
  BY LinuxStep
<1>3. LinuxInv => NoFreedStack
  BY DEF LinuxInv, LiveOK, OldStackOK, Linux!OneStackLives, Linux!NoFreedStack, NoFreedStack
<1> QED
  BY <1>1, <1>2, <1>3, PTL DEF Spec

\* Every variable has its type, on the system it belongs to.
THEOREM TypeOKHolds == Spec => []TypeOK
<1>1. Init => WindowsInv /\ MacInv /\ LinuxInv /\ HookInv
  BY WindowsInit, MacInit, LinuxInit, HookInit
<1>2. WindowsInv /\ MacInv /\ LinuxInv /\ HookInv /\ [Next]_vars =>
        WindowsInv' /\ MacInv' /\ LinuxInv' /\ HookInv'
  BY WindowsStep, MacStep, LinuxStep, HookStep
<1>3. WindowsInv /\ MacInv /\ LinuxInv /\ HookInv => TypeOK
  BY DEF WindowsInv, MacInv, LinuxInv, HookInv, TypeOK
<1> QED
  BY <1>1, <1>2, <1>3, PTL DEF Spec

(***************************************************************************)
(* Windows: the refinement of HandlerChain.  The handlers that are left    *)
(* are those up to the one that is asked (PositionIs), which is one lower  *)
(* from the moment that the latter declines.                               *)
(***************************************************************************)

\* The beginnings of a sequence.
LEMMA PrefixOf ==
  ASSUME NEW S, NEW s \in Seq(S), NEW p \in 1..Len(s)
  PROVE  /\ SubSeq(s, 1, p) # <<>> /\ Len(SubSeq(s, 1, p)) = p
         /\ SubSeq(SubSeq(s, 1, p), 1, p - 1) = SubSeq(s, 1, p - 1)
<1>1. PICK n \in Nat : n = Len(s)
  BY LenProperties
<1>2. p \in 1..n /\ p \in Int /\ p - 1 \in Int
  BY <1>1
<1>3. \A i \in 1..n : s[i] \in S
  BY <1>1, ElementOfSeq
<1>6. SubSeq(s, 1, p) \in Seq(S) /\ Len(SubSeq(s, 1, p)) = p
  <2>1. \A i \in 1..p : s[i] \in S
    BY <1>2, <1>3
  <2>2. /\ SubSeq(s, 1, p) \in Seq(S)
        /\ Len(SubSeq(s, 1, p)) = IF 1 <= p THEN p - 1 + 1 ELSE 0
    BY <1>2, <2>1, SubSeqProperties
  <2> QED BY <1>2, <2>2
<1>7. SubSeq(s, 1, p) # <<>>
  BY <1>2, <1>6, EmptySeq
<1>8. SubSeq(SubSeq(s, 1, p), 1, p - 1) = SubSeq(s, 1, p - 1)
  <2>1. CASE p = 1
    BY <2>1, SubSeqEmpty
  <2>2. CASE p # 1
    <3>1. /\ 1 \in 1..Len(s) /\ p \in 1..Len(s) /\ 1 \in 1..(p - 1 + 1)
          /\ p - 1 \in 1..(p - 1 + 1) /\ 1 + 1 - 1 = 1 /\ 1 + (p - 1) - 1 = p - 1
      BY <1>1, <1>2, <2>2
    <3>2. SubSeq(SubSeq(s, 1, p), 1, p - 1) = SubSeq(s, 1 + 1 - 1, 1 + (p - 1) - 1)
      BY <3>1, SubSeqOfSubSeq
    <3> QED BY <3>1, <3>2
  <2> QED BY <2>1, <2>2
<1> QED
  BY <1>6, <1>7, <1>8

\* Those, and the ends of a sequence.
LEMMA Prefixes ==
  ASSUME NEW S, NEW s \in Seq(S), NEW p \in 1..Len(s)
  PROVE  /\ Len(s) \in Nat
         /\ SubSeq(s, 1, Len(s)) = s
         /\ SubSeq(s, 1, 0) = <<>>
         /\ SubSeq(s, 1, p) # <<>> /\ Len(SubSeq(s, 1, p)) = p
         /\ SubSeq(SubSeq(s, 1, p), 1, p - 1) = SubSeq(s, 1, p - 1)
         /\ SubSeq(s, 1, Len(s) - 1) =
              SubSeq(s, 1, Len(s) - 1) \o SubSeq(s, Len(s) + 1, Len(s))
<1>1. PICK n \in Nat : n = Len(s)
  BY LenProperties
<1>2. n - 1 \in Int /\ n + 1 \in Int
  BY <1>1
<1>3. \A i \in 1..n : s[i] \in S
  BY <1>1, ElementOfSeq
<1>4. SubSeq(s, 1, n) = s
  BY <1>1, SubSeqFull
<1>5. SubSeq(s, 1, 0) = <<>> /\ SubSeq(s, n + 1, n) = <<>>
  BY <1>1, <1>2, SubSeqEmpty
<1>6. /\ SubSeq(s, 1, p) # <<>> /\ Len(SubSeq(s, 1, p)) = p
      /\ SubSeq(SubSeq(s, 1, p), 1, p - 1) = SubSeq(s, 1, p - 1)
  BY PrefixOf
<1>9. SubSeq(s, 1, n - 1) \in Seq(S)
  <2>1. \A i \in 1..(n - 1) : s[i] \in S
    BY <1>3
  <2> QED BY <1>2, <2>1, SubSeqProperties
<1>10. SubSeq(s, 1, n - 1) \o <<>> = SubSeq(s, 1, n - 1)
  BY <1>9, ConcatEmptySeq
<1> QED
  BY <1>1, <1>4, <1>5, <1>6, <1>10

\* An element that occurs once is chosen.
LEMMA Chosen ==
  ASSUME NEW s, NEW h, NEW p \in DOMAIN s, s[p] = h,
         \A i \in DOMAIN s : s[i] = h => i = p
  PROVE  (CHOOSE i \in DOMAIN s : s[i] = h) = p
OBVIOUS

\* While an exception asks, the handler that is asked, or that was asked last, is
\* where the index says.
LEMMA PositionIs ==
  WindowsInv /\ lock # None =>
    /\ handler_stack \in Seq(Handlers) /\ Len(handler_stack) \in Nat
    /\ Position \in 1..Len(handler_stack) /\ handler_stack[Position] = target[lock]
    /\ \A i \in 1..Len(handler_stack) : handler_stack[i] = target[lock] => i = Position
    /\ pc[lock] # "leave" => Position = Len(handler_stack) - index + 1
    /\ pc[lock] = "leave" /\ action[lock] = "search" => Position = 1
<1> SUFFICES ASSUME WindowsInv, lock # None
             PROVE  /\ Position \in 1..Len(handler_stack)
                    /\ handler_stack[Position] = target[lock]
                    /\ \A i \in 1..Len(handler_stack) :
                         handler_stack[i] = target[lock] => i = Position
                    /\ pc[lock] # "leave" => Position = Len(handler_stack) - index + 1
                    /\ pc[lock] = "leave" /\ action[lock] = "search" => Position = 1
  BY DEF WindowsInv, Windows!TypeOK
<1>1. Windows!Live(target[lock]) /\ DOMAIN handler_stack = 1..Len(handler_stack)
  BY AskedIsLive DEF WindowsInv, Windows!TypeOK
<1>2. PICK p \in 1..Len(handler_stack) : handler_stack[p] = target[lock]
  BY <1>1 DEF Windows!Live
<1>3. \A i \in 1..Len(handler_stack) : handler_stack[i] = target[lock] => i = p
  BY <1>2 DEF WindowsInv, StackOK
<1>4. Position = p
  BY <1>1, <1>2, <1>3, Chosen DEF Position
<1>5. /\ index > 0 /\ Len(handler_stack) - index + 1 \in 1..Len(handler_stack)
      /\ 1 \in 1..Len(handler_stack)
  BY AskedIsLive
<1> QED
  BY <1>2, <1>3, <1>4, <1>5 DEF WindowsInv, LockOK, Asked

LEMMA PositionIsNext ==
  WindowsInv' /\ lock' # None =>
    /\ Position' \in 1..Len(handler_stack') /\ handler_stack'[Position'] = target'[lock']
    /\ pc'[lock'] # "leave" => Position' = Len(handler_stack') - index' + 1
<1>1. (WindowsInv /\ lock # None =>
         /\ Position \in 1..Len(handler_stack) /\ handler_stack[Position] = target[lock]
         /\ pc[lock] # "leave" => Position = Len(handler_stack) - index + 1)'
  BY PositionIs, PTL
<1> QED
  BY <1>1

\* As long as the same handler is asked, it stands where it stood.
LEMMA PositionStays ==
  ASSUME WindowsInv, WindowsInv', UNCHANGED <<handler_stack, lock>>, lock # None,
         target'[lock] = target[lock]
  PROVE  Position' = Position
BY PositionIs, PositionIsNext

ToAsk == SubSeq(handler_stack, 1,
                IF Dealt \/ (pc[lock] \in {"ask", "lock", "wait"})
                THEN Position ELSE Position - 1)
Left == IF lock = None THEN <<>> ELSE ToAsk

LEMMA Stutters ==
  ASSUME WindowsInv, WindowsInv', UNCHANGED <<handler_stack, lock>>,
         lock # None => /\ target'[lock] = target[lock] /\ pc'[lock] = pc[lock]
                        /\ action'[lock] = action[lock]
  PROVE  UNCHANGED Chain!vars
<1>1. Dealt' = Dealt
  BY DEF Dealt
<1>2. lock # None => Position' = Position
  BY PositionStays
<1>3. Left' = Left
  BY <1>1, <1>2 DEF Left, ToAsk
<1> QED
  BY <1>1, <1>3 DEF Chain!vars, Left, ToAsk

\* The constructor and the destructor change the chain while nobody asks.
LEMMA ChainChanges ==
  ASSUME WindowsInv, WindowsInv', lock = None, lock' = None
  PROVE  /\ \A h \in Handlers : Windows!Initialize(h) => Chain!Join(h)
         /\ Windows!Destroy => \E h \in Handlers : Chain!Leave(h)
<1>1. ~Dealt /\ ~Dealt' /\ Dealt = FALSE /\ Dealt' = FALSE
  BY DEF Dealt
<1>2. ASSUME NEW h \in Handlers, Windows!Initialize(h) PROVE Chain!Join(h)
  <2>1. handler_stack' = Append(handler_stack, h) /\ ~Windows!Live(h)
    BY <1>2 DEF Windows!Initialize
  <2>2. DOMAIN handler_stack = 1..Len(handler_stack)
    BY DEF WindowsInv, Windows!TypeOK
  <2>3. \A i \in 1..Len(handler_stack) : handler_stack[i] # h
    BY <2>1, <2>2 DEF Windows!Live
  <2> QED BY <1>1, <2>1, <2>3 DEF Chain!Join
<1>3. ASSUME Windows!Destroy PROVE \E h \in Handlers : Chain!Leave(h)
  <2>1. PICK n \in Nat : n = Len(handler_stack)
    BY DEF WindowsInv, Windows!TypeOK
  <2>2. handler_stack \in Seq(Handlers) /\ n \in 1..n /\ handler_stack[n] \in Handlers
    BY <1>3, <2>1 DEF WindowsInv, Windows!TypeOK, Windows!Destroy
  <2>3. handler_stack' = SubSeq(handler_stack, 1, n - 1) \o SubSeq(handler_stack, n + 1, n)
    BY <1>3, <2>1, <2>2, Prefixes DEF Windows!Destroy
  <2>4. Chain!Leave(handler_stack[n])
    BY <1>1, <2>1, <2>2, <2>3 DEF Chain!Leave
  <2> QED BY <2>2, <2>4
<1> QED
  BY <1>2, <1>3

\* A handler is asked: the first one begins, a later one is left over.
LEMMA ChainBegins ==
  ASSUME WindowsInv, WindowsInv', NEW a \in Actors, Windows!AutoExceptionHandler(a)
  PROVE  [Chain!Next]_Chain!vars
<1>0. a # None /\ pc[a] = "enter" /\ lock \in {None, a}
  BY HandlersAssumption DEF Actors, Windows!AutoExceptionHandler
<1>1. CASE handler_stack = <<>>
  <2>1. UNCHANGED <<handler_stack, index, lock, pc, target, action>>
    BY <1>1 DEF Windows!AutoExceptionHandler
  <2> QED BY <2>1, Stutters
<1>2. CASE handler_stack # <<>>
  <2>1. /\ index' = index + 1 /\ lock' = a /\ UNCHANGED <<handler_stack, action>>
        /\ pc' = [pc EXCEPT ![a] = "ask"]
    BY <1>2 DEF Windows!AutoExceptionHandler, Windows!GoTo
  <2>2. pc'[a] = "ask"
    BY <2>1 DEF WindowsInv, Windows!TypeOK, Actors, Windows!Actors
  <2>3. Position' = Len(handler_stack) - (index + 1) + 1 /\ ~Dealt' /\ Dealt' = FALSE
    BY <1>0, <2>1, <2>2, PositionIsNext DEF Dealt
  <2>4. Left' = SubSeq(handler_stack, 1, Len(handler_stack) - (index + 1) + 1)
    BY <1>0, <2>1, <2>2, <2>3 DEF Left, ToAsk
  <2>5. index \in Nat /\ Len(handler_stack) \in Nat /\ handler_stack \in Seq(Handlers)
    BY AskedIsLive DEF WindowsInv, Windows!TypeOK
  <2>6. CASE lock = None
    <3>1. index = 0 /\ ~Dealt /\ Dealt = FALSE
      BY <2>6 DEF WindowsInv, LockOK, Dealt
    <3>2. Len(handler_stack) - (index + 1) + 1 = Len(handler_stack)
      BY <2>5, <3>1
    <3>3. Left' = handler_stack
      BY <2>4, <2>5, <3>2, SubSeqFull
    <3>4. Chain!Begin(a)
      BY <1>0, <2>1, <2>3, <2>6, <3>1, <3>3 DEF Chain!Begin, Left, ToAsk
    <3> QED BY <3>4 DEF Chain!Next, Actors
  <2>7. CASE lock = a
    <3>1. ~Dealt /\ Dealt = FALSE /\ Position = Len(handler_stack) - index + 1
      BY <1>0, <2>7, PositionIs DEF Dealt
    <3>2. Position - 1 = Len(handler_stack) - (index + 1) + 1
      BY <2>5, <3>1
    <3>3. Left' = Left
      BY <1>0, <2>4, <2>7, <3>1, <3>2 DEF Left, ToAsk
    <3> QED BY <2>1, <2>3, <2>7, <3>1, <3>3 DEF Chain!vars, Left, ToAsk
  <2> QED BY <1>0, <2>6, <2>7
<1> QED
  BY <1>1, <1>2

\* The handler that is asked accepts or declines.
LEMMA ChainAnswers ==
  ASSUME WindowsInv, WindowsInv', NEW a \in Actors, lock = a,
         UNCHANGED <<handler_stack, lock, target>>, pc[a] \in {"ask", "wait"}
  PROVE  /\ \/ pc'[a] = "handled"
            \/ pc'[a] = "leave" /\ action'[a] # "search"
            => Chain!Accept
         /\ pc'[a] = "declined" => Chain!Decline
<1>0. a # None
  BY HandlersAssumption DEF Actors
<1>1. /\ Position' = Position /\ Position \in 1..Len(handler_stack)
      /\ handler_stack \in Seq(Handlers)
  BY <1>0, PositionStays, PositionIs
<1>2. Left = SubSeq(handler_stack, 1, Position) /\ ~Dealt /\ Dealt = FALSE
  BY <1>0 DEF Left, ToAsk, Dealt
<1>3. /\ Left # <<>>
      /\ SubSeq(Left, 1, Len(Left) - 1) = SubSeq(handler_stack, 1, Position - 1)
  <2> DEFINE s == handler_stack
             p == Position
  <2>1. s \in Seq(Handlers) /\ p \in 1..Len(s)
    BY <1>1
  <2> HIDE DEF s, p
  <2>2. /\ SubSeq(s, 1, p) # <<>> /\ Len(SubSeq(s, 1, p)) = p
        /\ SubSeq(SubSeq(s, 1, p), 1, p - 1) = SubSeq(s, 1, p - 1)
    BY <2>1, PrefixOf
  <2>3. Left = SubSeq(s, 1, p)
    BY <1>2 DEF s, p
  <2>4. Left # <<>> /\ SubSeq(Left, 1, Len(Left) - 1) = SubSeq(s, 1, p - 1)
    BY <2>2, <2>3
  <2> QED BY <2>4 DEF s, p
<1>4. ASSUME pc'[a] = "handled" \/ (pc'[a] = "leave" /\ action'[a] # "search")
      PROVE  Chain!Accept
  <2>1. Dealt' = TRUE /\ Dealt'
    BY <1>0, <1>4 DEF Dealt
  <2>2. Left' = Left
    BY <1>0, <1>1, <1>2, <2>1 DEF Left, ToAsk
  <2> QED BY <1>0, <1>3, <2>1, <2>2 DEF Chain!Accept, Left, ToAsk
<1>5. ASSUME pc'[a] = "declined" PROVE Chain!Decline
  <2>1. ~Dealt' /\ Dealt' = FALSE
    BY <1>0, <1>5 DEF Dealt
  <2>2. Left' = SubSeq(Left, 1, Len(Left) - 1)
    BY <1>0, <1>1, <1>3, <1>5, <2>1 DEF Left, ToAsk
  <2> QED BY <1>0, <1>2, <1>3, <2>1, <2>2 DEF Chain!Decline, Left, ToAsk
<1> QED
  BY <1>4, <1>5

\* HandleException returns from one handler after the other, and from the first.
LEMMA ChainEnds ==
  ASSUME WindowsInv, WindowsInv', NEW a \in Actors, Windows!Leave(a)
  PROVE  [Chain!Next]_Chain!vars
<1>0. a # None /\ lock = a /\ pc[a] = "leave"
  BY HandlersAssumption DEF Actors, Windows!Leave, WindowsInv, ActorOK
<1>1. CASE kind[a] # "parameter" /\ index = 1
  <2>1. handler_stack' = handler_stack /\ lock' = None
    BY <1>1 DEF Windows!Leave
  <2>2. ~Dealt' /\ Dealt' = FALSE /\ Left' = <<>>
    BY <2>1 DEF Dealt, Left
  <2>3. Dealt \/ Left = <<>>
    <3>1. CASE action[a] = "search"
      <4>1. Position = 1 /\ handler_stack \in Seq(Handlers)
        BY <1>0, <3>1, PositionIs
      <4>2. ToAsk = SubSeq(handler_stack, 1, 1 - 1)
        BY <1>0, <3>1, <4>1 DEF ToAsk, Dealt
      <4> QED BY <4>2, SubSeqEmpty DEF Left
    <3>2. CASE action[a] # "search"
      BY <1>0, <3>2 DEF Dealt
    <3> QED BY <3>1, <3>2
  <2>4. Chain!End
    BY <1>0, <2>1, <2>2, <2>3 DEF Chain!End, Left, ToAsk
  <2> QED BY <2>4 DEF Chain!Next
<1>2. CASE ~(kind[a] # "parameter" /\ index = 1)
  <2>1. UNCHANGED <<handler_stack, lock, target, pc, action>>
    BY <1>2 DEF Windows!Leave, Windows!stackVars, Windows!threadVars
  <2> QED BY <2>1, Stutters
<1> QED
  BY <1>1, <1>2

\* What an exception does between two handlers, or a call of WriteMinidump, does
\* not change what is left.
LEMMA ChainProceeds ==
  ASSUME WindowsInv, WindowsInv', NEW a \in Actors, Windows!Proceed(a)
  PROVE  [Chain!Next]_Chain!vars
<1> USE DEF Windows!stackVars, Windows!rendezvous, Windows!GoTo
<1>0. a # None /\ pc \in [Actors -> {"none", "run", "idle", "working", "enter", "ask", "lock",
                                     "wait", "handled", "declined", "leave"}]
  BY HandlersAssumption DEF WindowsInv, Windows!TypeOK, Actors, Windows!Actors
<1>1. CASE Windows!Consume(a) \/ Windows!Ask(a)
  <2>1. /\ UNCHANGED <<handler_stack, lock, target>> /\ pc[a] = "ask" /\ lock = a
        /\ \/ pc'[a] = "leave" /\ action'[a] # "search"
           \/ pc'[a] = "declined"
           \/ pc'[a] = "lock" /\ action' = action
    BY <1>0, <1>1 DEF Windows!Consume, Windows!Ask, WindowsInv, ActorOK, Windows!TypeOK,
       Actors, Windows!Actors
  <2>2. CASE pc'[a] = "lock" /\ action' = action
    <3>1. Position' = Position
      BY <1>0, <2>1, PositionStays
    <3>2. Dealt = FALSE /\ Dealt' = FALSE /\ Left' = Left
      BY <1>0, <2>1, <2>2, <3>1 DEF Dealt, Left, ToAsk
    <3> QED BY <2>1, <3>2 DEF Chain!vars, Left, ToAsk
  <2>3. CASE pc'[a] # "lock"
    BY <2>1, <2>3, ChainAnswers DEF Chain!Next
  <2> QED BY <2>1, <2>2, <2>3
<1>2. CASE Windows!Handled(a) \/ Windows!NextInChain(a)
  <2>0. lock = a /\ action \in [Actors -> {"none", "continue", "execute", "search"}]
    BY <1>2 DEF Windows!Handled, Windows!NextInChain, WindowsInv, ActorOK, Windows!TypeOK,
       Actors, Windows!Actors
  <2>1. /\ UNCHANGED <<handler_stack, lock, target>>
        /\ \/ pc[a] = "handled" /\ pc'[a] = "leave" /\ action'[a] # "search"
           \/ /\ pc[a] = "declined"
              /\ pc'[a] = "enter" \/ (pc'[a] = "leave" /\ action'[a] = "search")
    <3>1. CASE Windows!Handled(a)
      BY <1>0, <2>0, <3>1 DEF Windows!Handled
    <3>2. CASE Windows!NextInChain(a)
      BY <1>0, <2>0, <3>2 DEF Windows!NextInChain
    <3> QED BY <1>2, <3>1, <3>2
  <2>2. Position' = Position
    BY <1>0, <2>0, <2>1, PositionStays
  <2>3. Dealt' = Dealt
    BY <1>0, <2>0, <2>1 DEF Dealt
  <2>4. Left' = Left
    BY <1>0, <2>0, <2>1, <2>2, <2>3 DEF Dealt, Left, ToAsk
  <2> QED BY <2>1, <2>3, <2>4 DEF Chain!vars, Left, ToAsk
<1>3. CASE Windows!Request(a) \/ Windows!Collect(a)
  <2>1. UNCHANGED <<handler_stack, lock, target, action>>
    BY <1>3 DEF Windows!Request, Windows!Collect
  <2>2. CASE lock # a
    <3>1. lock # None => pc'[lock] = pc[lock]
      BY <1>0, <1>3, <2>2 DEF Windows!Request, Windows!Collect, WindowsInv, Windows!TypeOK,
         Actors, Windows!Actors
    <3> QED BY <2>1, <3>1, Stutters
  <2>3. CASE lock = a /\ Windows!Request(a)
    <3>1. pc[a] = "lock" /\ pc'[a] = "wait"
      BY <1>0, <2>3 DEF Windows!Request
    <3>2. Position' = Position
      BY <1>0, <2>1, <2>3, PositionStays
    <3>3. Dealt = FALSE /\ Dealt' = FALSE /\ Left' = Left
      BY <1>0, <2>1, <2>3, <3>1, <3>2 DEF Dealt, Left, ToAsk
    <3> QED BY <2>1, <3>3 DEF Chain!vars, Left, ToAsk
  <2>4. CASE lock = a /\ Windows!Collect(a)
    <3>1. kind[a] # "user"
      BY <1>0, <2>4 DEF WindowsInv, LockOK, Raised
    <3>2. pc[a] = "wait" /\ pc'[a] \in {"handled", "declined"}
      BY <1>0, <2>4, <3>1 DEF Windows!Collect
    <3> QED BY <2>1, <2>4, <3>2, ChainAnswers DEF Chain!Next
  <2> QED BY <1>3, <2>2, <2>3, <2>4
<1> QED
  BY <1>1, <1>2, <1>3, ChainBegins, ChainEnds DEF Windows!Proceed

\* What the others do: an exception is raised, a dump is asked for, or made.
LEMMA ChainWaits ==
  ASSUME WindowsInv, WindowsInv',
         \/ \E a \in Actors, k \in Windows!Kinds : Windows!Raise(a, k)
         \/ \E t \in WindowsThreads, h \in Handlers : Windows!WriteMinidump(t, h)
         \/ \E h \in Handlers : Windows!HandlerThread(h)
  PROVE  UNCHANGED Chain!vars
<1> USE DEF Windows!stackVars, Windows!rendezvous, Windows!threadVars, Windows!GoTo
<1>1. UNCHANGED <<handler_stack, lock>>
  BY DEF Windows!Raise, Windows!WriteMinidump, Windows!HandlerThread, Windows!Begin,
     Windows!Finish
<1>2. PICK a \in Actors : /\ pc[a] \in {"run", "idle", "working"} /\ action' = action
                          /\ \A b \in Actors : b # a => pc'[b] = pc[b] /\ target'[b] = target[b]
  BY DEF Windows!Raise, Windows!WriteMinidump, Windows!HandlerThread, Windows!Begin,
     Windows!Finish, WindowsInv, Windows!TypeOK, Actors, Windows!Actors
<1>3. lock # None => lock # a /\ lock \in Actors
  BY <1>2 DEF WindowsInv, LockOK, Windows!TypeOK, Actors, Windows!Actors
<1> QED
  BY <1>1, <1>2, <1>3, Stutters

\* handler_stack_index_ and the filters that the handlers have found ask the
\* handlers as HandlerChain promises: the newest first, skipping none, until one has
\* dealt with the exception.
THEOREM ImplementsChainHolds == Spec => ImplementsChain
<1>1. Init => WindowsInv
  BY WindowsInit
<1>2. WindowsInv /\ [Next]_vars => WindowsInv'
  BY WindowsStep
<1>3. Init => Chain!Init
  BY DEF Init, Windows!Init, Windows!InitHandlers, Chain!Init, Dealt
<1>4. WindowsInv /\ WindowsInv' /\ [Next]_vars => [Chain!Next]_Chain!vars
  <2> SUFFICES ASSUME WindowsInv, WindowsInv', [Next]_vars PROVE [Chain!Next]_Chain!vars
    OBVIOUS
  <2>1. ASSUME Windows!Step PROVE [Chain!Next]_Chain!vars
    <3>1. CASE \E h \in Handlers : Windows!Initialize(h)
      <4>1. lock = None /\ lock' = None
        BY <3>1 DEF Windows!Initialize
      <4> QED BY <3>1, <4>1, ChainChanges DEF Chain!Next
    <3>2. CASE Windows!Destroy
      <4>1. lock = None /\ lock' = None
        BY <3>2 DEF Windows!Destroy
      <4> QED BY <3>2, <4>1, ChainChanges DEF Chain!Next
    <3> QED
      BY <2>1, <3>1, <3>2, ChainProceeds, ChainWaits
      DEF Windows!Step, Actors, Windows!Actors
  <2>2. CASE UNCHANGED windowsVars
    BY <2>2, Stutters DEF windowsVars
  <2> QED
    BY <2>1, <2>2 DEF Next, OnWindows, OnMac, OnLinux, OnMalloc, vars
<1> QED
  BY <1>1, <1>2, <1>3, <1>4, PTL DEF Spec, ImplementsChain, Chain!Spec

=============================================================================
