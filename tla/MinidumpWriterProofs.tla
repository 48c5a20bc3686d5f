------------------------ MODULE MinidumpWriterProofs ------------------------
(***************************************************************************)
(* Theorems about MinidumpWriter, for any threads, as long as there are    *)
(* finitely many, and any number of dumps at the same time.                *)
(*                                                                         *)
(* The argument: a dumper works along threads_ three times, and the loop   *)
(* variable tells which of the threads in it are held, stopped and traced  *)
(* by this very dumper, or gone (DumperOK).  A thread that is traced and   *)
(* still runs is the one that its dumper waits for, and the SIGSTOP of the *)
(* attach is pending only there, unless another signal came first          *)
(* (ThreadOK).                                                             *)
(***************************************************************************)
EXTENDS MinidumpWriter, SequenceTheorems, FiniteSetTheorems, TLAPS

\* As much of the types as the proofs need.
Types ==
  /\ thread \in [Threads -> ThreadStates]
  /\ tracer \in [Threads -> Dumpers \cup {None}]
  /\ pending \in [Threads -> SUBSET {"stop", "signal"}]
  /\ pc \in [Dumpers -> Places]
  /\ threads \in [Dumpers -> Seq(Threads)]
  /\ k \in [Dumpers -> Nat \ {0}]
  /\ suspended \in [Dumpers -> BOOLEAN]

Held(d, t) == thread[t] = "gone" \/ (thread[t] = "stopped" /\ tracer[t] = d)

\* A dumper lists threads of the process, none of them twice.
ListOK(d) ==
  \A i \in 1..Len(threads[d]) :
    /\ thread[threads[d][i]] # "absent"
    /\ \A j \in 1..Len(threads[d]) : threads[d][i] = threads[d][j] => i = j

\* Which of the threads in its list a dumper holds.
Holds(d) ==
  {i \in 1..Len(threads[d]) :
     \/ pc[d] \in {"suspend", "wait"} /\ i < k[d]
     \/ pc[d] \in {"open", "list"}
     \/ pc[d] = "dtor" /\ suspended[d]
     \/ pc[d] = "resume" /\ i >= k[d]}

DumperOK(d) ==
  /\ ListOK(d)
  /\ \A i \in Holds(d) : Held(d, threads[d][i])
  /\ pc[d] = "init" => k[d] = 1
  /\ pc[d] = "wait" => More(d) /\ (thread[Current(d)] = "gone" \/ tracer[Current(d)] = d)
  /\ suspended[d] => pc[d] \in {"open", "list", "dtor", "resume"}

\* Nobody is stopped without a tracer; what is traced and runs is waited for; and
\* the SIGSTOP of an attach is pending only then.
ThreadOK(t) ==
  /\ thread[t] = "stopped" => tracer[t] # None
  /\ thread[t] = "absent" => tracer[t] = None /\ pending[t] = {}
  /\ tracer[t] # None => pc[tracer[t]] # "done"
  /\ thread[t] = "running" /\ tracer[t] # None =>
       pc[tracer[t]] = "wait" /\ Current(tracer[t]) = t
  /\ "stop" \in pending[t] => t \in robbed \/ (thread[t] = "running" /\ tracer[t] # None)

FrozenOK == frozen => robbed # {}

IInv ==
  /\ Types
  /\ \A d \in Dumpers : DumperOK(d)
  /\ \A t \in Threads : ThreadOK(t)
  /\ FrozenOK

\* What SetToSeq makes of a finite set lists its elements, each of them once.
LEMMA Listing ==
  ASSUME NEW S, IsFiniteSet(S)
  PROVE  /\ SetToSeq(S) \in Seq(S)
         /\ \A i, j \in 1..Len(SetToSeq(S)) : SetToSeq(S)[i] = SetToSeq(S)[j] => i = j
<1> DEFINE n == Cardinality(S)
<1>1. n \in Nat /\ ExistsBijection(1..n, S)
  BY FS_CardinalityType
<1>2. PICK f \in [1..n -> S] : \A i, j \in 1..n : f[i] = f[j] => i = j
  BY <1>1 DEF ExistsBijection, Bijection, Injection, IsInjective
<1>3. f \in [1..n -> S] /\ IsInjective(f)
  BY <1>2 DEF IsInjective
<1>4. SetToSeq(S) \in [1..n -> S] /\ IsInjective(SetToSeq(S))
  BY <1>3 DEF SetToSeq
<1> HIDE DEF n
<1>5. SetToSeq(S) \in Seq(S) /\ Len(SetToSeq(S)) = n
  BY <1>1, <1>4
<1> QED
  BY <1>4, <1>5 DEF IsInjective

\* What a dumper lists are threads of the process.
LEMMA Lists ==
  ASSUME Types, NEW d \in Dumpers
  PROVE  /\ Len(threads[d]) \in Nat
         /\ k[d] \in Nat /\ k[d] >= 1
         /\ \A i \in 1..Len(threads[d]) : threads[d][i] \in Threads
         /\ More(d) => k[d] \in 1..Len(threads[d]) /\ Current(d) \in Threads
BY DEF Types, More, Current

\* A dumper that takes no step loses nothing when what it holds stays as it is.
LEMMA Undisturbed ==
  ASSUME Types, NEW d \in Dumpers, DumperOK(d),
         pc'[d] = pc[d], threads'[d] = threads[d], k'[d] = k[d],
         suspended'[d] = suspended[d],
         \A t \in Threads :
           /\ thread[t] # "absent" => thread'[t] # "absent"
           /\ Held(d, t) => Held(d, t)'
           /\ tracer[t] = d => tracer'[t] = d \/ thread'[t] = "gone"
  PROVE  DumperOK(d)'
<1>1. ListOK(d)'
  BY Lists DEF DumperOK, ListOK
<1>2. Holds(d)' = Holds(d)
  BY DEF Holds
<1>3. \A i \in Holds(d) : Held(d, threads[d][i])'
  BY Lists DEF DumperOK, Holds
<1>4. More(d)' = More(d) /\ Current(d)' = Current(d)
  BY DEF More, Current
<1>5. \A t \in Threads : thread[t] = "gone" => thread'[t] = "gone" \/ tracer'[t] = d
  BY DEF Held
<1> QED
  BY <1>1, <1>2, <1>3, <1>4, <1>5, Lists DEF DumperOK, Held

\* The threads and the kernel: a thread starts, runs, stops under its tracer, and
\* has gone.
LEMMA TargetKeepsDumpers ==
  ASSUME IInv, UNCHANGED dumper, tracer' = tracer,
         \A t \in Threads : \/ thread'[t] = thread[t]
                            \/ thread[t] = "running" /\ thread'[t] \in {"stopped", "gone"}
                            \/ thread[t] = "absent" /\ thread'[t] = "running"
  PROVE  \A d \in Dumpers : DumperOK(d)'
<1> SUFFICES ASSUME NEW d \in Dumpers PROVE DumperOK(d)'
  OBVIOUS
<1>1. \A t \in Threads :
        /\ thread[t] # "absent" => thread'[t] # "absent"
        /\ Held(d, t) => Held(d, t)'
        /\ tracer[t] = d => tracer'[t] = d \/ thread'[t] = "gone"
  BY DEF Held
<1> QED
  BY <1>1, Undisturbed DEF IInv, dumper

\* The first thread of a dump is not stopped, and nothing is pending.
LEMMA InitInv == Init /\ WriterAssumption => IInv
<1> SUFFICES ASSUME Init, WriterAssumption PROVE IInv
  OBVIOUS
<1>1. \A d \in Dumpers : threads[d] = <<>> /\ threads[d] \in Seq(Threads) /\ Len(threads[d]) = 0
  BY DEF Init
<1>2. Types
  BY <1>1 DEF Init, Types, ThreadStates, Places
<1>3. \A d \in Dumpers : DumperOK(d)
  BY <1>1 DEF Init, DumperOK, ListOK, Holds
<1>4. (\A t \in Threads : ThreadOK(t)) /\ FrozenOK
  BY DEF Init, ThreadOK, FrozenOK
<1> QED
  BY <1>2, <1>3, <1>4 DEF IInv

\* A thread that starts one, exits, or gets a signal.
LEMMA ThreadStepInv ==
  ASSUME IInv, NEW t \in Threads, ThreadStep(t)
  PROVE  IInv'
<1> USE DEF ThreadStep, Spawn, Exit, Signal, Runs, dumper
<1>1. Types'
  BY DEF IInv, Types, ThreadStates
<1>2. \A d \in Dumpers : DumperOK(d)'
  <2>1. \A u \in Threads : \/ thread'[u] = thread[u]
                           \/ thread[u] = "running" /\ thread'[u] \in {"stopped", "gone"}
                           \/ thread[u] = "absent" /\ thread'[u] = "running"
    BY DEF IInv, Types
  <2> QED BY <2>1, TargetKeepsDumpers
<1>3. ASSUME NEW u \in Threads PROVE ThreadOK(u)'
  <2>1. ThreadOK(u)
    BY DEF IInv
  <2>2. CASE Signal(t)
    BY <2>1, <2>2 DEF IInv, Types, ThreadOK, Current
  <2>3. CASE Exit(t)
    BY <2>1, <2>3 DEF IInv, Types, ThreadOK, Current
  <2>4. CASE \E v \in Threads : Spawn(t, v)
    BY <2>1, <2>4 DEF IInv, Types, ThreadOK, Current
  <2> QED BY <2>2, <2>3, <2>4
<1>4. FrozenOK'
  BY DEF IInv, FrozenOK
<1> QED
  BY <1>1, <1>2, <1>3, <1>4 DEF IInv

\* A thread that stops under its tracer: at the SIGSTOP, or at another signal,
\* which it loses.
LEMMA StopInv ==
  ASSUME IInv, NEW t \in Threads, Stop(t)
  PROVE  IInv'
<1>1. Types'
  BY DEF Stop, dumper, IInv, Types, ThreadStates
<1>2. \A d \in Dumpers : DumperOK(d)'
  <2>1. \A u \in Threads : \/ thread'[u] = thread[u]
                           \/ thread[u] = "running" /\ thread'[u] \in {"stopped", "gone"}
    BY DEF Stop, IInv, Types
  <2> QED BY <2>1, TargetKeepsDumpers DEF Stop
<1>3. ASSUME NEW u \in Threads PROVE ThreadOK(u)'
  <2>1. ThreadOK(u) /\ pending[u] \subseteq {"stop", "signal"}
    BY DEF IInv, Types
  <2>2. CASE u = t
    <3>1. thread'[t] = "stopped" /\ tracer'[t] = tracer[t] /\ tracer[t] # None
      BY DEF Stop, IInv, Types
    <3>2. pc' = pc
      BY DEF Stop, dumper
    <3>3. "stop" \in pending'[t] => t \in robbed'
      BY DEF Stop, IInv, Types
    <3> QED BY <2>1, <2>2, <3>1, <3>2, <3>3 DEF ThreadOK
  <2>3. CASE u # t
    <3>1. thread'[u] = thread[u] /\ tracer'[u] = tracer[u] /\ pending'[u] = pending[u]
      BY <2>3 DEF Stop, IInv, Types
    <3>2. robbed \subseteq robbed' /\ pc' = pc /\ threads' = threads /\ k' = k
      BY DEF Stop, dumper
    <3> QED BY <2>1, <3>1, <3>2 DEF ThreadOK, Current
  <2> QED BY <2>2, <2>3
<1>4. FrozenOK'
  BY DEF Stop, IInv, FrozenOK
<1> QED
  BY <1>1, <1>2, <1>3, <1>4 DEF IInv

\* An untraced thread that handles a signal: if it is a SIGSTOP, then one that
\* another signal kept from being taken by its dumper.
LEMMA HandleInv ==
  ASSUME IInv, NEW t \in Threads, Handle(t)
  PROVE  IInv'
<1>1. Types'
  BY DEF Handle, dumper, IInv, Types
<1>2. \A d \in Dumpers : DumperOK(d)'
  BY TargetKeepsDumpers DEF Handle
<1>3. ASSUME NEW u \in Threads PROVE ThreadOK(u)'
  <2>1. ThreadOK(u)
    BY DEF IInv
  <2>2. pending'[u] \subseteq pending[u]
    BY DEF Handle, IInv, Types
  <2> QED BY <2>1, <2>2 DEF Handle, dumper, ThreadOK, Current
<1>4. FrozenOK'
  BY DEF Handle, IInv, FrozenOK, ThreadOK, Runs
<1> QED
  BY <1>1, <1>2, <1>3, <1>4 DEF IInv

\* What is the same for all dumpers but the one that takes a step.
Alone(d) == \A e \in Dumpers \ {d} :
  /\ pc'[e] = pc[e] /\ threads'[e] = threads[e]
  /\ k'[e] = k[e] /\ suspended'[e] = suspended[e]

\* A step of one dumper that touches no thread: it does not end the dumper, and it
\* stops waiting only for a thread that does not run.
LEMMA QuietStep ==
  ASSUME IInv, NEW d \in Dumpers, UNCHANGED target, Alone(d), Types', DumperOK(d)',
         pc'[d] # "done",
         pc[d] = "wait" => thread[Current(d)] # "running"
  PROVE  IInv'
<1>1. ASSUME NEW e \in Dumpers \ {d} PROVE DumperOK(e)'
  <2>1. \A t \in Threads : Held(e, t)' <=> Held(e, t)
    BY DEF Held, target
  <2> QED BY <2>1, Undisturbed DEF IInv, Alone, target
<1>2. ASSUME NEW t \in Threads PROVE ThreadOK(t)'
  <2>1. ThreadOK(t) /\ tracer[t] \in Dumpers \cup {None}
    BY DEF IInv, Types
  <2>2. CASE tracer[t] = d
    BY <2>1, <2>2 DEF ThreadOK, target
  <2>3. CASE tracer[t] # d
    BY <2>1, <2>3 DEF ThreadOK, target, Alone, Current
  <2> QED BY <2>2, <2>3
<1>3. FrozenOK'
  BY DEF IInv, FrozenOK, target
<1> QED
  BY <1>1, <1>2, <1>3 DEF IInv

\* A failing step goes to the destructor, which lets go of the threads if they had
\* all been suspended.
LEMMA FailInv ==
  ASSUME IInv, NEW d \in Dumpers, NEW why, Fail(d, why), pc[d] \in {"init", "open", "list"}
  PROVE  IInv'
<1>1. Types' /\ Alone(d)
  BY DEF Fail, Goto, target, IInv, Types, Places, Alone
<1>2. pc'[d] = "dtor" /\ k' = k /\ threads' = threads /\ suspended' = suspended
  BY DEF Fail, Goto, IInv, Types
<1>3. Holds(d)' \subseteq Holds(d)
  BY <1>2 DEF Holds, IInv, DumperOK
<1>4. DumperOK(d)'
  BY <1>2, <1>3 DEF Fail, target, IInv, DumperOK, ListOK, Held, Holds, More, Current
<1> QED
  BY <1>1, <1>2, <1>4, QuietStep DEF Fail

\* The threads are listed.
LEMMA DumperInitInv ==
  ASSUME IInv, IsFiniteSet(Threads), NEW d \in Dumpers, DumperInit(d)
  PROVE  IInv'
<1>1. CASE Fail(d, "io")
  BY <1>1, FailInv DEF DumperInit
<1>2. CASE /\ threads' = [threads EXCEPT ![d] = SetToSeq(Alive)]
           /\ Goto(d, "suspend")
           /\ UNCHANGED <<target, k, suspended, recorded, context, result, cause>>
  <2>1. Alive \subseteq Threads /\ IsFiniteSet(Alive)
    BY FS_Subset DEF Alive
  <2>2. /\ SetToSeq(Alive) \in Seq(Alive)
        /\ \A i, j \in 1..Len(SetToSeq(Alive)) :
             SetToSeq(Alive)[i] = SetToSeq(Alive)[j] => i = j
    BY <2>1, Listing
  <2> DEFINE list == SetToSeq(Alive)
  <2> HIDE DEF list
  <2>3. list \in Seq(Threads) /\ Len(list) \in Nat /\ \A i \in 1..Len(list) : list[i] \in Alive
    BY <2>1, <2>2 DEF list
  <2>4. threads' = [threads EXCEPT ![d] = list]
    BY <1>2 DEF list
  <2>5. Types' /\ Alone(d)
    BY <1>2, <2>3, <2>4 DEF Goto, target, IInv, Types, Places, Alone
  <2>6. /\ pc'[d] = "suspend" /\ threads'[d] = list
        /\ k'[d] = 1 /\ suspended'[d] = FALSE /\ thread' = thread
    BY <1>2, <2>4 DEF DumperInit, Goto, target, IInv, Types, DumperOK
  <2>7. ListOK(d)'
    BY <2>2, <2>3, <2>6 DEF ListOK, Alive, list
  <2>8. Holds(d)' = {}
    BY <2>3, <2>6 DEF Holds
  <2>9. DumperOK(d)'
    BY <2>6, <2>7, <2>8 DEF DumperOK
  <2> QED BY <1>2, <2>5, <2>6, <2>9, QuietStep DEF DumperInit
<1> QED
  BY <1>1, <1>2 DEF DumperInit

\* What is left of a sequence is what was below the i-th element, and what was
\* above it moved down by one.
LEMMA ErasedAt ==
  ASSUME NEW S, NEW s \in Seq(S), NEW i \in 1..Len(s)
  PROVE  LET r == SubSeq(s, 1, i - 1) \o SubSeq(s, i + 1, Len(s))
         IN  /\ r \in Seq(S) /\ Len(r) = Len(s) - 1
             /\ \A j \in 1..(Len(s) - 1) : r[j] = IF j < i THEN s[j] ELSE s[j + 1]
<1> DEFINE below == SubSeq(s, 1, i - 1)
           above == SubSeq(s, i + 1, Len(s))
<1>1. Len(s) \in Nat
  OBVIOUS
<1>2. below \in Seq(S) /\ Len(below) = i - 1 /\ \A j \in 1..(i - 1) : below[j] = s[j]
  BY <1>1
<1>3. above \in Seq(S) /\ Len(above) = Len(s) - i /\ \A j \in 1..(Len(s) - i) : above[j] = s[i + j]
  BY <1>1
<1> HIDE DEF below, above
<1>4. below \o above \in Seq(S) /\ Len(below \o above) = Len(s) - 1
  <2>1. below \o above \in Seq(S) /\ Len(below \o above) = Len(below) + Len(above)
    BY <1>2, <1>3, ConcatProperties
  <2> QED BY <1>1, <1>2, <1>3, <2>1
<1>5. ASSUME NEW j \in 1..(Len(s) - 1)
      PROVE  (below \o above)[j] = IF j < i THEN s[j] ELSE s[j + 1]
  BY <1>1, <1>2, <1>3
<1> QED BY <1>4, <1>5 DEF below, above

\* A thread that cannot be attached to is dropped: those below it stay where they
\* are, and those above move down by one.
LEMMA AttachFailsInv ==
  ASSUME IInv, NEW d \in Dumpers, AttachFails(d)
  PROVE  IInv'
<1> DEFINE list == threads[d]
           rest == SubSeq(list, 1, k[d] - 1) \o SubSeq(list, k[d] + 1, Len(list))
<1>1. list \in Seq(Threads) /\ Len(list) \in Nat /\ k[d] \in 1..Len(list) /\ pc[d] = "suspend"
  BY Lists DEF AttachFails, IInv, Types
<1>2. threads' = [threads EXCEPT ![d] = rest]
  BY DEF AttachFails, Drop, RemoveAt
<1> HIDE DEF rest
<1>3. /\ rest \in Seq(Threads) /\ Len(rest) = Len(list) - 1
      /\ \A j \in 1..(Len(list) - 1) : rest[j] = IF j < k[d] THEN list[j] ELSE list[j + 1]
  BY <1>1, ErasedAt DEF rest
<1>4. Types' /\ Alone(d)
  BY <1>2, <1>3 DEF AttachFails, Drop, target, IInv, Types, Alone
<1>5. /\ threads'[d] = rest /\ k'[d] = k[d] /\ pc'[d] = "suspend"
      /\ suspended'[d] = suspended[d] /\ UNCHANGED target
  BY <1>1, <1>2 DEF AttachFails, Drop, IInv, Types
<1>6. ListOK(d)'
  <2>1. ASSUME NEW i \in 1..Len(rest)
        PROVE  /\ (IF i < k[d] THEN i ELSE i + 1) \in 1..Len(list)
               /\ rest[i] = list[IF i < k[d] THEN i ELSE i + 1]
    BY <1>1, <1>3
  <2>2. \A i, j \in 1..Len(list) : list[i] = list[j] => i = j
    BY DEF IInv, DumperOK, ListOK
  <2>3. \A i \in 1..Len(list) : thread[list[i]] # "absent"
    BY DEF IInv, DumperOK, ListOK
  <2>4. ASSUME NEW i \in 1..Len(rest), NEW j \in 1..Len(rest), rest[i] = rest[j]
        PROVE  i = j
    <3>1. (IF i < k[d] THEN i ELSE i + 1) = (IF j < k[d] THEN j ELSE j + 1)
      BY <2>1, <2>2, <2>4
    <3> QED BY <1>1, <1>3, <3>1
  <2> HIDE DEF list
  <2>5. \A i \in 1..Len(rest) : thread[rest[i]] # "absent"
    BY <2>1, <2>3
  <2> QED BY <1>5, <2>4, <2>5 DEF ListOK, target
<1>7. ASSUME NEW i \in Holds(d)' PROVE i \in Holds(d) /\ rest[i] = list[i]
  BY <1>1, <1>3, <1>5 DEF Holds
<1>8. DumperOK(d)'
  BY <1>1, <1>5, <1>6, <1>7 DEF IInv, DumperOK, Held, target
<1> QED
  BY <1>1, <1>4, <1>5, <1>8, QuietStep

\* A dumper keeps its list and what it holds of it.
LEMMA KeepsList ==
  ASSUME IInv, NEW d \in Dumpers, UNCHANGED target, threads'[d] = threads[d],
         \A i \in Holds(d)' : Held(d, threads[d][i]),
         pc'[d] \notin {"init", "wait"},
         suspended'[d] => pc'[d] \in {"open", "list", "dtor", "resume"}
  PROVE  DumperOK(d)'
<1>1. ListOK(d)'
  BY DEF IInv, DumperOK, ListOK, target
<1> QED
  BY <1>1 DEF DumperOK, Held, target

\* The thread that is waited for has stopped, or gone: it is held.
LEMMA WaitedInv ==
  ASSUME IInv, NEW d \in Dumpers, Waited(d)
  PROVE  IInv'
<1>1. Types' /\ Alone(d)
  BY DEF Waited, Advance, Goto, target, IInv, Types, Places, Alone
<1>2. /\ pc'[d] = "suspend" /\ k'[d] = k[d] + 1 /\ threads'[d] = threads[d]
      /\ suspended'[d] = suspended[d] /\ UNCHANGED target
      /\ pc[d] = "wait" /\ thread[Current(d)] \in {"stopped", "gone"}
  BY DEF Waited, Advance, Goto, IInv, Types
<1>3. Held(d, Current(d))
  BY <1>2 DEF IInv, DumperOK, Held
<1>4. ASSUME NEW i \in Holds(d)' PROVE Held(d, threads[d][i])
  <2>1. i = k[d] \/ i \in Holds(d)
    BY <1>2, Lists DEF Holds, IInv
  <2> QED BY <1>3, <2>1 DEF IInv, DumperOK, Current
<1>5. DumperOK(d)'
  BY <1>2, <1>4, KeepsList DEF IInv, DumperOK
<1> QED
  BY <1>1, <1>2, <1>5, QuietStep

\* All threads have been suspended.
LEMMA SuspendEndsInv ==
  ASSUME IInv, NEW d \in Dumpers, SuspendEnds(d)
  PROVE  IInv'
<1>1. Types' /\ Alone(d)
  BY DEF SuspendEnds, Goto, target, IInv, Types, Places, Alone
<1>2. /\ pc'[d] \in {"open", "dtor"} /\ k'[d] = k[d] /\ threads'[d] = threads[d]
      /\ UNCHANGED target /\ pc[d] = "suspend" /\ ~More(d)
  BY DEF SuspendEnds, Goto, IInv, Types
<1>3. ASSUME NEW i \in Holds(d)' PROVE i \in Holds(d)
  BY <1>2, Lists DEF Holds, IInv, More
<1>4. DumperOK(d)'
  BY <1>2, <1>3, KeepsList DEF IInv, DumperOK
<1> QED
  BY <1>1, <1>2, <1>4, QuietStep

\* The file is opened, the threads are written, and the streams: what is held stays
\* held, up to the loop that lets go of it.
LEMMA WritingInv ==
  ASSUME IInv, NEW d \in Dumpers, Open(d) \/ WriteThread(d) \/ WriteStreams(d)
  PROVE  IInv'
<1>1. CASE \E why : Fail(d, why)
  BY <1>1, FailInv DEF Open, WriteThread, WriteStreams
<1>2. CASE /\ UNCHANGED <<target, threads, suspended>>
           /\ k' = [k EXCEPT ![d] = 1] \/ k' = [k EXCEPT ![d] = @ + 1]
           /\ \/ pc[d] = "open" /\ pc' = [pc EXCEPT ![d] = "list"]
              \/ pc[d] = "list" /\ pc' = pc
              \/ pc[d] = "list" /\ pc' = [pc EXCEPT ![d] = "resume"]
  <2>1. Types' /\ Alone(d)
    <3>1. k' \in [Dumpers -> Nat \ {0}] /\ \A e \in Dumpers \ {d} : k'[e] = k[e]
      BY <1>2 DEF IInv, Types
    <3>2. pc' \in [Dumpers -> Places] /\ \A e \in Dumpers \ {d} : pc'[e] = pc[e]
      BY <1>2 DEF IInv, Types, Places
    <3> QED BY <1>2, <3>1, <3>2 DEF target, IInv, Types, Alone
  <2>2. pc'[d] \in {"list", "resume"} /\ pc[d] \in {"open", "list"}
    BY <1>2 DEF IInv, Types
  <2>3. Holds(d)' \subseteq Holds(d)
    BY <1>2, <2>2 DEF Holds
  <2>4. DumperOK(d)'
    BY <1>2, <2>2, <2>3, KeepsList DEF IInv, DumperOK
  <2> QED BY <1>2, <2>1, <2>2, <2>4, QuietStep
<1> QED
  BY <1>1, <1>2 DEF Open, WriteThread, WriteStreams, Restart, Advance, Goto

\* The loop that resumes the threads begins in the destructor, or it has ended.
LEMMA ResumingInv ==
  ASSUME IInv, NEW d \in Dumpers, ResumeEnds(d) \/ Destroy(d)
  PROVE  IInv'
<1>1. CASE ResumeEnds(d)
  <2>1. Types' /\ Alone(d)
    BY <1>1 DEF ResumeEnds, Goto, target, IInv, Types, Places, Alone
  <2>2. /\ pc'[d] = "dtor" /\ ~suspended'[d] /\ threads'[d] = threads[d] /\ UNCHANGED target
        /\ pc[d] = "resume"
    BY <1>1 DEF ResumeEnds, Goto, IInv, Types
  <2>3. DumperOK(d)'
    BY <2>2, KeepsList DEF Holds
  <2> QED BY <2>1, <2>2, <2>3, QuietStep
<1>2. CASE Destroy(d)
  <2>1. Types' /\ Alone(d)
    BY <1>2 DEF Destroy, Restart, Goto, target, IInv, Types, Places, Alone
  <2>2. /\ pc'[d] = "resume" /\ threads'[d] = threads[d] /\ UNCHANGED target
        /\ pc[d] = "dtor" /\ suspended[d]
    BY <1>2 DEF Destroy, Goto, IInv, Types
  <2>3. Holds(d)' \subseteq Holds(d)
    BY <2>2 DEF Holds
  <2>4. DumperOK(d)'
    BY <2>2, <2>3, KeepsList DEF IInv, DumperOK
  <2> QED BY <2>1, <2>2, <2>4, QuietStep
<1> QED
  BY <1>1, <1>2

\* The thread attached to runs, for nobody has stopped it: it is in no list among
\* those that are held.
LEMMA AttachInv ==
  ASSUME IInv, None \notin Dumpers, NEW d \in Dumpers, Attach(d)
  PROVE  IInv'
<1> DEFINE c == Current(d)
<1>1. c \in Threads /\ k[d] \in 1..Len(threads[d]) /\ c = threads[d][k[d]]
  BY Lists DEF Attach, IInv, Current
<1>2. thread[c] = "running" /\ tracer[c] = None /\ pc[d] = "suspend"
  <2>1. thread[c] # "absent" /\ thread[c] \in ThreadStates
    BY <1>1 DEF IInv, DumperOK, ListOK, Types
  <2> QED BY <1>1, <2>1 DEF Attach, IInv, ThreadOK, ThreadStates
<1> HIDE DEF c
<1>3. /\ tracer' = [tracer EXCEPT ![c] = d]
      /\ pending' = [pending EXCEPT ![c] = @ \cup {"stop"}]
      /\ pc' = [pc EXCEPT ![d] = "wait"]
      /\ UNCHANGED <<thread, frozen, robbed, threads, k, suspended>>
  BY DEF Attach, Goto, c
<1>4. Types' /\ Alone(d)
  BY <1>1, <1>3 DEF IInv, Types, Places, Alone
<1>5. /\ pc'[d] = "wait" /\ tracer'[c] = d
      /\ \A t \in Threads \ {c} : tracer'[t] = tracer[t] /\ pending'[t] = pending[t]
  BY <1>1, <1>3 DEF IInv, Types
<1>6. ASSUME NEW e \in Dumpers, NEW t \in Threads PROVE Held(e, t) => Held(e, t)'
  BY <1>2, <1>3, <1>5 DEF Held
<1>7. ASSUME NEW e \in Dumpers \ {d} PROVE DumperOK(e)'
  <2>1. \A t \in Threads : tracer[t] = e => tracer'[t] = e
    BY <1>2, <1>5
  <2> QED BY <1>3, <1>4, <1>6, <2>1, Undisturbed DEF IInv, Alone
<1>8. DumperOK(d)'
  <2>1. ListOK(d)'
    BY <1>3 DEF IInv, DumperOK, ListOK
  <2>2. \A i \in Holds(d)' : i \in Holds(d)
    BY <1>2, <1>3, <1>5 DEF Holds
  <2>3. \A i \in Holds(d)' : Held(d, threads[d][i])'
    BY <1>3, <1>6, <2>2, Lists DEF IInv, DumperOK, Holds
  <2>4. More(d)' /\ Current(d)' = c
    BY <1>3 DEF Attach, More, Current, c
  <2>5. ~suspended[d]
    BY <1>2 DEF IInv, DumperOK
  <2> QED BY <1>3, <1>5, <2>1, <2>3, <2>4, <2>5 DEF DumperOK
<1>9. ASSUME NEW t \in Threads PROVE ThreadOK(t)'
  <2>1. ThreadOK(t) /\ tracer[t] \in Dumpers \cup {None}
    BY DEF IInv, Types
  <2>2. CASE t = c
    BY <1>2, <1>3, <1>5, <2>2 DEF ThreadOK, Current, c
  <2>3. CASE t # c
    <3>1. tracer[t] = d => thread[t] # "running"
      BY <1>2, <2>1 DEF ThreadOK
    <3> QED BY <1>2, <1>3, <1>4, <1>5, <2>1, <2>3, <3>1 DEF ThreadOK, Alone, Current
  <2> QED BY <2>2, <2>3
<1>10. FrozenOK'
  BY <1>3 DEF IInv, FrozenOK
<1> QED
  BY <1>4, <1>7, <1>8, <1>9, <1>10 DEF IInv

\* A dumper that lets threads go, all of which it holds or has attached to: what
\* others hold stays as it is.
LEMMA LetGoKeepsOthers ==
  ASSUME IInv, NEW d \in Dumpers, NEW S \in SUBSET Threads, LetGo(S), Alone(d),
         \A t \in S : thread[t] = "gone" \/ tracer[t] = d
  PROVE  /\ \A e \in Dumpers \ {d} : DumperOK(e)'
         /\ \A t \in Threads : thread[t] # "absent" => thread'[t] # "absent"
         /\ \A t \in Threads \ S : thread'[t] = thread[t] /\ tracer'[t] = tracer[t]
         /\ \A t \in S : /\ tracer'[t] = None
                         /\ thread'[t] = IF thread[t] = "stopped" THEN "running" ELSE thread[t]
<1>1. /\ \A t \in Threads \ S : thread'[t] = thread[t] /\ tracer'[t] = tracer[t]
      /\ \A t \in S : /\ tracer'[t] = None
                      /\ thread'[t] = IF thread[t] = "stopped" THEN "running" ELSE thread[t]
  BY DEF LetGo
<1>2. \A t \in Threads : thread[t] # "absent" => thread'[t] # "absent"
  BY <1>1
<1>3. ASSUME NEW e \in Dumpers \ {d} PROVE DumperOK(e)'
  <2>1. \A t \in Threads :
          /\ Held(e, t) => Held(e, t)'
          /\ tracer[t] = e => tracer'[t] = e \/ thread'[t] = "gone"
    BY <1>1 DEF Held
  <2> QED BY <1>2, <2>1, Undisturbed DEF IInv, Alone
<1> QED
  BY <1>1, <1>2, <1>3

\* A thread that is resumed is the one at the loop variable, and no other in the
\* list: those after it are still held.
LEMMA ResumeThreadInv ==
  ASSUME IInv, NEW d \in Dumpers, ResumeThread(d)
  PROVE  IInv'
<1> DEFINE c == Current(d)
<1>1. c \in Threads /\ k[d] \in Holds(d) /\ c = threads[d][k[d]]
  BY Lists DEF ResumeThread, IInv, Current, Holds
<1>2. Held(d, c)
  BY <1>1 DEF IInv, DumperOK
<1> HIDE DEF c
<1>3. /\ LetGo({c}) /\ pc[d] = "resume" /\ k' = [k EXCEPT ![d] = @ + 1]
      /\ UNCHANGED <<pending, frozen, robbed, pc, threads, suspended>>
  BY DEF ResumeThread, LetGo, Advance, c
<1>4. Types' /\ Alone(d)
  <2>1. thread' \in [Threads -> ThreadStates] /\ tracer' \in [Threads -> Dumpers \cup {None}]
    BY <1>3 DEF LetGo, IInv, Types, ThreadStates
  <2>2. k' \in [Dumpers -> Nat \ {0}]
    BY <1>3 DEF IInv, Types
  <2> QED BY <1>3, <2>1, <2>2 DEF IInv, Types, Alone
<1>5. /\ \A e \in Dumpers \ {d} : DumperOK(e)'
      /\ \A t \in Threads : thread[t] # "absent" => thread'[t] # "absent"
      /\ \A t \in Threads \ {c} : thread'[t] = thread[t] /\ tracer'[t] = tracer[t]
      /\ tracer'[c] = None
      /\ thread'[c] = IF thread[c] = "stopped" THEN "running" ELSE thread[c]
  BY <1>1, <1>2, <1>3, <1>4, LetGoKeepsOthers DEF Held
<1>6. DumperOK(d)'
  <2>1. ListOK(d)'
    BY <1>3, <1>5, Lists DEF IInv, DumperOK, ListOK
  <2>2. ASSUME NEW i \in Holds(d)' PROVE Held(d, threads[d][i])'
    <3>1. i \in Holds(d) /\ i # k[d] /\ i \in 1..Len(threads[d]) /\ k[d] \in 1..Len(threads[d])
      BY <1>1, <1>3, <1>4, Lists DEF Holds, IInv, Types
    <3>2. threads[d][i] \in Threads \ {c}
      BY <1>1, <3>1, Lists DEF IInv, DumperOK, ListOK
    <3>3. Held(d, threads[d][i])
      BY <3>1 DEF IInv, DumperOK
    <3> QED BY <1>3, <1>5, <3>2, <3>3 DEF Held
  <2> QED BY <1>3, <2>1, <2>2 DEF DumperOK
<1>7. ASSUME NEW t \in Threads PROVE ThreadOK(t)'
  <2>1. ThreadOK(t) /\ tracer[t] \in Dumpers \cup {None}
    BY DEF IInv, Types
  <2>2. CASE t = c
    BY <1>2, <1>3, <1>5, <2>1, <2>2 DEF ThreadOK, Held
  <2>3. CASE t # c
    <3>1. tracer[t] # None /\ thread[t] = "running" => tracer[t] \in Dumpers \ {d}
      BY <1>3, <2>1 DEF ThreadOK
    <3> QED BY <1>3, <1>4, <1>5, <2>1, <2>3, <3>1 DEF ThreadOK, Alone, Current
  <2> QED BY <2>2, <2>3
<1>8. FrozenOK'
  BY <1>3 DEF IInv, FrozenOK
<1> QED
  BY <1>4, <1>5, <1>6, <1>7, <1>8 DEF IInv

\* When a dumper exits it traces no thread that runs, and then none at all.
LEMMA ExitDumperInv ==
  ASSUME IInv, NEW d \in Dumpers, ExitDumper(d)
  PROVE  IInv'
<1> DEFINE S == {t \in Threads : tracer[t] = d}
<1>1. /\ LetGo(S) /\ pc[d] = "dtor" /\ ~suspended[d] /\ pc' = [pc EXCEPT ![d] = "done"]
      /\ UNCHANGED <<pending, frozen, robbed, threads, k, suspended>>
  BY DEF ExitDumper, LetGo, Goto
<1>2. S \in SUBSET Threads /\ \A t \in Threads : t \in S <=> tracer[t] = d
  OBVIOUS
<1> HIDE DEF S
<1>3. Types' /\ Alone(d)
  <2>1. thread' \in [Threads -> ThreadStates] /\ tracer' \in [Threads -> Dumpers \cup {None}]
    BY <1>1 DEF LetGo, IInv, Types, ThreadStates
  <2>2. pc' \in [Dumpers -> Places] /\ pc'[d] = "done"
    BY <1>1 DEF IInv, Types, Places
  <2> QED BY <1>1, <2>1, <2>2 DEF IInv, Types, Alone
<1>4. /\ \A e \in Dumpers \ {d} : DumperOK(e)'
      /\ \A t \in Threads : thread[t] # "absent" => thread'[t] # "absent"
      /\ \A t \in Threads \ S : thread'[t] = thread[t] /\ tracer'[t] = tracer[t]
      /\ \A t \in S : /\ tracer'[t] = None
                      /\ thread'[t] = IF thread[t] = "stopped" THEN "running" ELSE thread[t]
  BY <1>1, <1>2, <1>3, LetGoKeepsOthers
<1>5. pc'[d] = "done"
  BY <1>1 DEF IInv, Types
<1>6. DumperOK(d)'
  <2>1. ListOK(d)'
    BY <1>1, <1>4, Lists DEF IInv, DumperOK, ListOK
  <2>2. Holds(d)' = {}
    BY <1>5 DEF Holds
  <2> QED BY <1>1, <1>5, <2>1, <2>2 DEF DumperOK
<1>7. ASSUME NEW t \in Threads PROVE ThreadOK(t)'
  <2>1. ThreadOK(t) /\ tracer[t] \in Dumpers \cup {None} /\ pc[d] # "wait"
    BY <1>1 DEF IInv, Types
  <2>2. CASE t \in S
    BY <1>1, <1>2, <1>4, <2>1, <2>2 DEF ThreadOK
  <2>3. CASE t \notin S
    <3>1. tracer[t] # None => tracer[t] \in Dumpers \ {d}
      BY <1>2, <2>1, <2>3
    <3> QED BY <1>1, <1>3, <1>4, <2>1, <2>3, <3>1 DEF ThreadOK, Alone, Current
  <2> QED BY <2>2, <2>3
<1>8. FrozenOK'
  BY <1>1 DEF IInv, FrozenOK
<1> QED
  BY <1>3, <1>4, <1>6, <1>7, <1>8 DEF IInv

\* Nothing happens.
LEMMA StutterInv == IInv /\ UNCHANGED vars => IInv'
BY DEF vars, target, dumper, IInv, Types, DumperOK, ListOK, Holds, Held, More, Current,
       ThreadOK, FrozenOK

\* The invariant is inductive.
LEMMA StepInv ==
  ASSUME WriterAssumption, IsFiniteSet(Threads), IInv, [Next]_vars
  PROVE  IInv'
<1>1. ASSUME NEW d \in Dumpers, DumperStep(d) PROVE IInv'
  BY <1>1, DumperInitInv, AttachFailsInv, AttachInv, WaitedInv, SuspendEndsInv,
     WritingInv, ResumeThreadInv, ResumingInv, ExitDumperInv
  DEF DumperStep, WriterAssumption
<1>2. ASSUME NEW t \in Threads, KernelStep(t) \/ ThreadStep(t) PROVE IInv'
  BY <1>2, StopInv, HandleInv, ThreadStepInv DEF KernelStep
<1>3. CASE UNCHANGED vars
  BY <1>3, StutterInv
<1> QED
  BY <1>1, <1>2, <1>3 DEF Next, Over

\* When the process is killed the dumpers hold what they held: threads that have
\* gone.
LEMMA KillInv ==
  ASSUME IInv,
         thread' = [t \in Threads |-> IF t \in Alive THEN "gone" ELSE thread[t]],
         pending' = [t \in Threads |-> {}],
         UNCHANGED <<tracer, frozen, robbed, dumper>>
  PROVE  IInv'
<1>1. Types'
  BY DEF IInv, Types, ThreadStates, dumper
<1>2. ASSUME NEW t \in Threads
      PROVE  \/ thread'[t] = "gone"
             \/ thread'[t] = "absent" /\ thread[t] = "absent"
  BY DEF IInv, Types, Alive, ThreadStates
<1>3. ASSUME NEW d \in Dumpers PROVE DumperOK(d)'
  <2>1. \A t \in Threads : /\ thread[t] # "absent" => thread'[t] # "absent"
                           /\ Held(d, t) => Held(d, t)'
                           /\ tracer[t] = d => tracer'[t] = d \/ thread'[t] = "gone"
    BY <1>2 DEF Held
  <2> QED BY <2>1, Undisturbed DEF IInv, dumper
<1>4. \A t \in Threads : ThreadOK(t)'
  BY <1>2 DEF IInv, Types, ThreadOK, dumper
<1> QED
  BY <1>1, <1>3, <1>4 DEF IInv, FrozenOK

(***************************************************************************)
(* Types: the loop variable goes at most one beyond the threads, also when *)
(* one of them is dropped.                                                 *)
(***************************************************************************)

\* What Types does not say.
OtherTypes ==
  /\ frozen \in BOOLEAN
  /\ robbed \subseteq Threads
  /\ \A d \in Dumpers : k[d] <= Len(threads[d]) + 1
  /\ known \in [Dumpers -> SUBSET Threads]
  /\ recorded \in [Dumpers -> SUBSET Threads]
  /\ context \in [Dumpers -> Threads \cup {None}]
  /\ result \in [Dumpers -> {"none", "ok", "failed"}]
  /\ cause \in [Dumpers -> {"none", "io", "thread"}]

LEMMA TypesSuffice == Types /\ OtherTypes => TypeOK
<1> SUFFICES ASSUME Types, OtherTypes PROVE TypeOK
  OBVIOUS
<1>1. ASSUME NEW d \in Dumpers PROVE k[d] \in 1..(Len(threads[d]) + 1)
  BY Lists DEF OtherTypes
<1> QED
  BY <1>1 DEF Types, OtherTypes, TypeOK

LEMMA InitTypes == Init /\ WriterAssumption => OtherTypes
<1> SUFFICES ASSUME Init, WriterAssumption PROVE OtherTypes
  OBVIOUS
<1>1. \A d \in Dumpers : k[d] = 1 /\ Len(threads[d]) = 0
  BY DEF Init
<1>2. \A d \in Dumpers : k[d] <= Len(threads[d]) + 1
  BY <1>1
<1>3. /\ frozen \in BOOLEAN
      /\ robbed \subseteq Threads
      /\ context \in [Dumpers -> Threads \cup {None}]
  BY DEF Init
<1>4. /\ known \in [Dumpers -> SUBSET Threads]
      /\ recorded \in [Dumpers -> SUBSET Threads]
  BY Zenon DEF Init
<1>5. /\ result \in [Dumpers -> {"none", "ok", "failed"}]
      /\ cause \in [Dumpers -> {"none", "io", "thread"}]
  BY DEF Init
<1> QED
  BY <1>2, <1>3, <1>4, <1>5 DEF OtherTypes

\* A dumper that drops a thread was not beyond the last one.
LEMMA LoopStays ==
  ASSUME IInv, OtherTypes, IsFiniteSet(Threads), NEW d \in Dumpers, DumperStep(d),
         NEW e \in Dumpers
  PROVE  k'[e] <= Len(threads'[e]) + 1
<1>1. k[e] <= Len(threads[e]) + 1 /\ Len(threads[e]) \in Nat /\ k[e] \in Nat
  BY Lists DEF OtherTypes, IInv
<1>2. k[d] \in Nat /\ Len(threads[d]) \in Nat
  BY Lists DEF IInv
<1>3. CASE UNCHANGED <<k, threads>>
  BY <1>1, <1>3
<1>4. CASE k' = [k EXCEPT ![d] = 1] /\ threads' = threads
  BY <1>1, <1>4 DEF IInv, Types
<1>5. CASE k' = [k EXCEPT ![d] = @ + 1] /\ threads' = threads /\ More(d)
  BY <1>1, <1>2, <1>5 DEF IInv, Types, More
<1>6. CASE DumperInit(d) /\ threads' = [threads EXCEPT ![d] = SetToSeq(Alive)]
  <2>1. k'[d] = 1
    BY <1>6 DEF DumperInit, Fail, IInv, Types, DumperOK
  <2>2. Len(SetToSeq(Alive)) \in Nat
    BY Listing, FS_Subset DEF Alive
  <2>3. k'[e] = k[e]
    BY <1>6 DEF DumperInit, Fail
  <2> QED BY <1>1, <1>6, <2>1, <2>2, <2>3 DEF IInv, Types
<1>7. CASE AttachFails(d)
  <2> DEFINE rest == SubSeq(threads[d], 1, k[d] - 1) \o SubSeq(threads[d], k[d] + 1, Len(threads[d]))
  <2>1. threads' = [threads EXCEPT ![d] = rest] /\ k' = k /\ More(d)
    BY <1>7 DEF AttachFails, Drop, RemoveAt
  <2>2. Len(rest) = Len(threads[d]) - 1
    BY <2>1, Lists, ErasedAt DEF IInv, Types
  <2> HIDE DEF rest
  <2> QED BY <1>1, <1>2, <2>1, <2>2 DEF IInv, Types, More
<1>8. CASE Waited(d)
  <2>1. More(d)
    BY <1>8 DEF Waited, IInv, DumperOK
  <2> QED BY <1>5, <1>8, <2>1 DEF Waited, Advance
<1> QED
  BY <1>3, <1>4, <1>5, <1>6, <1>7, <1>8
  DEF DumperStep, DumperInit, Attach, SuspendEnds, Open, WriteThread, WriteStreams,
      ResumeThread, ResumeEnds, Destroy, ExitDumper, Fail, Restart, Advance

LEMMA StepTypes ==
  ASSUME WriterAssumption, IsFiniteSet(Threads), IInv, OtherTypes, [Next]_vars
  PROVE  OtherTypes'
<1>1. ASSUME NEW d \in Dumpers, DumperStep(d) PROVE OtherTypes'
  <2>1. frozen' = frozen /\ robbed' = robbed
    BY <1>1 DEF DumperStep, DumperInit, AttachFails, Attach, Waited, SuspendEnds, Open,
       WriteThread, WriteStreams, ResumeThread, ResumeEnds, Destroy, ExitDumper, Fail,
       LetGo, target
  <2>2. Alive \subseteq Threads /\ (More(d) => Current(d) \in Threads)
    BY Lists DEF Alive, IInv
  <2>3. known' \in [Dumpers -> SUBSET Threads]
    BY <1>1, <2>2 DEF DumperStep, DumperInit, AttachFails, Attach, Waited, SuspendEnds, Open,
       WriteThread, WriteStreams, ResumeThread, ResumeEnds, Destroy, ExitDumper, Fail,
       OtherTypes
  <2>4. /\ recorded' \in [Dumpers -> SUBSET Threads]
        /\ context' \in [Dumpers -> Threads \cup {None}]
    BY <1>1, <2>2 DEF DumperStep, DumperInit, AttachFails, Attach, Waited, SuspendEnds, Open,
       WriteThread, WriteStreams, ResumeThread, ResumeEnds, Destroy, ExitDumper, Fail,
       OtherTypes
  <2>5. /\ result' \in [Dumpers -> {"none", "ok", "failed"}]
        /\ cause' \in [Dumpers -> {"none", "io", "thread"}]
    BY <1>1 DEF DumperStep, DumperInit, AttachFails, Attach, Waited, SuspendEnds, Open,
       WriteThread, WriteStreams, ResumeThread, ResumeEnds, Destroy, ExitDumper, Fail,
       OtherTypes
  <2> QED BY <1>1, <2>1, <2>3, <2>4, <2>5, LoopStays DEF OtherTypes
<1>2. ASSUME NEW t \in Threads, KernelStep(t) \/ ThreadStep(t) PROVE OtherTypes'
  BY <1>2 DEF KernelStep, ThreadStep, Stop, Handle, Exit, Signal, Spawn, dumper, OtherTypes
<1>3. ASSUME UNCHANGED vars PROVE OtherTypes'
  BY <1>3 DEF vars, target, dumper, OtherTypes
<1> QED
  BY <1>1, <1>2, <1>3 DEF Next, Over

(***************************************************************************)
(* A dump that succeeds is complete, if nobody else attaches to the        *)
(* threads while its dumper does: a thread that it drops has then exited,  *)
(* for the dumper itself would have had to attach to it before, and it     *)
(* lists no thread twice.  The crashed thread does not exit, unless the    *)
(* process is killed with all its threads.                                 *)
(***************************************************************************)
Listed(d, t) == \E i \in 1..Len(threads[d]) : threads[d][i] = t

\* Has the loop that suspends the threads attached to t.
Passed(d, t) ==
  \E i \in 1..Len(threads[d]) :
    threads[d][i] = t /\ (i < k[d] \/ (pc[d] = "wait" /\ i = k[d]))

Attaching == {"suspend", "wait"}
Copying == {"open", "list"}
NobodyLives == \A t \in Threads : thread[t] \in {"gone", "absent"}

BlamedOK(d) == thread[CrashThread[d]] \in {"running", "stopped"} \/ NobodyLives

\* Whom a dumper has found is still in its list or has exited, and the dumper
\* traces nobody that the loop has not come to.
FindsOK(d) ==
  /\ pc[d] \in Attaching \cup Copying =>
       /\ \A t \in known[d] : thread[t] = "gone" \/ Listed(d, t)
       /\ Listed(d, CrashThread[d]) \/ NobodyLives
  /\ pc[d] = "init" => \A t \in Threads : tracer[t] # d
  /\ pc[d] \in Attaching =>
       \A t \in Threads : tracer[t] = d => thread[t] = "gone" \/ Passed(d, t)

\* A dumper records its list in order.
RecordsOK(d) ==
  /\ pc[d] \in Copying => Len(threads[d]) # 0
  /\ pc[d] = "list" =>
       /\ \A i \in 1..Len(threads[d]) : i < k[d] => threads[d][i] \in recorded[d]
       /\ k[d] = 1 \/ Listed(d, CrashThread[d])
  /\ CrashThread[d] \in recorded[d] => context[d] = CrashThread[d]

Complete(d) ==
  result[d] = "ok" =>
    /\ pc[d] \in {"resume", "dtor", "done"}
    /\ CrashThread[d] \in recorded[d]
    /\ \A t \in known[d] \ recorded[d] : thread[t] = "gone"

SuccessOK(d) == FindsOK(d) /\ RecordsOK(d) /\ Complete(d)

\* What a dumper has found, lists and has recorded is not touched by the steps of
\* others: threads that start, stop or exit, and other dumpers.
LEMMA SuccessLasts ==
  ASSUME OtherTypes, NEW d \in Dumpers, SuccessOK(d),
         pc'[d] = pc[d], threads'[d] = threads[d], k'[d] = k[d], known'[d] = known[d],
         recorded'[d] = recorded[d], context'[d] = context[d], result'[d] = result[d],
         \A t \in Threads : /\ thread[t] = "gone" => thread'[t] = "gone"
                            /\ tracer'[t] = d => tracer[t] = d,
         NobodyLives => NobodyLives'
  PROVE  SuccessOK(d)'
<1>1. /\ \A t : Listed(d, t)' <=> Listed(d, t)
      /\ \A t : Passed(d, t)' <=> Passed(d, t)
      /\ known[d] \subseteq Threads
  BY DEF Listed, Passed, OtherTypes
<1>2. FindsOK(d)'
  BY <1>1 DEF SuccessOK, FindsOK
<1>3. RecordsOK(d)'
  BY <1>1 DEF SuccessOK, RecordsOK
<1>4. Complete(d)'
  BY <1>1 DEF SuccessOK, Complete
<1> QED
  BY <1>2, <1>3, <1>4 DEF SuccessOK

\* A dumper that fails has succeeded in nothing.
LEMMA FailSucceeds ==
  ASSUME IInv, NEW d \in Dumpers, SuccessOK(d), NEW why, Fail(d, why),
         pc[d] \in {"init", "open", "list"}
  PROVE  SuccessOK(d)'
<1>1. pc'[d] = "dtor" /\ result'[d] # "ok"
  BY DEF Fail, Goto, IInv, Types, SuccessOK, Complete
<1> QED
  BY <1>1 DEF Fail, SuccessOK, FindsOK, RecordsOK, Complete, Attaching, Copying

\* What SetToSeq makes of a finite set leaves none of its elements out.
LEMMA ListsAll ==
  ASSUME NEW S, IsFiniteSet(S), NEW x \in S
  PROVE  \E i \in 1..Len(SetToSeq(S)) : SetToSeq(S)[i] = x
<1> DEFINE n == Cardinality(S)
           s == SetToSeq(S)
<1>1. n \in Nat /\ ExistsBijection(1..n, S)
  BY FS_CardinalityType
<1>2. PICK f \in [1..n -> S] : \A i, j \in 1..n : f[i] = f[j] => i = j
  BY <1>1 DEF ExistsBijection, Bijection, Injection, IsInjective
<1>3. s \in [1..n -> S] /\ IsInjective(s)
  <2>1. f \in [1..n -> S] /\ IsInjective(f)
    BY <1>2 DEF IsInjective
  <2> QED BY <2>1 DEF SetToSeq
<1> HIDE DEF n, s
<1>4. s \in Injection(1..n, S)
  BY <1>3 DEF IsInjective, Injection
<1>5. Cardinality(1..n) = n /\ IsFiniteSet(1..n)
  BY <1>1, FS_Interval
<1>6. s \in Surjection(1..n, S)
  BY <1>4, <1>5, FS_Injection DEF n, Bijection
<1>7. Len(s) = n
  BY <1>1, <1>3
<1> QED
  BY <1>6, <1>7 DEF Surjection, s

\* The dumper lists the threads that there are, the crashed one among them.
LEMMA DumperInitSucceeds ==
  ASSUME WriterAssumption, IsFiniteSet(Threads), IInv, OtherTypes, NEW d \in Dumpers,
         SuccessOK(d), BlamedOK(d), DumperInit(d)
  PROVE  SuccessOK(d)'
<1>1. CASE Fail(d, "io")
  BY <1>1, FailSucceeds DEF DumperInit
<1>2. CASE /\ known' = [known EXCEPT ![d] = Alive]
           /\ threads' = [threads EXCEPT ![d] = SetToSeq(Alive)]
           /\ Goto(d, "suspend")
           /\ UNCHANGED <<target, k, suspended, recorded, context, result, cause>>
  <2>1. Alive \subseteq Threads /\ IsFiniteSet(Alive)
    BY FS_Subset DEF Alive
  <2> DEFINE list == SetToSeq(Alive)
  <2>2. \A t \in Alive : \E i \in 1..Len(list) : list[i] = t
    BY <2>1, ListsAll
  <2> HIDE DEF list
  <2>3. /\ pc'[d] = "suspend" /\ threads'[d] = list /\ known'[d] = Alive
        /\ UNCHANGED target /\ recorded' = recorded /\ context' = context
        /\ result' = result /\ pc[d] = "init"
    BY <1>2 DEF DumperInit, Goto, IInv, Types, OtherTypes, list
  <2>4. \A t \in Alive : Listed(d, t)'
    BY <2>2, <2>3 DEF Listed
  <2>5. CrashThread[d] \in Alive \/ NobodyLives
    BY DEF BlamedOK, Alive, WriterAssumption
  <2>6. FindsOK(d)'
    BY <2>3, <2>4, <2>5 DEF SuccessOK, FindsOK, NobodyLives, target, Attaching, Copying
  <2>7. RecordsOK(d)' /\ Complete(d)'
    BY <2>3 DEF SuccessOK, RecordsOK, Complete, Copying
  <2> QED BY <2>6, <2>7 DEF SuccessOK
<1> QED
  BY <1>1, <1>2 DEF DumperInit

\* A thread that is dropped has exited: no other dumper has attached to it, and
\* this one has not come to it before.
LEMMA AttachFailsSucceeds ==
  ASSUME WriterAssumption, IInv, OtherTypes, NEW d \in Dumpers,
         SuccessOK(d), BlamedOK(d), AttachFails(d),
         \A t \in Threads : tracer[t] \in {None, d}
  PROVE  SuccessOK(d)'
<1> DEFINE list == threads[d]
           n == k[d]
           rest == SubSeq(list, 1, n - 1) \o SubSeq(list, n + 1, Len(list))
<1>1. list \in Seq(Threads) /\ Len(list) \in Nat /\ n \in 1..Len(list) /\ pc[d] = "suspend"
  BY Lists DEF AttachFails, IInv, Types
<1>2. threads' = [threads EXCEPT ![d] = rest]
  BY DEF AttachFails, Drop, RemoveAt
<1> HIDE DEF rest
<1>3. /\ Len(rest) = Len(list) - 1
      /\ \A j \in 1..(Len(list) - 1) : rest[j] = IF j < n THEN list[j] ELSE list[j + 1]
  BY <1>1, ErasedAt DEF rest
<1>4. /\ threads'[d] = rest /\ k'[d] = n /\ pc'[d] = "suspend" /\ UNCHANGED target
      /\ known' = known /\ recorded' = recorded /\ context' = context /\ result' = result
  BY <1>1, <1>2 DEF AttachFails, Drop, IInv, Types
<1>5. thread[list[n]] = "gone"
  <2>1. list[n] \in Threads /\ \A i \in 1..Len(list) : list[i] = list[n] => i = n
    BY <1>1, Lists DEF IInv, DumperOK, ListOK
  <2>2. thread[list[n]] = "gone" \/ tracer[list[n]] = d
    BY <2>1 DEF AttachFails, Current
  <2>3. ~Passed(d, list[n])
    BY <1>1, <2>1 DEF Passed
  <2> QED BY <1>1, <2>1, <2>2, <2>3 DEF SuccessOK, FindsOK, Attaching
<1> HIDE DEF list, n
<1>6. ASSUME NEW i \in 1..Len(list), i # n
      PROVE  \E j \in 1..Len(rest) : rest[j] = list[i] /\ (i < n => j < n)
  <2>1. CASE i < n
    BY <1>1, <1>3, <2>1
  <2>2. CASE i > n
    <3>1. i - 1 \in 1..Len(rest) /\ rest[i - 1] = list[i]
      BY <1>1, <1>3, <2>2
    <3> QED BY <1>1, <2>2, <3>1
  <2> QED BY <1>1, <1>6, <2>1, <2>2
<1>7. \A t \in Threads : Listed(d, t) => Listed(d, t)' \/ thread[t] = "gone"
  BY <1>4, <1>5, <1>6 DEF Listed, list
<1>8. \A t \in Threads : Passed(d, t) => Passed(d, t)'
  BY <1>1, <1>4, <1>6 DEF Passed, list, n
<1>9. CrashThread[d] \in Threads /\ (thread[CrashThread[d]] = "gone" => NobodyLives)
  BY DEF WriterAssumption, BlamedOK
<1>10. known[d] \subseteq Threads
  BY DEF OtherTypes
<1>11. FindsOK(d)'
  BY <1>1, <1>4, <1>7, <1>8, <1>9, <1>10
  DEF SuccessOK, FindsOK, NobodyLives, target, Attaching, Copying
<1>12. RecordsOK(d)' /\ Complete(d)'
  BY <1>1, <1>4 DEF SuccessOK, RecordsOK, Complete, Copying
<1> QED
  BY <1>11, <1>12 DEF SuccessOK

\* The loop goes on.
LEMMA SuspendingSucceeds ==
  ASSUME WriterAssumption, IInv, OtherTypes, NEW d \in Dumpers,
         SuccessOK(d), Attach(d) \/ Waited(d)
  PROVE  SuccessOK(d)'
<1>1. Len(threads[d]) \in Nat /\ k[d] \in 1..Len(threads[d]) /\ Current(d) \in Threads
  BY Lists DEF Attach, Waited, IInv, DumperOK
<1>2. /\ threads' = threads /\ thread' = thread /\ known' = known /\ recorded' = recorded
      /\ context' = context /\ result' = result /\ pc[d] \in Attaching
  BY DEF Attach, Waited, target, Attaching
<1>3. CASE Attach(d)
  <2>1. pc'[d] = "wait" /\ k' = k
    BY <1>3 DEF Attach, Goto, IInv, Types
  <2>2. \A t \in Threads : tracer'[t] = d => tracer[t] = d \/ t = Current(d)
    BY <1>3 DEF Attach, IInv, Types
  <2>3. \A t \in Threads : t = Current(d) \/ Passed(d, t) => Passed(d, t)'
    <3>1. \A t \in Threads : t = Current(d) => Passed(d, t)'
      BY <1>1, <1>2, <2>1 DEF Passed, Current
    <3>2. \A t \in Threads : Passed(d, t) => Passed(d, t)'
      BY <1>2, <1>3, <2>1 DEF Passed, Attach
    <3> QED BY <3>1, <3>2
  <2>4. \A t \in Threads : tracer'[t] = d => thread'[t] = "gone" \/ Passed(d, t)'
    BY <1>2, <2>2, <2>3 DEF SuccessOK, FindsOK
  <2>5. FindsOK(d)'
    BY <1>2, <2>1, <2>4
    DEF SuccessOK, FindsOK, NobodyLives, Listed, OtherTypes, Attaching, Copying
  <2> QED BY <1>2, <2>1, <2>5 DEF SuccessOK, RecordsOK, Complete, Copying, Attaching
<1>4. CASE Waited(d)
  <2>1. pc'[d] = "suspend" /\ k'[d] = k[d] + 1 /\ tracer' = tracer
    BY <1>4 DEF Waited, Goto, Advance, target, IInv, Types
  <2>2. \A t \in Threads : Passed(d, t) => Passed(d, t)'
    BY <1>1, <1>2, <2>1 DEF Passed
  <2>3. FindsOK(d)'
    BY <1>2, <2>1, <2>2
    DEF SuccessOK, FindsOK, NobodyLives, Listed, OtherTypes, Attaching, Copying
  <2> QED BY <1>2, <2>1, <2>3 DEF SuccessOK, RecordsOK, Complete, Copying, Attaching
<1> QED
  BY <1>3, <1>4

\* With nothing to do the loop ends, and the dump fails.
LEMMA SuspendEndsSucceeds ==
  ASSUME IInv, OtherTypes, NEW d \in Dumpers, SuccessOK(d), SuspendEnds(d)
  PROVE  SuccessOK(d)'
<1>1. Len(threads[d]) \in Nat /\ threads[d] \in Seq(Threads) /\ (threads[d] # <<>> => Len(threads[d]) # 0)
  BY Lists, EmptySeq DEF IInv, Types
<1>2. /\ UNCHANGED <<target, threads, k, known, recorded, context, result>>
      /\ (pc'[d] = "open" /\ threads[d] # <<>>) \/ pc'[d] = "dtor"
      /\ pc[d] = "suspend"
  BY DEF SuspendEnds, Goto, IInv, Types
<1>3. FindsOK(d)'
  BY <1>2 DEF SuccessOK, FindsOK, NobodyLives, Listed, target, Attaching, Copying
<1> QED
  BY <1>1, <1>2, <1>3 DEF SuccessOK, RecordsOK, Complete, Copying

\* The threads are recorded in order.  The crashed thread is one of them unless
\* the process has been killed, and then the first is not recorded.
LEMMA WritingSucceeds ==
  ASSUME WriterAssumption, IInv, OtherTypes, NEW d \in Dumpers, SuccessOK(d),
         Open(d) \/ WriteThread(d) \/ WriteStreams(d)
  PROVE  SuccessOK(d)'
<1>1. CASE \E why : Fail(d, why)
  BY <1>1, FailSucceeds DEF Open, WriteThread, WriteStreams
<1>2. /\ Len(threads[d]) \in Nat /\ k[d] \in Nat \ {0}
      /\ \A i \in 1..Len(threads[d]) : threads[d][i] \in Threads
  BY Lists DEF IInv, Types
<1>3. CASE Open(d) /\ ~Fail(d, "io")
  <2>1. /\ UNCHANGED <<target, threads, known, recorded, context, result>>
        /\ pc'[d] = "list" /\ k'[d] = 1 /\ pc[d] = "open"
    BY <1>3 DEF Open, Restart, Goto, IInv, Types
  <2>2. FindsOK(d)'
    BY <2>1 DEF SuccessOK, FindsOK, NobodyLives, Listed, target, Attaching, Copying
  <2> QED BY <1>2, <2>1, <2>2 DEF SuccessOK, RecordsOK, Complete, Copying
<1>4. CASE WriteThread(d) /\ ~\E why : Fail(d, why)
  <2> DEFINE t == Current(d)
  <2>1. /\ UNCHANGED <<target, pc, threads, known, result>>
        /\ pc[d] = "list" /\ k'[d] = k[d] + 1 /\ k[d] \in 1..Len(threads[d])
        /\ t \in Threads /\ t = threads[d][k[d]]
        /\ t = CrashThread[d] \/ thread[t] = "stopped"
        /\ recorded'[d] = recorded[d] \cup {t}
        /\ context'[d] = IF t = CrashThread[d] THEN t ELSE context[d]
    BY <1>4, Lists DEF WriteThread, Advance, Current, IInv, Types, OtherTypes
  <2> HIDE DEF t
  <2>2. FindsOK(d)'
    BY <2>1 DEF SuccessOK, FindsOK, NobodyLives, Listed, target, Attaching, Copying
  <2>3. Listed(d, CrashThread[d])
    BY <2>1 DEF SuccessOK, FindsOK, NobodyLives, Listed, Copying
  <2>4. Listed(d, CrashThread[d])'
    BY <2>1, <2>3 DEF Listed
  <2>5. \A i \in 1..Len(threads[d]) : i < k'[d] => threads[d][i] \in recorded'[d]
    <3>1. \A i \in 1..Len(threads[d]) : i < k'[d] => i < k[d] \/ i = k[d]
      BY <1>2, <2>1
    <3> QED BY <2>1, <3>1 DEF SuccessOK, RecordsOK
  <2>6. RecordsOK(d)'
    BY <2>1, <2>4, <2>5 DEF SuccessOK, RecordsOK
  <2> QED BY <2>1, <2>2, <2>6 DEF SuccessOK, Complete
<1>5. CASE WriteStreams(d) /\ ~Fail(d, "io")
  <2>1. /\ UNCHANGED <<target, threads, known, recorded, context>>
        /\ pc'[d] = "resume" /\ pc[d] = "list" /\ k[d] > Len(threads[d])
    BY <1>2, <1>5 DEF WriteStreams, More, Goto, IInv, Types
  <2>2. \A t \in Threads : Listed(d, t) => t \in recorded[d]
    BY <1>2, <2>1 DEF SuccessOK, RecordsOK, Listed
  <2>3. CrashThread[d] \in recorded[d]
    <3>1. k[d] # 1
      BY <1>2, <2>1 DEF SuccessOK, RecordsOK, Copying
    <3> QED BY <2>1, <2>2, <3>1 DEF SuccessOK, RecordsOK, WriterAssumption
  <2>4. \A t \in known[d] \ recorded[d] : thread[t] = "gone"
    BY <2>1, <2>2 DEF SuccessOK, FindsOK, Copying, OtherTypes
  <2> QED BY <2>1, <2>3, <2>4
          DEF SuccessOK, FindsOK, RecordsOK, Complete, target, Attaching, Copying
<1> QED
  BY <1>1, <1>3, <1>4, <1>5 DEF Open, WriteThread, WriteStreams

\* Letting go of the threads undoes nothing of the dump.
LEMMA ResumingSucceeds ==
  ASSUME IInv, OtherTypes, NEW d \in Dumpers, SuccessOK(d),
         ResumeThread(d) \/ ResumeEnds(d) \/ Destroy(d) \/ ExitDumper(d)
  PROVE  SuccessOK(d)'
<1>1. /\ pc'[d] \in {"resume", "dtor", "done"} /\ UNCHANGED <<known, recorded, context>>
      /\ result'[d] = "ok" => result[d] = "ok"
  BY DEF ResumeThread, ResumeEnds, Destroy, ExitDumper, Goto, IInv, Types, OtherTypes
<1>2. \A t \in Threads : thread[t] = "gone" => thread'[t] = "gone"
  BY DEF ResumeThread, ResumeEnds, Destroy, ExitDumper, LetGo, target
<1>3. known[d] \subseteq Threads
  BY DEF OtherTypes
<1> QED
  BY <1>1, <1>2, <1>3 DEF SuccessOK, FindsOK, RecordsOK, Complete, Attaching, Copying

\* What a dumper does to the others: threads do not go or come to life again, nor
\* are they attached to but by this dumper.
LEMMA DumperLeaves ==
  ASSUME IInv, OtherTypes, NEW d \in Dumpers, DumperStep(d)
  PROVE  /\ \A e \in Dumpers \ {d} :
              /\ pc'[e] = pc[e] /\ threads'[e] = threads[e] /\ k'[e] = k[e]
              /\ known'[e] = known[e] /\ recorded'[e] = recorded[e]
              /\ context'[e] = context[e] /\ result'[e] = result[e]
         /\ \A t \in Threads :
              /\ thread[t] \in {"gone", "absent"} => thread'[t] = thread[t]
              /\ thread[t] \in {"running", "stopped"} => thread'[t] \in {"running", "stopped"}
              /\ tracer'[t] \in {tracer[t], None, d}
<1>1. \A e \in Dumpers \ {d} : pc'[e] = pc[e] /\ threads'[e] = threads[e] /\ k'[e] = k[e]
  BY DEF DumperStep, DumperInit, AttachFails, Drop, Attach, Waited, SuspendEnds, Open,
     WriteThread, WriteStreams, ResumeThread, ResumeEnds, Destroy, ExitDumper, Fail, Goto,
     Advance, Restart, IInv, Types
<1>2. \A e \in Dumpers \ {d} : known'[e] = known[e] /\ recorded'[e] = recorded[e]
  BY DEF DumperStep, DumperInit, AttachFails, Attach, Waited, SuspendEnds, Open,
     WriteThread, WriteStreams, ResumeThread, ResumeEnds, Destroy, ExitDumper, Fail, OtherTypes
<1>3. \A e \in Dumpers \ {d} : context'[e] = context[e] /\ result'[e] = result[e]
  BY DEF DumperStep, DumperInit, AttachFails, Attach, Waited, SuspendEnds, Open,
     WriteThread, WriteStreams, ResumeThread, ResumeEnds, Destroy, ExitDumper, Fail, OtherTypes
<1>4. \A t \in Threads :
        /\ thread[t] \in {"gone", "absent"} => thread'[t] = thread[t]
        /\ thread[t] \in {"running", "stopped"} => thread'[t] \in {"running", "stopped"}
        /\ tracer'[t] \in {tracer[t], None, d}
  BY DEF DumperStep, DumperInit, AttachFails, Attach, Waited, SuspendEnds, Open,
     WriteThread, WriteStreams, ResumeThread, ResumeEnds, Destroy, ExitDumper, Fail, LetGo,
     target, IInv, Types
<1> QED
  BY <1>1, <1>2, <1>3, <1>4

\* Nobody else attaches to a thread while a dumper attaches to them.
Undisputed(d) ==
  pc[d] = "suspend" => \A t \in Threads : tracer[t] \in {None, d}

SuccessInv == \A d \in Dumpers : SuccessOK(d) /\ BlamedOK(d)

\* A step of a dumper, of those that nobody disturbs.
LEMMA DumperSucceeds ==
  ASSUME WriterAssumption, IsFiniteSet(Threads), IInv, OtherTypes, SuccessInv,
         NEW d \in Dumpers, DumperStep(d), Undisputed(d)
  PROVE  SuccessInv'
<1>1. SuccessOK(d)'
  BY DumperInitSucceeds, AttachFailsSucceeds, SuspendingSucceeds, SuspendEndsSucceeds,
     WritingSucceeds, ResumingSucceeds
  DEF DumperStep, SuccessInv, Undisputed, AttachFails
<1>2. NobodyLives => NobodyLives'
  BY DumperLeaves DEF NobodyLives
<1>3. ASSUME NEW e \in Dumpers PROVE BlamedOK(e)'
  BY <1>2, DumperLeaves DEF SuccessInv, BlamedOK, WriterAssumption
<1>4. ASSUME NEW e \in Dumpers \ {d} PROVE SuccessOK(e)'
  <2>1. \A t \in Threads : /\ thread[t] = "gone" => thread'[t] = "gone"
                           /\ tracer'[t] = e => tracer[t] = e
    BY DumperLeaves DEF WriterAssumption
  <2> QED BY <1>2, <2>1, DumperLeaves, SuccessLasts DEF SuccessInv
<1> QED
  BY <1>1, <1>3, <1>4 DEF SuccessInv

\* A step of the threads: the crashed ones do not exit.
LEMMA ThreadsSucceed ==
  ASSUME WriterAssumption, IInv, OtherTypes, SuccessInv,
         NEW t \in Threads, KernelStep(t) \/ ThreadStep(t)
  PROVE  SuccessInv'
<1> USE DEF KernelStep, ThreadStep, Stop, Handle, Exit, Signal, Spawn, Runs
<1>1. UNCHANGED <<tracer, dumper>>
  BY DEF dumper
<1>2. NobodyLives => UNCHANGED thread
  BY DEF NobodyLives, IInv, Types
<1>3. \A u \in Threads : thread[u] = "gone" => thread'[u] = "gone"
  BY DEF IInv, Types
<1>4. ASSUME NEW e \in Dumpers PROVE BlamedOK(e)'
  <2>1. CASE NobodyLives
    BY <1>2, <2>1 DEF BlamedOK, NobodyLives
  <2>2. CASE thread[CrashThread[e]] \in {"running", "stopped"}
    <3>1. CrashThread[e] \in Threads \cap Blamed
      BY DEF Blamed, WriterAssumption
    <3>2. thread'[CrashThread[e]] \in {"running", "stopped"}
      BY <2>2, <3>1 DEF IInv, Types
    <3> QED BY <3>2 DEF BlamedOK
  <2> QED BY <2>1, <2>2 DEF SuccessInv, BlamedOK
<1>5. ASSUME NEW e \in Dumpers PROVE SuccessOK(e)'
  <2>1. NobodyLives => NobodyLives'
    BY <1>2 DEF NobodyLives
  <2> QED BY <1>1, <1>3, <2>1, SuccessLasts DEF SuccessInv, dumper
<1> QED
  BY <1>4, <1>5 DEF SuccessInv

\* The process is killed.
LEMMA KillSucceeds ==
  ASSUME IInv, OtherTypes, SuccessInv,
         thread' = [t \in Threads |-> IF t \in Alive THEN "gone" ELSE thread[t]],
         UNCHANGED <<tracer, dumper>>
  PROVE  SuccessInv'
<1>1. NobodyLives'
  BY DEF NobodyLives, Alive, IInv, Types, ThreadStates
<1>2. \A t \in Threads : thread[t] = "gone" => thread'[t] = "gone"
  OBVIOUS
<1>3. ASSUME NEW e \in Dumpers PROVE SuccessOK(e)'
  BY <1>1, <1>2, SuccessLasts DEF SuccessInv, dumper
<1> QED
  BY <1>1, <1>3 DEF SuccessInv, BlamedOK

\* Nothing of a dump has happened, and the crashed threads run.
LEMMA InitSucceeds ==
  ASSUME WriterAssumption, Init
  PROVE  SuccessInv
BY DEF Init, WriterAssumption, SuccessInv, SuccessOK, FindsOK, RecordsOK, Complete, BlamedOK,
   Attaching, Copying

LEMMA SuccessSuffices == SuccessInv => OkDumpIsComplete /\ OkDumpHasContext
BY DEF SuccessInv, SuccessOK, RecordsOK, Complete, OkDumpIsComplete, OkDumpHasContext

\* Every step of the dumps and of the process they are about keeps IInv.
THEOREM Invariance ==
  ASSUME WriterAssumption, IsFiniteSet(Threads)
  PROVE  Spec => []IInv
<1>1. Init => IInv
  BY InitInv
<1>2. IInv /\ [Next]_vars => IInv'
  BY StepInv
<1> QED
  BY <1>1, <1>2, PTL DEF Spec

\* Who is copied is held.
LEMMA Copied == IInv => CopiedWhileStopped
BY Lists DEF IInv, DumperOK, Holds, Held, CopiedWhileStopped, ToSet, Types

\* Registers and stacks are read from threads that this dumper holds or that have
\* exited, however many dumps there are and whatever else attaches to the threads
\* ("One must have called ThreadsSuspend first").
THEOREM CopiedWhileStoppedHolds ==
  ASSUME WriterAssumption, IsFiniteSet(Threads)
  PROVE  Spec => []CopiedWhileStopped
  BY Copied, Invariance, PTL

\* When the dumps are over no thread is left stopped, nor a SIGSTOP pending, unless
\* a thread lost another signal to a dumper.
THEOREM ProcessRunsOnHolds ==
  ASSUME WriterAssumption, IsFiniteSet(Threads)
  PROVE  Spec => []ProcessRunsOn
<1>1. IInv => ProcessRunsOn
  BY DEF IInv, Types, ThreadOK, FrozenOK, ProcessRunsOn
<1> QED
  BY <1>1, Invariance, PTL

\* A dump that no other dump disturbs and that succeeds has a record of every thread
\* it found that has not exited, and the context of the crashed thread.  (Of two
\* dumps at once each loses the threads that the other has attached to.)
THEOREM OkDumpHolds ==
  ASSUME WriterAssumption, IsFiniteSet(Threads), \A d, e \in Dumpers : d = e
  PROVE  Spec => [](OkDumpIsComplete /\ OkDumpHasContext)
<1>1. Init => OtherTypes /\ SuccessInv
  BY InitTypes, InitSucceeds
<1>2. IInv /\ OtherTypes /\ SuccessInv /\ [Next]_vars => (OtherTypes /\ SuccessInv)'
  <2> SUFFICES ASSUME IInv, OtherTypes, SuccessInv, [Next]_vars PROVE SuccessInv'
    BY StepTypes
  <2>1. ASSUME NEW d \in Dumpers, DumperStep(d) PROVE SuccessInv'
    BY <2>1, DumperSucceeds DEF Undisputed, IInv, Types
  <2>2. ASSUME NEW t \in Threads, KernelStep(t) \/ ThreadStep(t) PROVE SuccessInv'
    BY <2>2, ThreadsSucceed
  <2>3. ASSUME UNCHANGED vars PROVE SuccessInv'
    <3>1. NobodyLives => NobodyLives'
      BY <2>3 DEF NobodyLives, vars, target
    <3>2. \A d \in Dumpers : SuccessOK(d)'
      BY <2>3, <3>1, SuccessLasts DEF SuccessInv, vars, target, dumper
    <3> QED BY <2>3, <3>1, <3>2 DEF SuccessInv, BlamedOK, vars, target
  <2> QED BY <2>1, <2>2, <2>3 DEF Next, Over
<1> QED
  BY <1>1, <1>2, SuccessSuffices, Invariance, PTL DEF Spec

=============================================================================
