------------------------- MODULE GenerateDumpProofs -------------------------
(***************************************************************************)
(* Theorems about GenerateDump, for any finite set of threads, any number  *)
(* of dumps and any size of the file table, and with the process killed at *)
(* any time.                                                               *)
(*                                                                         *)
(* The argument: from the time that its pipe is made until it is closed, a *)
(* dump owns the two descriptors that handler->fdes names, and no other    *)
(* dump has the same pipe (PipeOK, Apart); nobody but the parent writes to *)
(* the pipe and nobody but its child reads from it, so that the child of a *)
(* living parent has still to read, with its own read end open, until the  *)
(* parent has written (ChildOK).  And every open descriptor is owned       *)
(* (Owned).                                                                *)
(***************************************************************************)
EXTENDS GenerateDump, FiniteSetTheorems, WellFoundedInduction, TLAPS

(***************************************************************************)
(* Dumps that happen at the same time have handlers of their own.  Crashes *)
(* may share a handler, as the handlers' mutex lets only one of them dump; *)
(* an explicit WriteMinidump takes no lock, and fdes is in the handler.    *)
(***************************************************************************)
HandlersApart ==
  \A t, u \in Threads :
    t # u /\ HandlerOf[t] = HandlerOf[u] => t \in Crashers /\ u \in Crashers

AnyEnd == [pipe : Nat, end : {"read", "write"}]
Tables == [Fds -> AnyEnd \cup {None}]
Pairs == [read : 0..MaxFd, write : 0..MaxFd]

\* As much of the types as the proofs need.
Types ==
  /\ alive \in BOOLEAN
  /\ pc \in [Threads -> ParentStates]
  /\ left \in [Threads -> 0..Budget]
  /\ fds \in Tables
  /\ fdes \in [Handlers -> Pairs]
  /\ pipes \in Nat
  /\ bytes \in [Pipes -> Nat]
  /\ path \in [Handlers -> Nat]
  /\ paths \in Nat
  /\ child \in [Threads -> ChildStates]
  /\ copy \in [Threads -> [fds : Tables, fdes : Pairs, path : Nat]]

\* The descriptors of the dump that t takes, and the number of its pipe.
Mine(t) == fdes[HandlerOf[t]]
PipeOf(t) == fds[Mine(t).write].pipe

BothOpen == {"clone", "closeRead"}
BeforeByte == {"clone", "closeRead", "prctl", "write"}
Active == BeforeByte \cup {"wait", "closeWrite"}

\* Has t taken a pipe that it has not closed yet.
HasEnds(t) == pc[t] \in Active /\ Mine(t).write # NoFd

\* A dump that has a pipe owns its two ends, and nothing is in it before the
\* parent writes its byte.
PipeOK(t) ==
  /\ pc[t] \in Active => (Mine(t).read = NoFd <=> Mine(t).write = NoFd)
  /\ HasEnds(t) =>
       /\ PipeOf(t) \in 1..pipes
       /\ fds[Mine(t).write] = End(PipeOf(t), "write")
       /\ pc[t] \in BothOpen => fds[Mine(t).read] = End(PipeOf(t), "read")
       /\ alive /\ pc[t] \in BeforeByte => bytes[PipeOf(t)] = 0

\* The parent waits for its child, which works on the descriptors of this dump;
\* until the child has read it has the read end, and until the parent has
\* written the child has not read.
ChildOK(t) ==
  /\ Running(t) => /\ pc[t] \in {"closeRead", "prctl", "write", "wait"}
                   /\ copy[t].fdes = Mine(t)
  /\ HasEnds(t) /\ child[t] \in {"born", "reading"} =>
       /\ copy[t].fds[Mine(t).read] = End(PipeOf(t), "read")
       /\ Mine(t).read # Mine(t).write
  /\ alive /\ HasEnds(t) /\ pc[t] \in BeforeByte \ {"clone"} =>
       child[t] \in {"born", "reading"}

\* Two dumps have different pipes, and two crashes do not dump at once.
Apart ==
  /\ \A t, u \in Threads :
       t # u /\ HasEnds(t) /\ HasEnds(u) => PipeOf(t) # PipeOf(u)
  /\ \A t, u \in Crashers : t # u => pc[t] = "idle" \/ pc[u] = "idle"

\* Nothing is in a pipe that is still to be made.
Unused == \A p \in Pipes : p > pipes => bytes[p] = 0

\* Every open descriptor belongs to a dump that closes it.
Owned ==
  \A f \in Fds : fds[f] # None =>
    \E t \in Threads :
      /\ HasEnds(t)
      /\ f = Mine(t).write \/ (pc[t] \in BothOpen /\ f = Mine(t).read)

(***************************************************************************)
(* The pipes can be numbered by the dumps that made them, a thread and how *)
(* many dumps it has left: so there are at most Total of them.             *)
(***************************************************************************)
Slots == Threads \X (0..(Budget - 1))

Numbers(g) ==
  /\ g \in [1..pipes -> Slots]
  /\ \A p, q \in 1..pipes : g[p] = g[q] => p = q
  /\ \A p \in 1..pipes : \A t \in Threads :
       g[p][1] = t => left[t] < g[p][2] \/ (left[t] = g[p][2] /\ pc[t] # "pipe")

Counted ==
  /\ \A t \in Threads : pc[t] = "pipe" => left[t] < Budget
  /\ \E g : Numbers(g)

IInv ==
  /\ Types
  /\ \A t \in Threads : PipeOK(t) /\ ChildOK(t)
  /\ Apart
  /\ Unused
  /\ Owned


(***************************************************************************)
(* Lemmas about descriptors.                                               *)
(***************************************************************************)

\* A set of numbers has a least one.
LEMMA Lowest ==
  ASSUME NEW S \in SUBSET Nat, S # {}
  PROVE  (CHOOSE f \in S : \A g \in S : f <= g) \in S
<1> DEFINE Less == {p \in Nat \X Nat : p[1] < p[2]}
<1>1. IsWellFoundedOn(Less, Nat)
  BY NatLessThanWellFounded, Zenon DEF OpToRel
<1> HIDE DEF Less
<1>2. PICK x \in S : \A y \in S : ~(<<y, x>> \in Less)
  BY <1>1, WFMin
<1>3. ASSUME NEW y \in S PROVE x <= y
  <2>1. x \in Nat /\ y \in Nat
    OBVIOUS
  <2> DEFINE p == <<y, x>>
  <2>2. p \in Nat \X Nat /\ p[1] = y /\ p[2] = x
    BY <2>1
  <2>3. p \notin Less
    BY <1>2
  <2> HIDE DEF p
  <2>4. ~(y < x)
    BY <2>2, <2>3 DEF Less
  <2> QED BY <2>1, <2>4
<1> QED
  BY <1>3

\* pipe() takes two descriptors that are free, or none.
LEMMA PipeMade ==
  ASSUME DumpAssumption, Types, NEW t \in Threads, MakePipe(t)
  PROVE  \/ \E r, w \in Fds :
              /\ r # w /\ fds[r] = None /\ fds[w] = None
              /\ pipes' = pipes + 1
              /\ fds' = [fds EXCEPT ![r] = End(pipes + 1, "read"),
                                    ![w] = End(pipes + 1, "write")]
              /\ fdes' = [fdes EXCEPT ![HandlerOf[t]] = [read |-> r, write |-> w]]
         \/ /\ fdes' = [fdes EXCEPT ![HandlerOf[t]] = NoFdes]
            /\ UNCHANGED <<fds, pipes>>
<1> DEFINE free == {f \in Fds : fds[f] = None}
           lowest(S) == CHOOSE f \in S : \A g \in S : f <= g
           r == lowest(free)
           w == lowest(free \ {r})
<1>1. CASE /\ fdes' = [fdes EXCEPT ![HandlerOf[t]] = NoFdes]
           /\ UNCHANGED <<fds, pipes>>
  BY <1>1
<1>2. CASE /\ Cardinality(free) >= 2
           /\ pipes' = pipes + 1
           /\ fds' = [fds EXCEPT ![r] = End(pipes + 1, "read"),
                                 ![w] = End(pipes + 1, "write")]
           /\ fdes' = [fdes EXCEPT ![HandlerOf[t]] = [read |-> r, write |-> w]]
  <2>1. free \in SUBSET Nat /\ IsFiniteSet(free)
    <3>1. IsFiniteSet(Fds)
      BY FS_Interval DEF DumpAssumption, Fds
    <3>2. free \in SUBSET Fds /\ Fds \subseteq Nat
      BY DEF Fds
    <3> QED BY <3>1, <3>2, FS_Subset
  <2>2. free # {}
    <3>1. ~(Cardinality({}) >= 2)
      BY FS_EmptySet
    <3> HIDE DEF r, w
    <3> QED BY <1>2, <3>1
  <2>3. r \in free
    BY <2>1, <2>2, Lowest
  <2>4. free \ {r} # {}
    <3>1. Cardinality({r}) = 1 /\ Cardinality(free) >= 2
      BY <1>2, FS_Singleton
    <3> HIDE DEF r, w, free
    <3>2. free # {r}
      BY <3>1
    <3> QED BY <2>3, <3>2
  <2>5. w \in free \ {r}
    <3>1. free \ {r} \in SUBSET Nat
      BY <2>1
    <3> HIDE DEF r, free
    <3> QED BY <2>4, <3>1, Lowest
  <2>6. r \in Fds /\ w \in Fds /\ r # w /\ fds[r] = None /\ fds[w] = None
    BY <2>3, <2>5
  <2> HIDE DEF r, w, free
  <2> QED BY <1>2, <2>6
<1> QED
  BY <1>1, <1>2, Zenon DEF MakePipe

\* The handler of a thread.
LEMMA HandlerTypes ==
  ASSUME Types, NEW t \in Threads
  PROVE  /\ HandlerOf[t] \in Handlers
         /\ Mine(t) \in Pairs
         /\ Mine(t).read # NoFd => Mine(t).read \in Fds
         /\ Mine(t).write # NoFd => Mine(t).write \in Fds
<1>1. HandlerOf[t] \in Handlers
  BY DEF Handlers
<1>2. Mine(t) \in Pairs
  BY <1>1 DEF Types, Mine
<1> QED
  BY <1>1, <1>2 DEF Pairs, Fds, NoFd

\* The descriptors of two dumps are different, and so are the two of one.
LEMMA DistinctFds ==
  ASSUME IInv, NEW t \in Threads, NEW u \in Threads, HasEnds(t), HasEnds(u)
  PROVE  /\ Mine(t).write \in Fds
         /\ t # u => Mine(t).write # Mine(u).write
         /\ pc[t] \in BothOpen => Mine(t).read \in Fds /\ Mine(t).read # Mine(u).write
         /\ t # u /\ pc[t] \in BothOpen /\ pc[u] \in BothOpen =>
              Mine(t).read # Mine(u).read
<1>1. PipeOK(t) /\ PipeOK(u) /\ (t # u => PipeOf(t) # PipeOf(u))
  BY DEF IInv, Apart
<1>2. \A p, q : End(p, "read") # End(q, "write")
  BY DEF End
<1>3. \A p, q, e : End(p, e) = End(q, e) => p = q
  BY DEF End
<1> QED
  BY <1>1, <1>2, <1>3, HandlerTypes DEF IInv, PipeOK, HasEnds

\* Two threads that dump at the same time have handlers of their own.
LEMMA DistinctHandlers ==
  ASSUME HandlersApart, Apart, NEW t \in Threads, NEW u \in Threads, t # u,
         pc[t] # "idle", pc[u] # "idle"
  PROVE  HandlerOf[t] # HandlerOf[u]
BY DEF HandlersApart, Apart

\* A table from which a descriptor has been closed.
LEMMA Closed ==
  ASSUME NEW table \in Tables, NEW f
  PROVE  /\ Close(table, f) \in Tables
         /\ \A g \in Fds : Close(table, f)[g] = IF g = f THEN None ELSE table[g]
BY DEF Tables, Close

\* A descriptor that names an end of a pipe.
LEMMA Named ==
  ASSUME DumpAssumption, NEW table \in Tables, NEW f \in Fds, NEW q \in Nat,
         NEW e \in {"read", "write"}, table[f] = End(q, e)
  PROVE  Names(table, f, e) = q /\ q # None
<1>1. End(q, e) \in AnyEnd /\ End(q, e).end = e /\ End(q, e).pipe = q
  BY DEF AnyEnd, End
<1>2. End(q, e) # None /\ q # None
  BY <1>1 DEF AnyEnd, DumpAssumption
<1> QED
  BY <1>1, <1>2 DEF Names

\* A thread whose descriptors and child a step leaves alone loses nothing.
LEMMA Undisturbed ==
  ASSUME IInv, NEW u \in Threads,
         pc'[u] = pc[u], child'[u] = child[u], copy'[u] = copy[u],
         pc[u] # "idle" => Mine(u)' = Mine(u),
         pipes' \in Nat, pipes <= pipes', alive' => alive,
         HasEnds(u) => /\ fds'[Mine(u).write] = fds[Mine(u).write]
                       /\ pc[u] \in BothOpen => fds'[Mine(u).read] = fds[Mine(u).read]
                       /\ alive' => bytes'[PipeOf(u)] = bytes[PipeOf(u)]
  PROVE  /\ PipeOK(u)' /\ ChildOK(u)'
         /\ HasEnds(u)' <=> HasEnds(u)
         /\ HasEnds(u) => PipeOf(u)' = PipeOf(u) /\ Mine(u)' = Mine(u)
<1>1. PipeOK(u) /\ ChildOK(u) /\ pipes \in Nat
  BY DEF IInv, Types
<1>2. "idle" \notin Active
  BY DEF Active, BeforeByte
<1>3. HasEnds(u)' <=> HasEnds(u)
  BY <1>2 DEF HasEnds
<1>4. HasEnds(u) => PipeOf(u)' = PipeOf(u) /\ Mine(u)' = Mine(u)
  BY <1>2 DEF HasEnds, PipeOf
<1>5. PipeOK(u)'
  BY <1>1, <1>2, <1>3, <1>4 DEF PipeOK, HasEnds
<1>6. Running(u)' <=> Running(u)
  BY DEF Running
<1>7. ChildOK(u)'
  BY <1>1, <1>2, <1>3, <1>4, <1>6 DEF ChildOK, BeforeByte
<1> QED
  BY <1>3, <1>4, <1>5, <1>7

(***************************************************************************)
(* The parent.                                                             *)
(***************************************************************************)

\* The threads other than t: what a step of t must leave alone.
OthersKept(t) ==
  \A u \in Threads \ {t} :
    /\ PipeOK(u)' /\ ChildOK(u)'
    /\ HasEnds(u)' <=> HasEnds(u)
    /\ HasEnds(u) => PipeOf(u)' = PipeOf(u) /\ Mine(u)' = Mine(u)
    /\ pc'[u] = pc[u]

\* A step of t that takes no new pipe and starts no dump.
LEMMA StepOfOne ==
  ASSUME IInv, NEW t \in Threads, Types', OthersKept(t), PipeOK(t)', ChildOK(t)',
         HasEnds(t)' => HasEnds(t) /\ PipeOf(t)' = PipeOf(t),
         pc'[t] # "idle" => pc[t] # "idle",
         Unused', Owned', DumpAssumption
  PROVE  IInv'
<1>1. \A u \in Threads : PipeOK(u)' /\ ChildOK(u)'
  BY DEF OthersKept
<1>2. Apart'
  <2>1. ASSUME NEW u \in Threads, NEW v \in Threads, u # v, HasEnds(u)', HasEnds(v)'
        PROVE  PipeOf(u)' # PipeOf(v)'
    BY <2>1 DEF IInv, Apart, OthersKept
  <2>2. ASSUME NEW u \in Crashers, NEW v \in Crashers, u # v
        PROVE  pc'[u] = "idle" \/ pc'[v] = "idle"
    BY <2>2 DEF IInv, Apart, OthersKept, DumpAssumption
  <2> QED BY <2>1, <2>2 DEF Apart
<1> QED
  BY <1>1, <1>2 DEF IInv

\* WriteMinidump or HandleSignal begins.
LEMMA CallInv ==
  ASSUME DumpAssumption, IInv, NEW t \in Threads, Call(t)
  PROVE  IInv'
<1>1. pc[t] = "idle" /\ pc'[t] = "pipe"
  BY DEF Call, Goto, IInv, Types
<1>2. Types'
  BY DEF Call, Goto, WriteMinidump, HandleSignal, UpdatePath, IInv, Types,
         ParentStates, ChildStates
<1>3. "pipe" \notin Active /\ "idle" \notin Active
  BY DEF Active, BeforeByte
<1>4. OthersKept(t)
  <2> SUFFICES ASSUME NEW u \in Threads \ {t}
               PROVE  /\ PipeOK(u)' /\ ChildOK(u)'
                      /\ HasEnds(u)' <=> HasEnds(u)
                      /\ HasEnds(u) => PipeOf(u)' = PipeOf(u) /\ Mine(u)' = Mine(u)
                      /\ pc'[u] = pc[u]
    BY DEF OthersKept
  <2> QED BY Undisturbed DEF Call, Goto, IInv, Types, Mine
<1>5. PipeOK(t)' /\ ChildOK(t)' /\ ~HasEnds(t)' /\ ~HasEnds(t)
  BY <1>1, <1>3 DEF Call, IInv, Types, PipeOK, ChildOK, HasEnds, Running, Exited,
                    BothOpen, BeforeByte
<1>6. Apart'
  <2>1. ASSUME NEW u \in Threads, NEW v \in Threads, u # v, HasEnds(u)', HasEnds(v)'
        PROVE  PipeOf(u)' # PipeOf(v)'
    BY <2>1, <1>4, <1>5 DEF IInv, Apart, OthersKept
  <2>2. ASSUME NEW u \in Crashers, NEW v \in Crashers, u # v
        PROVE  pc'[u] = "idle" \/ pc'[v] = "idle"
    BY <2>2, <1>4 DEF Call, WriteMinidump, HandleSignal, IInv, Apart, OthersKept,
                      DumpAssumption
  <2> QED BY <2>1, <2>2 DEF Apart
<1>7. Unused' /\ Owned'
  <2>1. Unused'
    BY DEF Call, IInv, Unused
  <2>2. \A u \in Threads : HasEnds(u) => HasEnds(u)' /\ pc'[u] = pc[u] /\ Mine(u)' = Mine(u)
    BY <1>4, <1>5 DEF OthersKept
  <2>3. fds' = fds
    BY DEF Call
  <2> QED BY <2>1, <2>2, <2>3 DEF IInv, Owned
<1> QED
  BY <1>2, <1>4, <1>5, <1>6, <1>7 DEF IInv, OthersKept

\* The pipe is made, or is not.
LEMMA MakePipeInv ==
  ASSUME DumpAssumption, HandlersApart, IInv, Total \in Nat, pipes' <= Total,
         NEW t \in Threads, MakePipe(t)
  PROVE  IInv'
<1>1. pc[t] = "pipe" /\ pc'[t] = "clone" /\ \A u \in Threads \ {t} : pc'[u] = pc[u]
  BY DEF MakePipe, Goto, IInv, Types
<1>2. /\ bytes' = bytes /\ child' = child /\ copy' = copy /\ alive' = alive
      /\ left' = left /\ path' = path /\ paths' = paths
  BY DEF MakePipe
<1>3. HandlerOf[t] \in Handlers /\ pipes \in Nat
  BY HandlerTypes DEF IInv, Types
<1>4. \A u \in Threads \ {t} : pc[u] # "idle" => HandlerOf[u] # HandlerOf[t]
  BY <1>1, DistinctHandlers DEF IInv
<1>5. ~Running(t) /\ ~HasEnds(t)
  BY <1>1 DEF IInv, ChildOK, HasEnds, Active, BeforeByte
<1>6. "clone" \in Active /\ "clone" \in BothOpen /\ "clone" \in BeforeByte
      /\ "clone" \notin BeforeByte \ {"clone"} /\ "idle" \notin Active
  BY DEF Active, BeforeByte, BothOpen
<1>7. CASE /\ fdes' = [fdes EXCEPT ![HandlerOf[t]] = NoFdes]
           /\ UNCHANGED <<fds, pipes>>
  <2>1. Types'
    <3>1. NoFdes \in Pairs
      BY DEF NoFdes, Pairs, NoFd, DumpAssumption
    <3>2. pc' \in [Threads -> ParentStates]
      BY DEF MakePipe, Goto, IInv, Types, ParentStates
    <3> QED BY <1>2, <1>7, <3>1, <3>2 DEF IInv, Types
  <2>2. Mine(t)' = NoFdes
    BY <1>3, <1>7 DEF Mine, IInv, Types
  <2>3. \A u \in Threads \ {t} : pc[u] # "idle" => Mine(u)' = Mine(u)
    BY <1>4, <1>7, HandlerTypes DEF Mine, IInv, Types
  <2>4. OthersKept(t)
    <3> SUFFICES ASSUME NEW u \in Threads \ {t}
                 PROVE  /\ PipeOK(u)' /\ ChildOK(u)'
                        /\ HasEnds(u)' <=> HasEnds(u)
                        /\ HasEnds(u) => PipeOf(u)' = PipeOf(u) /\ Mine(u)' = Mine(u)
                        /\ pc'[u] = pc[u]
      BY DEF OthersKept
    <3> QED BY <1>1, <1>2, <1>3, <1>7, <2>3, Undisturbed
  <2>5. ~HasEnds(t)' /\ PipeOK(t)' /\ ChildOK(t)'
    BY <1>1, <1>2, <1>5, <2>2 DEF HasEnds, PipeOK, ChildOK, Running, NoFdes
  <2>6. Unused' /\ Owned'
    <3>1. Unused'
      BY <1>2, <1>7 DEF IInv, Unused
    <3>2. \A u \in Threads : HasEnds(u) => HasEnds(u)' /\ pc'[u] = pc[u] /\ Mine(u)' = Mine(u)
      BY <1>5, <2>4 DEF OthersKept
    <3> QED BY <1>7, <3>1, <3>2 DEF IInv, Owned
  <2> QED BY <1>1, <2>1, <2>4, <2>5, <2>6, StepOfOne
<1>8. ASSUME NEW r \in Fds, NEW w \in Fds,
             r # w, fds[r] = None, fds[w] = None,
             pipes' = pipes + 1,
             fds' = [fds EXCEPT ![r] = End(pipes + 1, "read"),
                                ![w] = End(pipes + 1, "write")],
             fdes' = [fdes EXCEPT ![HandlerOf[t]] = [read |-> r, write |-> w]]
      PROVE  IInv'
  <2>1. /\ fds'[r] = End(pipes + 1, "read") /\ fds'[w] = End(pipes + 1, "write")
        /\ \A f \in Fds \ {r, w} : fds'[f] = fds[f]
    BY <1>8 DEF IInv, Types, Tables
  <2>2. Types'
    <3>1. [read |-> r, write |-> w] \in Pairs
      BY DEF Pairs, Fds
    <3>2. pc' \in [Threads -> ParentStates]
      BY DEF MakePipe, Goto, IInv, Types, ParentStates
    <3>3. fds' \in Tables
      <4>1. End(pipes + 1, "read") \in AnyEnd /\ End(pipes + 1, "write") \in AnyEnd
        BY <1>3 DEF AnyEnd, End
      <4> QED BY <1>8, <4>1 DEF IInv, Types, Tables
    <3>4. fdes' \in [Handlers -> Pairs] /\ pipes' \in Nat
      BY <1>3, <1>8, <3>1 DEF IInv, Types
    <3> QED BY <1>2, <3>2, <3>3, <3>4 DEF IInv, Types
  <2>3. Mine(t)' = [read |-> r, write |-> w]
    BY <1>3, <1>8 DEF Mine, IInv, Types
  <2>4. \A u \in Threads \ {t} : pc[u] # "idle" => Mine(u)' = Mine(u)
    BY <1>4, <1>8, HandlerTypes DEF Mine, IInv, Types
  <2>5. \A p, e : None # End(p, e) \/ p \notin Nat \/ e \notin {"read", "write"}
    BY DEF DumpAssumption, End
  <2>6. OthersKept(t)
    <3> SUFFICES ASSUME NEW u \in Threads \ {t}
                 PROVE  /\ PipeOK(u)' /\ ChildOK(u)'
                        /\ HasEnds(u)' <=> HasEnds(u)
                        /\ HasEnds(u) => PipeOf(u)' = PipeOf(u) /\ Mine(u)' = Mine(u)
                        /\ pc'[u] = pc[u]
      BY DEF OthersKept
    <3>1. HasEnds(u) => /\ Mine(u).write \in Fds \ {r, w}
                        /\ pc[u] \in BothOpen => Mine(u).read \in Fds \ {r, w}
      <4> SUFFICES ASSUME HasEnds(u)
                   PROVE  /\ Mine(u).write \in Fds \ {r, w}
                          /\ pc[u] \in BothOpen => Mine(u).read \in Fds \ {r, w}
        OBVIOUS
      <4>1. Mine(u).write \in Fds /\ (pc[u] \in BothOpen => Mine(u).read \in Fds)
        BY DistinctFds
      <4>2. /\ PipeOf(u) \in Nat
            /\ fds[Mine(u).write] = End(PipeOf(u), "write")
            /\ pc[u] \in BothOpen => fds[Mine(u).read] = End(PipeOf(u), "read")
        BY <1>3 DEF IInv, PipeOK
      <4> QED BY <1>8, <2>5, <4>1, <4>2
    <3>2. HasEnds(u) => /\ fds'[Mine(u).write] = fds[Mine(u).write]
                        /\ pc[u] \in BothOpen => fds'[Mine(u).read] = fds[Mine(u).read]
      BY <2>1, <3>1
    <3>3. pipes' \in Nat /\ pipes <= pipes'
      BY <1>3, <1>8
    <3> QED BY <1>1, <1>2, <2>4, <3>2, <3>3, Undisturbed
  <2>7. HasEnds(t)' /\ PipeOf(t)' = pipes + 1
    BY <1>1, <1>6, <2>1, <2>3 DEF HasEnds, PipeOf, End, Fds, NoFd
  <2>8. PipeOK(t)'
    <3>1. bytes'[pipes + 1] = 0
      <4>1. pipes + 1 \in Pipes /\ pipes + 1 > pipes
        BY <1>3, <1>8 DEF Pipes
      <4> QED BY <1>2, <4>1 DEF IInv, Unused
    <3> QED BY <1>1, <1>2, <1>3, <1>8, <2>1, <2>3, <2>7, <3>1 DEF PipeOK, Fds, NoFd
  <2>9. ChildOK(t)'
    BY <1>1, <1>2, <1>5, <1>6 DEF ChildOK, Running, Exited
  <2>10. Apart'
    <3>1. \A u \in Threads \ {t} : HasEnds(u)' => PipeOf(u)' \in 1..pipes
      BY <2>6 DEF OthersKept, IInv, PipeOK
    <3>2. \A u \in Threads \ {t} : HasEnds(u)' => PipeOf(u)' # PipeOf(t)'
      BY <1>3, <2>7, <3>1
    <3>3. ASSUME NEW u \in Threads, NEW v \in Threads, u # v, HasEnds(u)', HasEnds(v)'
          PROVE  PipeOf(u)' # PipeOf(v)'
      BY <2>6, <3>2, <3>3 DEF IInv, Apart, OthersKept
    <3>4. ASSUME NEW u \in Crashers, NEW v \in Crashers, u # v
          PROVE  pc'[u] = "idle" \/ pc'[v] = "idle"
      BY <1>1, <3>4 DEF IInv, Apart, DumpAssumption
    <3> QED BY <3>3, <3>4 DEF Apart
  <2>11. Unused'
    BY <1>2, <1>3, <1>8 DEF IInv, Unused, Pipes
  <2>12. Owned'
    <3> SUFFICES ASSUME NEW f \in Fds, fds'[f] # None
                 PROVE  \E u \in Threads :
                          /\ HasEnds(u)'
                          /\ \/ f = Mine(u).write'
                             \/ pc'[u] \in BothOpen /\ f = Mine(u).read'
      BY DEF Owned
    <3>1. CASE f \in {r, w}
      BY <1>1, <1>6, <2>3, <2>7, <3>1
    <3>2. CASE f \notin {r, w}
      <4>1. PICK u \in Threads :
              /\ HasEnds(u)
              /\ f = Mine(u).write \/ (pc[u] \in BothOpen /\ f = Mine(u).read)
        BY <2>1, <3>2 DEF IInv, Owned
      <4> QED BY <1>5, <2>6, <4>1 DEF OthersKept
    <3> QED BY <3>1, <3>2
  <2> QED BY <2>2, <2>6, <2>8, <2>9, <2>10, <2>11, <2>12 DEF IInv, OthersKept
<1> QED
  BY <1>7, <1>8, PipeMade DEF IInv

\* The child gets its copies.
LEMMA CloneInv ==
  ASSUME DumpAssumption, IInv, NEW t \in Threads, Clone(t)
  PROVE  IInv'
<1>1. /\ pc[t] = "clone" /\ pc'[t] = "closeRead" /\ child'[t] = "born"
      /\ copy'[t] = [fds |-> fds, fdes |-> Mine(t), path |-> path[HandlerOf[t]]]
      /\ \A u \in Threads \ {t} : pc'[u] = pc[u] /\ child'[u] = child[u] /\ copy'[u] = copy[u]
  BY DEF Clone, Goto, IInv, Types, Mine
<1>2. /\ fds' = fds /\ fdes' = fdes /\ pipes' = pipes /\ bytes' = bytes /\ alive' = alive
      /\ left' = left /\ path' = path /\ paths' = paths
  BY DEF Clone, process
<1>3. "clone" \in Active /\ "closeRead" \in Active /\ "clone" \in BothOpen
      /\ "closeRead" \in BothOpen /\ "clone" \in BeforeByte /\ "closeRead" \in BeforeByte
  BY DEF Active, BeforeByte, BothOpen
<1>4. Types'
  <2>1. [fds |-> fds, fdes |-> fdes[HandlerOf[t]], path |-> path[HandlerOf[t]]]
          \in [fds : Tables, fdes : Pairs, path : Nat]
    BY HandlerTypes DEF IInv, Types
  <2> QED BY <1>2, <2>1 DEF Clone, Goto, IInv, Types, ParentStates, ChildStates
<1>5. OthersKept(t)
  BY <1>1, <1>2, Undisturbed DEF OthersKept, Mine, IInv, Types
<1>6. HasEnds(t)' <=> HasEnds(t)
  BY <1>1, <1>2, <1>3 DEF HasEnds, Mine
<1>7. PipeOf(t)' = PipeOf(t) /\ Mine(t)' = Mine(t)
  BY <1>2 DEF PipeOf, Mine
<1>8. PipeOK(t)'
  BY <1>1, <1>2, <1>3, <1>6, <1>7 DEF IInv, PipeOK
<1>9. ChildOK(t)'
  BY <1>1, <1>3, <1>6, <1>7, DistinctFds DEF ChildOK, IInv, PipeOK
<1>10. Unused' /\ Owned'
  BY <1>1, <1>2, <1>3, <1>5, <1>6, <1>7 DEF IInv, Unused, Owned, OthersKept
<1> QED
  BY <1>1, <1>4, <1>5, <1>6, <1>7, <1>8, <1>9, <1>10, StepOfOne

\* A step that closes descriptors of its own: nobody else's.
LEMMA ClosesItsOwn ==
  ASSUME IInv, NEW t \in Threads, pc[t] \in Active,
         NEW S,
         \A f \in S : f = Mine(t).write \/ (f = Mine(t).read /\ pc[t] \in BothOpen),
         \A f \in Fds : fds'[f] = IF f \in S THEN None ELSE fds[f],
         UNCHANGED <<fdes, pipes, bytes, alive, child, copy>>,
         \A u \in Threads \ {t} : pc'[u] = pc[u]
  PROVE  OthersKept(t)
<1> SUFFICES ASSUME NEW u \in Threads \ {t}
             PROVE  /\ PipeOK(u)' /\ ChildOK(u)'
                    /\ HasEnds(u)' <=> HasEnds(u)
                    /\ HasEnds(u) => PipeOf(u)' = PipeOf(u) /\ Mine(u)' = Mine(u)
                    /\ pc'[u] = pc[u]
  BY DEF OthersKept
<1>1. HasEnds(u) => /\ Mine(u).write \in Fds \ S
                    /\ pc[u] \in BothOpen => Mine(u).read \in Fds \ S
  <2> SUFFICES ASSUME HasEnds(u)
               PROVE  /\ Mine(u).write \in Fds \ S
                      /\ pc[u] \in BothOpen => Mine(u).read \in Fds \ S
    OBVIOUS
  <2>1. Mine(u).write \in Fds /\ (pc[u] \in BothOpen => Mine(u).read \in Fds)
    BY DistinctFds
  <2>2. CASE HasEnds(t)
    BY <2>1, <2>2, DistinctFds
  <2>3. CASE ~HasEnds(t)
    <3>1. Mine(t).read = NoFd /\ Mine(t).write = NoFd /\ NoFd \notin Fds
      BY <2>3 DEF HasEnds, IInv, PipeOK, NoFd, Fds
    <3> QED BY <2>1, <3>1
  <2> QED BY <2>2, <2>3
<1>2. Mine(u)' = Mine(u) /\ pipes \in Nat
  BY DEF Mine, IInv, Types
<1> QED
  BY <1>1, <1>2, Undisturbed

\* There is no child, and both ends are closed.
LEMMA CloneFailsInv ==
  ASSUME DumpAssumption, IInv, NEW t \in Threads, CloneFails(t)
  PROVE  IInv'
<1>1. pc[t] = "clone" /\ pc'[t] = "idle" /\ \A u \in Threads \ {t} : pc'[u] = pc[u]
  BY DEF CloneFails, Goto, IInv, Types
<1>2. /\ fdes' = fdes /\ pipes' = pipes /\ bytes' = bytes /\ alive' = alive
      /\ left' = left /\ path' = path /\ paths' = paths /\ child' = child /\ copy' = copy
  BY DEF CloneFails
<1>3. "clone" \in Active /\ "clone" \in BothOpen /\ "idle" \notin Active
  BY DEF Active, BeforeByte, BothOpen
<1>4. /\ fds' \in Tables
      /\ \A f \in Fds : fds'[f] = IF f \in {Mine(t).read, Mine(t).write} THEN None ELSE fds[f]
  <2>1. fds' = Close(Close(fds, Mine(t).read), Mine(t).write)
    BY DEF CloneFails, Mine
  <2>2. fds \in Tables
    BY DEF IInv, Types
  <2> QED BY <2>1, <2>2, Closed
<1>5. Types'
  BY <1>2, <1>4 DEF CloneFails, Goto, IInv, Types, ParentStates
<1>6. OthersKept(t)
  BY <1>1, <1>2, <1>3, <1>4, ClosesItsOwn
<1>7. ~HasEnds(t)' /\ PipeOK(t)' /\ ChildOK(t)'
  BY <1>1, <1>2, <1>3 DEF HasEnds, PipeOK, ChildOK, Running, IInv, BeforeByte
<1>8. Unused' /\ Owned'
  <2>1. Unused'
    BY <1>2 DEF IInv, Unused
  <2>2. ASSUME NEW f \in Fds, fds'[f] # None
        PROVE  \E u \in Threads :
                 /\ HasEnds(u)'
                 /\ f = Mine(u).write' \/ (pc'[u] \in BothOpen /\ f = Mine(u).read')
    BY <1>4, <1>6, <2>2 DEF IInv, Owned, OthersKept
  <2> QED BY <2>1, <2>2 DEF Owned
<1> QED
  BY <1>1, <1>5, <1>6, <1>7, <1>8, StepOfOne

\* The parent closes its read end.
LEMMA CloseReadEndInv ==
  ASSUME DumpAssumption, IInv, NEW t \in Threads, CloseReadEnd(t)
  PROVE  IInv'
<1>1. pc[t] = "closeRead" /\ pc'[t] = "prctl" /\ \A u \in Threads \ {t} : pc'[u] = pc[u]
  BY DEF CloseReadEnd, Goto, IInv, Types
<1>2. /\ fdes' = fdes /\ pipes' = pipes /\ bytes' = bytes /\ alive' = alive
      /\ left' = left /\ path' = path /\ paths' = paths /\ child' = child /\ copy' = copy
  BY DEF CloseReadEnd
<1>3. /\ "closeRead" \in Active /\ "closeRead" \in BothOpen /\ "prctl" \in Active
      /\ "prctl" \notin BothOpen /\ {"closeRead", "prctl"} \subseteq BeforeByte \ {"clone"}
      /\ {"closeRead", "prctl"} \subseteq BeforeByte
  BY DEF Active, BeforeByte, BothOpen
<1>4. /\ fds' \in Tables
      /\ \A f \in Fds : fds'[f] = IF f \in {Mine(t).read} THEN None ELSE fds[f]
  <2>1. fds' = Close(fds, Mine(t).read)
    BY DEF CloseReadEnd, Mine
  <2>2. fds \in Tables
    BY DEF IInv, Types
  <2> QED BY <2>1, <2>2, Closed
<1>5. Types'
  BY <1>2, <1>4 DEF CloseReadEnd, Goto, IInv, Types, ParentStates
<1>6. OthersKept(t)
  BY <1>1, <1>2, <1>3, <1>4, ClosesItsOwn
<1>7. Mine(t)' = Mine(t) /\ (HasEnds(t)' <=> HasEnds(t))
  BY <1>1, <1>2, <1>3 DEF HasEnds, Mine
<1>8. HasEnds(t) => fds'[Mine(t).write] = fds[Mine(t).write] /\ PipeOf(t)' = PipeOf(t)
  BY <1>1, <1>3, <1>4, <1>7, DistinctFds DEF PipeOf
<1>9. PipeOK(t)'
  BY <1>1, <1>2, <1>3, <1>7, <1>8 DEF PipeOK, IInv
<1>10. ChildOK(t)'
  BY <1>1, <1>2, <1>3, <1>7, <1>8 DEF ChildOK, IInv, Running
<1>11. Unused' /\ Owned'
  <2>1. Unused'
    BY <1>2 DEF IInv, Unused
  <2>2. ASSUME NEW f \in Fds, fds'[f] # None
        PROVE  \E u \in Threads :
                 /\ HasEnds(u)'
                 /\ f = Mine(u).write' \/ (pc'[u] \in BothOpen /\ f = Mine(u).read')
    BY <1>4, <1>6, <1>7, <2>2 DEF IInv, Owned, OthersKept
  <2> QED BY <2>1, <2>2 DEF Owned
<1> QED
  BY <1>1, <1>5, <1>6, <1>7, <1>8, <1>9, <1>10, <1>11, StepOfOne

\* The parent closes its write end and is done.
LEMMA CloseWriteEndInv ==
  ASSUME DumpAssumption, IInv, NEW t \in Threads, CloseWriteEnd(t)
  PROVE  IInv'
<1>1. pc[t] = "closeWrite" /\ pc'[t] = "idle" /\ \A u \in Threads \ {t} : pc'[u] = pc[u]
  BY DEF CloseWriteEnd, Goto, IInv, Types
<1>2. /\ fdes' = fdes /\ pipes' = pipes /\ bytes' = bytes /\ alive' = alive
      /\ left' = left /\ path' = path /\ paths' = paths /\ child' = child /\ copy' = copy
  BY DEF CloseWriteEnd
<1>3. "closeWrite" \in Active /\ "closeWrite" \notin BothOpen /\ "idle" \notin Active
  BY DEF Active, BeforeByte, BothOpen
<1>4. /\ fds' \in Tables
      /\ \A f \in Fds : fds'[f] = IF f \in {Mine(t).write} THEN None ELSE fds[f]
  <2>1. fds' = Close(fds, Mine(t).write)
    BY DEF CloseWriteEnd, Mine
  <2>2. fds \in Tables
    BY DEF IInv, Types
  <2> QED BY <2>1, <2>2, Closed
<1>5. Types'
  BY <1>2, <1>4 DEF CloseWriteEnd, Goto, IInv, Types, ParentStates
<1>6. OthersKept(t)
  BY <1>1, <1>2, <1>3, <1>4, ClosesItsOwn
<1>7. ~HasEnds(t)' /\ PipeOK(t)' /\ ChildOK(t)'
  BY <1>1, <1>2, <1>3 DEF HasEnds, PipeOK, ChildOK, Running, IInv, BeforeByte
<1>8. Unused' /\ Owned'
  <2>1. Unused'
    BY <1>2 DEF IInv, Unused
  <2>2. ASSUME NEW f \in Fds, fds'[f] # None
        PROVE  \E u \in Threads :
                 /\ HasEnds(u)'
                 /\ f = Mine(u).write' \/ (pc'[u] \in BothOpen /\ f = Mine(u).read')
    BY <1>1, <1>3, <1>4, <1>6, <2>2 DEF IInv, Owned, OthersKept
  <2> QED BY <2>1, <2>2 DEF Owned
<1> QED
  BY <1>1, <1>5, <1>6, <1>7, <1>8, StepOfOne

\* The permission to ptrace.
LEMMA AllowPtraceInv ==
  ASSUME DumpAssumption, IInv, NEW t \in Threads, AllowPtrace(t)
  PROVE  IInv'
<1>1. pc[t] = "prctl" /\ pc'[t] = "write" /\ \A u \in Threads \ {t} : pc'[u] = pc[u]
  BY DEF AllowPtrace, Goto, IInv, Types
<1>2. UNCHANGED <<alive, left, fds, fdes, pipes, bytes, path, paths, child, copy>>
  BY DEF AllowPtrace
<1>3. /\ {"prctl", "write"} \subseteq Active /\ {"prctl", "write"} \cap BothOpen = {}
      /\ {"prctl", "write"} \subseteq BeforeByte /\ "write" \in BeforeByte \ {"clone"}
      /\ "prctl" \in BeforeByte \ {"clone"}
  BY DEF Active, BeforeByte, BothOpen
<1>4. Types'
  BY <1>2 DEF AllowPtrace, Goto, IInv, Types, ParentStates
<1>5. OthersKept(t)
  BY <1>1, <1>2, Undisturbed DEF OthersKept, Mine, IInv, Types
<1>6. /\ HasEnds(t)' <=> HasEnds(t)
      /\ Mine(t)' = Mine(t) /\ PipeOf(t)' = PipeOf(t) /\ (Running(t)' <=> Running(t))
  BY <1>1, <1>2, <1>3 DEF HasEnds, Mine, PipeOf, Running
<1>7. PipeOK(t)' /\ ChildOK(t)'
  BY <1>1, <1>2, <1>3, <1>6 DEF PipeOK, ChildOK, IInv
<1>8. Unused' /\ Owned'
  BY <1>1, <1>2, <1>3, <1>5, <1>6 DEF IInv, Unused, Owned, OthersKept
<1> QED
  BY <1>1, <1>4, <1>5, <1>6, <1>7, <1>8, StepOfOne

\* The name of the pipe that the parent writes to.
LEMMA WriteEnd ==
  ASSUME DumpAssumption, IInv, NEW t \in Threads, pc[t] \in Active
  PROVE  LET p == Names(fds, fdes[HandlerOf[t]].write, "write")
         IN IF HasEnds(t) THEN p = PipeOf(t) /\ p \in 1..pipes /\ p # None ELSE p = None
<1>1. CASE HasEnds(t)
  <2>1. Mine(t).write \in Fds
    BY <1>1, DistinctFds
  <2>2. fds \in Tables /\ pipes \in Nat
    BY DEF IInv, Types
  <2>3. fds[Mine(t).write] = End(PipeOf(t), "write") /\ PipeOf(t) \in 1..pipes
    BY <1>1 DEF IInv, PipeOK
  <2>4. PipeOf(t) \in Nat
    BY <2>2, <2>3
  <2> QED BY <1>1, <2>1, <2>2, <2>3, <2>4, Named DEF Mine
<1>2. CASE ~HasEnds(t)
  BY <1>2 DEF HasEnds, Mine, Names, Fds, NoFd
<1> QED
  BY <1>1, <1>2

\* The byte is written, or nobody could read it.
LEMMA SendInv ==
  ASSUME DumpAssumption, IInv, Total \in Nat, pipes <= Total,
         NEW t \in Threads, SendContinueSignalToChild(t)
  PROVE  IInv'
<1> DEFINE p == Names(fds, fdes[HandlerOf[t]].write, "write")
<1>1. pc[t] = "write" /\ pc'[t] = "wait" /\ \A u \in Threads \ {t} : pc'[u] = pc[u]
  BY DEF SendContinueSignalToChild, Goto, IInv, Types
<1>2. UNCHANGED <<left, fds, fdes, pipes, path, paths, child, copy>>
  BY DEF SendContinueSignalToChild, process
<1>3. /\ "write" \in Active /\ "wait" \in Active /\ {"write", "wait"} \cap BothOpen = {}
      /\ "write" \in BeforeByte \ {"clone"} /\ "wait" \notin BeforeByte
  BY DEF Active, BeforeByte, BothOpen
<1>4. IF HasEnds(t) THEN p = PipeOf(t) /\ p \in 1..pipes /\ p # None ELSE p = None
  BY <1>1, <1>3, WriteEnd
<1>5. /\ alive' \in BOOLEAN /\ (alive' => alive)
      /\ \/ bytes' = bytes
         \/ HasEnds(t) /\ bytes' = [bytes EXCEPT ![p] = @ + 1]
  BY <1>4 DEF SendContinueSignalToChild, IInv, Types
<1> HIDE DEF p
<1>6. bytes' \in [Pipes -> Nat] /\ pipes \in Nat
      /\ \A q \in Pipes : q # p \/ ~HasEnds(t) => bytes'[q] = bytes[q]
  BY <1>5 DEF IInv, Types
<1>7. Types'
  <2>1. pc' \in [Threads -> ParentStates]
    BY DEF SendContinueSignalToChild, Goto, IInv, Types, ParentStates
  <2> QED BY <1>2, <1>5, <1>6, <2>1 DEF IInv, Types
<1>8. OthersKept(t)
  <2> SUFFICES ASSUME NEW u \in Threads \ {t}
               PROVE  /\ PipeOK(u)' /\ ChildOK(u)'
                      /\ HasEnds(u)' <=> HasEnds(u)
                      /\ HasEnds(u) => PipeOf(u)' = PipeOf(u) /\ Mine(u)' = Mine(u)
                      /\ pc'[u] = pc[u]
    BY DEF OthersKept
  <2>1. HasEnds(u) => PipeOf(u) \in Pipes
    BY <1>6 DEF IInv, PipeOK, Pipes
  <2>2. HasEnds(u) => bytes'[PipeOf(u)] = bytes[PipeOf(u)]
    BY <1>4, <1>6, <2>1 DEF IInv, Apart
  <2> QED BY <1>1, <1>2, <1>5, <1>6, <2>2, Undisturbed DEF Mine
<1>9. /\ HasEnds(t)' <=> HasEnds(t)
      /\ Mine(t)' = Mine(t) /\ PipeOf(t)' = PipeOf(t) /\ (Running(t)' <=> Running(t))
  BY <1>1, <1>2, <1>3 DEF HasEnds, Mine, PipeOf, Running
<1>10. PipeOK(t)' /\ ChildOK(t)'
  BY <1>1, <1>2, <1>3, <1>9 DEF PipeOK, ChildOK, IInv
<1>11. Unused'
  BY <1>2, <1>4, <1>6 DEF IInv, Unused
<1>12. Owned'
  BY <1>1, <1>2, <1>3, <1>8, <1>9 DEF IInv, Owned, OthersKept
<1> QED
  BY <1>1, <1>7, <1>8, <1>9, <1>10, <1>11, <1>12, StepOfOne

\* The child has ended.
LEMMA WaitInv ==
  ASSUME DumpAssumption, IInv, NEW t \in Threads, Wait(t)
  PROVE  IInv'
<1>1. /\ pc[t] = "wait" /\ pc'[t] = "closeWrite" /\ ~Running(t)
      /\ \A u \in Threads \ {t} : pc'[u] = pc[u]
  BY DEF Wait, Goto, IInv, Types
<1>2. UNCHANGED <<alive, left, fds, fdes, pipes, bytes, path, paths, child, copy>>
  BY DEF Wait, process
<1>3. /\ {"wait", "closeWrite"} \subseteq Active /\ {"wait", "closeWrite"} \cap BothOpen = {}
      /\ {"wait", "closeWrite"} \cap BeforeByte = {}
  BY DEF Active, BeforeByte, BothOpen
<1>4. Types'
  BY <1>2 DEF Wait, Goto, IInv, Types, ParentStates
<1>5. OthersKept(t)
  BY <1>1, <1>2, Undisturbed DEF OthersKept, Mine, IInv, Types
<1>6. /\ HasEnds(t)' <=> HasEnds(t)
      /\ Mine(t)' = Mine(t) /\ PipeOf(t)' = PipeOf(t) /\ (Running(t)' <=> Running(t))
  BY <1>1, <1>2, <1>3 DEF HasEnds, Mine, PipeOf, Running
<1>7. PipeOK(t)' /\ ChildOK(t)'
  BY <1>1, <1>2, <1>3, <1>6 DEF PipeOK, ChildOK, IInv
<1>8. Unused' /\ Owned'
  BY <1>1, <1>2, <1>3, <1>5, <1>6 DEF IInv, Unused, Owned, OthersKept
<1> QED
  BY <1>1, <1>4, <1>5, <1>6, <1>7, <1>8, StepOfOne

\* The process is killed.
LEMMA KillInv ==
  ASSUME DumpAssumption, IInv, Kill
  PROVE  IInv'
<1>1. UNCHANGED <<pc, left, fds, fdes, pipes, bytes, path, paths, child, copy>> /\ alive' = FALSE
  BY DEF Kill, process
<1>2. Types'
  BY <1>1 DEF IInv, Types
<1>3. \A u \in Threads : /\ PipeOK(u)' /\ ChildOK(u)'
                         /\ HasEnds(u)' <=> HasEnds(u)
                         /\ PipeOf(u)' = PipeOf(u) /\ Mine(u)' = Mine(u)
  BY <1>1, Undisturbed DEF IInv, Types, Mine, PipeOf
<1> QED
  BY <1>1, <1>2, <1>3 DEF IInv, Apart, Unused, Owned

(***************************************************************************)
(* The child.                                                              *)
(***************************************************************************)

\* A step of a child, which changes nothing of the process but what is in the
\* pipe of its own dump.
LEMMA ChildStepInv ==
  ASSUME IInv, NEW t \in Threads,
         UNCHANGED <<alive, pc, left, fds, fdes, pipes, path, paths>>,
         bytes' \in [Pipes -> Nat],
         \A q \in Pipes : bytes'[q] = bytes[q] \/ (HasEnds(t) /\ q = PipeOf(t)),
         NEW c \in [fds : Tables, fdes : Pairs, path : Nat], copy' = [copy EXCEPT ![t] = c],
         NEW st \in ChildStates, child' = [child EXCEPT ![t] = st],
         Total \in Nat, pipes <= Total,
         PipeOK(t)', ChildOK(t)'
  PROVE  IInv'
<1>1. Types'
  BY DEF IInv, Types
<1>2. \A u \in Threads : /\ HasEnds(u)' <=> HasEnds(u)
                         /\ PipeOf(u)' = PipeOf(u) /\ Mine(u)' = Mine(u)
  BY DEF HasEnds, PipeOf, Mine
<1>3. ASSUME NEW u \in Threads, HasEnds(u) PROVE PipeOf(u) \in 1..pipes /\ PipeOf(u) \in Pipes
  BY <1>3 DEF IInv, PipeOK, Types, Pipes
<1>4. ASSUME NEW u \in Threads PROVE PipeOK(u)' /\ ChildOK(u)'
  <2>1. CASE u = t
    BY <2>1
  <2>2. CASE u # t
    <3>1. child'[u] = child[u] /\ copy'[u] = copy[u]
      BY <2>2 DEF IInv, Types
    <3>2. HasEnds(u) => bytes'[PipeOf(u)] = bytes[PipeOf(u)]
      BY <1>3, <2>2 DEF IInv, Apart
    <3> QED BY <1>2, <3>1, <3>2, Undisturbed DEF IInv, Types
  <2> QED BY <2>1, <2>2
<1>5. Apart' /\ Owned'
  BY <1>2 DEF IInv, Apart, Owned
<1>6. Unused'
  BY <1>3 DEF IInv, Unused, Types
<1> QED
  BY <1>1, <1>4, <1>5, <1>6 DEF IInv

\* The child closes its copy of the write end, and keeps the read end.
LEMMA ChildClosesInv ==
  ASSUME DumpAssumption, IInv, Total \in Nat, pipes <= Total,
         NEW t \in Threads, ChildClosesWriteEnd(t)
  PROVE  IInv'
<1> DEFINE c == [copy[t] EXCEPT !.fds = Close(copy[t].fds, copy[t].fdes.write)]
<1>1. UNCHANGED <<alive, pc, left, fds, fdes, pipes, bytes, path, paths>>
  BY DEF ChildClosesWriteEnd, process
<1>2. copy[t] \in [fds : Tables, fdes : Pairs, path : Nat]
  BY DEF IInv, Types
<1>3. /\ c \in [fds : Tables, fdes : Pairs, path : Nat]
      /\ c.fdes = copy[t].fdes
      /\ \A g \in Fds : c.fds[g] = IF g = copy[t].fdes.write THEN None ELSE copy[t].fds[g]
  BY <1>2, Closed
<1>4. copy' = [copy EXCEPT ![t] = c] /\ child' = [child EXCEPT ![t] = "reading"]
      /\ child[t] = "born" /\ "reading" \in ChildStates
  BY DEF ChildClosesWriteEnd, ChildStates
<1> HIDE DEF c
<1>5. copy'[t] = c /\ child'[t] = "reading"
  BY <1>4 DEF IInv, Types
<1>6. Running(t) /\ ChildOK(t) /\ PipeOK(t)
  BY <1>4 DEF Running, Exited, IInv
<1>7. HasEnds(t) => Mine(t).read \in Fds
  BY <1>6, HandlerTypes DEF PipeOK, HasEnds, IInv
<1>8. HasEnds(t)' <=> HasEnds(t)
  BY <1>1 DEF HasEnds, Mine
<1>9. Mine(t)' = Mine(t) /\ PipeOf(t)' = PipeOf(t)
  BY <1>1 DEF Mine, PipeOf
<1>10. PipeOK(t)'
  BY <1>1, <1>6, <1>8, <1>9 DEF PipeOK
<1>11. ChildOK(t)'
  BY <1>1, <1>3, <1>4, <1>5, <1>6, <1>7, <1>8, <1>9 DEF ChildOK
<1>12. bytes \in [Pipes -> Nat]
  BY DEF IInv, Types
<1> QED
  BY <1>1, <1>3, <1>4, <1>10, <1>11, <1>12, ChildStepInv

\* The child gets the byte, or sees that its parent has died, or had no pipe.
LEMMA ChildReadsInv ==
  ASSUME DumpAssumption, IInv, Total \in Nat, pipes <= Total,
         NEW t \in Threads, WaitForContinueSignal(t)
  PROVE  IInv'
<1> DEFINE p == Names(copy[t].fds, copy[t].fdes.read, "read")
           c == [copy[t] EXCEPT !.fds = Close(copy[t].fds, copy[t].fdes.read)]
<1>1. UNCHANGED <<alive, pc, left, fds, fdes, pipes, path, paths>>
  BY DEF WaitForContinueSignal, process
<1>2. copy[t] \in [fds : Tables, fdes : Pairs, path : Nat]
  BY DEF IInv, Types
<1>3. c \in [fds : Tables, fdes : Pairs, path : Nat] /\ c.fdes = copy[t].fdes
  BY <1>2, Closed
<1>4. copy' = [copy EXCEPT ![t] = c] /\ child' = [child EXCEPT ![t] = "permitted"]
      /\ child[t] = "reading" /\ "permitted" \in ChildStates
  BY DEF WaitForContinueSignal, ChildStates
<1> HIDE DEF c
<1>5. copy'[t] = c /\ child'[t] = "permitted"
  BY <1>4 DEF IInv, Types
<1>6. /\ Running(t) /\ ChildOK(t) /\ PipeOK(t) /\ Running(t)'
      /\ pc[t] \in {"closeRead", "prctl", "write", "wait"} /\ copy[t].fdes = Mine(t)
  BY <1>4, <1>5 DEF Running, Exited, IInv, ChildOK
<1>7. {"closeRead", "prctl", "write", "wait"} \subseteq Active
      /\ {"closeRead", "prctl", "write"} = BeforeByte \ {"clone"}
  BY DEF Active, BeforeByte
<1>8. fds \in Tables /\ pipes \in Nat /\ bytes \in [Pipes -> Nat]
  BY DEF IInv, Types
<1>9. IF HasEnds(t) THEN p = PipeOf(t) /\ p \in 1..pipes /\ p # None ELSE p = None
  <2>1. CASE HasEnds(t)
    <3>1. Mine(t).read \in Fds
      BY <2>1, <1>6, HandlerTypes DEF PipeOK, HasEnds, IInv
    <3>2. copy[t].fds[Mine(t).read] = End(PipeOf(t), "read") /\ PipeOf(t) \in 1..pipes
      BY <2>1, <1>4, <1>6 DEF ChildOK, PipeOK
    <3>3. PipeOf(t) \in Nat
      BY <1>8, <3>2
    <3> QED BY <2>1, <1>2, <1>6, <3>1, <3>2, <3>3, Named
  <2>2. CASE ~HasEnds(t)
    <3>1. Mine(t).read = NoFd
      BY <2>2, <1>6, <1>7 DEF PipeOK, HasEnds
    <3> QED BY <2>2, <1>6, <3>1 DEF Names, Fds, NoFd
  <2> QED BY <2>1, <2>2
<1>10. HasEnds(t) /\ alive => Open(p, "write")
  <2> SUFFICES ASSUME HasEnds(t), alive PROVE Open(p, "write")
    OBVIOUS
  <2>1. Mine(t).write \in Fds
    BY DistinctFds
  <2>2. fds[Mine(t).write] = End(p, "write")
    BY <1>6, <1>9 DEF PipeOK
  <2> HIDE DEF p
  <2> QED BY <2>1, <2>2 DEF Open, HoldsEnd
<1>11. bytes' = bytes \/ (p # None /\ bytes[p] > 0 /\ bytes' = [bytes EXCEPT ![p] = @ - 1])
  BY DEF WaitForContinueSignal
<1>12. HasEnds(t) /\ alive => bytes[p] > 0
  BY <1>9, <1>10 DEF WaitForContinueSignal
<1> HIDE DEF p
<1>13. HasEnds(t) => p \in Pipes
  BY <1>8, <1>9 DEF Pipes
<1>14. bytes' \in [Pipes -> Nat]
  BY <1>8, <1>9, <1>11, <1>13
<1>15. \A q \in Pipes : bytes'[q] = bytes[q] \/ (HasEnds(t) /\ q = PipeOf(t))
  BY <1>8, <1>9, <1>11, <1>13
<1>16. ~(alive /\ HasEnds(t) /\ pc[t] \in BeforeByte)
  BY <1>6, <1>7, <1>9, <1>12 DEF PipeOK
<1>17. /\ HasEnds(t)' <=> HasEnds(t)
       /\ Mine(t)' = Mine(t) /\ PipeOf(t)' = PipeOf(t)
  BY <1>1 DEF HasEnds, Mine, PipeOf
<1>18. PipeOK(t)' /\ ChildOK(t)'
  BY <1>1, <1>3, <1>5, <1>6, <1>16, <1>17 DEF PipeOK, ChildOK
<1> QED
  BY <1>1, <1>3, <1>4, <1>14, <1>15, <1>18, ChildStepInv

\* The child dumps and exits.
LEMMA DoDumpInv ==
  ASSUME DumpAssumption, IInv, Total \in Nat, pipes <= Total,
         NEW t \in Threads, DoDump(t)
  PROVE  IInv'
<1>1. UNCHANGED <<alive, pc, left, fds, fdes, pipes, bytes, path, paths, copy>>
  BY DEF DoDump, process
<1>2. PICK st \in {"ok", "failed"} : child' = [child EXCEPT ![t] = st]
  BY DEF DoDump
<1>3. child[t] = "permitted" /\ child'[t] = st
  BY <1>2 DEF DoDump, IInv, Types
<1>4. Running(t) /\ ~Running(t)'
  BY <1>3 DEF Running, Exited
<1>5. /\ HasEnds(t)' <=> HasEnds(t)
      /\ Mine(t)' = Mine(t) /\ PipeOf(t)' = PipeOf(t)
  BY <1>1 DEF HasEnds, Mine, PipeOf
<1>6. PipeOK(t)' /\ ChildOK(t)'
  BY <1>1, <1>3, <1>4, <1>5 DEF PipeOK, ChildOK, IInv
<1>7. /\ copy[t] \in [fds : Tables, fdes : Pairs, path : Nat]
      /\ copy' = [copy EXCEPT ![t] = copy[t]] /\ st \in ChildStates
      /\ bytes' \in [Pipes -> Nat] /\ \A q \in Pipes : bytes'[q] = bytes[q]
  BY <1>1 DEF IInv, Types, ChildStates
<1> QED
  BY <1>1, <1>2, <1>6, <1>7, ChildStepInv

(***************************************************************************)
(* How many pipes there are.                                               *)
(***************************************************************************)

\* A numbering bounds the number of pipes.
LEMMA Bound ==
  ASSUME DumpAssumption, IsFiniteSet(Threads), NEW n \in Nat, NEW g \in [1..n -> Slots],
         \A p, q \in 1..n : g[p] = g[q] => p = q
  PROVE  Total \in Nat /\ n <= Total
<1>1. IsFiniteSet(0..(Budget - 1)) /\ Cardinality(0..(Budget - 1)) = Budget
  <2>1. Budget \in Nat /\ Budget - 1 \in Int /\ 0 \in Int
    BY DEF DumpAssumption
  <2>2. /\ IsFiniteSet(0..(Budget - 1))
        /\ Cardinality(0..(Budget - 1)) =
             IF 0 > Budget - 1 THEN 0 ELSE Budget - 1 - 0 + 1
    BY <2>1, FS_Interval
  <2> QED BY <2>1, <2>2
<1>2. /\ IsFiniteSet(Slots)
      /\ Cardinality(Slots) = Cardinality(Threads) * Cardinality(0..(Budget - 1))
  BY <1>1, FS_Product DEF Slots
<1>3. Cardinality(Threads) \in Nat /\ Budget \in Nat
  BY FS_CardinalityType DEF DumpAssumption
<1>4. Cardinality(Slots) = Total /\ Total \in Nat
  BY <1>1, <1>2, <1>3 DEF Total
<1>5. g \in Injection(1..n, Slots)
  BY DEF Injection, IsInjective
<1>6. Cardinality(1..n) <= Cardinality(Slots)
  BY <1>2, <1>5, FS_Injection
<1>7. Cardinality(1..n) = n
  BY FS_Interval
<1> QED
  BY <1>4, <1>6, <1>7

\* Every pipe is made by a dump that has made none.
LEMMA CountedStep ==
  ASSUME DumpAssumption, Types, Counted, [Next]_vars
  PROVE  Counted'
<1> PICK g : Numbers(g)
  BY DEF Counted
<1>1. ASSUME UNCHANGED <<pc, left, pipes>> PROVE Counted'
  <2>1. Numbers(g)'
    BY <1>1 DEF Numbers
  <2>2. \A t \in Threads : pc'[t] = "pipe" => left'[t] < Budget
    BY <1>1 DEF Counted
  <2> QED BY <2>1, <2>2 DEF Counted
<1>2. ASSUME NEW t \in Threads, Call(t) PROVE Counted'
  <2>1. /\ left' = [left EXCEPT ![t] = @ - 1] /\ left[t] \in 1..Budget
        /\ pc' = [pc EXCEPT ![t] = "pipe"] /\ pipes' = pipes
    BY <1>2 DEF Call, Goto, Types, DumpAssumption
  <2>2. \A u \in Threads : left'[u] = (IF u = t THEN left[t] - 1 ELSE left[u])
                           /\ (u # t => pc'[u] = pc[u])
    BY <2>1 DEF Types
  <2>3. \A p \in 1..pipes : g[p][1] \in Threads /\ g[p][2] \in Nat
    BY DEF Numbers, Slots, DumpAssumption
  <2>4. \A u \in Threads : left[u] \in Nat
    BY DEF Types, DumpAssumption
  <2>5. Numbers(g)'
    <3>1. ASSUME NEW p \in 1..pipes, NEW u \in Threads, g[p][1] = u
          PROVE  left'[u] < g[p][2] \/ (left'[u] = g[p][2] /\ pc'[u] # "pipe")
      <4>1. left[u] <= g[p][2] /\ (left[u] < g[p][2] \/ pc[u] # "pipe")
        BY <2>3, <2>4, <3>1 DEF Numbers
      <4>2. CASE u = t
        BY <2>2, <2>3, <2>4, <4>1, <4>2
      <4>3. CASE u # t
        BY <2>2, <3>1, <4>3 DEF Numbers
      <4> QED BY <4>2, <4>3
    <3> QED BY <2>1, <3>1 DEF Numbers
  <2>6. \A u \in Threads : pc'[u] = "pipe" => left'[u] < Budget
    BY <2>1, <2>2 DEF Counted, DumpAssumption
  <2> QED BY <2>5, <2>6 DEF Counted
<1>3. ASSUME NEW t \in Threads, pc[t] # "idle", left' = left,
             NEW at \in ParentStates \ {"pipe"}, pc' = [pc EXCEPT ![t] = at],
             \/ pipes' = pipes
             \/ pc[t] = "pipe" /\ pipes' = pipes + 1
      PROVE  Counted'
  <2>1. \A u \in Threads : pc'[u] = (IF u = t THEN at ELSE pc[u])
    BY <1>3 DEF Types
  <2>2. \A u \in Threads : pc'[u] = "pipe" => left'[u] < Budget
    BY <1>3, <2>1 DEF Counted
  <2>3. CASE pipes' = pipes
    <3>1. Numbers(g)'
      BY <1>3, <2>1, <2>3 DEF Numbers
    <3> QED BY <2>2, <3>1 DEF Counted
  <2>4. CASE pc[t] = "pipe" /\ pipes' = pipes + 1
    <3> PICK h : h = [p \in 1..(pipes + 1) |-> IF p = pipes + 1 THEN <<t, left[t]>> ELSE g[p]]
      OBVIOUS
    <3>1. left[t] \in 0..(Budget - 1) /\ pipes \in Nat
      BY <2>4 DEF Counted, Types, DumpAssumption
    <3>2. <<t, left[t]>> \in Slots /\ \A p \in 1..pipes : g[p] \in Slots
      BY <3>1 DEF Slots, Numbers
    <3>3. \A p \in 1..(pipes + 1) : p = pipes + 1 \/ p \in 1..pipes
      BY <3>1
    <3>4. h \in [1..(pipes + 1) -> Slots]
      BY <3>2, <3>3
    <3>5. \A p \in 1..pipes : g[p] # <<t, left[t]>>
      BY <2>4, <3>1 DEF Numbers
    <3>6. /\ h[pipes + 1] = <<t, left[t]>>
          /\ \A p \in 1..pipes : h[p] = g[p]
      BY <3>1
    <3>7. \A p, q \in 1..(pipes + 1) : h[p] = h[q] => p = q
      BY <3>3, <3>5, <3>6 DEF Numbers
    <3>8. ASSUME NEW p \in 1..(pipes + 1), NEW u \in Threads, h[p][1] = u
          PROVE  left'[u] < h[p][2] \/ (left'[u] = h[p][2] /\ pc'[u] # "pipe")
      <4>1. CASE p = pipes + 1
        BY <1>3, <2>1, <3>6, <3>8, <4>1
      <4>2. CASE p \in 1..pipes
        BY <1>3, <2>1, <3>6, <3>8, <4>2 DEF Numbers
      <4> QED BY <3>3, <4>1, <4>2
    <3>9. Numbers(h)'
      BY <2>4, <3>4, <3>7, <3>8 DEF Numbers
    <3> QED BY <2>2, <3>9 DEF Counted
  <2> QED BY <1>3, <2>3, <2>4
<1>4. ASSUME NEW t \in Threads, ParentStep(t) PROVE Counted'
  <2>1. pc[t] # "idle" /\ left' = left
    BY <1>4 DEF ParentStep, MakePipe, Clone, CloneFails, CloseReadEnd, AllowPtrace,
                SendContinueSignalToChild, Wait, CloseWriteEnd
  <2>2. \E at \in ParentStates \ {"pipe"} : pc' = [pc EXCEPT ![t] = at]
    BY <1>4 DEF ParentStep, MakePipe, Clone, CloneFails, CloseReadEnd, AllowPtrace,
                SendContinueSignalToChild, Wait, CloseWriteEnd, Goto, ParentStates
  <2>3. pipes' = pipes \/ (pc[t] = "pipe" /\ pipes' = pipes + 1)
    BY <1>4 DEF ParentStep, MakePipe, Clone, CloneFails, CloseReadEnd, AllowPtrace,
                SendContinueSignalToChild, Wait, CloseWriteEnd
  <2> QED BY <2>1, <2>2, <2>3, <1>3
<1>5. ASSUME NEW t \in Threads, ChildStep(t) PROVE Counted'
  BY <1>1, <1>5 DEF ChildStep, ChildClosesWriteEnd, WaitForContinueSignal, DoDump
<1>6. ASSUME Kill PROVE Counted'
  BY <1>1, <1>6 DEF Kill
<1>7. ASSUME Done \/ UNCHANGED vars PROVE Counted'
  BY <1>1, <1>7 DEF Done, vars
<1> QED
  BY <1>2, <1>4, <1>5, <1>6, <1>7 DEF Next

(***************************************************************************)
(* The theorems.                                                           *)
(***************************************************************************)

LEMMA InitInv ==
  ASSUME DumpAssumption, IsFiniteSet(Threads), Init
  PROVE  IInv /\ Counted
<1>1. \A t \in Threads : HandlerOf[t] \in Handlers
  BY DEF Handlers
<1>2. Types
  <2>1. NoFdes \in Pairs /\ NoEnds \in Tables
    BY DEF NoFdes, Pairs, NoFd, DumpAssumption, NoEnds, Tables
  <2>2. path \in [Handlers -> Nat] /\ paths \in Nat
    <3>1. IsFiniteSet(Handlers)
      <4> DEFINE f == [t \in Threads |-> HandlerOf[t]]
      <4>1. f \in Surjection(Threads, Handlers)
        BY DEF Surjection, Handlers
      <4> HIDE DEF f
      <4> QED BY <4>1, FS_Surjection
    <3>2. Cardinality(Handlers) \in Nat
      BY <3>1, FS_CardinalityType
    <3> QED BY <3>2 DEF Init
  <2>3. NoCopy \in [fds : Tables, fdes : Pairs, path : Nat]
    BY <2>1 DEF NoCopy
  <2> QED
    BY <2>1, <2>2, <2>3 DEF Init, Types, ParentStates, ChildStates, DumpAssumption
<1>3. \A t \in Threads : pc[t] = "idle" /\ child[t] = "none"
  BY DEF Init
<1>4. "idle" \notin Active
  BY DEF Active, BeforeByte
<1>5. \A t \in Threads : ~HasEnds(t) /\ PipeOK(t) /\ ChildOK(t)
  BY <1>3, <1>4 DEF HasEnds, PipeOK, ChildOK, Running, Exited
<1>6. Apart /\ Unused /\ Owned
  BY <1>3, <1>5 DEF Init, Apart, Unused, Owned, DumpAssumption, NoEnds
<1>7. Counted
  <2>1. \A t \in Threads : pc[t] # "pipe"
    BY <1>3
  <2>2. pipes = 0 /\ 1..0 = {}
    BY DEF Init
  <2>3. Numbers([p \in {} |-> p])
    BY <2>2 DEF Numbers
  <2> QED BY <2>1, <2>3 DEF Counted
<1> QED
  BY <1>2, <1>5, <1>6, <1>7 DEF IInv

\* The invariant is inductive.
LEMMA StepInv ==
  ASSUME DumpAssumption, HandlersApart, IsFiniteSet(Threads), IInv, Counted, [Next]_vars
  PROVE  IInv' /\ Counted'
<1>1. Counted'
  BY CountedStep DEF IInv
<1>2. Total \in Nat /\ pipes \in Nat /\ pipes <= Total
  BY Bound DEF IInv, Types, Counted, Numbers
<1>3. ASSUME NEW t \in Threads, MakePipe(t) PROVE IInv'
  <2>1. pipes' \in Nat
    BY <1>2, <1>3 DEF MakePipe
  <2>2. pipes' <= Total
    BY <1>1, <2>1, Bound DEF Counted, Numbers, Slots
  <2> QED BY <1>2, <1>3, <2>2, MakePipeInv
<1>4. ASSUME NEW t \in Threads, ParentStep(t) PROVE IInv'
  BY <1>2, <1>3, <1>4, CloneInv, CloneFailsInv, CloseReadEndInv, AllowPtraceInv, SendInv,
     WaitInv, CloseWriteEndInv DEF ParentStep
<1>5. ASSUME NEW t \in Threads, ChildStep(t) PROVE IInv'
  BY <1>2, <1>5, ChildClosesInv, ChildReadsInv, DoDumpInv DEF ChildStep
<1>6. ASSUME UNCHANGED vars PROVE IInv'
  <2> USE <1>6 DEF vars
  <2>1. Types'
    BY DEF IInv, Types
  <2>2. \A t \in Threads : /\ HasEnds(t)' = HasEnds(t) /\ Mine(t)' = Mine(t)
                          /\ PipeOf(t)' = PipeOf(t) /\ Running(t)' = Running(t)
    BY DEF HasEnds, Mine, PipeOf, Running
  <2>3. \A t \in Threads : PipeOK(t)'
    BY <2>2 DEF IInv, PipeOK
  <2>4. \A t \in Threads : ChildOK(t)'
    BY <2>2 DEF IInv, ChildOK
  <2>5. Apart' /\ Unused'
    BY <2>2 DEF IInv, Apart, Unused
  <2>6. Owned'
    BY <2>2 DEF IInv, Owned
  <2> QED BY <2>1, <2>3, <2>4, <2>5, <2>6 DEF IInv
<1> QED
  BY <1>1, <1>4, <1>5, <1>6, CallInv, KillInv DEF Next, Done

(***************************************************************************)
(* Types.  A pipe never holds more than the one byte of its parent, and    *)
(* what a child writes is a path that has been made.                       *)
(***************************************************************************)

TypeInv ==
  /\ TypeOK
  /\ \A p \in Pipes : bytes[p] <= 1
  /\ \A t \in Threads : Running(t) => copy[t].path \in 1..paths

\* The file that a child makes is one of the paths, and holds its dump or none.
LEMMA FileTypes ==
  ASSUME TypeInv, NEW t \in Threads, DoDump(t)
  PROVE  /\ DOMAIN files' \subseteq 1..paths
         /\ \A p \in DOMAIN files' : files'[p] \in [by : Threads, left : 0..Budget] \cup {None}
<1>1. child[t] = "permitted"
  BY DEF DoDump
<1>2. Running(t)
  BY <1>1 DEF Running, Exited
<1>3. copy[t].path \in 1..paths
  BY <1>2 DEF TypeInv
<1>4. Dump(t) \in [by : Threads, left : 0..Budget]
  BY DEF Dump, TypeInv, TypeOK
<1>5. CASE files' = files
  BY <1>5 DEF TypeInv, TypeOK
<1>6. CASE \E st \in {"ok", "failed"} :
             files' = [p \in DOMAIN files \cup {copy[t].path} |->
                         IF p # copy[t].path THEN files[p]
                         ELSE IF st = "ok" THEN Dump(t) ELSE None]
  <2>1. PICK st \in {"ok", "failed"} :
          files' = [p \in DOMAIN files \cup {copy[t].path} |->
                      IF p # copy[t].path THEN files[p]
                      ELSE IF st = "ok" THEN Dump(t) ELSE None]
    BY <1>6
  <2>2. DOMAIN files' = DOMAIN files \cup {copy[t].path}
    BY <2>1
  <2>3. DOMAIN files \subseteq 1..paths
    BY DEF TypeInv, TypeOK
  <2>4. ASSUME NEW p \in DOMAIN files'
        PROVE  files'[p] \in [by : Threads, left : 0..Budget] \cup {None}
    <3>1. CASE p = copy[t].path
      BY <1>4, <2>1, <3>1
    <3>2. CASE p # copy[t].path
      BY <2>1, <3>2 DEF TypeInv, TypeOK
    <3> QED BY <3>1, <3>2
  <2> QED BY <1>3, <2>2, <2>3, <2>4
<1> QED
  BY <1>5, <1>6, Zenon DEF DoDump

\* Closing a descriptor keeps a table.
LEMMA ClosedType ==
  ASSUME NEW table \in [Fds -> Ends \cup {None}], NEW f
  PROVE  Close(table, f) \in [Fds -> Ends \cup {None}]
BY DEF Close

LEMMA CallTypes ==
  ASSUME DumpAssumption, TypeInv, NEW t \in Threads, Call(t)
  PROVE  TypeInv'
<1>1. UNCHANGED <<alive, fds, fdes, pipes, bytes, ptracer, files, copy>>
  BY DEF Call
<1>2. /\ pc' \in [Threads -> ParentStates] /\ left' \in [Threads -> 0..Budget]
      /\ child' \in [Threads -> ChildStates] /\ result' \in [Threads -> {"none", "ok", "failed"}]
      /\ \A u \in Threads : Running(u)' => Running(u)
  BY DEF Call, Goto, TypeInv, TypeOK, ParentStates, ChildStates, DumpAssumption, Running, Exited
<1>3. paths \in Nat /\ paths' \in Nat /\ paths <= paths'
  BY DEF Call, WriteMinidump, HandleSignal, UpdatePath, TypeInv, TypeOK
<1>4. 1..paths \subseteq 1..paths'
  BY <1>3
<1>5. path' \in [Handlers -> 1..paths']
  <2>1. CASE WriteMinidump(t)
    <3>1. paths' \in 1..paths' /\ path' = [path EXCEPT ![HandlerOf[t]] = paths']
      BY <1>3, <2>1 DEF WriteMinidump, UpdatePath
    <3> QED BY <1>4, <3>1 DEF TypeInv, TypeOK
  <2>2. CASE HandleSignal(t)
    BY <2>2 DEF HandleSignal, TypeInv, TypeOK
  <2> QED BY <2>1, <2>2 DEF Call
<1> QED
  BY <1>1, <1>2, <1>3, <1>4, <1>5 DEF TypeInv, TypeOK

\* What a parent does after that.
LEMMA ParentTypes ==
  ASSUME DumpAssumption, IInv, TypeInv, Total \in Nat, pipes <= Total, pipes' <= Total, alive,
         NEW t \in Threads, ParentStep(t)
  PROVE  TypeInv'
<1>1. pc' \in [Threads -> ParentStates]
  <2>1. pc \in [Threads -> ParentStates]
    BY DEF TypeInv, TypeOK, ParentStates
  <2>2. CASE MakePipe(t) \/ Clone(t)
    BY <2>1, <2>2 DEF MakePipe, Clone, Goto, ParentStates
  <2>3. CASE CloneFails(t) \/ CloseReadEnd(t) \/ CloseWriteEnd(t)
    BY <2>1, <2>3 DEF CloneFails, CloseReadEnd, CloseWriteEnd, Goto, ParentStates
  <2>4. CASE AllowPtrace(t) \/ SendContinueSignalToChild(t) \/ Wait(t)
    BY <2>1, <2>4 DEF AllowPtrace, SendContinueSignalToChild, Wait, Goto, ParentStates
  <2> QED BY <2>2, <2>3, <2>4 DEF ParentStep
<1>2. UNCHANGED <<left, path, paths, files>>
  BY DEF ParentStep, MakePipe, Clone, CloneFails, CloseReadEnd, AllowPtrace,
     SendContinueSignalToChild, Wait, CloseWriteEnd, process
<1>3. CASE MakePipe(t)
  <2>1. UNCHANGED <<alive, bytes, ptracer, child, copy, result>>
    BY <1>3 DEF MakePipe
  <2>2. /\ fds' \in [Fds -> Ends \cup {None}]
        /\ fdes' \in [Handlers -> [read : Fds \cup {NoFd}, write : Fds \cup {NoFd}]]
        /\ pipes' \in 0..Total
    <3>1. HandlerOf[t] \in Handlers
      BY DEF Handlers
    <3>2. CASE /\ fdes' = [fdes EXCEPT ![HandlerOf[t]] = NoFdes]
               /\ UNCHANGED <<fds, pipes>>
      BY <3>1, <3>2 DEF TypeInv, TypeOK, NoFdes
    <3>3. ASSUME NEW r \in Fds, NEW w \in Fds, pipes' = pipes + 1,
                 fds' = [fds EXCEPT ![r] = End(pipes + 1, "read"),
                                    ![w] = End(pipes + 1, "write")],
                 fdes' = [fdes EXCEPT ![HandlerOf[t]] = [read |-> r, write |-> w]]
          PROVE  /\ fds' \in [Fds -> Ends \cup {None}]
                 /\ fdes' \in [Handlers -> [read : Fds \cup {NoFd}, write : Fds \cup {NoFd}]]
                 /\ pipes' \in 0..Total
      <4>1. pipes + 1 \in Pipes /\ pipes + 1 \in 0..Total
        BY <3>3 DEF TypeInv, TypeOK, Pipes
      <4>2. End(pipes + 1, "read") \in Ends /\ End(pipes + 1, "write") \in Ends
        BY <4>1 DEF Ends, End
      <4>3. fds \in [Fds -> Ends \cup {None}]
        BY DEF TypeInv, TypeOK
      <4>4. fds' \in [Fds -> Ends \cup {None}]
        BY <3>3, <4>2, <4>3
      <4>5. [read |-> r, write |-> w] \in [read : Fds \cup {NoFd}, write : Fds \cup {NoFd}]
        OBVIOUS
      <4>6. fdes \in [Handlers -> [read : Fds \cup {NoFd}, write : Fds \cup {NoFd}]]
        BY DEF TypeInv, TypeOK
      <4> QED BY <3>1, <3>3, <4>1, <4>4, <4>5, <4>6
    <3> QED BY <1>3, <3>2, <3>3, PipeMade DEF IInv
  <2> QED BY <1>1, <1>2, <2>1, <2>2 DEF TypeInv, TypeOK, Running
<1>4. CASE Clone(t)
  <2>1. UNCHANGED <<alive, fds, fdes, pipes, bytes, ptracer, result>>
    BY <1>4 DEF Clone, process
  <2>2. child' \in [Threads -> ChildStates] /\ \A u \in Threads \ {t} : child'[u] = child[u]
    BY <1>4 DEF Clone, TypeInv, TypeOK, ChildStates
  <2>3. \A u \in Threads \ {t} : copy'[u] = copy[u]
    BY <1>4 DEF Clone, IInv, Types
  <2>4. copy'[t].fds = fds /\ copy'[t].path \in 1..paths
    <3>1. copy'[t] = [fds |-> fds, fdes |-> fdes[HandlerOf[t]], path |-> path[HandlerOf[t]]]
      BY <1>4 DEF Clone, IInv, Types
    <3>2. HandlerOf[t] \in Handlers
      BY DEF Handlers
    <3> QED BY <3>1, <3>2 DEF TypeInv, TypeOK
  <2> QED BY <1>1, <1>2, <2>1, <2>2, <2>3, <2>4 DEF TypeInv, TypeOK, Running
<1>5. CASE CloneFails(t) \/ CloseReadEnd(t) \/ CloseWriteEnd(t)
  <2>1. UNCHANGED <<alive, fdes, pipes, bytes, ptracer, child, copy>>
        /\ result' \in [Threads -> {"none", "ok", "failed"}]
    BY <1>5 DEF CloneFails, CloseReadEnd, CloseWriteEnd, TypeInv, TypeOK
  <2>2. fds' \in [Fds -> Ends \cup {None}]
    <3>1. fds \in [Fds -> Ends \cup {None}]
      BY DEF TypeInv, TypeOK
    <3> DEFINE below == Close(fds, fdes[HandlerOf[t]].read)
               above == Close(fds, fdes[HandlerOf[t]].write)
    <3>2. below \in [Fds -> Ends \cup {None}]
      BY <3>1, ClosedType
    <3>3. above \in [Fds -> Ends \cup {None}]
      BY <3>1, ClosedType
    <3>4. Close(below, fdes[HandlerOf[t]].write) \in [Fds -> Ends \cup {None}]
      <4> HIDE DEF below
      <4> QED BY <3>2, ClosedType
    <3>5. \/ fds' = Close(below, fdes[HandlerOf[t]].write)
          \/ fds' = below
          \/ fds' = above
      BY <1>5 DEF CloneFails, CloseReadEnd, CloseWriteEnd
    <3> HIDE DEF below, above
    <3> QED BY <3>2, <3>3, <3>4, <3>5
  <2> QED BY <1>1, <1>2, <2>1, <2>2 DEF TypeInv, TypeOK, Running
<1>6. CASE AllowPtrace(t) \/ Wait(t)
  <2>1. UNCHANGED <<alive, fds, fdes, pipes, bytes, child, copy>>
        /\ result' \in [Threads -> {"none", "ok", "failed"}]
    BY <1>6 DEF AllowPtrace, Wait, process, TypeInv, TypeOK
  <2>2. Dump(t) \in [by : Threads, left : 0..Budget]
    BY DEF Dump, TypeInv, TypeOK
  <2>3. ptracer' \in [by : Threads, left : 0..Budget] \cup {None}
    BY <1>6, <2>2 DEF AllowPtrace, Wait, process, TypeInv, TypeOK
  <2> QED BY <1>1, <1>2, <2>1, <2>3 DEF TypeInv, TypeOK, Running
<1>7. CASE SendContinueSignalToChild(t)
  <2> DEFINE p == Names(fds, fdes[HandlerOf[t]].write, "write")
  <2>1. UNCHANGED <<fds, fdes, pipes, ptracer, child, copy, result>> /\ alive' \in BOOLEAN
    BY <1>7 DEF SendContinueSignalToChild, process, TypeInv, TypeOK
  <2>2. pc[t] = "write" /\ pc[t] \in Active /\ pc[t] \in BeforeByte
    BY <1>7 DEF SendContinueSignalToChild, Active, BeforeByte
  <2>3. p # None => p \in 1..pipes /\ bytes[p] = 0
    BY <2>2, WriteEnd DEF IInv, PipeOK
  <2>4. bytes' = bytes \/ (p # None /\ bytes' = [bytes EXCEPT ![p] = @ + 1])
    BY <1>7 DEF SendContinueSignalToChild
  <2> HIDE DEF p
  <2>5. p # None => p \in Pipes /\ 1 \in 0..Total
    BY <2>3 DEF Pipes, TypeInv, TypeOK
  <2>6. bytes' \in [Pipes -> 0..Total] /\ \A q \in Pipes : bytes'[q] <= 1
    BY <2>3, <2>4, <2>5 DEF TypeInv, TypeOK
  <2> QED BY <1>1, <1>2, <2>1, <2>6 DEF TypeInv, TypeOK, Running
<1> QED
  BY <1>3, <1>4, <1>5, <1>6, <1>7 DEF ParentStep

\* What a child does.
LEMMA ChildTypes ==
  ASSUME DumpAssumption, IInv, TypeInv, Total \in Nat, NEW t \in Threads, ChildStep(t)
  PROVE  TypeInv'
<1>1. UNCHANGED <<alive, pc, left, fds, fdes, pipes, ptracer, path, paths, result>>
  BY DEF ChildStep, ChildClosesWriteEnd, WaitForContinueSignal, DoDump, process
<1>2. child' \in [Threads -> ChildStates] /\ \A u \in Threads : Running(u)' => Running(u)
  BY DEF ChildStep, ChildClosesWriteEnd, WaitForContinueSignal, DoDump, TypeInv, TypeOK,
     ChildStates, Running, Exited
<1>3. bytes' \in [Pipes -> 0..Total] /\ \A q \in Pipes : bytes'[q] <= 1
  <2>1. \/ bytes' = bytes
        \/ \E p : bytes[p] > 0 /\ bytes' = [bytes EXCEPT ![p] = @ - 1]
    BY DEF ChildStep, ChildClosesWriteEnd, WaitForContinueSignal, DoDump
  <2>2. bytes \in [Pipes -> 0..Total] /\ \A q \in Pipes : bytes[q] <= 1
    BY DEF TypeInv, TypeOK
  <2>3. ASSUME NEW p, bytes[p] > 0, bytes' = [bytes EXCEPT ![p] = @ - 1]
        PROVE  bytes' \in [Pipes -> 0..Total] /\ \A q \in Pipes : bytes'[q] <= 1
    <3>1. CASE p \in Pipes
      <4>1. bytes[p] - 1 \in 0..Total /\ bytes[p] - 1 <= 1
        BY <2>2, <2>3, <3>1
      <4> QED BY <2>2, <2>3, <4>1
    <3>2. CASE p \notin Pipes
      <4>1. bytes' = bytes
        BY <2>2, <2>3, <3>2
      <4> QED BY <2>2, <4>1
    <3> QED BY <3>1, <3>2
  <2> QED BY <2>1, <2>2, <2>3
<1>4. \A u \in Threads : copy'[u].fds \in [Fds -> Ends \cup {None}]
                         /\ copy'[u].path = copy[u].path
  <2>1. copy[t].fds \in [Fds -> Ends \cup {None}]
    BY DEF TypeInv, TypeOK
  <2>2. \/ copy' = copy
        \/ \E f : copy' = [copy EXCEPT ![t].fds = Close(@, f)]
    BY DEF ChildStep, ChildClosesWriteEnd, WaitForContinueSignal, DoDump
  <2>3. CASE copy' = copy
    BY <2>3 DEF TypeInv, TypeOK
  <2>4. ASSUME NEW f, copy' = [copy EXCEPT ![t].fds = Close(@, f)]
        PROVE  \A u \in Threads : copy'[u].fds \in [Fds -> Ends \cup {None}]
                                  /\ copy'[u].path = copy[u].path
    <3>1. copy'[t].fds = Close(copy[t].fds, f) /\ copy'[t].path = copy[t].path
          /\ \A u \in Threads \ {t} : copy'[u] = copy[u]
      BY <2>4 DEF IInv, Types
    <3>2. copy'[t].fds \in [Fds -> Ends \cup {None}]
      BY <2>1, <3>1, ClosedType
    <3>3. \A u \in Threads \ {t} : copy'[u].fds \in [Fds -> Ends \cup {None}]
      BY <3>1 DEF TypeInv, TypeOK
    <3> QED BY <3>1, <3>2, <3>3
  <2> QED BY <2>2, <2>3, <2>4
<1>5. /\ DOMAIN files' \subseteq 1..paths
      /\ \A p \in DOMAIN files' : files'[p] \in [by : Threads, left : 0..Budget] \cup {None}
  <2>1. CASE DoDump(t)
    BY <2>1, FileTypes
  <2>2. CASE files' = files
    BY <2>2 DEF TypeInv, TypeOK
  <2> QED BY <2>1, <2>2 DEF ChildStep, ChildClosesWriteEnd, WaitForContinueSignal
<1> QED
  BY <1>1, <1>2, <1>3, <1>4, <1>5 DEF TypeInv, TypeOK

LEMMA InitTypes ==
  ASSUME DumpAssumption, IsFiniteSet(Threads), Init
  PROVE  TypeInv
<1>1. Total \in Nat
  BY FS_CardinalityType DEF Total, DumpAssumption
<1>2. 0 \in 0..Total /\ Budget \in 0..Budget
  BY <1>1 DEF DumpAssumption
<1>3. paths \in Nat /\ path \in [Handlers -> 1..paths]
  BY InitInv DEF Init, IInv, Types
<1>4. NoFdes \in [read : Fds \cup {NoFd}, write : Fds \cup {NoFd}]
  BY DEF NoFdes
<1>5. NoEnds \in [Fds -> Ends \cup {None}] /\ NoCopy.fds = NoEnds
  BY DEF NoEnds, NoCopy
<1>6. DOMAIN files = {}
  BY DEF Init
<1>7. \A t \in Threads : ~Running(t)
  BY DEF Init, Running, Exited
<1> QED
  BY <1>2, <1>3, <1>4, <1>5, <1>6, <1>7
  DEF Init, TypeInv, TypeOK, ParentStates, ChildStates

LEMMA StepTypes ==
  ASSUME DumpAssumption, HandlersApart, IsFiniteSet(Threads), IInv, Counted, TypeInv,
         [Next]_vars
  PROVE  TypeInv'
<1>1. Total \in Nat /\ pipes <= Total
  BY Bound DEF IInv, Types, Counted, Numbers
<1>2. pipes' <= Total
  <2>1. Counted' /\ IInv'
    BY StepInv
  <2> QED BY <2>1, Bound DEF IInv, Types, Counted, Numbers, Slots
<1>3. ASSUME Kill \/ UNCHANGED vars PROVE TypeInv'
  BY <1>3 DEF Kill, vars, process, TypeInv, TypeOK, Running
<1> QED
  BY <1>1, <1>2, <1>3, CallTypes, ParentTypes, ChildTypes DEF Next, Done

\* Why the invariant gives the two properties.
LEMMA Handshakes ==
  ASSUME DumpAssumption, IInv
  PROVE  Handshake /\ FdsReturned
<1>1. ASSUME NEW t \in Threads, alive, child[t] = "permitted", HasPipe(t)
      PROVE  pc[t] = "wait"
  <2>1. ChildOK(t) /\ PipeOK(t) /\ Running(t)
    BY <1>1 DEF IInv, Running, Exited
  <2>2. pc[t] \in {"closeRead", "prctl", "write", "wait"} /\ copy[t].fdes = Mine(t)
    BY <2>1 DEF ChildOK
  <2>3. pc[t] \in Active /\ (pc[t] # "wait" => pc[t] \in BeforeByte \ {"clone"})
    BY <2>2 DEF Active, BeforeByte
  <2>4. HasEnds(t)
    BY <1>1, <2>1, <2>2, <2>3 DEF HasPipe, PipeOK, HasEnds
  <2> QED BY <1>1, <2>1, <2>3, <2>4 DEF ChildOK
<1>2. ASSUME NEW t \in Threads, alive, pc[t] = "write",
             Names(fds, fdes[HandlerOf[t]].write, "write") # None
      PROVE  Open(Names(fds, fdes[HandlerOf[t]].write, "write"), "read")
  <2>1. pc[t] \in Active /\ pc[t] \in BeforeByte \ {"clone"}
    BY <1>2 DEF Active, BeforeByte
  <2>2. HasEnds(t) /\ Names(fds, fdes[HandlerOf[t]].write, "write") = PipeOf(t)
    BY <1>2, <2>1, WriteEnd
  <2>3. child[t] \in {"born", "reading"}
    BY <1>2, <2>1, <2>2 DEF IInv, ChildOK
  <2>4. copy[t].fds[Mine(t).read] = End(PipeOf(t), "read")
    BY <2>2, <2>3 DEF IInv, ChildOK
  <2>5. Mine(t).read \in Fds
    BY <2>2, HandlerTypes DEF IInv, PipeOK, HasEnds
  <2>6. Running(t)
    BY <2>3 DEF Running, Exited
  <2> QED BY <2>2, <2>4, <2>5, <2>6 DEF Open, HoldsEnd
<1>3. Handshake
  BY <1>1, <1>2 DEF Handshake, WaitsForItsParent, NoSigPipe
<1>4. ASSUME \A t \in Threads : pc[t] = "idle" PROVE fds = NoEnds
  <2>1. \A t \in Threads : ~HasEnds(t)
    BY <1>4 DEF HasEnds, Active, BeforeByte
  <2>2. \A f \in Fds : fds[f] = None
    BY <2>1 DEF IInv, Owned
  <2> QED BY <2>2 DEF IInv, Types, Tables, NoEnds
<1> QED
  BY <1>3, <1>4 DEF FdsReturned

\* The inductive invariant of the module.
LEMMA Invariance ==
  ASSUME HandlersApart, IsFiniteSet(Threads)
  PROVE  Spec => [](IInv /\ Counted)
<1>1. Init => IInv /\ Counted
  BY DumpAssumption, InitInv
<1>2. IInv /\ Counted /\ [Next]_vars => IInv' /\ Counted'
  BY DumpAssumption, StepInv
<1> QED
  BY <1>1, <1>2, PTL DEF Spec

\* Every variable has its type: above all, the pipes and what is in them stay
\* within the bounds.
THEOREM TypeOKHolds ==
  ASSUME HandlersApart, IsFiniteSet(Threads)
  PROVE  Spec => []TypeOK
<1>1. Init => TypeInv
  BY DumpAssumption, InitTypes
<1>2. IInv /\ Counted /\ TypeInv /\ [Next]_vars => TypeInv'
  BY DumpAssumption, StepTypes
<1>3. TypeInv => TypeOK
  BY DEF TypeInv
<1> QED
  BY <1>1, <1>2, <1>3, Invariance, PTL DEF Spec

\* The handshake over the pipe of a dump, for any threads with handlers of their
\* own and any crashes: a child whose parent lives does not dump before that very
\* parent has allowed it to ptrace, and the parent is not killed by SIGPIPE when it
\* says so.
THEOREM HandshakeHolds ==
  ASSUME HandlersApart, IsFiniteSet(Threads)
  PROVE  Spec => []Handshake
<1>1. IInv => Handshake
  BY DumpAssumption, Handshakes
<1> QED
  BY <1>1, Invariance, PTL

\* On every path through GenerateDump the descriptors of its pipe are given back.
THEOREM FdsReturnedHolds ==
  ASSUME HandlersApart, IsFiniteSet(Threads)
  PROVE  Spec => []FdsReturned
<1>1. IInv => FdsReturned
  BY DumpAssumption, Handshakes
<1> QED
  BY <1>1, Invariance, PTL

=============================================================================
