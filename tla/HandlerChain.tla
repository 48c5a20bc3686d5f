---------------------------- MODULE HandlerChain ----------------------------
(***************************************************************************)
(* What the stack of exception handlers promises, without mutex, signals   *)
(* or dispositions: handlers come and go, and a crash asks them one at a   *)
(* time, the newest first, skipping none, until one says that it handled   *)
(* the crash or none is left.  While a crash asks, the chain is frozen and *)
(* no other crash asks.                                                    *)
(***************************************************************************)
EXTENDS Naturals, Sequences

CONSTANTS Threads, Handlers, None

VARIABLES
  chain,    \* the live handlers, oldest first
  asking,   \* the thread whose crash is being asked about, or None
  left,     \* the handlers not yet asked, or being asked: a prefix of chain
  handled   \* has one of them handled it

vars == <<chain, asking, left, handled>>

Init ==
  /\ chain = <<>>
  /\ asking = None
  /\ left = <<>>
  /\ handled = FALSE

Join(h) ==
  /\ asking = None
  /\ \A i \in 1..Len(chain) : chain[i] # h
  /\ chain' = Append(chain, h)
  /\ UNCHANGED <<asking, left, handled>>

Leave(h) ==
  /\ asking = None
  /\ \E i \in 1..Len(chain) :
       /\ chain[i] = h
       /\ chain' = SubSeq(chain, 1, i - 1) \o SubSeq(chain, i + 1, Len(chain))
  /\ UNCHANGED <<asking, left, handled>>

Begin(t) ==
  /\ asking = None
  /\ asking' = t
  /\ left' = chain
  /\ UNCHANGED <<chain, handled>>

\* The newest handler left declines.
Decline ==
  /\ asking # None
  /\ ~handled
  /\ left # <<>>
  /\ left' = SubSeq(left, 1, Len(left) - 1)
  /\ UNCHANGED <<chain, asking, handled>>

Accept ==
  /\ asking # None
  /\ left # <<>>
  /\ handled' = TRUE
  /\ UNCHANGED <<chain, asking, left>>

End ==
  /\ asking # None
  /\ handled \/ left = <<>>
  /\ asking' = None
  /\ left' = <<>>
  /\ handled' = FALSE
  /\ UNCHANGED chain

Next ==
  \/ \E h \in Handlers : Join(h) \/ Leave(h)
  \/ \E t \in Threads : Begin(t)
  \/ Decline \/ Accept \/ End

Spec == Init /\ [][Next]_vars

=============================================================================
