---------------------------- MODULE DumpRequests ----------------------------
(***************************************************************************)
(* What a crash generation server promises the processes that let it dump  *)
(* them, on every platform: a client that has asked for a dump stays where *)
(* it is until the server has finished with its request, or is there no    *)
(* more, and only then may RequestDump return true.  Nothing is promised   *)
(* for a request that comes while the server is still at an earlier one    *)
(* of the same client, which has given that up or been answered.           *)
(*                                                                         *)
(* LinuxCrashGeneration and WindowsCrashGeneration implement it.           *)
(***************************************************************************)
CONSTANT Clients

VARIABLES
  phase,     \* what each client does
  answer,    \* what its last RequestDump has returned
  handled,   \* the clients whose last request the server has finished with
  late,      \* those whose last request came while it was at an earlier one
  serving    \* is the server there

vars == <<phase, answer, handled, late, serving>>

Init ==
  /\ phase = [c \in Clients |-> "running"]
  /\ answer = [c \in Clients |-> "none"]
  /\ handled = {} /\ late = {}
  /\ serving = TRUE

Ask(c) ==
  /\ phase[c] = "running"
  /\ phase' = [phase EXCEPT ![c] = "waiting"]
  /\ answer' = [answer EXCEPT ![c] = "none"]
  /\ handled' = handled \ {c}
  /\ \/ late' = late \ {c}
     \/ answer[c] # "none" /\ late' = late \cup {c}
  /\ UNCHANGED serving

\* Finished with: dumped, or given up; the client has asked, and may have died
\* meanwhile, or have lost patience.
Handle(c) ==
  /\ phase[c] \in {"waiting", "dead"} \/ answer[c] # "none"
  /\ c \notin late
  /\ handled' = handled \cup {c}
  /\ UNCHANGED <<phase, answer, late, serving>>

Answer(c, value) ==
  /\ phase' = [phase EXCEPT ![c] = "running"]
  /\ answer' = [answer EXCEPT ![c] = value]
  /\ UNCHANGED <<handled, late, serving>>

Return(c) ==
  /\ phase[c] = "waiting"
  /\ c \in handled \cup late \/ ~serving
  /\ Answer(c, "true")

\* RequestDump may return false at any time, and promises nothing then.
GiveUp(c) == phase[c] # "dead" /\ Answer(c, "false")

\* Nobody is there any more to whom something was promised.
Die(c) ==
  /\ phase' = [phase EXCEPT ![c] = "dead"]
  /\ answer' = [answer EXCEPT ![c] = "none"]
  /\ handled' = handled \ {c} /\ late' = late \ {c}
  /\ UNCHANGED serving

Close == serving' = FALSE /\ UNCHANGED <<phase, answer, handled, late>>

Next ==
  \/ \E c \in Clients : Ask(c) \/ Handle(c) \/ Return(c) \/ GiveUp(c) \/ Die(c)
  \/ Close

Spec == Init /\ [][Next]_vars

=============================================================================
