------------------------------- MODULE PltHook -------------------------------
(***************************************************************************)
(* The app's own hook of malloc (hook_functions.cpp): hookMallocByPLTHook  *)
(* finds the slot of malloc in the global offset table of libexample.so,   *)
(* saves what is in it in originFunc and replaces it, while other threads  *)
(* call malloc through that slot.  originFunc is a plain global, which     *)
(* holds the address of the slot while the slot is looked for.  The only   *)
(* call in the app is commented out (NativeLeakActivity.java:19).          *)
(***************************************************************************)
EXTENDS Naturals

CONSTANTS
  Callers,      \* threads that call malloc in libexample.so
  MaxInstalls   \* calls of hookMallocByPLTHook: a bound

VARIABLES
  slot,         \* the slot: "malloc", or "hook", malloc_hook_by_plt
  originFunc,   \* the function it holds, "slot": the address of the slot, or "zero"
  writable,     \* may the slot be written to
  saved,        \* has the installer saved what was in the slot, and what it was
  at,           \* the function each thread is in, or "idle"
  installer,    \* where the installing thread is
  installs,     \* how often it was called
  fault         \* "none", or why the process ended

vars == <<slot, originFunc, writable, saved, at, installer, installs, fault>>

Init ==
  /\ slot = "malloc" /\ originFunc = "zero" /\ saved = "zero"
  /\ writable \in BOOLEAN
  /\ at = [t \in Callers |-> "idle"]
  /\ installer = "idle" /\ installs = 0
  /\ fault = "none"

\* /proc/self/maps, the program headers and the dynamic section are searched;
\* nothing looks whether anything was found.
Find ==
  /\ installer = "idle" /\ installs < MaxInstalls
  /\ installs' = installs + 1
  /\ \/ installer' = "found" /\ UNCHANGED fault
     \/ fault' = "parse" /\ UNCHANGED installer
  /\ UNCHANGED <<slot, originFunc, writable, saved, at>>

\* mprotect of the page that the table begins on: it may fail, or the slot may
\* be on another one.
Unprotect ==
  /\ installer = "found"
  /\ \/ writable' = TRUE
     \/ UNCHANGED writable
  /\ installer' = "unprotected"
  /\ UNCHANGED <<slot, originFunc, saved, at, installs, fault>>

SetTarget ==
  /\ installer = "unprotected"
  /\ originFunc' = "slot"
  /\ installer' = "searching"
  /\ UNCHANGED <<slot, writable, saved, at, installs, fault>>

\* The slot is where the offset says, or the search runs off the end.
Match ==
  /\ installer = "searching"
  /\ \/ saved' = slot /\ installer' = "matched" /\ UNCHANGED fault
     \/ fault' = "search" /\ UNCHANGED <<saved, installer>>
  /\ UNCHANGED <<slot, originFunc, writable, at, installs>>

ReplacedWith == "hook"
SavedIn == saved
Written == slot = "hook" /\ originFunc # "slot"

\* The two assignments, which other threads may see in either order: nothing
\* orders them on ARM.
SaveOrigin ==
  /\ installer = "matched" /\ originFunc = "slot"
  /\ originFunc' = SavedIn
  /\ UNCHANGED <<slot, writable, saved, at, installer, installs, fault>>

Replace ==
  /\ installer = "matched"
  /\ \/ writable /\ slot' = ReplacedWith /\ UNCHANGED fault
     \/ ~writable /\ fault' = "protected" /\ UNCHANGED slot
  /\ UNCHANGED <<originFunc, writable, saved, at, installer, installs>>

\* The end of a function that is declared [[noreturn]]: it returns, or runs on
\* into whatever comes after it.  By then all threads see both assignments.
Leave ==
  /\ installer = "matched" /\ Written
  /\ \/ installer' = "idle" /\ UNCHANGED fault
     \/ fault' = "noreturn" /\ UNCHANGED installer
  /\ UNCHANGED <<slot, originFunc, writable, saved, at, installs>>

Call(t) ==
  /\ at[t] = "idle"
  /\ at' = [at EXCEPT ![t] = slot]
  /\ UNCHANGED <<slot, originFunc, writable, saved, installer, installs, fault>>

Return(t) ==
  /\ at[t] = "malloc"
  /\ at' = [at EXCEPT ![t] = "idle"]
  /\ UNCHANGED <<slot, originFunc, writable, saved, installer, installs, fault>>

\* The hook logs and calls originFunc; in a table there is nothing to call.
malloc_hook_by_plt(t) ==
  /\ at[t] = "hook"
  /\ IF originFunc \in {"malloc", "hook"}
     THEN at' = [at EXCEPT ![t] = originFunc] /\ UNCHANGED fault
     ELSE fault' = "call" /\ UNCHANGED at
  /\ UNCHANGED <<slot, originFunc, writable, saved, installer, installs>>

Install == Find \/ Unprotect \/ SetTarget \/ Match \/ SaveOrigin \/ Replace \/ Leave

Step ==
  /\ fault = "none"
  /\ \/ Install
     \/ \E t \in Callers : Call(t) \/ Return(t) \/ malloc_hook_by_plt(t)

Spec == Init /\ [][Step \/ (fault # "none" /\ UNCHANGED vars)]_vars

(***************************************************************************)
(* Properties.                                                             *)
(***************************************************************************)

TypeOK ==
  /\ slot \in {"malloc", "hook"}
  /\ {originFunc, saved} \subseteq {"zero", "slot", "malloc", "hook"}
  /\ writable \in BOOLEAN
  /\ at \in [Callers -> {"idle", "malloc", "hook"}]
  /\ installer \in {"idle", "found", "unprotected", "searching", "matched"}
  /\ installs \in 0..MaxInstalls
  /\ fault \in {"none", "parse", "search", "protected", "noreturn", "call"}

\* Where the hook is installed once, who is in it reaches malloc, however the
\* installation and the calls are interleaved, and a call can only go wrong
\* between the two assignments.  Installed again, the hook calls itself.
MallocIsReached ==
  installs <= 1 =>
    /\ fault = "call" => installer = "matched"
    /\ installer = "idle" /\ (\E t \in Callers : at[t] = "hook") => originFunc = "malloc"

=============================================================================
