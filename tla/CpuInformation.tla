--------------------------- MODULE CpuInformation ---------------------------
(***************************************************************************)
(* The app's getNumberOfCPUCores and getMaxFreqCPU (optimize.cpp): cores   *)
(* are counted by their directories, again in every turn of the loop, but  *)
(* looked at by their numbers from 0, while they may go offline.           *)
(***************************************************************************)
EXTENDS Integers, FiniteSets

CONSTANTS
  MaxCores,     \* cores are numbered below it
  Frequencies   \* those that a core may have

VARIABLES
  directories,  \* the numbers of the directories cpu<n>
  freq,         \* what the file of each core says, while it is there
  online,       \* the cores whose file is there and can be read
  been_offline, \* those that have been offline since the call
  core,         \* i of the loop
  max_freq,     \* maxFreq
  counting      \* "cores", "returned", or "failed": opendir has failed

cpuVars == <<directories, freq, online, been_offline, core, max_freq, counting>>

Cores == 0..(MaxCores - 1)

Init ==
  /\ directories \in SUBSET Cores
  /\ freq \in [directories -> Frequencies]
  /\ online \in SUBSET directories
  /\ been_offline = directories \ online
  /\ core = 0
  /\ max_freq = -1
  /\ counting = "cores"

getNumberOfCPUCores == Cardinality(directories)

\* The file of a core that is there counts if it is greater, any other is left out.
Greater(f) == IF f > max_freq THEN f ELSE max_freq
ReadFrequency ==
  /\ counting = "cores"
  /\ core < getNumberOfCPUCores
  /\ max_freq' = IF core \in online THEN Greater(freq[core]) ELSE max_freq
  /\ core' = core + 1
  /\ UNCHANGED <<directories, freq, online, been_offline, counting>>

\* The loop ends, or opendir fails in its condition, which then counts no cores.
Return ==
  /\ counting = "cores"
  /\ \/ core >= getNumberOfCPUCores /\ counting' = "returned"
     \/ counting' = "failed"
  /\ UNCHANGED <<directories, freq, online, been_offline, core, max_freq>>

\* A core goes offline and its file with it, or comes back.
Hotplug(c) ==
  /\ counting = "cores"
  /\ online' = IF c \in online THEN online \ {c} ELSE online \cup {c}
  /\ been_offline' = been_offline \cup {c}
  /\ UNCHANGED <<directories, freq, core, max_freq, counting>>

Step == ReadFrequency \/ Return \/ (\E c \in directories : Hotplug(c))
Over == counting # "cores"
Spec == Init /\ [][Step \/ (Over /\ UNCHANGED cpuVars)]_cpuVars

(***************************************************************************)
(* Properties.                                                             *)
(***************************************************************************)

TypeOK ==
  /\ directories \subseteq Cores /\ online \subseteq directories
  /\ been_offline \subseteq directories
  /\ core \in 0..MaxCores
  /\ max_freq \in Frequencies \cup {-1}
  /\ counting \in {"cores", "returned", "failed"}

\* What is returned is the frequency of a core, and where the numbering has no
\* gap and the directory could be read, no core that stayed online has a higher
\* one (optimize.cpp:62 promises the highest of all cores).
MaximumIsFound ==
  /\ max_freq # -1 => \E c \in directories : freq[c] = max_freq
  /\ counting = "returned" /\ directories = 0..(Cardinality(directories) - 1) =>
       \A c \in directories \ been_offline : freq[c] <= max_freq

=============================================================================
