------------------------------ MODULE Mappings ------------------------------
(***************************************************************************)
(* The list of the mappings of a process: EnumerateMappings, which joins   *)
(* the lines of /proc/pid/maps that belong to one file and puts the        *)
(* program first, LatePostprocessMappings, which moves the start of a      *)
(* library down to its load bias, and the two ways to look an address up,  *)
(* with that bias and without (linux_dumper.cc).                           *)
(*                                                                         *)
(* The lines come as LineReader delivers them; linux-gate is a name like   *)
(* any other.                                                              *)
(***************************************************************************)
EXTENDS Integers, Sequences

CONSTANTS
  Files, NoName,  \* the names in maps
  LastPage,       \* addresses are below it
  EntryPoints,    \* where the program may begin, and 0: a bound
  MaxLines        \* lines: a bound

VARIABLES
  maps,       \* the lines that have been read
  mappings,   \* mappings_
  entry_point, \* AT_ENTRY
  stage       \* "lines", "late" or "ready"

mappingVars == <<maps, mappings, entry_point, stage>>

Lines == {l \in [start : 0..(LastPage - 1), end : 1..LastPage, exec : BOOLEAN,
                 name : Files \cup {NoName}] : l.start < l.end}

Init ==
  /\ maps = <<>>
  /\ mappings = <<>>
  /\ entry_point \in EntryPoints
  /\ stage = "lines"

Last == mappings[Len(mappings)]

JoinsAnywhere(l) ==
  /\ l.name # NoName
  /\ mappings # <<>>
  /\ l.name = Last.name
  /\ l.exec = Last.exec \/ (~Last.exec /\ l.exec)

\* A line goes on with the mapping before it: the same file, without a gap, and
\* nothing executable is followed by what is not.
Joins(l) ==
  /\ l.name # NoName
  /\ mappings # <<>>
  /\ l.start = Last.start_addr + Last.size
  /\ l.name = Last.name
  /\ l.exec = Last.exec \/ (~Last.exec /\ l.exec)

MappingInfo(l) ==
  [system |-> [start_addr |-> l.start, end_addr |-> l.end], start_addr |-> l.start,
   size |-> l.end - l.start, exec |-> l.exec, name |-> l.name]

Joined(m, l) ==
  [m EXCEPT !.system.end_addr = l.end, !.size = l.end - m.start_addr, !.exec = @ \/ l.exec]

\* One turn of the loop, at a line that the kernel lists after the others.
ReadLine(l) ==
  /\ stage = "lines"
  /\ Len(maps) < MaxLines
  /\ maps # <<>> => maps[Len(maps)].end <= l.start
  /\ maps' = Append(maps, l)
  /\ mappings' =
       IF Joins(l)
       THEN [mappings EXCEPT ![Len(mappings)] = Joined(@, l)]
       ELSE Append(mappings, MappingInfo(l))
  /\ UNCHANGED <<entry_point, stage>>

Contains(m, address) == m.start_addr <= address /\ address < m.start_addr + m.size

First(P(_)) == {i \in DOMAIN mappings :
                  P(mappings[i]) /\ \A j \in 1..(i - 1) : ~P(mappings[j])}

\* The mapping at i goes to the front, and those before it up by one.
MovedToFront(i) ==
  [j \in DOMAIN mappings |->
     IF j = 1 THEN mappings[i] ELSE IF j <= i THEN mappings[j - 1] ELSE mappings[j]]

\* The end of EnumerateMappings; an entry point of 0 is none.
PutProgramFirst ==
  LET IsProgram(m) == entry_point # 0 /\ Contains(m, entry_point)
  IN /\ stage = "lines"
     /\ mappings # <<>>
     /\ \/ \E i \in First(IsProgram) : mappings' = MovedToFront(i)
        \/ First(IsProgram) = {} /\ UNCHANGED mappings
     /\ stage' = "late"
     /\ UNCHANGED <<maps, entry_point>>

\* LatePostprocessMappings: an executable library with packed relocations starts
\* at its load bias, which is that much lower.
Biased(m, bias) == [m EXCEPT !.start_addr = @ - bias, !.size = @ + bias]

LatePostprocessMappings ==
  /\ stage = "late"
  /\ \E bias \in [DOMAIN mappings -> 0..LastPage] :
       /\ \A i \in DOMAIN mappings :
            /\ bias[i] <= mappings[i].start_addr
            /\ ~(mappings[i].exec /\ mappings[i].name # NoName) => bias[i] = 0
       /\ mappings' = [i \in DOMAIN mappings |-> Biased(mappings[i], bias[i])]
  /\ stage' = "ready"
  /\ UNCHANGED <<maps, entry_point>>

Step == (\E l \in Lines : ReadLine(l)) \/ PutProgramFirst \/ LatePostprocessMappings
Over == stage = "ready" \/ (mappings = <<>> /\ stage = "lines")
Spec == Init /\ [][Step \/ (Over /\ UNCHANGED mappingVars)]_mappingVars

(***************************************************************************)
(* Properties.                                                             *)
(***************************************************************************)

TypeOK ==
  /\ maps \in Seq(Lines)
  /\ \A i \in DOMAIN mappings : mappings[i].size \in 1..LastPage
  /\ entry_point \in 0..LastPage
  /\ stage \in {"lines", "late", "ready"}

FindMapping(address) == LET In(m) == Contains(m, address) IN First(In)
FindMappingNoBias(address) ==
  LET In(m) == m.system.start_addr <= address /\ address < m.system.end_addr
  IN First(In)

\* An address is found in a mapping exactly if maps has it, and the mapping has
\* the name that maps gives, is executable if the line is, and is the only one.
\* Where libraries have been moved down over what lies below them, FindMapping
\* still finds the right one, unless the one in its way is the program, which is
\* asked first.  The program is the first one.
LookupsMatchMaps ==
  /\ \A a \in 0..(LastPage - 1) :
       LET on == {i \in DOMAIN maps : maps[i].start <= a /\ a < maps[i].end}
       IN /\ (on = {}) = (FindMappingNoBias(a) = {})
          /\ \A i \in on, j \in FindMappingNoBias(a) :
               /\ mappings[j].name = maps[i].name
               /\ maps[i].exec => mappings[j].exec
               /\ \/ FindMapping(a) = {j}
                  \/ stage = "ready" /\ FindMapping(a) = {1} /\ entry_point # 0
  /\ stage # "lines" /\ entry_point # 0 /\ FindMappingNoBias(entry_point) # {} =>
       FindMappingNoBias(entry_point) = {1}

=============================================================================
