----------------------------- MODULE MemoryList -----------------------------
(***************************************************************************)
(* The way of a stack from the thread to who walks it: the memory that     *)
(* ThreadStacks takes becomes the memory list of the dump, which           *)
(* MinidumpMemoryList reads into a RangeMap (processor/minidump.cc), and   *)
(* the processor gives the walker of each thread the memory that the       *)
(* thread itself names, or else a region of that list                      *)
(* (processor/minidump_processor.cc).                                      *)
(***************************************************************************)
EXTENDS ThreadStacks

CONSTANT NoCall   \* as in RangeMap

VARIABLES
  merge_strategy, map, call, asked, stored,  \* range_map_, as in RangeMap
  region_index,   \* the region whose turn it is
  memory_list     \* "unread", "reading", "valid" or "refused"

rangeVars == <<merge_strategy, map, call, asked, stored>>
memoryVars == <<region_index, memory_list>>

Ranges == INSTANCE RangeMap
  WITH MaxStores <- 2 * NumThreads, MaxAddress <- (High + 1) * Page

\* The strategy is the one that a new map has.
RangesInit == Ranges!RangeInit /\ merge_strategy = "exclusive"

MemoryInit ==
  /\ Init
  /\ region_index = 1
  /\ memory_list = "unread"

Stored == asked # <<>> /\ Len(asked) \in stored

(***************************************************************************)
(* MinidumpMemoryList::Read.                                               *)
(***************************************************************************)

ReadRegion ==
  /\ dumping = "done"
  /\ memory_list = "unread"
  /\ region_index <= Len(memory_blocks)
  /\ memory_blocks[region_index].length # 0
  /\ Ranges!StoreRange(memory_blocks[region_index].start,
                       memory_blocks[region_index].length)
  /\ memory_list' = "reading"
  /\ UNCHANGED <<stackVars, region_index>>

InStoreRange ==
  Ranges!StoreRangeInternal /\ UNCHANGED <<stackVars, memoryVars>>

RegionIsStored ==
  /\ memory_list = "reading"
  /\ call = NoCall
  /\ Stored
  /\ region_index' = region_index + 1
  /\ memory_list' = "unread"
  /\ UNCHANGED <<stackVars, rangeVars>>

\* One region that cannot be stored makes the whole list invalid.
RefuseRegion ==
  /\ memory_list = "reading"
  /\ call = NoCall
  /\ ~Stored
  /\ memory_list' = "refused"
  /\ UNCHANGED <<stackVars, rangeVars, region_index>>

ListIsRead ==
  /\ dumping = "done"
  /\ memory_list = "unread"
  /\ region_index > Len(memory_blocks)
  /\ memory_list' = "valid"
  /\ UNCHANGED <<stackVars, rangeVars, region_index>>

MemoryStep ==
  \/ Step /\ UNCHANGED <<rangeVars, memoryVars>>
  \/ ReadRegion \/ RegionIsStored \/ RefuseRegion \/ ListIsRead
  \/ InStoreRange

MemoryIsOver == memory_list \in {"valid", "refused"} \/ dumping = "failed"

MemorySpec ==
  /\ MemoryInit /\ RangesInit
  /\ [][MemoryStep \/ (MemoryIsOver /\ UNCHANGED <<stackVars, rangeVars, memoryVars>>)]_
        <<stackVars, rangeVars, memoryVars>>

(***************************************************************************)
(* What the processor does with them.                                      *)
(***************************************************************************)

\* GetMemoryRegionForAddress: a region by its place in the list.
RegionForAddress(address) ==
  IF memory_list = "valid"
  THEN {map[h].entry : h \in Ranges!Retrieved(address)}
  ELSE {}

HasOwn(i) == stacks[i].length # 0

\* The memory of a thread that names none is looked for where its stack begins.
ThreadMemory(i) ==
  IF HasOwn(i)
  THEN {stacks[i]}
  ELSE {memory_blocks[r] : r \in {r \in RegionForAddress(stacks[i].start) :
                                    stacks[i].start # 0}}

(***************************************************************************)
(* Properties.                                                             *)
(***************************************************************************)

MemoryTypeOK ==
  /\ TypeOK
  /\ Ranges!RangeTypeOK
  /\ region_index \in 1..(2 * NumThreads + 1)
  /\ memory_list \in {"unread", "reading", "valid", "refused"}

Words(block) == block.start..(block.start + block.length - 1)
Overlap(a, b) == Words(memory_blocks[a]) \cap Words(memory_blocks[b]) # {}

\* The reader refuses the memory of a dump only if two threads are so close
\* together, or the code so close to a stack, that the writer has taken some
\* memory twice; and who walks a thread has the stack that was written for it,
\* whatever becomes of the list, or for a thread whose stack was left out memory
\* that has the word at its stack pointer, if any thread's has.
StacksAreFound ==
  /\ memory_list = "refused" =>
       \E a, b \in DOMAIN memory_blocks : a # b /\ Overlap(a, b)
  /\ memory_list = "valid" =>
       /\ \A a, b \in DOMAIN memory_blocks : a # b => ~Overlap(a, b)
       /\ \A r \in DOMAIN memory_blocks : \A address \in Words(memory_blocks[r]) :
            RegionForAddress(address) = {r}
  /\ memory_list \in {"valid", "refused"} => \A i \in DOMAIN stacks :
       /\ \A block \in ThreadMemory(i) : stacks[i].start \in Words(block)
       /\ ThreadMemory(i) = {} =>
            memory_list = "refused" \/ \A r \in DOMAIN memory_blocks :
              stacks[i].start \notin Words(memory_blocks[r])

=============================================================================
