----------------------------- MODULE ModuleList -----------------------------
(***************************************************************************)
(* The way of a module from the maps of a process to who asks for the      *)
(* module of an address: the mappings that LinuxDumper has, the list that  *)
(* WriteMappings makes of them (minidump_writer.cc), MinidumpModuleList,   *)
(* which reads the list into a RangeMap (processor/minidump.cc), and       *)
(* BasicCodeModules, the copy of it that the processor keeps               *)
(* (basic_code_modules.cc).                                                *)
(*                                                                         *)
(* Addresses are counted in pages, so no mapping is too small.  The dump   *)
(* is of Android.  Two mappings never end at the same address, so no       *)
(* module is the duplicate of another.  The map is that of the list, and   *)
(* then that of the copy.                                                  *)
(***************************************************************************)
EXTENDS Mappings

CONSTANTS
  MaxAddress, NoCall,  \* as in RangeMap
  Ashmem               \* the Files that are in /dev/ashmem

VARIABLES
  merge_strategy, map, call, asked, stored,  \* range_map_, as in RangeMap
  modules,           \* the modules in the dump, by the index of their mapping
  module_of,         \* the module that each call of StoreRange was for
  module_index,      \* the module whose turn it is
  last_end_address,  \* last_end_address of Read
  reading_list       \* where Read, or the copy, is

rangeVars == <<merge_strategy, map, call, asked, stored>>
listVars == <<modules, module_of, module_index, last_end_address, reading_list>>

Ranges == INSTANCE RangeMap WITH MaxStores <- 2 * MaxLines

\* The strategy is the one for Linux and Android.
RangesInit == Ranges!RangeInit /\ merge_strategy = "truncateLower"

ListInit ==
  /\ Init
  /\ modules = <<>>
  /\ module_of = <<>>
  /\ module_index = 1
  /\ last_end_address = 0
  /\ reading_list = "unwritten"

\* ShouldIncludeMapping: it has a name, and is executable or at the start of its
\* file, which a mapping that is not may or may not be.
MayBeLeftOut(i) == mappings[i].name = NoName \/ ~mappings[i].exec

\* Some of the mappings, in their order.
Selections ==
  {s \in UNION {[1..n -> DOMAIN mappings] : n \in 0..Len(mappings)} :
     \A i, j \in DOMAIN s : i < j => s[i] < s[j]}

WriteMappings ==
  /\ stage = "ready"
  /\ reading_list = "unwritten"
  /\ modules' \in Selections
  /\ \A i \in DOMAIN mappings :
       LET written == \E k \in DOMAIN modules' : modules'[k] = i
       IN /\ written => mappings[i].name # NoName
          /\ MayBeLeftOut(i) \/ written
  /\ reading_list' = "module"
  /\ UNCHANGED <<mappingVars, rangeVars, module_of, module_index, last_end_address>>

Module(k) == mappings[modules[k]]
Store(base, size) ==
  /\ Ranges!StoreRange(base, size)
  /\ module_of' = Append(module_of, module_index)
  /\ UNCHANGED <<mappingVars, modules>>

InStoreRange ==
  Ranges!StoreRangeInternal /\ UNCHANGED <<mappingVars, listVars>>

Returned == call = NoCall
WasStored == Len(asked) \in stored

(***************************************************************************)
(* MinidumpModuleList::Read.                                               *)
(***************************************************************************)

StoreModule ==
  /\ reading_list = "module"
  /\ module_index <= Len(modules)
  /\ Store(Module(module_index).start_addr, Module(module_index).size)
  /\ reading_list' = "stored"
  /\ UNCHANGED <<module_index, last_end_address>>

\* A module of /dev/ashmem that could not be stored is ignored.
ModuleIsStored ==
  /\ reading_list = "stored"
  /\ Returned
  /\ WasStored \/ Module(module_index).name \in Ashmem
  /\ last_end_address' = Module(module_index).start_addr + Module(module_index).size
  /\ module_index' = module_index + 1
  /\ reading_list' = "module"
  /\ UNCHANGED <<mappingVars, rangeVars, modules, module_of>>

NotStored ==
  reading_list = "stored" /\ Returned /\ ~WasStored /\ Module(module_index).name \notin Ashmem

\* The correction for packed relocations is undone, or as much of it as reaches
\* below the end of the module before.  The size may wrap.
BackOutCorrection ==
  LET base == Module(module_index).start_addr
      size == Module(module_index).size
  IN /\ NotStored
     /\ base < last_end_address
     /\ Store(last_end_address, (size - (last_end_address - base)) % (MaxAddress + 1))
     /\ reading_list' = "adjusted"
     /\ UNCHANGED <<module_index, last_end_address>>

AdjustedIsStored ==
  /\ reading_list = "adjusted"
  /\ Returned /\ WasStored
  /\ last_end_address' = last_end_address + asked[Len(asked)].size
  /\ module_index' = module_index + 1
  /\ reading_list' = "module"
  /\ UNCHANGED <<mappingVars, rangeVars, modules, module_of>>

\* One module that cannot be stored makes the whole list invalid.
Refuse ==
  /\ \/ NotStored /\ Module(module_index).start_addr >= last_end_address
     \/ reading_list = "adjusted" /\ Returned /\ ~WasStored
  /\ reading_list' = "refused"
  /\ UNCHANGED <<mappingVars, rangeVars, modules, module_of, module_index,
                 last_end_address>>

ListIsRead ==
  /\ reading_list = "module"
  /\ module_index > Len(modules)
  /\ reading_list' = "valid"
  /\ UNCHANGED <<mappingVars, rangeVars, modules, module_of, module_index,
                 last_end_address>>

(***************************************************************************)
(* BasicCodeModules::BasicCodeModules.                                     *)
(***************************************************************************)

Copy ==
  /\ reading_list = "valid"
  /\ Ranges!Clear
  /\ module_of' = <<>>
  /\ module_index' = 1
  /\ reading_list' = "copying"
  /\ UNCHANGED <<mappingVars, modules, last_end_address>>

\* That a module could not be stored is only logged.
CopyModule ==
  /\ reading_list = "copying"
  /\ module_index <= Len(modules)
  /\ Store(Module(module_index).start_addr, Module(module_index).size)
  /\ module_index' = module_index + 1
  /\ UNCHANGED <<last_end_address, reading_list>>

ListIsCopied ==
  /\ reading_list = "copying"
  /\ module_index > Len(modules)
  /\ Returned
  /\ reading_list' = "copied"
  /\ UNCHANGED <<mappingVars, rangeVars, modules, module_of, module_index,
                 last_end_address>>

ListStep ==
  \/ Step /\ UNCHANGED <<rangeVars, listVars>>
  \/ WriteMappings
  \/ StoreModule \/ ModuleIsStored
  \/ BackOutCorrection \/ AdjustedIsStored
  \/ Refuse \/ ListIsRead
  \/ Copy \/ CopyModule \/ ListIsCopied
  \/ InStoreRange

ListIsOver ==
  \/ reading_list \in {"refused", "copied"}
  \/ mappings = <<>> /\ stage = "lines"

ListSpec ==
  /\ ListInit /\ RangesInit
  /\ [][ListStep \/ (ListIsOver /\ UNCHANGED <<mappingVars, rangeVars, listVars>>)]_
        <<mappingVars, rangeVars, listVars>>

(***************************************************************************)
(* Properties.                                                             *)
(***************************************************************************)

ListTypeOK ==
  /\ TypeOK
  /\ Ranges!RangeTypeOK
  /\ \A k \in DOMAIN modules : modules[k] \in DOMAIN mappings
  /\ \A e \in DOMAIN module_of : module_of[e] \in DOMAIN modules
  /\ module_index \in 1..(MaxLines + 1)
  /\ last_end_address \in 0..LastPage
  /\ reading_list \in {"unwritten", "module", "stored", "adjusted", "refused",
                       "valid", "copying", "copied"}

GetModuleForAddress(address) ==
  {module_of[map[h].entry] : h \in Ranges!Retrieved(address)}

Pages(k) ==
  Module(k).start_addr..(Module(k).start_addr + Module(k).size - 1)
Alone(k) == \A o \in DOMAIN modules : o # k => Pages(o) \cap Pages(k) = {}

\* Who asks for the module of an address is told no other than one that had it
\* in the process, as corrected, and the only one that had it, in the list and
\* in its copy: however modules that have been moved down over others are cut.
\* Such modules alone can make a list invalid.  The program is the first module,
\* and the main module of the copy is that of the list.
ModulesAreFound ==
  /\ reading_list \in {"valid", "copied"} =>
       \A address \in 0..(LastPage - 1) :
         /\ \A k \in GetModuleForAddress(address) : address \in Pages(k)
         /\ \A k \in DOMAIN modules :
              Alone(k) /\ address \in Pages(k) => GetModuleForAddress(address) = {k}
  /\ reading_list = "refused" => \E k \in DOMAIN modules : ~Alone(k)
  /\ reading_list = "copied" /\ modules # <<>> =>
       GetModuleForAddress(Module(1).start_addr) = {1}
  /\ reading_list # "unwritten" /\ entry_point # 0 =>
       \A k \in DOMAIN modules :
         (Module(k).system.start_addr <= entry_point /\
          entry_point < Module(k).system.end_addr) => k = 1

=============================================================================
