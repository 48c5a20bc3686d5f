---------------------------- MODULE PageAllocator ----------------------------
(***************************************************************************)
(* The allocator under everything that runs after a crash, when the heap   *)
(* cannot be trusted (common/memory_allocator.h): it takes pages from the  *)
(* kernel, hands out parts of them, and gives all of them back when it is  *)
(* destroyed.                                                              *)
(*                                                                         *)
(* Sets of pages are numbered in the order of their mmap, and an address   *)
(* is a set and an offset in it.  All lengths are in bytes.                *)
(***************************************************************************)
EXTENDS Integers, Sequences

CONSTANTS
  PageSize,    \* page_size_
  Header,      \* sizeof(PageHeader)
  Sizes,       \* the sizes asked for: small enough for size_t not to wrap
  MaxSets      \* sets of pages: a bound

ASSUME AllocatorAssumption ==
  /\ PageSize \in Nat /\ Header \in Nat
  /\ 0 < Header /\ Header < PageSize
  /\ Sizes \subseteq Nat
  /\ MaxSets \in Nat

VARIABLES
  sets,         \* the list of PageHeaders: the length of each set
  current,      \* current_page_: where it starts in the newest set, or NoPage
  page_offset,  \* page_offset_
  blocks,       \* what Alloc has returned, in this order
  exists        \* has the allocator not been destroyed

allocatorVars == <<sets, current, page_offset, blocks, exists>>

NoPage == -1
Newest == Len(sets)

AllocatorTypeOK ==
  /\ sets \in Seq(Nat)
  /\ current \in Nat \cup {NoPage}
  /\ page_offset \in 0..(PageSize - 1)
  /\ blocks \in Seq([set : Nat, first : Nat, size : Nat])
  /\ exists \in BOOLEAN

AllocatorInit ==
  /\ sets = <<>>
  /\ current = NoPage
  /\ page_offset = 0
  /\ blocks = <<>>
  /\ exists = TRUE

Block(set, first, bytes) == [set |-> set, first |-> first, size |-> bytes]

(***************************************************************************)
(* Alloc.                                                                  *)
(***************************************************************************)

FitsRoughly(bytes) == current # NoPage /\ page_offset < PageSize
FitsInPage(bytes) == current # NoPage /\ PageSize - page_offset >= bytes

\* The rest of the current page is enough.
AllocFromPage(bytes) ==
  LET used == page_offset + bytes
  IN /\ FitsInPage(bytes)
     /\ blocks' = Append(blocks, Block(Newest, current + page_offset, bytes))
     /\ page_offset' = IF used = PageSize THEN 0 ELSE used
     /\ current' = IF used = PageSize THEN NoPage ELSE current
     /\ UNCHANGED sets

\* Whole pages, rounded up, for a header and the bytes.
Pages(bytes) == (bytes + Header + PageSize - 1) \div PageSize

\* New pages.  What is left of the last of them becomes the current page, and
\* what was left of the one before is never used.
AllocPages(bytes) ==
  LET length == PageSize * Pages(bytes)
      used   == PageSize - (length - (bytes + Header))
  IN /\ ~FitsInPage(bytes)
     /\ Newest < MaxSets
     /\ sets' = Append(sets, length)
     /\ blocks' = Append(blocks, Block(Newest + 1, Header, bytes))
     /\ page_offset' = used % PageSize
     /\ current' = IF page_offset' = 0 THEN NoPage ELSE length - PageSize

\* The kernel has no more pages: NULL, and nothing has changed.
AllocFails(bytes) == ~FitsInPage(bytes) /\ UNCHANGED <<sets, current, page_offset, blocks>>

Alloc(bytes) ==
  /\ exists
  /\ bytes > 0
  /\ AllocFromPage(bytes) \/ AllocPages(bytes) \/ AllocFails(bytes)
  /\ UNCHANGED exists

\* ~PageAllocator: every set on the list is unmapped, and with it every block.
FreeAll ==
  /\ exists
  /\ exists' = FALSE
  /\ sets' = <<>>
  /\ blocks' = <<>>
  /\ UNCHANGED <<current, page_offset>>

AllocatorStep == (\E bytes \in Sizes : Alloc(bytes)) \/ FreeAll
AllocatorSpec == AllocatorInit /\ [][AllocatorStep]_allocatorVars

(***************************************************************************)
(* Properties.                                                             *)
(***************************************************************************)

EndOf(b) == b.first + b.size

\* What Alloc returns is memory that the allocator has mapped, behind the
\* header that FreeAll will need, and belongs to no other block.
BlocksAreApart ==
  /\ \A i \in 1..Len(blocks) :
       /\ blocks[i].set \in 1..Newest
       /\ blocks[i].first >= Header
       /\ EndOf(blocks[i]) <= sets[blocks[i].set]
  /\ \A i, j \in 1..Len(blocks) : i < j =>
       \/ blocks[i].set # blocks[j].set
       \/ EndOf(blocks[i]) <= blocks[j].first

\* The strengthening: the rest of the current page is mapped and free.
RestIsFree ==
  current # NoPage =>
    /\ Newest > 0
    /\ page_offset > 0
    /\ current + PageSize = sets[Newest]
    /\ current + page_offset >= Header
    /\ \A i \in 1..Len(blocks) :
         blocks[i].set = Newest => EndOf(blocks[i]) <= current + page_offset

=============================================================================
