-------------------------- MODULE SequentialProofs --------------------------
(***************************************************************************)
(* Theorems about parts that one thread runs alone: PageAllocator,         *)
(* RangeMap and MinidumpFileWriter, for every value of their constants.    *)
(***************************************************************************)
EXTENDS MinidumpFileWriter, PageAllocator, RangeMap, TLAPS

(***************************************************************************)
(* The allocator.                                                          *)
(***************************************************************************)

\* An element of a sequence is what the sequence is of.
LEMMA Element ==
  ASSUME NEW S, NEW s \in Seq(S), NEW i \in 1..Len(s)
  PROVE  s[i] \in S
OBVIOUS

BlocksInv == AllocatorTypeOK /\ BlocksAreApart /\ (exists => RestIsFree)

\* One page more.
LEMMA OneMore == ASSUME NEW p \in Nat, NEW k \in Nat PROVE p * (k + 1) = p * k + p
OBVIOUS

\* Rounding up: the pages hold the header and the bytes, and less than a page
\* more.
LEMMA PagesHold ==
  ASSUME NEW bytes \in Nat
  PROVE  /\ PageSize * Pages(bytes) \in Nat
         /\ PageSize <= PageSize * Pages(bytes)
         /\ bytes + Header <= PageSize * Pages(bytes)
         /\ PageSize * Pages(bytes) < bytes + Header + PageSize
<1> DEFINE x == bytes + Header + PageSize - 1
<1>1. PageSize \in Nat /\ PageSize > 0 /\ Header \in Nat /\ Header > 0
  BY AllocatorAssumption
<1>2. x \in Nat
  BY <1>1
<1>3. x = PageSize * (x \div PageSize) + (x % PageSize)
  BY <1>1, <1>2
<1>4. x % PageSize \in 0..(PageSize - 1)
  BY <1>1, <1>2
<1>5. x \div PageSize \in Nat
  BY <1>1, <1>2
<1> HIDE DEF x
<1>6. Pages(bytes) = x \div PageSize
  BY DEF Pages, x
<1>7. PageSize * Pages(bytes) = x - (x % PageSize)
  BY <1>1, <1>2, <1>3, <1>4, <1>5, <1>6
<1>8. PageSize * Pages(bytes) \in Nat
  BY <1>1, <1>5, <1>6
<1>9. Pages(bytes) - 1 \in Nat
  BY <1>1, <1>5, <1>6, <1>2, <1>3, <1>4 DEF x
<1>10. PageSize * Pages(bytes) = PageSize * (Pages(bytes) - 1) + PageSize
  <2>1. PageSize * ((Pages(bytes) - 1) + 1) = PageSize * (Pages(bytes) - 1) + PageSize
    BY <1>1, <1>9, OneMore
  <2>2. (Pages(bytes) - 1) + 1 = Pages(bytes)
    BY <1>5, <1>6
  <2> QED
    BY <2>1, <2>2
<1>11. PageSize * (Pages(bytes) - 1) \in Nat
  BY <1>1, <1>9
<1>12. PageSize <= PageSize * Pages(bytes)
  BY <1>1, <1>10, <1>11
<1> QED
  BY <1>1, <1>2, <1>4, <1>7, <1>8, <1>12 DEF x

\* A number up to a page, counted modulo a page.
LEMMA Wraps ==
  ASSUME NEW used \in 1..PageSize
  PROVE  used % PageSize = IF used = PageSize THEN 0 ELSE used
BY AllocatorAssumption

\* At first nothing is mapped and nothing handed out.
LEMMA BlocksInitInv == AllocatorInit => BlocksInv
BY AllocatorAssumption DEF AllocatorInit, BlocksInv, AllocatorTypeOK, BlocksAreApart, RestIsFree, NoPage, Newest

\* A block that follows the others in the current page.
LEMMA StepFromPage ==
  ASSUME BlocksInv, exists, NEW bytes \in Sizes, bytes > 0, AllocFromPage(bytes),
         exists' = exists
  PROVE  BlocksInv'
<1> DEFINE n == Len(blocks)
           b == Block(Newest, current + page_offset, bytes)
<1>1. /\ PageSize \in Nat /\ Header \in Nat /\ bytes \in Nat
      /\ current \in Nat /\ page_offset \in 0..(PageSize - 1)
      /\ Newest \in Nat /\ n \in Nat
  BY AllocatorAssumption DEF AllocFromPage, FitsInPage, BlocksInv, AllocatorTypeOK, Newest
<1>2. /\ page_offset + bytes <= PageSize
      /\ Newest > 0 /\ current + PageSize = sets[Newest]
      /\ page_offset > 0 /\ current + page_offset >= Header
  BY <1>1 DEF AllocFromPage, FitsInPage, BlocksInv, RestIsFree
<1>3. /\ blocks \in Seq([set : Nat, first : Nat, size : Nat])
      /\ b \in [set : Nat, first : Nat, size : Nat]
      /\ sets' = sets
      /\ blocks' = Append(blocks, b)
  BY <1>1 DEF AllocFromPage, BlocksInv, AllocatorTypeOK, Block
<1>4. /\ Len(blocks') = n + 1
      /\ blocks'[n + 1] = b
      /\ \A i \in 1..n : blocks'[i] = blocks[i]
  BY <1>3
<1>5. EndOf(b) = current + page_offset + bytes
  BY <1>1 DEF EndOf, Block
<1>6. AllocatorTypeOK'
  BY <1>1, <1>2, <1>3 DEF AllocatorTypeOK, AllocFromPage, BlocksInv, NoPage
<1>7. BlocksAreApart'
  <2>1. ASSUME NEW i \in 1..Len(blocks')
        PROVE  /\ blocks'[i].set \in 1..Newest
               /\ blocks'[i].first >= Header
               /\ EndOf(blocks'[i]) <= sets[blocks'[i].set]
    <3>1. CASE i = n + 1
      BY <1>1, <1>2, <1>4, <1>5, <3>1 DEF Block
    <3>2. CASE i \in 1..n
      BY <1>4, <3>2 DEF BlocksInv, BlocksAreApart
    <3> QED
      BY <1>1, <1>4, <3>1, <3>2
  <2>2. ASSUME NEW i \in 1..Len(blocks'), NEW j \in 1..Len(blocks'), i < j
        PROVE  \/ blocks'[i].set # blocks'[j].set
               \/ EndOf(blocks'[i]) <= blocks'[j].first
    <3>1. i \in 1..n
      BY <1>1, <1>4, <2>2
    <3>2. CASE j = n + 1
      BY <1>1, <1>2, <1>4, <3>1, <3>2 DEF BlocksInv, RestIsFree, Block, NoPage
    <3>3. CASE j \in 1..n
      BY <1>4, <2>2, <3>1, <3>3 DEF BlocksInv, BlocksAreApart
    <3> QED
      BY <1>1, <1>4, <3>2, <3>3
  <2> QED
    BY <1>3, <2>1, <2>2 DEF BlocksAreApart, Newest
<1>8. RestIsFree'
  <2>1. SUFFICES ASSUME current' # NoPage
                 PROVE  RestIsFree'
    BY DEF RestIsFree
  <2>2. current' = current /\ page_offset' = page_offset + bytes
    BY <2>1 DEF AllocFromPage
  <2>3. ASSUME NEW i \in 1..Len(blocks'), blocks'[i].set = Newest
        PROVE  EndOf(blocks'[i]) <= current + page_offset + bytes
    <3>1. CASE i = n + 1
      BY <1>1, <1>4, <1>5, <3>1
    <3>2. CASE i \in 1..n
      <4>1. EndOf(blocks[i]) <= current + page_offset
        BY <1>1, <1>4, <2>3, <3>2 DEF BlocksInv, RestIsFree, NoPage
      <4>2. blocks[i] \in [set : Nat, first : Nat, size : Nat]
        <5>1. i \in 1..Len(blocks)
          BY <3>2
        <5> HIDE DEF n
        <5> QED
          BY <1>3, <5>1, Element
      <4>3. EndOf(blocks[i]) \in Nat
        BY <4>2 DEF EndOf
      <4> QED
        BY <1>1, <1>4, <3>2, <4>1, <4>3
    <3> QED
      BY <1>1, <1>4, <3>1, <3>2
  <2> QED
    BY <1>1, <1>2, <1>3, <2>2, <2>3 DEF RestIsFree, Newest
<1> QED
  BY <1>6, <1>7, <1>8 DEF BlocksInv

\* A block in new pages, which have nothing in them yet but the header.
LEMMA StepPages ==
  ASSUME BlocksInv, exists, NEW bytes \in Sizes, bytes > 0, AllocPages(bytes),
         exists' = exists
  PROVE  BlocksInv'
<1> DEFINE n == Len(blocks)
           bytesOfPages == PageSize * Pages(bytes)
           used == PageSize - (bytesOfPages - (bytes + Header))
           b == Block(Newest + 1, Header, bytes)
<1>1. /\ PageSize \in Nat /\ Header \in Nat /\ bytes \in Nat
      /\ 0 < Header /\ Header < PageSize
      /\ Newest \in Nat /\ n \in Nat /\ sets \in Seq(Nat)
  BY AllocatorAssumption DEF BlocksInv, AllocatorTypeOK, Newest
<1>2. /\ bytesOfPages \in Nat
      /\ PageSize <= bytesOfPages
      /\ bytes + Header <= bytesOfPages
      /\ bytesOfPages < bytes + Header + PageSize
  BY <1>1, PagesHold
<1>3. /\ sets' = Append(sets, bytesOfPages)
      /\ blocks' = Append(blocks, b)
      /\ page_offset' = used % PageSize
      /\ current' = IF page_offset' = 0 THEN NoPage ELSE bytesOfPages - PageSize
  BY DEF AllocPages
<1> HIDE DEF bytesOfPages
<1>4. used \in 1..PageSize
  BY <1>1, <1>2
<1>5. used % PageSize = IF used = PageSize THEN 0 ELSE used
  BY <1>4, Wraps
<1> HIDE DEF used
<1>6. /\ blocks \in Seq([set : Nat, first : Nat, size : Nat])
      /\ b \in [set : Nat, first : Nat, size : Nat]
  BY <1>1 DEF BlocksInv, AllocatorTypeOK, Block
<1>7. /\ Len(blocks') = n + 1
      /\ blocks'[n + 1] = b
      /\ \A i \in 1..n : blocks'[i] = blocks[i]
  BY <1>3, <1>6
<1>8. /\ Len(sets') = Newest + 1
      /\ sets'[Newest + 1] = bytesOfPages
      /\ \A i \in 1..Newest : sets'[i] = sets[i]
  BY <1>1, <1>2, <1>3 DEF Newest
<1>9. ASSUME page_offset' # 0
      PROVE  /\ page_offset' = used
             /\ used + bytesOfPages = PageSize + bytes + Header
             /\ bytesOfPages - PageSize \in Nat
  <2>1. page_offset' = used /\ used # PageSize
    BY <1>3, <1>5, <1>9
  <2>2. used + bytesOfPages = PageSize + bytes + Header
    BY <1>1, <1>2 DEF used
  <2> QED
    BY <1>1, <1>2, <2>1, <2>2
<1>10. AllocatorTypeOK'
  <2>1. page_offset' \in 0..(PageSize - 1)
    BY <1>1, <1>3, <1>4, <1>5
  <2>2. current' \in Nat \cup {NoPage}
    BY <1>3, <1>9
  <2> QED
    BY <1>1, <1>2, <1>3, <1>6, <2>1, <2>2 DEF AllocatorTypeOK, BlocksInv
<1>11. BlocksAreApart'
  <2>1. ASSUME NEW i \in 1..Len(blocks')
        PROVE  /\ blocks'[i].set \in 1..(Newest + 1)
               /\ blocks'[i].first >= Header
               /\ EndOf(blocks'[i]) <= sets'[blocks'[i].set]
    <3>1. CASE i = n + 1
      BY <1>1, <1>2, <1>7, <1>8, <3>1 DEF Block, EndOf
    <3>2. CASE i \in 1..n
      <4>1. /\ blocks[i].set \in 1..Newest
            /\ blocks[i].first >= Header
            /\ EndOf(blocks[i]) <= sets[blocks[i].set]
        BY <3>2 DEF BlocksInv, BlocksAreApart
      <4> QED
        BY <1>1, <1>7, <1>8, <3>2, <4>1
    <3> QED
      BY <1>1, <1>7, <3>1, <3>2
  <2>2. ASSUME NEW i \in 1..Len(blocks'), NEW j \in 1..Len(blocks'), i < j
        PROVE  \/ blocks'[i].set # blocks'[j].set
               \/ EndOf(blocks'[i]) <= blocks'[j].first
    <3>1. i \in 1..n
      BY <1>1, <1>7, <2>2
    <3>2. CASE j = n + 1
      BY <1>1, <1>7, <3>1, <3>2 DEF BlocksInv, BlocksAreApart, Block
    <3>3. CASE j \in 1..n
      BY <1>7, <2>2, <3>1, <3>3 DEF BlocksInv, BlocksAreApart
    <3> QED
      BY <1>1, <1>7, <3>2, <3>3
  <2> QED
    BY <1>8, <2>1, <2>2 DEF BlocksAreApart, Newest
<1>12. RestIsFree'
  <2>1. SUFFICES ASSUME current' # NoPage
                 PROVE  RestIsFree'
    BY DEF RestIsFree
  <2>2. /\ page_offset' # 0
        /\ current' = bytesOfPages - PageSize
    BY <1>3, <2>1
  <2>3. /\ current' + page_offset' = Header + bytes
        /\ current' + PageSize = bytesOfPages
    BY <1>1, <1>2, <1>4, <1>9, <2>2
  <2>4. ASSUME NEW i \in 1..Len(blocks'), blocks'[i].set = Newest + 1
        PROVE  EndOf(blocks'[i]) <= Header + bytes
    <3>1. i = n + 1
      BY <1>1, <1>7, <2>4 DEF BlocksInv, BlocksAreApart
    <3> QED
      BY <1>1, <1>7, <3>1 DEF Block, EndOf
  <2>5. Len(sets') > 0 /\ sets'[Len(sets')] = bytesOfPages /\ Len(sets') = Newest + 1
    BY <1>1, <1>8
  <2>6. page_offset' > 0
    BY <1>9, <1>4, <2>2
  <2>7. current' + PageSize = sets'[Len(sets')]
    BY <2>3, <2>5
  <2>8. current' + page_offset' >= Header
    BY <1>1, <2>3
  <2>9. \A i \in 1..Len(blocks') :
          blocks'[i].set = Len(sets') => EndOf(blocks'[i]) <= current' + page_offset'
    BY <2>3, <2>4, <2>5
  <2> QED
    BY <2>5, <2>6, <2>7, <2>8, <2>9 DEF RestIsFree, Newest
<1> QED
  BY <1>10, <1>11, <1>12 DEF BlocksInv

\* Every step keeps the invariant.
LEMMA BlocksStepInv == BlocksInv /\ [AllocatorStep]_allocatorVars => BlocksInv'
<1> SUFFICES ASSUME BlocksInv, [AllocatorStep]_allocatorVars
             PROVE  BlocksInv'
  OBVIOUS
<1>1. ASSUME NEW bytes \in Sizes, Alloc(bytes)
      PROVE  BlocksInv'
  <2>1. CASE AllocFromPage(bytes)
    BY <1>1, <2>1, StepFromPage DEF Alloc
  <2>2. CASE AllocPages(bytes)
    BY <1>1, <2>2, StepPages DEF Alloc
  <2>3. CASE AllocFails(bytes)
    BY <1>1, <2>3
       DEF Alloc, AllocFails, BlocksInv, AllocatorTypeOK, BlocksAreApart, RestIsFree, Newest
  <2> QED
    BY <1>1, <2>1, <2>2, <2>3 DEF Alloc
<1>2. CASE FreeAll
  <2>1. sets' = <<>> /\ blocks' = <<>> /\ ~exists'
    BY <1>2 DEF FreeAll
  <2>2. AllocatorTypeOK'
    <3>1. <<>> \in Seq(Nat)
      OBVIOUS
    <3>2. <<>> \in Seq([set : Nat, first : Nat, size : Nat])
      OBVIOUS
    <3>3. exists' \in BOOLEAN
      BY <1>2 DEF FreeAll
    <3> QED
      BY <1>2, <2>1, <3>1, <3>2, <3>3 DEF FreeAll, BlocksInv, AllocatorTypeOK
  <2>3. BlocksAreApart'
    BY <2>1 DEF BlocksAreApart
  <2> QED
    BY <2>1, <2>2, <2>3 DEF BlocksInv
<1>3. CASE UNCHANGED allocatorVars
  BY <1>3 DEF allocatorVars, BlocksInv, AllocatorTypeOK, BlocksAreApart, RestIsFree, Newest
<1> QED
  BY <1>1, <1>2, <1>3 DEF AllocatorStep

\* For every size of a page and a header and all sizes asked for, the blocks
\* that Alloc hands out are in mapped memory and apart.
THEOREM BlocksAreApartHolds == AllocatorSpec => []BlocksAreApart
<1>1. BlocksInv => BlocksAreApart
  BY DEF BlocksInv
<1> QED
  BY BlocksInitInv, BlocksStepInv, <1>1, PTL DEF AllocatorSpec

(***************************************************************************)
(* The map of ranges.                                                      *)
(***************************************************************************)

\* What the calls, the one to come and the ranges are.
CallOK ==
  /\ asked \in Seq([base : Addresses, size : Nat])
  /\ call # NoCall => call \in [base : Nat, delta : Nat, size : Nat, entry : Nat]

MapOK ==
  \A h \in DOMAIN map :
    /\ h \in Nat /\ h <= MaxAddress
    /\ map[h].base \in Nat

RangesInv == CallOK /\ MapOK /\ RangesApart

LEMMA RangeInitInv == RangeInit => RangesInv
BY DEF RangeInit, RangesInv, CallOK, MapOK, RangesApart

\* A range that takes part of the place of another, or a place that none has,
\* leaves the map apart.
LEMMA CutAbove ==
  ASSUME RangesInv, call # NoCall, NEW h \in DOMAIN map, CutOtherAbove(h), InBounds
  PROVE  MapOK' /\ RangesApart'
<1>1. /\ call.base \in Nat /\ MaxAddress \in Nat
      /\ h \in Nat /\ call.base <= h /\ h <= MaxAddress
      /\ map[h].base \in Nat /\ map[h].base < call.base
  BY RangeAssumption DEF CutOtherAbove, InTheWay, LowerBound, RangesInv, CallOK, MapOK
<1>2. DOMAIN map' = (DOMAIN map \ {h}) \cup {call.base - 1}
  BY DEF CutOtherAbove, With, Minus
<1>0. call.base - 1 \notin DOMAIN map
  BY <1>1 DEF RangesInv, MapOK, RangesApart
<1>3. map'[call.base - 1] = map[h]
  BY <1>0, <1>2 DEF CutOtherAbove, With, Minus
<1>4. \A k \in DOMAIN map \ {h} : k # call.base - 1 => map'[k] = map[k]
  BY <1>2 DEF CutOtherAbove, With, Minus
<1>5. MapOK'
  BY <1>1, <1>2, <1>3, <1>4 DEF RangesInv, MapOK
<1>6. RangesApart'
  <2>1. ASSUME NEW k \in DOMAIN map' PROVE map'[k].base <= k
    BY <1>1, <1>2, <1>3, <1>4 DEF RangesInv, MapOK, RangesApart
  <2>2. ASSUME NEW k \in DOMAIN map', NEW m \in DOMAIN map', k < m
        PROVE  k < map'[m].base
    <3>1. CASE k = call.base - 1
      BY <1>1, <1>2, <1>3, <1>4, <2>2, <3>1 DEF RangesInv, MapOK, RangesApart
    <3>2. CASE m = call.base - 1
      BY <1>1, <1>2, <1>3, <1>4, <2>2, <3>2 DEF RangesInv, MapOK, RangesApart
    <3>3. CASE k # call.base - 1 /\ m # call.base - 1
      BY <1>1, <1>2, <1>3, <1>4, <2>2, <3>3 DEF RangesInv, MapOK, RangesApart
    <3> QED
      BY <3>1, <3>2, <3>3
  <2> QED
    BY <2>1, <2>2 DEF RangesApart
<1> QED
  BY <1>5, <1>6

LEMMA CutBelow ==
  ASSUME RangesInv, call # NoCall, NEW h \in DOMAIN map, CutOtherBelow(h), InBounds
  PROVE  MapOK' /\ RangesApart'
<1>1. /\ call.base \in Nat /\ call.size \in Nat /\ MaxAddress \in Nat
      /\ h \in Nat /\ High < h /\ h <= MaxAddress
      /\ map[h].base \in Nat /\ map[h].base <= High
      /\ High \in Nat
  BY RangeAssumption
     DEF CutOtherBelow, InTheWay, LowerBound, RangesInv, CallOK, MapOK, InBounds, High
<1>2. DOMAIN map' = DOMAIN map
  BY DEF CutOtherBelow, With, Minus
<1>3. map'[h].base = High + 1
  BY <1>1 DEF CutOtherBelow, With, Minus, MakeRange
<1>4. \A k \in DOMAIN map \ {h} : map'[k] = map[k]
  BY DEF CutOtherBelow, With, Minus
<1> QED
  BY <1>1, <1>2, <1>3, <1>4 DEF RangesInv, MapOK, RangesApart

\* Nothing in the way: every range ends below this one or begins above it.
LEMMA PlaceIsFree ==
  ASSUME RangesInv, call # NoCall, IsFree, InBounds
  PROVE  /\ call.base \in Nat /\ High \in Nat /\ call.base <= High /\ High <= MaxAddress
         /\ \A k \in DOMAIN map : k < call.base \/ High < map[k].base
         /\ High \notin DOMAIN map
<1>1. /\ call.base \in Nat /\ call.size \in Nat /\ MaxAddress \in Nat
      /\ High \in Nat /\ call.base <= High /\ High <= MaxAddress
  BY RangeAssumption DEF RangesInv, CallOK, InBounds, High
<1>2. \A k \in DOMAIN map : k \in Nat /\ map[k].base \in Nat /\ map[k].base <= k
  BY DEF RangesInv, MapOK, RangesApart
<1>3. \A k \in DOMAIN map : k < call.base \/ High < map[k].base
  <2> SUFFICES ASSUME NEW k \in DOMAIN map, ~(k < call.base)
               PROVE  High < map[k].base
    OBVIOUS
  <2>1. k \in Nat /\ High <= k
    BY <1>1 DEF IsFree, RangesInv, MapOK
  <2>2. PICK h \in DOMAIN map : LowerBound(h, High) /\ High < map[h].base
    BY <1>1, <2>1 DEF IsFree
  <2>3. h \in Nat /\ map[h].base \in Nat /\ map[k].base \in Nat /\ h <= k
    BY <2>1, <2>2 DEF LowerBound, RangesInv, MapOK
  <2>4. map[h].base <= h /\ (h < k => h < map[k].base)
    BY DEF RangesInv, RangesApart
  <2> QED
    BY <1>1, <2>1, <2>2, <2>3, <2>4
<1>4. High \notin DOMAIN map
  BY <1>1, <1>2, <1>3
<1> QED BY <1>1, <1>3, <1>4

\* So it can be stored.
LEMMA Inserted ==
  ASSUME RangesInv, call # NoCall, Insert, InBounds
  PROVE  MapOK' /\ RangesApart'
<1>1. /\ call.base \in Nat /\ High \in Nat /\ call.base <= High /\ High <= MaxAddress
      /\ \A k \in DOMAIN map : k < call.base \/ High < map[k].base
      /\ High \notin DOMAIN map
  BY PlaceIsFree DEF Insert
<1>2. DOMAIN map' = DOMAIN map \cup {High}
  BY DEF Insert, With
<1>3. \A k \in DOMAIN map : map'[k] = map[k]
  BY DEF Insert, With
<1>4. map'[High].base = call.base
  BY <1>1 DEF Insert, With, MakeRange
<1> QED
  BY <1>1, <1>2, <1>3, <1>4 DEF RangesInv, MapOK, RangesApart

\* What is left of this range is a range.
LEMMA ThisIsCut ==
  ASSUME RangesInv, call # NoCall, NEW h \in DOMAIN map, InBounds,
         CutThisAbove(h) \/ CutThisBelow(h)
  PROVE  CallOK' /\ map' = map
<1>1. /\ call.base \in Nat /\ call.delta \in Nat /\ call.size \in Nat
      /\ h \in Nat /\ call.base <= h /\ map[h].base \in Nat
  BY DEF CutThisAbove, CutThisBelow, InTheWay, LowerBound, RangesInv, CallOK, MapOK
<1>2. call \in [base : Nat, delta : Nat, size : Nat, entry : Nat]
  BY DEF RangesInv, CallOK
<1>3. CASE CutThisAbove(h)
  <2>1. map[h].base - call.base \in Nat
    BY <1>1, <1>3 DEF CutThisAbove
  <2> QED
    BY <1>2, <1>3, <2>1 DEF CutThisAbove, RangesInv, CallOK
<1>4. CASE CutThisBelow(h)
  <2> DEFINE cut == h - call.base + 1
  <2>1. /\ call.base + cut \in Nat /\ call.delta + cut \in Nat
        /\ call.size - cut \in Nat
    BY <1>1, <1>4 DEF CutThisBelow, High
  <2> QED
    BY <1>2, <1>4, <2>1 DEF CutThisBelow, RangesInv, CallOK
<1> QED
  BY <1>3, <1>4

\* Every step of the map keeps it.
LEMMA RangeStepInv == RangesInv /\ [RangeStep]_rangeVars => RangesInv'
<1> SUFFICES ASSUME RangesInv, [RangeStep]_rangeVars
             PROVE  RangesInv'
  OBVIOUS
<1>1. ASSUME NEW base \in Addresses, NEW bytes \in 0..(MaxAddress + 1),
             StoreRange(base, bytes)
      PROVE  RangesInv'
  BY <1>1, RangeAssumption DEF StoreRange, Addresses, RangesInv, CallOK, MapOK, RangesApart
<1>2. CASE StoreRangeInternal
  <2>1. CASE OutOfBounds
    BY <2>1 DEF OutOfBounds, ReturnFalse, RangesInv, CallOK, MapOK, RangesApart
  <2>2. CASE InBounds /\ Insert
    BY <1>2, <2>2, Inserted DEF StoreRangeInternal, Insert, RangesInv, CallOK
  <2>3. ASSUME NEW h \in DOMAIN map, InBounds,
               \/ Refuse(h)
               \/ CutThisAbove(h) \/ CutOtherAbove(h)
               \/ CutThisBelow(h) \/ CutOtherBelow(h)
        PROVE  RangesInv'
    <3>1. call # NoCall
      BY <1>2 DEF StoreRangeInternal
    <3>2. CASE Refuse(h)
      BY <3>2 DEF Refuse, ReturnFalse, RangesInv, CallOK, MapOK, RangesApart
    <3>3. CASE CutThisAbove(h) \/ CutThisBelow(h)
      BY <2>3, <3>1, <3>3, ThisIsCut DEF RangesInv, MapOK, RangesApart
    <3>4. CASE CutOtherAbove(h)
      BY <2>3, <3>1, <3>4, CutAbove DEF CutOtherAbove, RangesInv, CallOK
    <3>5. CASE CutOtherBelow(h)
      BY <2>3, <3>1, <3>5, CutBelow DEF CutOtherBelow, RangesInv, CallOK
    <3> QED
      BY <2>3, <3>2, <3>3, <3>4, <3>5
  <2> QED
    BY <1>2, <2>1, <2>2, <2>3 DEF StoreRangeInternal
<1>3. CASE Clear
  BY <1>3 DEF Clear, RangesInv, CallOK, MapOK, RangesApart
<1>4. CASE UNCHANGED rangeVars
  BY <1>4 DEF rangeVars, RangesInv, CallOK, MapOK, RangesApart
<1> QED
  BY <1>1, <1>2, <1>3, <1>4 DEF RangeStep

\* For every number of addresses and of calls, the ranges in the map are apart
\* before and after every call of StoreRangeInternal, with each strategy.
THEOREM RangesApartHolds == RangeSpec => []RangesApart
<1>1. RangesInv => RangesApart
  BY DEF RangesInv
<1> QED
  BY RangeInitInv, RangeStepInv, <1>1, PTL DEF RangeSpec

\* The entries of a map are those that were stored, each at one place, where its
\* delta says how far its range was from there when it was stored.
EntriesOK ==
  /\ stored \subseteq 1..Len(asked)
  /\ call # NoCall =>
       /\ Len(asked) > 0 /\ call.entry = Len(asked) /\ call.entry \notin stored
       /\ asked[call.entry].base + call.delta = call.base
  /\ \A h \in DOMAIN map :
       /\ map[h].entry \in stored /\ map[h].delta \in Nat
       /\ asked[map[h].entry].base + map[h].delta = map[h].base
  /\ \A e \in stored : \E h \in DOMAIN map : map[h].entry = e

\* The call to come will be stored, for it has cut a range already.
Cutting == call # NoCall /\ InBounds

\* kTruncateLower: what a range has lost above goes to one that begins higher, or
\* to the call that has cut it.
Later(e, address) ==
  \E o \in stored : asked[e].base < asked[o].base /\ asked[o].base <= address
LowerOK ==
  /\ \A h \in DOMAIN map : map[h].delta = 0 /\ h <= AskedHigh(map[h].entry)
  /\ \A h \in DOMAIN map : \A a \in Nat :
       h < a /\ a <= AskedHigh(map[h].entry) =>
         Later(map[h].entry, a) \/ (Cutting /\ h = call.base - 1)
  /\ call # NoCall =>
       /\ call.delta = 0 /\ High <= AskedHigh(call.entry)
       /\ \A a \in Nat : High < a /\ a <= AskedHigh(call.entry) => Later(call.entry, a)

\* kTruncateUpper: what a range has lost below goes to one that ends lower, or to
\* the call that has cut it.
Sooner(e, address) ==
  \E o \in stored : address <= AskedHigh(o) /\ AskedHigh(o) < AskedHigh(e)
UpperOK ==
  /\ \A h \in DOMAIN map : h = AskedHigh(map[h].entry)
  /\ \A h \in DOMAIN map : \A a \in Nat :
       asked[map[h].entry].base <= a /\ a < map[h].base =>
         Sooner(map[h].entry, a) \/ (Cutting /\ map[h].base = High + 1)
  /\ call # NoCall =>
       /\ High = AskedHigh(call.entry)
       /\ \A a \in Nat : asked[call.entry].base <= a /\ a < call.base => Sooner(call.entry, a)

\* kExclusiveRanges: nothing is cut, and what was refused was in the way of another.
NoRange(e) == asked[e].size = 0 \/ AskedHigh(e) > MaxAddress
Meets(e, o) == asked[o].base <= AskedHigh(e) /\ asked[e].base <= AskedHigh(o)
ExclusiveOK ==
  /\ \A h \in DOMAIN map : map[h].delta = 0 /\ h = AskedHigh(map[h].entry)
  /\ call # NoCall => call.delta = 0 /\ call.size = asked[call.entry].size
  /\ \A e \in 1..Len(asked) \ stored :
       \/ call # NoCall /\ e = call.entry
       \/ NoRange(e)
       \/ \E o \in stored : Meets(e, o)

\* What the map and the call to come are made of.
ShapesOK ==
  /\ \A h \in DOMAIN map : map[h] \in [base : Nat, delta : Nat, entry : Nat]
  /\ call # NoCall => call.base <= MaxAddress

StrategyInv ==
  /\ RangesInv
  /\ ShapesOK
  /\ merge_strategy \in {"exclusive", "truncateLower", "truncateUpper"}
  /\ EntriesOK
  /\ merge_strategy = "truncateLower" => LowerOK
  /\ merge_strategy = "truncateUpper" => UpperOK
  /\ merge_strategy = "exclusive" => ExclusiveOK


\* The kinds of what the map and the calls hold, for the provers.
LEMMA RangeTypes ==
  ASSUME RangesInv
  PROVE  /\ MaxAddress \in Nat
         /\ \A h \in DOMAIN map : h \in Nat /\ map[h].base \in Nat /\ map[h].base <= h
         /\ \A h, k \in DOMAIN map : h < k => h < map[k].base
         /\ Len(asked) \in Nat
         /\ \A e \in 1..Len(asked) : /\ asked[e].base \in Nat /\ asked[e].size \in Nat
                                     /\ AskedHigh(e) \in Int
         /\ call # NoCall => /\ call.base \in Nat /\ call.size \in Nat /\ call.delta \in Nat
                             /\ High \in Int
<1>1. /\ MaxAddress \in Nat
      /\ \A h \in DOMAIN map : h \in Nat /\ map[h].base \in Nat /\ map[h].base <= h
      /\ \A h, k \in DOMAIN map : h < k => h < map[k].base
  BY RangeAssumption DEF RangesInv, MapOK, RangesApart
<1>2. asked \in Seq([base : Addresses, size : Nat]) /\ Addresses \subseteq Nat
  BY RangeAssumption DEF RangesInv, CallOK, Addresses
<1>3. Len(asked) \in Nat /\ \A e \in 1..Len(asked) : asked[e] \in [base : Addresses, size : Nat]
  <2> DEFINE R == [base : Addresses, size : Nat]
  <2>1. asked \in Seq(R)
    BY <1>2
  <2> HIDE DEF R
  <2>2. Len(asked) \in Nat /\ \A e \in 1..Len(asked) : asked[e] \in R
    BY <2>1, Element
  <2> QED BY <2>2 DEF R
<1>4. \A e \in 1..Len(asked) : asked[e].base \in Nat /\ asked[e].size \in Nat
  BY <1>2, <1>3
<1>5. \A e \in 1..Len(asked) : AskedHigh(e) \in Int
  BY <1>4 DEF AskedHigh
<1>6. call # NoCall => /\ call.base \in Nat /\ call.size \in Nat /\ call.delta \in Nat
                       /\ High \in Int
  BY DEF RangesInv, CallOK, High
<1> QED BY <1>1, <1>3, <1>4, <1>5, <1>6

\* An entry is where it was stored, and what has been cut from it is the delta.
LEMMA EntryTypes ==
  ASSUME StrategyInv
  PROVE  /\ stored \subseteq 1..Len(asked)
         /\ \A h \in DOMAIN map :
              /\ map[h].entry \in stored /\ map[h].entry \in 1..Len(asked)
              /\ asked[map[h].entry].base \in Nat /\ AskedHigh(map[h].entry) \in Int
              /\ asked[map[h].entry].base <= map[h].base
              /\ merge_strategy # "truncateUpper" => asked[map[h].entry].base = map[h].base
              /\ merge_strategy # "truncateLower" => AskedHigh(map[h].entry) = h
         /\ call # NoCall =>
              /\ call.entry \in 1..Len(asked) /\ call.entry \notin stored
              /\ asked[call.entry].base \in Nat /\ AskedHigh(call.entry) \in Int
              /\ asked[call.entry].base <= call.base
              /\ merge_strategy # "truncateUpper" => asked[call.entry].base = call.base
              /\ merge_strategy # "truncateLower" => AskedHigh(call.entry) = High
<1>1. /\ RangesInv /\ EntriesOK
      /\ merge_strategy \in {"exclusive", "truncateLower", "truncateUpper"}
      /\ merge_strategy = "truncateLower" => LowerOK
      /\ merge_strategy = "truncateUpper" => UpperOK
      /\ merge_strategy = "exclusive" => ExclusiveOK
  BY DEF StrategyInv
<1>2. stored \subseteq 1..Len(asked)
  BY <1>1 DEF EntriesOK
<1>3. ASSUME NEW h \in DOMAIN map
      PROVE  /\ map[h].entry \in stored /\ map[h].entry \in 1..Len(asked)
             /\ asked[map[h].entry].base \in Nat /\ AskedHigh(map[h].entry) \in Int
             /\ asked[map[h].entry].base <= map[h].base
             /\ merge_strategy # "truncateUpper" => asked[map[h].entry].base = map[h].base
             /\ merge_strategy # "truncateLower" => AskedHigh(map[h].entry) = h
  <2> DEFINE e == map[h].entry
             d == map[h].delta
  <2>1. e \in stored /\ e \in 1..Len(asked) /\ d \in Nat /\ asked[e].base + d = map[h].base
    BY <1>1, <1>2 DEF EntriesOK
  <2>2. asked[e].base \in Nat /\ AskedHigh(e) \in Int
    BY <1>1, <2>1, RangeTypes
  <2>3. /\ merge_strategy # "truncateUpper" => d = 0
        /\ merge_strategy # "truncateLower" => AskedHigh(e) = h
    BY <1>1 DEF LowerOK, UpperOK, ExclusiveOK
  <2> HIDE DEF e, d
  <2>4. asked[e].base <= map[h].base /\ (d = 0 => asked[e].base = map[h].base)
    BY <2>1, <2>2
  <2> QED BY <2>1, <2>2, <2>3, <2>4 DEF e
<1>4. ASSUME call # NoCall
      PROVE  /\ call.entry \in 1..Len(asked) /\ call.entry \notin stored
             /\ asked[call.entry].base \in Nat /\ AskedHigh(call.entry) \in Int
             /\ asked[call.entry].base <= call.base
             /\ merge_strategy # "truncateUpper" => asked[call.entry].base = call.base
             /\ merge_strategy # "truncateLower" => AskedHigh(call.entry) = High
  <2> DEFINE e == call.entry
  <2>1. /\ e \in 1..Len(asked) /\ e \notin stored /\ asked[e].base + call.delta = call.base
        /\ call.delta \in Nat /\ call.base \in Nat
    BY <1>1, <1>4, RangeTypes DEF EntriesOK
  <2>2. asked[e].base \in Nat /\ AskedHigh(e) \in Int
    BY <1>1, <2>1, RangeTypes
  <2>3. merge_strategy # "truncateUpper" => call.delta = 0
    BY <1>1, <1>4 DEF LowerOK, ExclusiveOK
  <2>4. asked[e].base <= call.base /\ (call.delta = 0 => asked[e].base = call.base)
    BY <2>1, <2>2
  <2>5. merge_strategy = "exclusive" => call.size = asked[e].size
    BY <1>1, <1>4 DEF ExclusiveOK
  <2>6. merge_strategy # "truncateLower" => AskedHigh(e) = High
    BY <1>1, <1>4, <2>3, <2>4, <2>5 DEF UpperOK, AskedHigh, High
  <2> QED BY <2>1, <2>2, <2>3, <2>4, <2>6
<1> QED BY <1>2, <1>3, <1>4

\* Nothing is said anew of the ranges that were asked for and are stored, when these are
\* the same.
LEMMA SameEntries ==
  ASSUME UNCHANGED <<asked, stored>>
  PROVE  /\ \A e : AskedHigh(e)' = AskedHigh(e) /\ NoRange(e)' = NoRange(e)
         /\ \A e, a : Later(e, a)' = Later(e, a) /\ Sooner(e, a)' = Sooner(e, a)
         /\ \A e, o : Meets(e, o)' = Meets(e, o)
BY DEF AskedHigh, NoRange, Later, Sooner, Meets

\* Refused: what was stored stays as it was.
LEMMA RefusedStrategy ==
  ASSUME StrategyInv, call # NoCall,
         OutOfBounds \/ (InBounds /\ \E h \in DOMAIN map : Refuse(h))
  PROVE  EntriesOK' /\ (merge_strategy = "truncateLower" => LowerOK')
         /\ (merge_strategy = "truncateUpper" => UpperOK')
         /\ (merge_strategy = "exclusive" => ExclusiveOK')
<1>1. call' = NoCall /\ UNCHANGED <<merge_strategy, map, asked, stored>> /\ ~Cutting'
  BY DEF OutOfBounds, Refuse, ReturnFalse, Cutting
<1>2. EntriesOK'
  BY <1>1 DEF StrategyInv, EntriesOK
<1>3. ASSUME merge_strategy = "truncateLower" PROVE LowerOK'
  <2>1. ASSUME NEW h \in DOMAIN map, NEW a \in Nat, h < a, a <= AskedHigh(map[h].entry)
        PROVE  Later(map[h].entry, a)
    <3>1. CASE ~(Cutting /\ h = call.base - 1)
      BY <1>3, <2>1, <3>1 DEF StrategyInv, LowerOK
    <3>2. CASE Cutting /\ h = call.base - 1
      <4>1. PICK k \in DOMAIN map : Refuse(k)
        BY <3>2 DEF Cutting, OutOfBounds
      <4>2. call.base = map[k].base
        BY <1>3, <4>1 DEF Refuse
      <4>3. /\ asked[map[k].entry].base = call.base /\ map[k].entry \in stored
            /\ asked[map[h].entry].base = map[h].base /\ map[h].base <= h
            /\ h \in Nat /\ map[h].base \in Nat /\ call.base \in Nat
        BY <1>3, <4>2, EntryTypes, RangeTypes DEF StrategyInv
      <4>4. map[h].base < call.base /\ call.base <= a
        BY <2>1, <3>2, <4>3
      <4> QED BY <4>3, <4>4 DEF Later
    <3> QED BY <3>1, <3>2
  <2> QED BY <1>1, <1>3, <2>1, SameEntries DEF StrategyInv, LowerOK
<1>4. ASSUME merge_strategy = "truncateUpper" PROVE UpperOK'
  <2>1. ASSUME NEW h \in DOMAIN map, NEW a \in Nat,
               asked[map[h].entry].base <= a, a < map[h].base
        PROVE  Sooner(map[h].entry, a)
    <3>1. CASE ~(Cutting /\ map[h].base = High + 1)
      BY <1>4, <2>1, <3>1 DEF StrategyInv, UpperOK
    <3>2. CASE Cutting /\ map[h].base = High + 1
      <4>1. PICK k \in DOMAIN map : Refuse(k)
        BY <3>2 DEF Cutting, OutOfBounds
      <4>2. k = High
        BY <1>4, <4>1 DEF Refuse
      <4>3. /\ AskedHigh(map[k].entry) = High /\ map[k].entry \in stored
            /\ AskedHigh(map[h].entry) = h
        BY <1>4, <4>2, EntryTypes
      <4> QED BY <2>1, <3>2, <4>2, <4>3, RangeTypes DEF Sooner, StrategyInv, Cutting
    <3> QED BY <3>1, <3>2
  <2> QED BY <1>1, <1>4, <2>1, SameEntries DEF StrategyInv, UpperOK
<1>5. ASSUME merge_strategy = "exclusive" PROVE ExclusiveOK'
  <2>1. NoRange(call.entry) \/ \E o \in stored : Meets(call.entry, o)
    <3>1. asked[call.entry].base = call.base /\ asked[call.entry].size = call.size
          /\ High = AskedHigh(call.entry)
      BY <1>5, EntryTypes DEF StrategyInv, ExclusiveOK
    <3>2. CASE OutOfBounds
      BY <3>1, <3>2, RangeTypes DEF OutOfBounds, InBounds, NoRange, StrategyInv
    <3>3. ASSUME NEW h \in DOMAIN map, Refuse(h) PROVE Meets(call.entry, map[h].entry)
      <4>1. map[h].entry \in stored /\ AskedHigh(map[h].entry) = h
            /\ asked[map[h].entry].base = map[h].base
        BY <1>5, EntryTypes
      <4> QED BY <3>1, <3>3, <4>1, RangeTypes DEF Refuse, InTheWay, LowerBound, Meets, StrategyInv
    <3> QED BY <3>2, <3>3 DEF StrategyInv, EntriesOK
  <2> QED BY <1>1, <1>5, <2>1, SameEntries DEF StrategyInv, ExclusiveOK
<1> QED BY <1>2, <1>3, <1>4, <1>5

\* Asked for: one range more, and no other.
LEMMA AskedStrategy ==
  ASSUME StrategyInv, NEW base \in Addresses, NEW bytes \in Nat, StoreRange(base, bytes)
  PROVE  EntriesOK' /\ (merge_strategy = "truncateLower" => LowerOK')
         /\ (merge_strategy = "truncateUpper" => UpperOK')
         /\ (merge_strategy = "exclusive" => ExclusiveOK')
<1> DEFINE n == Len(asked)
           r == [base |-> base, size |-> bytes]
<1>1. /\ asked' = Append(asked, r) /\ UNCHANGED <<merge_strategy, map, stored>>
      /\ call' = [base |-> base, delta |-> 0, size |-> bytes, entry |-> n + 1]
      /\ call = NoCall
  BY DEF StoreRange
<1>2. call' # NoCall
  BY <1>1, RangeTypes, RangeAssumption DEF StrategyInv, Addresses
<1>3. /\ n \in Nat /\ Len(asked') = n + 1 /\ asked'[n + 1] = r
      /\ \A e \in 1..n : asked'[e] = asked[e]
  BY <1>1, RangeAssumption DEF StrategyInv, RangesInv, CallOK
<1>4. base \in Nat /\ stored \subseteq 1..n
  BY RangeAssumption DEF Addresses, StrategyInv, EntriesOK
<1>5. \A e \in 1..n : AskedHigh(e)' = AskedHigh(e)
  BY <1>3 DEF AskedHigh
<1>6. /\ \A e : e = n + 1 => AskedHigh(e)' = base + bytes - 1
      /\ High' = base + bytes - 1
  <2>1. \A e : e = n + 1 => AskedHigh(e)' = base + bytes - 1
    BY <1>3 DEF AskedHigh
  <2> QED BY <1>1, <2>1 DEF High
<1>7. \A e \in 1..n : \A a : Later(e, a)' = Later(e, a) /\ Sooner(e, a)' = Sooner(e, a)
  BY <1>1, <1>3, <1>4, <1>5 DEF Later, Sooner
<1>8. \A h \in DOMAIN map : map[h].entry \in 1..n
  BY EntryTypes
<1>9. /\ call'.base = base /\ call'.delta = 0 /\ call'.size = bytes /\ call'.entry = n + 1
      /\ ~Cutting /\ n + 1 \notin 1..n /\ asked'[n + 1].base = base /\ asked'[n + 1].size = bytes
  BY <1>1, <1>3 DEF Cutting
<1> HIDE DEF n, r
<1>10. EntriesOK'
  <2>1. stored' \subseteq 1..Len(asked')
    BY <1>1, <1>3, <1>4
  <2>2. /\ Len(asked') > 0 /\ call'.entry = Len(asked') /\ call'.entry \notin stored'
        /\ asked'[call'.entry].base + call'.delta = call'.base
    BY <1>1, <1>3, <1>4, <1>9
  <2>3. \A h \in DOMAIN map' :
          /\ map'[h].entry \in stored' /\ map'[h].delta \in Nat
          /\ asked'[map'[h].entry].base + map'[h].delta = map'[h].base
    BY <1>1, <1>3, <1>8 DEF StrategyInv, EntriesOK
  <2> QED BY <1>1, <2>1, <2>2, <2>3 DEF StrategyInv, EntriesOK
<1>11. ASSUME merge_strategy = "truncateLower" PROVE LowerOK'
  <2>1. LowerOK
    BY <1>11 DEF StrategyInv
  <2>2. \A h \in DOMAIN map' : map'[h].delta = 0 /\ h <= AskedHigh(map[h].entry)'
    BY <1>1, <1>5, <1>8, <2>1 DEF LowerOK
  <2>3. \A h \in DOMAIN map' : \A a \in Nat :
          h < a /\ a <= AskedHigh(map[h].entry)' => Later(map[h].entry, a)'
    BY <1>1, <1>5, <1>7, <1>8, <1>9, <2>1 DEF LowerOK
  <2>4. /\ call'.delta = 0 /\ High' <= AskedHigh(call.entry)'
        /\ \A a \in Nat : ~(High' < a /\ a <= AskedHigh(call.entry)')
    BY <1>4, <1>6, <1>9
  <2> QED BY <2>2, <2>3, <2>4 DEF LowerOK
<1>12. ASSUME merge_strategy = "truncateUpper" PROVE UpperOK'
  <2>1. UpperOK
    BY <1>12 DEF StrategyInv
  <2>2. \A h \in DOMAIN map' : h = AskedHigh(map[h].entry)'
    BY <1>1, <1>5, <1>8, <2>1 DEF UpperOK
  <2>3. \A h \in DOMAIN map' : \A a \in Nat :
          asked'[map'[h].entry].base <= a /\ a < map'[h].base => Sooner(map[h].entry, a)'
    BY <1>1, <1>3, <1>7, <1>8, <1>9, <2>1 DEF UpperOK
  <2>4. /\ High' = AskedHigh(call.entry)'
        /\ \A a \in Nat : ~(asked'[call'.entry].base <= a /\ a < call'.base)
    BY <1>4, <1>6, <1>9
  <2> QED BY <2>2, <2>3, <2>4 DEF UpperOK
<1>13. ASSUME merge_strategy = "exclusive" PROVE ExclusiveOK'
  <2>1. ExclusiveOK
    BY <1>13 DEF StrategyInv
  <2>2. \A h \in DOMAIN map' : map'[h].delta = 0 /\ h = AskedHigh(map[h].entry)'
    BY <1>1, <1>5, <1>8, <2>1 DEF ExclusiveOK
  <2>3. call'.delta = 0 /\ call'.size = asked'[call'.entry].size
    BY <1>9
  <2>4. ASSUME NEW e \in 1..n, e \notin stored
        PROVE  NoRange(e)' \/ \E o \in stored' : Meets(e, o)'
    <3>1. NoRange(e) \/ \E o \in stored : Meets(e, o)
      BY <1>1, <2>1, <2>4 DEF ExclusiveOK, n
    <3>2. NoRange(e)' = NoRange(e)
      BY <1>3, <1>5 DEF NoRange
    <3>3. \A o \in stored : Meets(e, o)' = Meets(e, o)
      BY <1>3, <1>4, <1>5 DEF Meets
    <3> QED BY <1>1, <3>1, <3>2, <3>3
  <2>5. 1..Len(asked') = 1..n \cup {n + 1}
    BY <1>3
  <2> QED BY <1>1, <1>2, <1>9, <2>2, <2>3, <2>4, <2>5 DEF ExclusiveOK
<1> QED BY <1>10, <1>11, <1>12, <1>13

\* kTruncateLower, this range begins lower: what it loses is the other's.
LEMMA ThisAboveStrategy ==
  ASSUME StrategyInv, call # NoCall, InBounds, NEW h \in DOMAIN map, CutThisAbove(h)
  PROVE  EntriesOK' /\ LowerOK'
<1>1. /\ merge_strategy = "truncateLower" /\ LowerOK /\ EntriesOK /\ RangesInv
      /\ UNCHANGED <<merge_strategy, map, asked, stored>>
      /\ call' = [call EXCEPT !.size = map[h].base - call.base]
  BY DEF CutThisAbove, StrategyInv
<1>2. call \in [base : Nat, delta : Nat, size : Nat, entry : Nat]
  BY <1>1 DEF RangesInv, CallOK
<1>3. /\ h \in Nat /\ map[h].base \in Nat /\ map[h].base <= h /\ call.base < map[h].base
      /\ MaxAddress \in Nat /\ High \in Int /\ h <= MaxAddress
      /\ h < High \/ map[h].base <= High
  BY <1>1, RangeTypes DEF CutThisAbove, InTheWay, RangesInv, MapOK
<1>4. call' \in [base : Nat, delta : Nat, size : Nat, entry : Nat]
  <2>1. map[h].base - call.base \in Nat
    BY <1>2, <1>3
  <2> QED BY <1>1, <1>2, <2>1
<1>5. /\ call'.base = call.base /\ call'.delta = call.delta /\ call'.entry = call.entry
      /\ call'.size = map[h].base - call.base /\ call' # NoCall
  BY <1>1, <1>2, <1>4, RangeAssumption
<1>6. High' = map[h].base - 1 /\ High' < High /\ InBounds'
  BY <1>2, <1>3, <1>5, RangeAssumption DEF High, InBounds
<1>7. EntriesOK'
  BY <1>1, <1>5 DEF EntriesOK
<1>8. LowerOK'
  <2>1. /\ map[h].entry \in stored /\ asked[map[h].entry].base = map[h].base
        /\ asked[call.entry].base = call.base
    BY <1>1, EntryTypes
  <2>2. ASSUME NEW a \in Nat, High' < a PROVE Later(call.entry, a)
    BY <1>3, <1>6, <2>1, <2>2 DEF Later
  <2>3. /\ \A k \in DOMAIN map' : map'[k].delta = 0 /\ k <= AskedHigh(map[k].entry)'
        /\ \A k \in DOMAIN map' : \A a \in Nat :
             k < a /\ a <= AskedHigh(map[k].entry)' =>
               Later(map[k].entry, a)' \/ (Cutting' /\ k = call'.base - 1)
    BY <1>1, <1>5, <1>6, SameEntries DEF LowerOK, Cutting
  <2>4. call.delta = 0 /\ High <= AskedHigh(call.entry) /\ AskedHigh(call.entry) \in Int
    BY <1>1, EntryTypes DEF LowerOK
  <2>5. High' <= AskedHigh(call.entry)
    BY <1>3, <1>6, <2>4
  <2> QED BY <1>1, <1>5, <2>2, <2>3, <2>4, <2>5, SameEntries DEF LowerOK
<1> QED BY <1>7, <1>8

\* kTruncateUpper, this range ends higher: what it loses is the other's.
LEMMA ThisBelowStrategy ==
  ASSUME StrategyInv, call # NoCall, InBounds, NEW h \in DOMAIN map, CutThisBelow(h)
  PROVE  EntriesOK' /\ UpperOK'
<1> DEFINE cut == h - call.base + 1
<1>1. /\ merge_strategy = "truncateUpper" /\ UpperOK /\ EntriesOK /\ RangesInv
      /\ UNCHANGED <<merge_strategy, map, asked, stored>>
      /\ call' = [call EXCEPT !.base = call.base + cut, !.delta = call.delta + cut,
                              !.size = call.size - cut]
  BY DEF CutThisBelow, StrategyInv
<1>2. call \in [base : Nat, delta : Nat, size : Nat, entry : Nat]
  BY <1>1 DEF RangesInv, CallOK
<1>3. /\ h \in Nat /\ call.base <= h /\ h < High /\ MaxAddress \in Nat /\ High <= MaxAddress
      /\ High = call.base + call.size - 1
  BY <1>1, RangeTypes DEF CutThisBelow, InTheWay, LowerBound, InBounds, High
<1>4. /\ cut \in Nat /\ call.base + cut = h + 1 /\ call.size - cut \in Nat /\ call.size - cut > 0
      /\ call.base + cut + (call.size - cut) - 1 = High
  BY <1>2, <1>3
<1> HIDE DEF cut
<1>5. /\ call'.base = h + 1 /\ call'.delta = call.delta + cut /\ call'.entry = call.entry
      /\ call'.size = call.size - cut /\ call' # NoCall
      /\ High' = High /\ InBounds'
  <2>1. call' \in [base : Nat, delta : Nat, size : Nat, entry : Nat]
    <3>1. call.base + cut \in Nat /\ call.delta + cut \in Nat /\ call.size - cut \in Nat
      BY <1>2, <1>4
    <3> QED BY <1>1, <1>2, <3>1
  <2>2. /\ call'.base = call.base + cut /\ call'.delta = call.delta + cut
        /\ call'.entry = call.entry /\ call'.size = call.size - cut
    BY <1>1, <1>2
  <2>3. High' = High
    BY <1>4, <2>2 DEF High
  <2> QED BY <1>3, <1>4, <2>1, <2>2, <2>3, RangeAssumption DEF InBounds
<1>6. /\ call.entry \in 1..Len(asked) /\ asked[call.entry].base \in Nat
      /\ AskedHigh(call.entry) = High /\ map[h].entry \in stored
      /\ AskedHigh(map[h].entry) = h
  BY <1>1, EntryTypes
<1>7. EntriesOK'
  <2>1. asked[call.entry].base + call.delta = call.base
    BY <1>1 DEF EntriesOK
  <2>2. asked[call.entry].base + call'.delta = call'.base
    <3>1. /\ asked[call.entry].base \in Nat /\ call.delta \in Nat /\ cut \in Nat
          /\ call'.delta = call.delta + cut /\ call'.base = call.base + cut
      BY <1>2, <1>4, <1>5, <1>6
    <3> QED BY <2>1, <3>1
  <2> QED BY <1>1, <1>5, <2>2 DEF EntriesOK
<1>8. UpperOK'
  <2>1. ASSUME NEW a \in Nat, a < h + 1 PROVE Sooner(call.entry, a)
    BY <1>3, <1>6, <2>1 DEF Sooner
  <2>2. /\ \A k \in DOMAIN map' : k = AskedHigh(map[k].entry)'
        /\ \A k \in DOMAIN map' : \A a \in Nat :
             asked'[map'[k].entry].base <= a /\ a < map'[k].base =>
               Sooner(map[k].entry, a)' \/ (Cutting' /\ map'[k].base = High' + 1)
    BY <1>1, <1>5, SameEntries DEF UpperOK, Cutting
  <2> QED BY <1>1, <1>5, <1>6, <2>1, <2>2, SameEntries DEF UpperOK
<1> QED BY <1>7, <1>8

\* kTruncateLower, the other begins lower: the call takes what it loses.
LEMMA OtherAboveStrategy ==
  ASSUME StrategyInv, call # NoCall, InBounds, NEW h \in DOMAIN map, CutOtherAbove(h)
  PROVE  EntriesOK' /\ LowerOK'
<1> DEFINE c == call.base - 1
<1>1. /\ merge_strategy = "truncateLower" /\ LowerOK /\ EntriesOK /\ RangesInv
      /\ UNCHANGED <<merge_strategy, call, asked, stored>>
      /\ map' = With(Minus(map, h), c, map[h])
  BY DEF CutOtherAbove, StrategyInv
<1>2. /\ h \in Nat /\ call.base \in Nat /\ call.base <= h /\ map[h].base \in Nat
      /\ map[h].base < call.base
  BY <1>1, RangeTypes DEF CutOtherAbove, InTheWay, LowerBound
<1>3. c \notin DOMAIN map
  BY <1>1, <1>2, RangeTypes
<1>4. /\ DOMAIN map' = (DOMAIN map \ {h}) \cup {c}
      /\ map'[c] = map[h]
      /\ \A k \in DOMAIN map \ {h} : map'[k] = map[k]
  BY <1>1, <1>3 DEF With, Minus
<1>5. Cutting /\ Cutting' /\ High' = High /\ c < h
  BY <1>1, <1>2 DEF Cutting, InBounds, High
<1> HIDE DEF c
<1>6. EntriesOK'
  <2>1. \A k \in DOMAIN map' : /\ map'[k].entry \in stored /\ map'[k].delta \in Nat
                               /\ asked[map'[k].entry].base + map'[k].delta = map'[k].base
    BY <1>1, <1>4 DEF EntriesOK
  <2>2. ASSUME NEW e \in stored PROVE \E k \in DOMAIN map' : map'[k].entry = e
    <3>1. PICK k \in DOMAIN map : map[k].entry = e
      BY <1>1 DEF EntriesOK
    <3> QED BY <1>4, <3>1
  <2> QED BY <1>1, <2>1, <2>2 DEF EntriesOK
<1>7. LowerOK'
  <2>1. ASSUME NEW k \in DOMAIN map'
        PROVE  /\ map'[k].delta = 0 /\ k <= AskedHigh(map'[k].entry)
               /\ \A a \in Nat : k < a /\ a <= AskedHigh(map'[k].entry) =>
                    Later(map'[k].entry, a) \/ k = call.base - 1
    <3>1. CASE k = c
      <4>1. h <= AskedHigh(map[h].entry) /\ AskedHigh(map[h].entry) \in Int /\ c \in Int
        BY <1>1, <1>2, EntryTypes DEF LowerOK, c
      <4> QED BY <1>1, <1>2, <1>4, <1>5, <3>1, <4>1 DEF LowerOK, c
    <3>2. CASE k \in DOMAIN map \ {h}
      BY <1>1, <1>4, <3>2 DEF LowerOK
    <3> QED BY <1>4, <3>1, <3>2
  <2> QED BY <1>1, <1>5, <2>1, SameEntries DEF LowerOK
<1> QED BY <1>6, <1>7

\* kTruncateUpper, the other ends higher: the call takes what it loses.
LEMMA OtherBelowStrategy ==
  ASSUME StrategyInv, call # NoCall, InBounds, NEW h \in DOMAIN map, CutOtherBelow(h)
  PROVE  EntriesOK' /\ UpperOK'
<1> DEFINE cut == High - map[h].base + 1
           r == MakeRange(map[h].base + cut, map[h].delta + cut, map[h].entry)
<1>1. /\ merge_strategy = "truncateUpper" /\ UpperOK /\ EntriesOK /\ RangesInv
      /\ UNCHANGED <<merge_strategy, call, asked, stored>>
      /\ map' = With(Minus(map, h), h, r)
  BY DEF CutOtherBelow, StrategyInv
<1>2. /\ h \in Nat /\ High \in Int /\ High < h /\ map[h].base \in Nat /\ map[h].base <= High
      /\ map[h].delta \in Nat
  BY <1>1, RangeTypes DEF CutOtherBelow, InTheWay, EntriesOK
<1>3. /\ r.base = High + 1 /\ r.entry = map[h].entry /\ r.delta \in Nat
      /\ r.delta - map[h].delta = r.base - map[h].base
  BY <1>2 DEF MakeRange
<1> HIDE DEF r
<1>4. /\ DOMAIN map' = DOMAIN map /\ map'[h] = r
      /\ \A k \in DOMAIN map \ {h} : map'[k] = map[k]
  BY <1>1 DEF With, Minus
<1>5. Cutting /\ Cutting' /\ High' = High
  BY <1>1 DEF Cutting, InBounds, High
<1>6. EntriesOK'
  <2>1. \A k \in DOMAIN map' : map'[k].entry = map[k].entry
    BY <1>3, <1>4
  <2>2. asked[r.entry].base + r.delta = r.base
    <3>1. asked[map[h].entry].base + map[h].delta = map[h].base /\ asked[map[h].entry].base \in Nat
      BY <1>1, EntryTypes DEF EntriesOK
    <3> QED BY <1>2, <1>3, <3>1
  <2>3. \A k \in DOMAIN map' : /\ map'[k].entry \in stored /\ map'[k].delta \in Nat
                               /\ asked[map'[k].entry].base + map'[k].delta = map'[k].base
    BY <1>1, <1>3, <1>4, <2>2 DEF EntriesOK
  <2> QED BY <1>1, <1>4, <2>1, <2>3 DEF EntriesOK
<1>7. UpperOK'
  <2>1. ASSUME NEW k \in DOMAIN map'
        PROVE  /\ k = AskedHigh(map'[k].entry)
               /\ \A a \in Nat : asked[map'[k].entry].base <= a /\ a < map'[k].base =>
                    Sooner(map'[k].entry, a) \/ map'[k].base = High + 1
    BY <1>1, <1>3, <1>4 DEF UpperOK
  <2> QED BY <1>1, <1>5, <2>1, SameEntries DEF UpperOK
<1> QED BY <1>6, <1>7

\* Stored: what was cut for this range is its now.
LEMMA StoredStrategy ==
  ASSUME StrategyInv, call # NoCall, InBounds, Insert
  PROVE  EntriesOK' /\ (merge_strategy = "truncateLower" => LowerOK')
         /\ (merge_strategy = "truncateUpper" => UpperOK')
         /\ (merge_strategy = "exclusive" => ExclusiveOK')
<1> DEFINE r == MakeRange(call.base, call.delta, call.entry)
<1>1. /\ RangesInv /\ EntriesOK
      /\ UNCHANGED <<merge_strategy, asked>> /\ call' = NoCall
      /\ stored' = stored \cup {call.entry}
      /\ map' = With(map, High, r)
  BY DEF Insert, StrategyInv
<1>2. High \notin DOMAIN map
  BY <1>1, PlaceIsFree DEF Insert
<1>3. /\ DOMAIN map' = DOMAIN map \cup {High} /\ map'[High] = r
      /\ \A k \in DOMAIN map : map'[k] = map[k]
      /\ r.base = call.base /\ r.delta = call.delta /\ r.entry = call.entry
  BY <1>1, <1>2 DEF With, MakeRange
<1> HIDE DEF r
<1>4. \A e : AskedHigh(e)' = AskedHigh(e) /\ NoRange(e)' = NoRange(e)
  BY <1>1 DEF AskedHigh, NoRange
<1>5. /\ \A e, a : Later(e, a) => Later(e, a)'
      /\ \A e, a : Sooner(e, a) => Sooner(e, a)'
      /\ \A e, o : Meets(e, o)' = Meets(e, o)
  BY <1>1, <1>4 DEF Later, Sooner, Meets
<1>6. ~Cutting'
  BY <1>1 DEF Cutting
<1>7. EntriesOK'
  <2>1. call.entry \in 1..Len(asked) /\ call.delta \in Nat
    BY <1>1, EntryTypes, RangeTypes
  <2>2. \A k \in DOMAIN map' : /\ map'[k].entry \in stored' /\ map'[k].delta \in Nat
                               /\ asked[map'[k].entry].base + map'[k].delta = map'[k].base
    BY <1>1, <1>3, <2>1 DEF EntriesOK
  <2>3. \A e \in stored' : \E k \in DOMAIN map' : map'[k].entry = e
    BY <1>1, <1>3 DEF EntriesOK
  <2> QED BY <1>1, <2>1, <2>2, <2>3 DEF EntriesOK
<1>8. ASSUME merge_strategy = "truncateLower" PROVE LowerOK'
  <2>1. LowerOK
    BY <1>8 DEF StrategyInv
  <2>2. \A k \in DOMAIN map' : map'[k].delta = 0 /\ k <= AskedHigh(map'[k].entry)
    BY <1>3, <2>1 DEF LowerOK
  <2>3. ASSUME NEW k \in DOMAIN map', NEW a \in Nat, k < a, a <= AskedHigh(map'[k].entry)
        PROVE  Later(map[k].entry, a)'
    <3>1. CASE k = High
      BY <1>3, <1>5, <2>1, <2>3, <3>1 DEF LowerOK
    <3>2. CASE k \in DOMAIN map /\ Later(map[k].entry, a)
      BY <1>3, <1>5, <3>2
    <3>3. CASE k \in DOMAIN map /\ k = call.base - 1
      <4>1. /\ asked[map[k].entry].base = map[k].base /\ asked[call.entry].base = call.base
            /\ map[k].base <= k /\ map[k].base \in Nat /\ k \in Nat /\ call.base \in Nat
        BY <1>1, <1>8, <3>3, EntryTypes, RangeTypes
      <4>2. asked[map[k].entry].base < asked[call.entry].base /\ asked[call.entry].base <= a
        BY <2>3, <3>3, <4>1
      <4> QED BY <1>1, <1>3, <3>3, <4>2 DEF Later
    <3> QED BY <1>3, <2>1, <2>3, <3>1, <3>2, <3>3 DEF LowerOK
  <2> QED BY <1>1, <1>4, <2>2, <2>3 DEF LowerOK
<1>9. ASSUME merge_strategy = "truncateUpper" PROVE UpperOK'
  <2>1. UpperOK
    BY <1>9 DEF StrategyInv
  <2>2. \A k \in DOMAIN map' : k = AskedHigh(map'[k].entry)
    BY <1>3, <2>1 DEF UpperOK
  <2>3. ASSUME NEW k \in DOMAIN map', NEW a \in Nat,
               asked[map'[k].entry].base <= a, a < map'[k].base
        PROVE  Sooner(map[k].entry, a)'
    <3>1. CASE k = High
      BY <1>3, <1>5, <2>1, <2>3, <3>1 DEF UpperOK
    <3>2. CASE k \in DOMAIN map /\ Sooner(map[k].entry, a)
      BY <1>3, <1>5, <3>2
    <3>3. CASE k \in DOMAIN map /\ map[k].base = High + 1
      <4>1. /\ AskedHigh(map[k].entry) = k /\ AskedHigh(call.entry) = High
            /\ map[k].base <= k /\ map[k].base \in Nat /\ k \in Nat /\ High \in Int
        BY <1>1, <1>9, <3>3, EntryTypes, RangeTypes
      <4>2. a <= AskedHigh(call.entry) /\ AskedHigh(call.entry) < AskedHigh(map[k].entry)
        BY <1>3, <2>3, <3>3, <4>1
      <4> QED BY <1>1, <1>3, <1>4, <3>3, <4>2 DEF Sooner
    <3> QED BY <1>3, <2>1, <2>3, <3>1, <3>2, <3>3 DEF UpperOK
  <2> QED BY <1>1, <1>4, <2>2, <2>3 DEF UpperOK
<1>10. ASSUME merge_strategy = "exclusive" PROVE ExclusiveOK'
  <2>1. ExclusiveOK
    BY <1>10 DEF StrategyInv
  <2>2. \A k \in DOMAIN map' : map'[k].delta = 0 /\ k = AskedHigh(map'[k].entry)
    BY <1>3, <1>10, <2>1, EntryTypes DEF ExclusiveOK
  <2>3. \A e \in 1..Len(asked) \ stored' : NoRange(e) \/ \E o \in stored' : Meets(e, o)
    BY <1>1, <2>1 DEF ExclusiveOK
  <2> QED BY <1>1, <1>4, <1>5, <2>2, <2>3 DEF ExclusiveOK
<1> QED BY <1>7, <1>8, <1>9, <1>10

\* At first nothing is stored.
LEMMA StrategyInitInv == RangeInit => StrategyInv
<1> SUFFICES ASSUME RangeInit PROVE StrategyInv
  OBVIOUS
<1>1. map = [h \in {} |-> 0] /\ call = NoCall /\ asked = <<>> /\ stored = {} /\ Len(asked) = 0
      /\ DOMAIN map = {}
  BY DEF RangeInit
<1> QED
  BY <1>1, RangeInitInv DEF RangeInit, StrategyInv, ShapesOK, EntriesOK, LowerOK, UpperOK, ExclusiveOK

\* The map holds ranges, and the call to come begins inside of the addresses.
LEMMA ShapesStepInv ==
  ASSUME StrategyInv, [RangeStep]_rangeVars
  PROVE  ShapesOK'
<1>1. /\ ShapesOK /\ MaxAddress \in Nat
      /\ \A h \in DOMAIN map : h \in Nat /\ h <= MaxAddress /\ map[h].base \in Nat
  BY RangeAssumption DEF StrategyInv, RangesInv, MapOK
<1>2. ASSUME NEW base \in Addresses, NEW bytes \in 0..(MaxAddress + 1),
             StoreRange(base, bytes)
      PROVE  ShapesOK'
  BY <1>1, <1>2 DEF ShapesOK, StoreRange, Addresses
<1>3. ASSUME StoreRangeInternal PROVE ShapesOK'
  <2>1. /\ call # NoCall /\ call \in [base : Nat, delta : Nat, size : Nat, entry : Nat]
        /\ call.base <= MaxAddress
    BY <1>1, <1>3 DEF StoreRangeInternal, StrategyInv, RangesInv, CallOK, ShapesOK
  <2>2. CASE OutOfBounds
    BY <1>1, <2>2 DEF OutOfBounds, ReturnFalse, ShapesOK
  <2>3. CASE Insert
    BY <1>1, <2>1, <2>3 DEF Insert, With, MakeRange, ShapesOK
  <2>4. ASSUME NEW h \in DOMAIN map, InBounds,
               Refuse(h) \/ CutThisAbove(h) \/ CutThisBelow(h)
        PROVE  ShapesOK'
    <3>1. map' = map
      BY <2>4 DEF Refuse, CutThisAbove, CutThisBelow, ReturnFalse
    <3>2. CASE Refuse(h) \/ CutThisAbove(h)
      BY <1>1, <2>1, <3>1, <3>2 DEF Refuse, CutThisAbove, ReturnFalse, ShapesOK
    <3>3. CASE CutThisBelow(h)
      <4>1. call'.base = h + 1 /\ h < High /\ High <= MaxAddress /\ h \in Nat /\ High \in Int
        BY <1>1, <2>1, <2>4, <3>3 DEF CutThisBelow, InBounds, High
      <4>2. call'.base <= MaxAddress
        BY <1>1, <4>1
      <4> QED BY <1>1, <3>1, <4>2 DEF ShapesOK
    <3> QED BY <2>4, <3>2, <3>3
  <2>5. ASSUME NEW h \in DOMAIN map, CutOtherAbove(h)
        PROVE  ShapesOK'
    <3>1. map' = With(Minus(map, h), call.base - 1, map[h]) /\ call' = call
      BY <2>5 DEF CutOtherAbove
    <3>2. /\ \A k \in DOMAIN map' : k = call.base - 1 \/ k \in DOMAIN map
          /\ \A k \in DOMAIN map' : map'[k] = map[h] \/ (k \in DOMAIN map /\ map'[k] = map[k])
      BY <3>1 DEF With, Minus
    <3> QED BY <1>1, <3>1, <3>2 DEF ShapesOK
  <2>6. ASSUME NEW h \in DOMAIN map, CutOtherBelow(h)
        PROVE  ShapesOK'
    <3> DEFINE cut == High - map[h].base + 1
               r == MakeRange(map[h].base + cut, map[h].delta + cut, map[h].entry)
    <3>1. map' = With(Minus(map, h), h, r) /\ call' = call /\ map[h].base <= High
      BY <1>1, <2>1, <2>6 DEF CutOtherBelow, InTheWay, High
    <3>2. r \in [base : Nat, delta : Nat, entry : Nat]
      <4>1. map[h] \in [base : Nat, delta : Nat, entry : Nat] /\ High \in Int
        BY <1>1, <2>1, <2>6 DEF ShapesOK, High
      <4>2. cut \in Nat
        BY <3>1, <4>1
      <4> HIDE DEF cut
      <4> QED BY <4>1, <4>2 DEF MakeRange
    <3> HIDE DEF r
    <3>3. \A k \in DOMAIN map' : map'[k] = r \/ (k \in DOMAIN map /\ map'[k] = map[k])
      BY <3>1 DEF With, Minus
    <3> QED BY <1>1, <3>1, <3>2, <3>3 DEF ShapesOK
  <2> QED BY <1>3, <2>2, <2>3, <2>4, <2>5, <2>6 DEF StoreRangeInternal
<1>4. CASE Clear \/ UNCHANGED rangeVars
  BY <1>1, <1>4 DEF Clear, rangeVars, ShapesOK, StrategyInv
<1> QED BY <1>2, <1>3, <1>4 DEF RangeStep

\* Every step keeps the entries as the strategy says.
LEMMA StrategyStepInv == StrategyInv /\ [RangeStep]_rangeVars => StrategyInv'
<1> SUFFICES ASSUME StrategyInv, [RangeStep]_rangeVars
             PROVE  StrategyInv'
  OBVIOUS
<1>1. RangesInv' /\ ShapesOK'
  BY RangeStepInv, ShapesStepInv DEF StrategyInv
<1>2. /\ merge_strategy' = merge_strategy
      /\ merge_strategy \in {"exclusive", "truncateLower", "truncateUpper"}
  BY DEF RangeStep, StoreRange, StoreRangeInternal, Clear, OutOfBounds, Refuse, CutThisAbove,
         CutOtherAbove, CutThisBelow, CutOtherBelow, Insert, ReturnFalse, rangeVars, StrategyInv
<1>3. ASSUME NEW base \in Addresses, NEW bytes \in 0..(MaxAddress + 1),
             StoreRange(base, bytes)
      PROVE  StrategyInv'
  <2>1. bytes \in Nat
    BY RangeAssumption
  <2> QED BY <1>1, <1>2, <1>3, <2>1, AskedStrategy DEF StrategyInv
<1>4. CASE StoreRangeInternal
  <2>1. call # NoCall
    BY <1>4 DEF StoreRangeInternal
  <2>2. CASE OutOfBounds \/ (InBounds /\ \E h \in DOMAIN map : Refuse(h))
    BY <1>1, <1>2, <2>1, <2>2, RefusedStrategy DEF StrategyInv
  <2>3. CASE InBounds /\ Insert
    BY <1>1, <1>2, <2>1, <2>3, StoredStrategy DEF StrategyInv
  <2>4. ASSUME InBounds, NEW h \in DOMAIN map, CutThisAbove(h)
        PROVE  StrategyInv'
    BY <1>1, <1>2, <2>1, <2>4, ThisAboveStrategy DEF StrategyInv, CutThisAbove
  <2>5. ASSUME InBounds, NEW h \in DOMAIN map, CutOtherAbove(h)
        PROVE  StrategyInv'
    BY <1>1, <1>2, <2>1, <2>5, OtherAboveStrategy DEF StrategyInv, CutOtherAbove
  <2>6. ASSUME InBounds, NEW h \in DOMAIN map, CutThisBelow(h)
        PROVE  StrategyInv'
    BY <1>1, <1>2, <2>1, <2>6, ThisBelowStrategy DEF StrategyInv, CutThisBelow
  <2>7. ASSUME InBounds, NEW h \in DOMAIN map, CutOtherBelow(h)
        PROVE  StrategyInv'
    BY <1>1, <1>2, <2>1, <2>7, OtherBelowStrategy DEF StrategyInv, CutOtherBelow
  <2> QED BY <1>4, <2>2, <2>3, <2>4, <2>5, <2>6, <2>7 DEF StoreRangeInternal
<1>5. CASE Clear
  <2>1. /\ map' = [h \in {} |-> 0] /\ call' = NoCall /\ asked' = <<>> /\ stored' = {}
        /\ DOMAIN map' = {} /\ Len(asked') = 0
    BY <1>5 DEF Clear
  <2> QED BY <1>1, <1>2, <2>1 DEF StrategyInv, EntriesOK, LowerOK, UpperOK, ExclusiveOK
<1>6. CASE UNCHANGED rangeVars
  <2>1. UNCHANGED <<merge_strategy, map, call, asked, stored>>
    BY <1>6 DEF rangeVars
  <2>2. Cutting' = Cutting /\ High' = High
    BY <2>1 DEF Cutting, InBounds, High
  <2>3. EntriesOK'
    BY <2>1 DEF StrategyInv, EntriesOK
  <2>4. merge_strategy = "truncateLower" => LowerOK'
    BY <2>1, <2>2, SameEntries DEF StrategyInv, LowerOK
  <2>5. merge_strategy = "truncateUpper" => UpperOK'
    BY <2>1, <2>2, SameEntries DEF StrategyInv, UpperOK
  <2>6. merge_strategy = "exclusive" => ExclusiveOK'
    BY <2>1, <2>2, SameEntries DEF StrategyInv, ExclusiveOK
  <2> QED BY <1>1, <1>2, <2>3, <2>4, <2>5, <2>6 DEF StrategyInv
<1> QED BY <1>3, <1>4, <1>5, <1>6 DEF RangeStep

\* The range around an address is the one that a lookup finds.
LEMMA IsRetrieved ==
  ASSUME RangesInv, NEW address \in Nat, NEW h \in DOMAIN map,
         map[h].base <= address, address <= h
  PROVE  h \in Retrieved(address)
BY RangeTypes DEF Retrieved, LowerBound

\* What is found was stored for the address, and no range is to be preferred.
LEMMA FoundIsRight ==
  ASSUME StrategyInv, NEW address \in Addresses, NEW h \in Retrieved(address)
  PROVE  /\ h \in DOMAIN map /\ map[h].entry \in AskedFor(address)
         /\ merge_strategy = "truncateLower" => ~Later(map[h].entry, address)
         /\ merge_strategy = "truncateUpper" => ~Sooner(map[h].entry, address)
<1> DEFINE e == map[h].entry
<1>1. /\ h \in DOMAIN map /\ LowerBound(h, address) /\ map[h].base <= address /\ address <= h
      /\ address \in Nat /\ RangesInv /\ EntriesOK
      /\ h \in Nat /\ map[h].base \in Nat
  BY RangeAssumption, RangeTypes DEF Retrieved, LowerBound, Addresses, StrategyInv
<1>2. /\ e \in stored /\ asked[e].base \in Nat /\ AskedHigh(e) \in Int
      /\ asked[e].base <= map[h].base
      /\ merge_strategy # "truncateUpper" => asked[e].base = map[h].base
      /\ merge_strategy # "truncateLower" => AskedHigh(e) = h
  BY <1>1, EntryTypes
<1>3. h <= AskedHigh(e)
  BY <1>1, <1>2 DEF StrategyInv, LowerOK
<1> HIDE DEF e
<1>4. e \in AskedFor(address)
  BY <1>1, <1>2, <1>3 DEF AskedFor
<1>5. ASSUME merge_strategy = "truncateLower", NEW o \in stored,
             asked[e].base < asked[o].base, asked[o].base <= address
      PROVE  FALSE
  <2>1. PICK k \in DOMAIN map : map[k].entry = o
    BY <1>1 DEF EntriesOK
  <2>2. /\ map[k].base = asked[o].base /\ k \in Nat /\ map[k].base \in Nat /\ map[k].base <= k
        /\ (k < h => k < map[h].base) /\ (h < k => h < map[k].base)
    BY <1>1, <1>5, <2>1, EntryTypes, RangeTypes
  <2>3. k # h
    BY <1>1, <1>2, <1>5, <2>2
  <2> QED BY <1>1, <1>2, <1>5, <2>2, <2>3
<1>6. ASSUME merge_strategy = "truncateUpper", NEW o \in stored,
             address <= AskedHigh(o), AskedHigh(o) < AskedHigh(e)
      PROVE  FALSE
  <2>1. PICK k \in DOMAIN map : map[k].entry = o
    BY <1>1 DEF EntriesOK
  <2>2. AskedHigh(o) = k /\ k \in Nat
    BY <1>1, <1>6, <2>1, EntryTypes, RangeTypes
  <2> QED BY <1>1, <1>2, <1>6, <2>2 DEF LowerBound
<1> QED BY <1>1, <1>4, <1>5, <1>6 DEF Later, Sooner, e

\* What was stored for the address is found, when no range is to be preferred.
LEMMA RightIsFound ==
  ASSUME StrategyInv, call = NoCall, NEW address \in Addresses, NEW e \in AskedFor(address),
         merge_strategy = "truncateLower" => ~Later(e, address),
         merge_strategy = "truncateUpper" => ~Sooner(e, address)
  PROVE  \E h \in Retrieved(address) : map[h].entry = e
<1>1. /\ address \in Nat /\ RangesInv /\ EntriesOK /\ ~Cutting
      /\ merge_strategy \in {"exclusive", "truncateLower", "truncateUpper"}
  BY RangeAssumption DEF Addresses, StrategyInv, Cutting
<1>2. /\ e \in stored /\ asked[e].base <= address /\ address <= AskedHigh(e)
  BY DEF AskedFor
<1>3. PICK h \in DOMAIN map : map[h].entry = e
  BY <1>1, <1>2 DEF EntriesOK
<1>4. /\ h \in Nat /\ map[h].base \in Nat
      /\ merge_strategy # "truncateUpper" => asked[e].base = map[h].base
      /\ merge_strategy # "truncateLower" => AskedHigh(e) = h
  BY <1>1, <1>3, EntryTypes, RangeTypes
<1>5. address <= h
  <2>1. CASE merge_strategy = "truncateLower"
    <3>1. LowerOK
      BY <2>1 DEF StrategyInv
    <3>2. ~(h < address)
      BY <1>1, <1>2, <1>3, <2>1, <3>1 DEF LowerOK
    <3> QED BY <1>1, <1>4, <3>2
  <2> QED BY <1>2, <1>4, <2>1
<1>6. map[h].base <= address
  <2>1. CASE merge_strategy = "truncateUpper"
    <3>1. UpperOK
      BY <2>1 DEF StrategyInv
    <3>2. ~(address < map[h].base)
      BY <1>1, <1>2, <1>3, <2>1, <3>1 DEF UpperOK
    <3> QED BY <1>1, <1>4, <3>2
  <2> QED BY <1>2, <1>4, <2>1
<1> QED BY <1>1, <1>3, <1>5, <1>6, IsRetrieved

\* Together they are what the lookup promises.
LEMMA StrategyInvSuffices == StrategyInv => FollowsStrategy
<1> SUFFICES ASSUME StrategyInv, call = NoCall, NEW address \in Addresses
             PROVE
    /\ {map[h].entry : h \in Retrieved(address)} =
         {e \in AskedFor(address) :
            CASE merge_strategy = "exclusive" -> TRUE
              [] merge_strategy = "truncateLower" ->
                   ~\E o \in stored : /\ asked[e].base < asked[o].base
                                      /\ asked[o].base <= address
              [] merge_strategy = "truncateUpper" ->
                   ~\E o \in stored : /\ address <= AskedHigh(o)
                                      /\ AskedHigh(o) < AskedHigh(e)}
    /\ \A h \in Retrieved(address) : map[h].base - map[h].delta = asked[map[h].entry].base
    /\ merge_strategy = "exclusive" =>
         \A e \in DOMAIN asked \ stored :
           \/ asked[e].size = 0
           \/ AskedHigh(e) > MaxAddress
           \/ \E o \in stored : /\ asked[o].base <= AskedHigh(e)
                                /\ asked[e].base <= AskedHigh(o)
  BY DEF FollowsStrategy
<1> DEFINE Right(e) == /\ merge_strategy = "truncateLower" => ~Later(e, address)
                       /\ merge_strategy = "truncateUpper" => ~Sooner(e, address)
           ByCase(e) ==
             CASE merge_strategy = "exclusive" -> TRUE
               [] merge_strategy = "truncateLower" ->
                    ~\E o \in stored : /\ asked[e].base < asked[o].base
                                       /\ asked[o].base <= address
               [] merge_strategy = "truncateUpper" ->
                    ~\E o \in stored : /\ address <= AskedHigh(o)
                                       /\ AskedHigh(o) < AskedHigh(e)
<1>1. \A e : ByCase(e) <=> Right(e)
  <2>1. merge_strategy \in {"exclusive", "truncateLower", "truncateUpper"}
    BY DEF StrategyInv
  <2> QED BY <2>1 DEF Later, Sooner
<1>2. /\ \A h \in Retrieved(address) :
           h \in DOMAIN map /\ map[h].entry \in AskedFor(address) /\ Right(map[h].entry)
      /\ \A e \in AskedFor(address) :
           Right(e) => \E h \in Retrieved(address) : map[h].entry = e
  BY FoundIsRight, RightIsFound
<1> HIDE DEF Right
<1>3. {map[h].entry : h \in Retrieved(address)} = {e \in AskedFor(address) : ByCase(e)}
  <2> HIDE DEF ByCase
  <2> QED BY <1>1, <1>2
<1>4. \A h \in Retrieved(address) : map[h].base - map[h].delta = asked[map[h].entry].base
  <2> SUFFICES ASSUME NEW h \in Retrieved(address)
               PROVE  map[h].base - map[h].delta = asked[map[h].entry].base
    OBVIOUS
  <2>1. /\ h \in DOMAIN map /\ map[h].delta \in Nat /\ asked[map[h].entry].base \in Nat
        /\ asked[map[h].entry].base + map[h].delta = map[h].base
    BY <1>2, EntryTypes DEF StrategyInv, EntriesOK
  <2> QED BY <2>1
<1>5. ASSUME merge_strategy = "exclusive", NEW e \in DOMAIN asked \ stored
      PROVE  NoRange(e) \/ \E o \in stored : Meets(e, o)
  <2>1. DOMAIN asked = 1..Len(asked)
    BY DEF StrategyInv, RangesInv, CallOK
  <2> QED BY <1>5, <2>1 DEF StrategyInv, ExclusiveOK
<1> QED BY <1>3, <1>4, <1>5 DEF NoRange, Meets

\* What the invariant says of their types.
LEMMA StrategyTypes == StrategyInv => RangeTypeOK
<1> SUFFICES ASSUME StrategyInv PROVE RangeTypeOK
  OBVIOUS
<1>1. /\ CallOK /\ MapOK /\ EntriesOK /\ RangesInv /\ ShapesOK /\ MaxAddress \in Nat
      /\ merge_strategy \in {"exclusive", "truncateLower", "truncateUpper"}
  BY RangeAssumption DEF StrategyInv, RangesInv
<1>2. DOMAIN map \subseteq Addresses
  BY <1>1 DEF MapOK, Addresses
<1>3. ASSUME NEW h \in DOMAIN map PROVE map[h] \in Ranges
  <2>1. /\ map[h] \in [base : Nat, delta : Nat, entry : Nat]
        /\ map[h].base <= h /\ h <= MaxAddress /\ h \in Nat
        /\ asked[map[h].entry].base \in Nat
        /\ asked[map[h].entry].base + map[h].delta = map[h].base
    BY <1>1, <1>3, EntryTypes, RangeTypes DEF ShapesOK, EntriesOK, MapOK
  <2>2. map[h].delta <= map[h].base /\ map[h].delta \in Nat
    BY <2>1
  <2> QED BY <1>1, <2>1, <2>2 DEF Ranges, Addresses
<1>4. call # NoCall => call \in Calls
  <2>1. call # NoCall => /\ call \in [base : Nat, delta : Nat, size : Nat, entry : Nat]
                         /\ call.base <= MaxAddress
                         /\ asked[call.entry].base + call.delta = call.base
                         /\ asked[call.entry].base \in Nat
    BY <1>1, EntryTypes DEF CallOK, ShapesOK, EntriesOK
  <2>2. call # NoCall => call.delta <= call.base
    BY <2>1
  <2> QED BY <1>1, <2>1, <2>2 DEF Calls, Addresses
<1>5. stored \subseteq DOMAIN asked /\ asked \in Seq([base : Addresses, size : Nat])
  BY <1>1 DEF CallOK, EntriesOK
<1> QED BY <1>1, <1>2, <1>3, <1>4, <1>5 DEF RangeTypeOK

\* For every number of addresses and of calls and each strategy, a lookup finds the
\* entry that the strategy says, and all that was cut from its base is in its delta.
THEOREM FollowsStrategyHolds == RangeSpec => []FollowsStrategy
BY StrategyInitInv, StrategyStepInv, StrategyInvSuffices, PTL DEF RangeSpec

(***************************************************************************)
(* The file of a dump.  Every object is written by itself and inside of    *)
(* its place, as the places of elements and characters are in the object   *)
(* and those of the objects are apart; and nothing that is written is      *)
(* overwritten by others or cut off.  That is so for characters of up to   *)
(* three bytes in UTF-8: CopyStringToMDString puts one of four bytes to a  *)
(* wrong place.                                                            *)
(***************************************************************************)
Object == [kind : Kinds, pos : Nat, head : Nat, elem : Nat, count : Nat,
           next : Nat, left : Nat, ended : BOOLEAN]

Count == Len(objects)
Past(o) == o.pos + SizeOf(o)

FileTypes ==
  /\ position \in Nat /\ size \in Nat /\ length \in Nat /\ offset \in Nat
  /\ position <= size
  /\ content \in [Bytes -> Nat]
  /\ objects \in Seq(Object)
  /\ live \in Seq(Nat)
  /\ \A j \in 1..Len(live) : live[j] \in 1..Count

\* A string has a unit for every byte that is still to be converted, and one for
\* the NUL; an object lies inside of what was allocated.
ObjectOK(o) ==
  /\ o.kind = "string" =>
       o.head = StringHead /\ o.elem = Unit /\ o.next + o.left + 1 <= o.count
  /\ o.kind # "string" => o.ended /\ o.next <= o.count
  /\ o.kind = "array" => o.head = 0
  /\ o.pos # Invalid => Past(o) <= Bound /\ Past(o) <= position

InOrder ==
  \A i, j \in 1..Count :
    i < j /\ objects[i].pos # Invalid /\ objects[j].pos # Invalid =>
      Past(objects[i]) <= objects[j].pos

Within(b, o) == o.pos <= b /\ b < Past(o)

OwnBytes ==
  \A b \in Bytes :
    /\ content[b] \in 0..Count
    /\ NoAllocationFailed /\ content[b] # 0 => Within(b, objects[content[b]]) /\ b < length

Live(i) == \E j \in 1..Len(live) : live[j] = i

\* The elements that have been copied are there, those of a string also when
\* something else is lost; and so is the head of an object that has gone.
WrittenOK(i) ==
  LET o == objects[i]
      first == o.pos + o.head
  IN /\ o.kind = "string" \/ ~lost =>
          \A b \in Bytes : first <= b /\ b < first + o.next * o.elem => content[b] = i
     /\ ~lost /\ ~Live(i) =>
          \A b \in Bytes : o.pos <= b /\ b < first => content[b] = i
     /\ ~lost /\ ~failed /\ ~Live(i) /\ o.kind # "string" => o.next = o.count

FailuresOK ==
  /\ ~lost /\ ~failed => NoAllocationFailed
  /\ file # "open" => live = <<>>

FileInv ==
  /\ FileTypes
  /\ \A i \in 1..Count : ObjectOK(objects[i])
  /\ InOrder
  /\ OwnBytes
  /\ NoAllocationFailed => \A i \in 1..Count : WrittenOK(i)
  /\ FailuresOK

\* One of the elements of an object, and the next.
LEMMA Elements ==
  ASSUME NEW e \in Nat, NEW n \in Nat, NEW c \in Nat
  PROVE  /\ n * e \in Nat /\ e * c \in Nat /\ c * e = e * c
         /\ (n + 1) * e = n * e + e
         /\ n < c => n * e + e <= e * c
         /\ n <= c => n * e <= e * c
<1>1. n * e \in Nat /\ e * c \in Nat /\ c * e = e * c /\ (n + 1) * e = n * e + e
  OBVIOUS
<1>2. ASSUME NEW m \in Nat, m <= c PROVE m * e <= e * c
  <2>1. PICK d \in Nat : c = m + d
    <3>1. c - m \in Nat /\ c = m + (c - m)
      BY <1>2
    <3> QED BY <3>1
  <2>2. (m + d) * e = m * e + d * e /\ d * e \in Nat /\ m * e \in Nat
    OBVIOUS
  <2>3. c * e = m * e + d * e
    BY <2>1, <2>2
  <2> QED BY <1>1, <2>2, <2>3
<1>3. n < c => n * e + e <= e * c
  BY <1>1, <1>2
<1> QED
  BY <1>1, <1>2, <1>3

\* What the sizes and the ends of objects are.
LEMMA ObjectSizes ==
  ASSUME FileTypes, NEW i \in 1..Count
  PROVE  /\ objects[i] \in Object
         /\ SizeOf(objects[i]) \in Nat /\ Past(objects[i]) \in Nat
         /\ objects[i].elem * objects[i].count \in Nat
         /\ SizeOf(objects[i]) = objects[i].head + objects[i].elem * objects[i].count
<1>1. objects[i] \in Object
  BY DEF FileTypes, Count
<1>2. objects[i].elem \in Nat /\ objects[i].count \in Nat /\ objects[i].head \in Nat /\ objects[i].pos \in Nat
  BY <1>1 DEF Object
<1> DEFINE m == objects[i].elem * objects[i].count
<1>3. m \in Nat
  BY <1>2, Elements
<1>4. SizeOf(objects[i]) = objects[i].head + m
  BY DEF SizeOf
<1> HIDE DEF m
<1>5. SizeOf(objects[i]) \in Nat /\ Past(objects[i]) \in Nat
  BY <1>2, <1>3, <1>4 DEF Past
<1> QED
  BY <1>1, <1>3, <1>4, <1>5 DEF m

LEMMA FileConstants ==
  /\ Bound \in Nat /\ Page \in Nat \ {0} /\ Modulus \in Nat /\ Invalid \in Nat
  /\ Bound < Invalid
BY FileAssumption DEF FileAssumption, Invalid

\* The objects are what they were, but for what has been written of them.
SameObjects ==
  /\ Len(objects') = Len(objects)
  /\ \A i \in 1..Count :
       /\ objects'[i].kind = objects[i].kind /\ objects'[i].pos = objects[i].pos
       /\ objects'[i].head = objects[i].head /\ objects'[i].elem = objects[i].elem
       /\ objects'[i].count = objects[i].count

LEMMA SamePlaces ==
  ASSUME FileTypes, SameObjects
  PROVE  /\ Count' = Count
         /\ NoAllocationFailed' <=> NoAllocationFailed
         /\ \A i \in 1..Count : Past(objects'[i]) = Past(objects[i])
         /\ InOrder => InOrder'
<1>1. Count' = Count
  BY DEF SameObjects, Count
<1>2. NoAllocationFailed' <=> NoAllocationFailed
  BY <1>1 DEF SameObjects, Count, NoAllocationFailed
<1>3. \A i \in 1..Count : Past(objects'[i]) = Past(objects[i])
  BY DEF SameObjects, Past, SizeOf
<1>4. InOrder => InOrder'
  BY <1>1, <1>3 DEF SameObjects, InOrder
<1> QED
  BY <1>1, <1>2, <1>3, <1>4

\* A copy to a place inside of its own object touches nothing of another.
LEMMA CopyKeeps ==
  ASSUME FileTypes, InOrder, OwnBytes, \A i \in 1..Count : ObjectOK(objects[i]),
         NEW i \in 1..Count, NEW p \in Nat, NEW n \in Nat,
         Copied(i, p, n) \/ NotCopied(p, n), SameObjects,
         NoAllocationFailed => objects[i].pos <= p /\ p + n <= Past(objects[i])
  PROVE  /\ offset' \in Nat /\ length' \in Nat /\ content' \in [Bytes -> Nat]
         /\ OwnBytes'
         /\ NoAllocationFailed =>
              \A j \in 1..Count, b \in Bytes :
                Within(b, objects[j]) /\ content[b] = j => content'[b] = j
         /\ NoAllocationFailed /\ Copied(i, p, n) =>
              \A b \in Bytes : p <= b /\ b < p + n => content'[b] = i
<1>1. Bound \in Nat /\ Bound < Invalid
  BY FileConstants
<1>2. Start(p) \in Nat /\ (NoAllocationFailed => Start(p) = p)
  <2>1. NoAllocationFailed => p < Invalid
    <3> SUFFICES ASSUME NoAllocationFailed PROVE p < Invalid
      OBVIOUS
    <3>1. objects[i].pos # Invalid
      BY DEF NoAllocationFailed, Count
    <3>2. Past(objects[i]) <= Bound /\ Past(objects[i]) \in Nat
      BY <3>1, ObjectSizes DEF ObjectOK
    <3>3. p <= Past(objects[i])
      <4>1. p + n <= Past(objects[i])
        OBVIOUS
      <4> QED BY <3>2, <4>1
    <3> QED BY <1>1, <3>2, <3>3, FileConstants
  <2> QED BY <2>1, FileConstants DEF Start, FileTypes
<1>3. CASE NotCopied(p, n)
  <2>1. content' = content /\ length' = length /\ offset' \in Nat
    BY <1>2, <1>3 DEF NotCopied, FileTypes
  <2>2. OwnBytes'
    <3> SUFFICES ASSUME NEW b \in Bytes
                 PROVE  /\ content[b] \in 0..Count
                        /\ NoAllocationFailed /\ content[b] # 0 =>
                             /\ Within(b, objects'[content[b]])
                             /\ b < length
      BY <2>1, SamePlaces DEF OwnBytes
    <3>1. content[b] \in 0..Count
      BY DEF OwnBytes
    <3>2. ASSUME NoAllocationFailed, content[b] # 0
          PROVE  Within(b, objects'[content[b]]) /\ b < length
      <4>1. Within(b, objects[content[b]]) /\ b < length /\ content[b] \in 1..Count
        BY <3>1, <3>2 DEF OwnBytes
      <4> QED BY <4>1, SamePlaces DEF Within, SameObjects
    <3> QED BY <3>1, <3>2
  <2>3. ASSUME NoAllocationFailed, Copied(i, p, n), NEW b \in Bytes, p <= b, b < p + n
        PROVE  content'[b] = i
    BY <1>2, <2>3 DEF Copied, Bytes
  <2> QED BY <2>1, <2>2, <2>3 DEF FileTypes
<1>4. CASE Copied(i, p, n)
  <2> DEFINE s == Start(p)
  <2>1. /\ content' = [b \in Bytes |-> IF b \in s..(s + n - 1) THEN i ELSE content[b]]
        /\ offset' = s + n /\ length' = Larger(length, s + n)
    BY <1>4 DEF Copied
  <2> HIDE DEF s
  <2>2. s \in Nat /\ (NoAllocationFailed => s = p)
    BY <1>2 DEF s
  <2>3. /\ offset' \in Nat /\ length' \in Nat /\ length <= length' /\ s + n <= length'
        /\ content' \in [Bytes -> Nat]
    BY <2>1, <2>2 DEF Larger, FileTypes, Count
  <2>4. \A b \in Bytes : content'[b] = IF s <= b /\ b < s + n THEN i ELSE content[b]
    BY <2>1, <2>2 DEF Bytes
  <2>5. OwnBytes'
    <3> SUFFICES ASSUME NEW b \in Bytes
                 PROVE  /\ content'[b] \in 0..Count
                        /\ NoAllocationFailed /\ content'[b] # 0 =>
                             /\ Within(b, objects'[content'[b]])
                             /\ b < length'
      BY SamePlaces DEF OwnBytes
    <3>1. CASE s <= b /\ b < s + n
      <4>1. content'[b] = i
        BY <2>4, <3>1
      <4>2. NoAllocationFailed => Within(b, objects[i])
        BY <2>2, <3>1, ObjectSizes DEF Within, Object, Bytes
      <4>3. Within(b, objects[i]) => Within(b, objects'[i])
        BY SamePlaces DEF Within, SameObjects
      <4>4. b < length'
        BY <2>2, <2>3, <3>1 DEF Bytes
      <4> QED BY <4>1, <4>2, <4>3, <4>4
    <3>2. CASE ~(s <= b /\ b < s + n)
      <4>1. content'[b] = content[b] /\ content[b] \in 0..Count
        BY <2>4, <3>2 DEF OwnBytes
      <4>2. ASSUME NoAllocationFailed, content[b] # 0
            PROVE  Within(b, objects'[content[b]]) /\ b < length'
        <5>1. Within(b, objects[content[b]]) /\ b < length /\ content[b] \in 1..Count
          BY <4>1, <4>2 DEF OwnBytes
        <5>2. Within(b, objects'[content[b]])
          BY <5>1, SamePlaces DEF Within, SameObjects
        <5>3. b < length'
          BY <2>3, <5>1 DEF FileTypes, Bytes
        <5> QED BY <5>2, <5>3
      <4> QED BY <4>1, <4>2
    <3> QED BY <3>1, <3>2
  <2>6. ASSUME NoAllocationFailed, NEW j \in 1..Count, NEW b \in Bytes,
               Within(b, objects[j]), content[b] = j
        PROVE  content'[b] = j
    <3>1. CASE s <= b /\ b < s + n
      <4>1. Within(b, objects[i])
        BY <2>2, <2>6, <3>1, ObjectSizes DEF Within, Object, Bytes
      <4>2. objects[i].pos # Invalid /\ objects[j].pos # Invalid
        BY <2>6 DEF NoAllocationFailed, Count
      <4>3. ~(i < j) /\ ~(j < i)
        BY <2>6, <4>1, <4>2, ObjectSizes DEF InOrder, Within, Object, Bytes
      <4>4. i = j
        BY <4>3 DEF Count, FileTypes
      <4> QED BY <2>4, <3>1, <4>4
    <3> QED BY <2>4, <2>6, <3>1
  <2> QED BY <2>2, <2>3, <2>4, <2>5, <2>6
<1> QED
  BY <1>3, <1>4

\* The bytes of an object: its head, and the elements written so far.
LEMMA Inside ==
  ASSUME FileTypes, NEW i \in 1..Count, ObjectOK(objects[i]), NEW b \in Bytes
  PROVE  /\ objects[i].next * objects[i].elem \in Nat
         /\ objects[i].pos <= b /\ b < objects[i].pos + objects[i].head => Within(b, objects[i])
         /\ /\ objects[i].pos + objects[i].head <= b
            /\ b < objects[i].pos + objects[i].head + objects[i].next * objects[i].elem
            => Within(b, objects[i])
<1> DEFINE o == objects[i]
           m == objects[i].next * objects[i].elem
           a == objects[i].elem * objects[i].count
<1>1. /\ o.pos \in Nat /\ o.head \in Nat /\ o.next \in Nat /\ o.left \in Nat
      /\ o.elem \in Nat /\ o.count \in Nat
  BY ObjectSizes DEF Object
<1>2. m \in Nat /\ a \in Nat /\ m <= a
  <2>1. o.next <= o.count
    BY <1>1 DEF ObjectOK
  <2> QED BY <1>1, <2>1, Elements
<1>3. Past(o) = o.pos + (o.head + a)
  BY ObjectSizes DEF Past
<1>4. b \in Nat
  BY FileConstants DEF Bytes
<1> HIDE DEF m, a
<1>5. /\ o.pos <= b /\ b < o.pos + o.head => Within(b, o)
      /\ o.pos + o.head <= b /\ b < o.pos + o.head + m => Within(b, o)
  BY <1>1, <1>2, <1>3, <1>4 DEF Within
<1> QED
  BY <1>2, <1>5 DEF m

\* What has been written of an object stays so where its bytes and it are kept.
LEMMA KeepsWritten ==
  ASSUME FileTypes, NEW k \in 1..Count, ObjectOK(objects[k]), WrittenOK(k),
         /\ objects'[k].kind = objects[k].kind /\ objects'[k].pos = objects[k].pos
         /\ objects'[k].head = objects[k].head /\ objects'[k].elem = objects[k].elem
         /\ objects'[k].count = objects[k].count /\ objects'[k].next = objects[k].next,
         lost => lost', ~lost' /\ ~failed' => ~failed, Live(k) => Live(k)',
         \A b \in Bytes : Within(b, objects[k]) /\ content[b] = k => content'[b] = k
  PROVE  WrittenOK(k)'
<1> DEFINE first == objects[k].pos + objects[k].head
           m == objects[k].next * objects[k].elem
<1>1. \A b \in Bytes : /\ objects[k].pos <= b /\ b < first => Within(b, objects[k])
                       /\ first <= b /\ b < first + m => Within(b, objects[k])
  BY Inside
<1>2. /\ objects[k].kind = "string" \/ ~lost =>
            \A b \in Bytes : first <= b /\ b < first + m => content[b] = k
      /\ ~lost /\ ~Live(k) =>
            \A b \in Bytes : objects[k].pos <= b /\ b < first => content[b] = k
      /\ ~lost /\ ~failed /\ ~Live(k) /\ objects[k].kind # "string" =>
            objects[k].next = objects[k].count
  BY DEF WrittenOK
<1>3. first' = first /\ m' = m
  OBVIOUS
<1> HIDE DEF first, m
<1>4. objects[k].kind = "string" \/ ~lost' =>
        \A b \in Bytes : first <= b /\ b < first + m => content'[b] = k
  BY <1>1, <1>2
<1>5. ~lost' /\ ~Live(k)' =>
        \A b \in Bytes : objects[k].pos <= b /\ b < first => content'[b] = k
  BY <1>1, <1>2
<1>6. ~lost' /\ ~failed' /\ ~Live(k)' /\ objects'[k].kind # "string" =>
        objects'[k].next = objects'[k].count
  BY <1>2
<1> USE DEF first, m
<1> QED
  BY <1>3, <1>4, <1>5, <1>6 DEF WrittenOK

\* Nothing else happens to the file while data is copied to it.
Copying == UNCHANGED <<file, position, size>>

\* The next m + n bytes of an array lie in its object.
LEMMA NextInside ==
  ASSUME NEW x \in Nat, NEW h \in Nat, NEW m \in Nat, NEW n \in Nat, NEW c \in Nat,
         m + n <= c
  PROVE  /\ x <= x + h + m /\ x + h + m + n <= x + (h + c)
         /\ \A b \in Nat : x + h <= b /\ b < x + h + (m + n) =>
              /\ b < x + h + m => x <= b /\ b < x + (h + c)
              /\ ~(b < x + h + m) => x + h + m <= b /\ b < x + h + m + n
OBVIOUS

\* The next element of an object is copied, or it is noted that it was not.
ElementStep(i, p, n) ==
  LET o == objects[i]
  IN /\ Live(i)
     /\ o.next < o.count
     /\ p = Place(o, o.next, o.elem)
     /\ n = o.elem
     /\ \/ Copied(i, p, n) /\ objects'[i].next = o.next + 1
        \/ NotCopied(p, n) /\ o.kind # "string" /\ lost'
        \/ NotCopied(p, n) /\ objects'[i].next = o.next
     /\ objects' \in Seq(Object)
     /\ SameObjects
     /\ \A k \in 1..Count : k # i => objects'[k] = objects[k]
     /\ \A k \in 1..Count : ObjectOK(objects[k])'
     /\ lost => lost'
     /\ failed => failed'

LEMMA ElementCopied ==
  ASSUME FileInv, Copying, UNCHANGED live,
         NEW i \in 1..Count, NEW p \in Nat, NEW n \in Nat, ElementStep(i, p, n)
  PROVE  FileInv'
<1> DEFINE o == objects[i]
           m == objects[i].next * objects[i].elem
           a == objects[i].elem * objects[i].count
<1>0. /\ FileTypes /\ InOrder /\ OwnBytes /\ FailuresOK
      /\ \A k \in 1..Count : ObjectOK(objects[k])
      /\ NoAllocationFailed => \A k \in 1..Count : WrittenOK(k)
  BY DEF FileInv
<1>11. /\ Live(i) /\ o.next < o.count /\ n = o.elem
       /\ p = o.pos + o.head + m
       /\ \/ Copied(i, p, n) /\ objects'[i].next = o.next + 1
          \/ NotCopied(p, n) /\ o.kind # "string" /\ lost'
          \/ NotCopied(p, n) /\ objects'[i].next = o.next
       /\ SameObjects /\ objects' \in Seq(Object)
       /\ (lost => lost') /\ (failed => failed')
       /\ \A k \in 1..Count : k # i => objects'[k] = objects[k]
       /\ \A k \in 1..Count : ObjectOK(objects[k])'
  BY DEF ElementStep, Place
<1>1. /\ o.pos \in Nat /\ o.head \in Nat /\ o.next \in Nat /\ o.elem \in Nat /\ o.count \in Nat
  BY <1>0, ObjectSizes DEF Object
<1>2. m \in Nat /\ a \in Nat /\ m + n <= a /\ (o.next + 1) * o.elem = m + n
  BY <1>1, <1>11, Elements
<1>3. Past(o) = o.pos + (o.head + a)
  BY <1>0, ObjectSizes DEF Past
<1> HIDE DEF m, a
<1>4. o.pos <= p /\ p + n <= Past(o)
  <2>1. o.pos <= o.pos + o.head + m /\ o.pos + o.head + m + n <= o.pos + (o.head + a)
    BY <1>1, <1>2, NextInside
  <2> QED BY <1>11, <1>3, <2>1
<1> DEFINE keeps == \A j \in 1..Count, b \in Bytes :
                      Within(b, objects[j]) /\ content[b] = j => content'[b] = j
<1>5. /\ offset' \in Nat /\ length' \in Nat /\ content' \in [Bytes -> Nat] /\ OwnBytes'
      /\ NoAllocationFailed => keeps
      /\ NoAllocationFailed /\ Copied(i, p, n) =>
           \A b \in Bytes : p <= b /\ b < p + n => content'[b] = i
  <2>1. Copied(i, p, n) \/ NotCopied(p, n)
    BY <1>11
  <2>2. SameObjects
    BY <1>11
  <2>3. FileTypes /\ InOrder /\ OwnBytes /\ \A k \in 1..Count : ObjectOK(objects[k])
    BY <1>0
  <2> QED BY <1>4, <2>1, <2>2, <2>3, CopyKeeps
<1>6. Count' = Count /\ (NoAllocationFailed' <=> NoAllocationFailed) /\ InOrder'
  BY <1>0, <1>11, SamePlaces
<1>7. FileTypes'
  BY <1>0, <1>11, <1>5, <1>6 DEF FileTypes, Copying
<1>8. \A k \in 1..Count : Live(k)' <=> Live(k)
  BY DEF Live
<1>9. ASSUME NoAllocationFailed, NEW k \in 1..Count PROVE WrittenOK(k)'
  <2>1. \A b \in Bytes : Within(b, objects[k]) /\ content[b] = k => content'[b] = k
    BY <1>5, <1>9
  <2>2. CASE k # i \/ objects'[i].next = o.next
    <3>1. /\ objects'[k].kind = objects[k].kind /\ objects'[k].pos = objects[k].pos
          /\ objects'[k].head = objects[k].head /\ objects'[k].elem = objects[k].elem
          /\ objects'[k].count = objects[k].count /\ objects'[k].next = objects[k].next
      BY <1>11, <2>2 DEF SameObjects
    <3>2. ObjectOK(objects[k]) /\ WrittenOK(k)
      BY <1>0, <1>9
    <3>3. (lost => lost') /\ (~lost' /\ ~failed' => ~failed) /\ (Live(k) => Live(k)')
      BY <1>11, <1>8
    <3> QED BY <1>0, <2>1, <3>1, <3>2, <3>3, KeepsWritten
  <2>3. CASE k = i /\ Copied(i, p, n) /\ objects'[i].next = o.next + 1
    <3>1. objects'[i].next * objects'[i].elem = m + n
      BY <1>11, <1>2, <2>3 DEF SameObjects
    <3>2. /\ objects'[i].pos = o.pos /\ objects'[i].head = o.head
          /\ objects'[i].kind = o.kind /\ Live(i)'
      BY <1>11, <1>8 DEF SameObjects
    <3>3. ASSUME o.kind = "string" \/ ~lost', NEW b \in Bytes,
                 o.pos + o.head <= b, b < o.pos + o.head + (m + n)
          PROVE  content'[b] = i
      <4>1. b \in Nat
        BY FileConstants DEF Bytes
      <4>2. /\ b < o.pos + o.head + m => o.pos <= b /\ b < o.pos + (o.head + a)
            /\ ~(b < o.pos + o.head + m) =>
                 o.pos + o.head + m <= b /\ b < o.pos + o.head + m + n
        BY <1>1, <1>2, <3>3, <4>1, NextInside
      <4>3. CASE b < o.pos + o.head + m
        <5>1. content[b] = i
          <6>1. o.kind = "string" \/ ~lost
            BY <1>11, <3>3
          <6>2. WrittenOK(i)
            BY <1>0, <1>9
          <6> QED BY <3>3, <4>3, <6>1, <6>2 DEF WrittenOK, m
        <5>2. Within(b, o)
          BY <1>3, <4>2, <4>3 DEF Within
        <5> QED BY <2>1, <2>3, <5>1, <5>2
      <4>4. CASE ~(b < o.pos + o.head + m)
        <5>1. p <= b /\ b < p + n
          BY <1>11, <4>2, <4>4
        <5> QED BY <1>5, <1>9, <2>3, <5>1
      <4> QED BY <4>3, <4>4
    <3> QED BY <2>3, <3>1, <3>2, <3>3 DEF WrittenOK
  <2>4. CASE k = i /\ o.kind # "string" /\ lost'
    BY <1>11, <1>8, <2>4 DEF WrittenOK, SameObjects
  <2> QED BY <1>11, <2>2, <2>3, <2>4
<1>10. FailuresOK'
  BY <1>0, <1>11, <1>6 DEF FailuresOK, Copying
<1> QED
  <2>1. \A k \in 1..Count' : ObjectOK(objects[k])'
    <3>1. \A k \in 1..Count : ObjectOK(objects[k])'
      BY <1>11
    <3>2. Count' = Count
      BY <1>6
    <3> QED BY <3>1, <3>2
  <2>2. NoAllocationFailed' => \A k \in 1..Count' : WrittenOK(k)'
    BY <1>6, <1>9
  <2> QED BY <1>5, <1>6, <1>7, <1>10, <2>1, <2>2 DEF FileInv

\* What an object is after a part of it has been written.
LEMMA ElementWritten ==
  ASSUME NEW o \in Object, NEW n \in Nat, NEW c, c = [o EXCEPT !.next = n]
  PROVE  /\ c \in Object
         /\ c.kind = o.kind /\ c.pos = o.pos /\ c.head = o.head
         /\ c.elem = o.elem /\ c.count = o.count
         /\ c.next = n /\ c.left = o.left /\ c.ended = o.ended
BY DEF Object

LEMMA NulWritten ==
  ASSUME NEW o \in Object, NEW c, c = [o EXCEPT !.ended = TRUE]
  PROVE  /\ c \in Object
         /\ c.kind = o.kind /\ c.pos = o.pos /\ c.head = o.head
         /\ c.elem = o.elem /\ c.count = o.count
         /\ c.next = o.next /\ c.left = o.left /\ c.ended
BY DEF Object

\* One of the objects changes: what it must be for the others to stay.
LEMMA OneChanged ==
  ASSUME FileTypes, NEW i \in 1..Count, NEW c \in Object, objects' = [objects EXCEPT ![i] = c],
         /\ c.kind = objects[i].kind /\ c.pos = objects[i].pos /\ c.head = objects[i].head
         /\ c.elem = objects[i].elem /\ c.count = objects[i].count
  PROVE  /\ objects' \in Seq(Object) /\ Len(objects') = Len(objects) /\ SameObjects
         /\ objects'[i] = c /\ \A k \in 1..Count : k # i => objects'[k] = objects[k]
<1>1. objects \in Seq(Object) /\ i \in 1..Len(objects)
  BY DEF FileTypes, Count
<1>2. objects' \in Seq(Object) /\ Len(objects') = Len(objects) /\ objects'[i] = c
  BY <1>1
<1>3. \A k \in 1..Count : k # i => objects'[k] = objects[k]
  BY <1>1 DEF Count
<1> QED
  BY <1>1, <1>2, <1>3 DEF SameObjects, Count

LEMMA OthersOK ==
  ASSUME FileTypes, SameObjects, position' = position, NEW i \in 1..Count,
         \A k \in 1..Count : ObjectOK(objects[k]),
         \A k \in 1..Count : k # i => objects'[k] = objects[k],
         objects[i].kind = "string" =>
           objects'[i].next + objects'[i].left + 1 <= objects[i].count,
         objects[i].kind # "string" =>
           objects'[i].ended /\ objects'[i].next <= objects[i].count
  PROVE  \A k \in 1..Count : ObjectOK(objects[k])'
<1> SUFFICES ASSUME NEW k \in 1..Count PROVE ObjectOK(objects[k])'
  OBVIOUS
<1>1. Past(objects'[k]) = Past(objects[k]) /\ ObjectOK(objects[k])
  BY SamePlaces
<1>2. CASE k # i
  BY <1>1, <1>2 DEF ObjectOK
<1>3. CASE k = i
  BY <1>1, <1>3 DEF ObjectOK, SameObjects
<1> QED
  BY <1>2, <1>3

LEMMA WriteElementInv ==
  ASSUME FileInv, NEW j \in 1..Len(live), WriteElement(live[j])
  PROVE  FileInv'
<1>0. PICK i \in 1..Count : i = live[j] /\ Live(i)
  BY DEF FileInv, FileTypes, Live
<1> DEFINE o == objects[i]
           m == o.next * o.elem
           p == Place(o, o.next, o.elem)
           c == [o EXCEPT !.next = o.next + 1]
<1>1. FileTypes /\ \A k \in 1..Count : ObjectOK(objects[k])
  BY DEF FileInv
<1>2. /\ o \in Object /\ o.pos \in Nat /\ o.head \in Nat /\ o.next \in Nat /\ o.elem \in Nat
      /\ o.count \in Nat
  BY <1>1, ObjectSizes DEF Object
<1>3. p \in Nat
  <2>1. m \in Nat
    BY <1>2, Elements
  <2>2. p = o.pos + o.head + m
    BY DEF Place
  <2>3. o.pos \in Nat /\ o.head \in Nat
    BY <1>2
  <2> HIDE DEF m, p
  <2> QED BY <2>1, <2>2, <2>3
<1>4. /\ o.kind # "string" /\ o.next < o.count /\ objects' = [objects EXCEPT ![i] = c]
      /\ (Copied(i, p, o.elem) /\ lost' = lost) \/ (NotCopied(p, o.elem) /\ lost')
      /\ failed' = failed /\ live' = live /\ Copying
  <2>1. o.kind # "string" /\ o.next < o.count
    BY <1>0 DEF WriteElement
  <2>2. (Copied(i, p, o.elem) /\ lost' = lost) \/ (NotCopied(p, o.elem) /\ lost')
    BY <1>0 DEF WriteElement
  <2>3. objects' = [objects EXCEPT ![i] = c]
    BY <1>0 DEF WriteElement
  <2>4. failed' = failed /\ live' = live /\ Copying
    BY DEF WriteElement, Copying
  <2> QED BY <2>1, <2>2, <2>3, <2>4
<1>5. /\ c \in Object /\ c.kind = o.kind /\ c.pos = o.pos /\ c.head = o.head
      /\ c.elem = o.elem /\ c.count = o.count
  <2>1. PICK n \in Nat : n = o.next + 1
    BY <1>2
  <2>2. c = [o EXCEPT !.next = n]
    BY <2>1
  <2>3. o \in Object
    BY <1>2
  <2> HIDE DEF o, c
  <2> QED BY <2>1, <2>2, <2>3, ElementWritten
<1>6. c.next = o.next + 1 /\ c.ended = o.ended
  BY <1>2 DEF Object
<1> HIDE DEF c, p
<1>7. /\ objects' \in Seq(Object) /\ Len(objects') = Len(objects) /\ SameObjects
      /\ objects'[i] = c /\ \A k \in 1..Count : k # i => objects'[k] = objects[k]
  BY <1>1, <1>4, <1>5, OneChanged
<1>8. \A k \in 1..Count : ObjectOK(objects[k])'
  <2>1. ObjectOK(o) /\ o.next + 1 <= o.count /\ position' = position
    <3>1. o.next \in Nat /\ o.count \in Nat /\ o.next < o.count
      BY <1>2, <1>4
    <3>2. o.next + 1 <= o.count
      BY <3>1
    <3>3. position' = position
      BY <1>4 DEF Copying
    <3> QED BY <1>1, <3>2, <3>3
  <2>2. objects'[i].ended /\ objects'[i].next <= o.count
    BY <1>4, <1>6, <1>7, <2>1 DEF ObjectOK
  <2> QED BY <1>1, <1>4, <1>7, <2>1, <2>2, OthersOK
<1>9. ElementStep(i, p, o.elem)
  <2>1. p = Place(o, o.next, o.elem)
    BY DEF p
  <2> QED BY <1>0, <1>4, <1>6, <1>7, <1>8, <2>1 DEF ElementStep
<1> QED
  BY <1>2, <1>3, <1>4, <1>9, ElementCopied

\* The object that a string is written to.
LEMMA StringBeingWritten ==
  ASSUME FileInv, live # <<>>
  PROVE  \E i \in 1..Count : i = Innermost /\ Live(i)
<1>1. live \in Seq(Nat) /\ \A j \in 1..Len(live) : live[j] \in 1..Count
  BY DEF FileInv, FileTypes
<1>2. Len(live) \in 1..Len(live)
  BY <1>1
<1> QED
  BY <1>1, <1>2 DEF Innermost, Live

LEMMA AppendCharacterInv ==
  ASSUME FileInv, Characters \subseteq 1..3, NEW ch \in Characters, WriteString,
         AppendCharacter(ch)
  PROVE  FileInv'
<1>0. PICK i \in 1..Count : i = Innermost /\ Live(i)
  BY StringBeingWritten DEF WriteString
<1> DEFINE o == objects[i]
           m == o.next * o.elem
           p == Place(o, o.next, o.elem)
           c == [o EXCEPT !.next = o.next + 1, !.left = o.left - ch]
<1>1. FileTypes /\ \A k \in 1..Count : ObjectOK(objects[k])
  BY DEF FileInv
<1>2. /\ o \in Object /\ o.pos \in Nat /\ o.head \in Nat /\ o.next \in Nat /\ o.elem \in Nat
      /\ o.count \in Nat /\ o.left \in Nat
  BY <1>1, ObjectSizes DEF Object
<1>3. p \in Nat
  <2>1. m \in Nat
    BY <1>2, Elements
  <2>2. p = o.pos + o.head + m
    BY DEF Place
  <2>3. o.pos \in Nat /\ o.head \in Nat
    BY <1>2
  <2> HIDE DEF m, p
  <2> QED BY <2>1, <2>2, <2>3
<1>4. o.kind = "string" /\ o.elem = Unit /\ o.next + o.left + 1 <= o.count
  <2>1. ~o.ended
    BY <1>0 DEF WriteString, Current
  <2> QED BY <1>1, <2>1 DEF ObjectOK
<1>5. ch \in 1..3 /\ ch <= o.left /\ UnitsOf(ch) = 1 /\ Unit * UnitsOf(ch) = o.elem
  <2>1. ch \in 1..3 /\ ch <= o.left
    BY <1>0 DEF AppendCharacter, Current
  <2> QED BY <1>4, <2>1 DEF UnitsOf, Unit
<1>6. \/ Copied(i, p, o.elem) /\ objects' = [objects EXCEPT ![i] = c] /\ failed' = failed
      \/ NotCopied(p, o.elem) /\ objects' = objects /\ failed'
  <2>1. \/ /\ Copied(i, p, o.elem)
           /\ objects' = [objects EXCEPT ![i].next = @ + 1, ![i].left = @ - ch]
           /\ failed' = failed
        \/ NotCopied(p, o.elem) /\ objects' = objects /\ failed'
    BY <1>0, <1>5 DEF AppendCharacter, Current
  <2>2. [objects EXCEPT ![i].next = @ + 1, ![i].left = @ - ch] = [objects EXCEPT ![i] = c]
    BY <1>1, <1>2 DEF Object, FileTypes, Count
  <2> QED BY <2>1, <2>2
<1>7. lost' = lost /\ live' = live /\ Copying
  BY DEF WriteString, Copying
<1>8. /\ c \in Object /\ c.kind = o.kind /\ c.pos = o.pos /\ c.head = o.head
      /\ c.elem = o.elem /\ c.count = o.count
      /\ c.next = o.next + 1 /\ c.left = o.left - ch
  <2>1. PICK n \in Nat, l \in Nat : n = o.next + 1 /\ l = o.left - ch
    BY <1>2, <1>5
  <2>2. c = [o EXCEPT !.next = n, !.left = l]
    BY <2>1
  <2>3. o \in Object
    BY <1>2
  <2> HIDE DEF o, c
  <2>4. PICK x, y : x = o /\ y = c
    OBVIOUS
  <2>5. y = [x EXCEPT !.next = n, !.left = l] /\ x \in Object
    BY <2>2, <2>3, <2>4
  <2>6. /\ y \in Object /\ y.kind = x.kind /\ y.pos = x.pos /\ y.head = x.head
        /\ y.elem = x.elem /\ y.count = x.count /\ y.next = n /\ y.left = l
    BY <2>5 DEF Object
  <2> QED BY <2>1, <2>4, <2>6
<1> HIDE DEF c, p
<1>9. o.next < o.count /\ c.next + c.left + 1 <= o.count
  <2>1. /\ o.next \in Nat /\ o.left \in Nat /\ o.count \in Nat /\ ch \in 1..3
        /\ o.next + o.left + 1 <= o.count
    BY <1>2, <1>4, <1>5
  <2>2. o.next < o.count /\ (o.next + 1) + (o.left - ch) + 1 <= o.count
    BY <2>1
  <2> QED BY <1>8, <2>2
<1>10. /\ objects' \in Seq(Object) /\ SameObjects
       /\ \A k \in 1..Count : k # i => objects'[k] = objects[k]
       /\ objects'[i] = c \/ objects'[i] = o
  <2>1. CASE objects' = objects
    BY <1>1, <2>1 DEF FileTypes, SameObjects
  <2>2. CASE objects' = [objects EXCEPT ![i] = c]
    BY <1>1, <1>8, <2>2, OneChanged
  <2> QED BY <1>6, <2>1, <2>2
<1>11. \A k \in 1..Count : ObjectOK(objects[k])'
  <2>1. position' = position
    BY <1>7 DEF Copying
  <2>2. objects'[i].next + objects'[i].left + 1 <= o.count
    BY <1>4, <1>9, <1>10
  <2> QED BY <1>1, <1>4, <1>10, <2>1, <2>2, OthersOK
<1>12. ElementStep(i, p, o.elem)
  <2>1. p = Place(o, o.next, o.elem)
    BY DEF p
  <2>2. \/ Copied(i, p, o.elem) /\ objects'[i].next = o.next + 1
        \/ NotCopied(p, o.elem) /\ objects'[i].next = o.next
    <3>1. CASE Copied(i, p, o.elem) /\ objects' = [objects EXCEPT ![i] = c]
      BY <1>1, <1>8, <3>1, OneChanged
    <3>2. CASE NotCopied(p, o.elem) /\ objects' = objects
      BY <3>2
    <3> QED BY <1>6, <3>1, <3>2
  <2>3. (lost => lost') /\ (failed => failed')
    BY <1>6, <1>7
  <2> QED BY <1>0, <1>9, <1>10, <1>11, <2>1, <2>2, <2>3 DEF ElementStep
<1> QED
  BY <1>2, <1>3, <1>7, <1>12, ElementCopied

\* A copy that adds no element: what was written is still there.
LEMMA PlainCopy ==
  ASSUME FileInv, Copying, NEW i \in 1..Count, NEW p \in Nat, NEW n \in Nat,
         Copied(i, p, n) \/ NotCopied(p, n), SameObjects, objects' \in Seq(Object),
         NoAllocationFailed => objects[i].pos <= p /\ p + n <= Past(objects[i]),
         live' \in Seq(Nat), \A j \in 1..Len(live') : live'[j] \in 1..Count
  PROVE  /\ Count' = Count /\ (NoAllocationFailed' <=> NoAllocationFailed)
         /\ FileTypes' /\ InOrder' /\ OwnBytes'
         /\ NoAllocationFailed => \A k \in 1..Count : \A b \in Bytes :
              Within(b, objects[k]) /\ content[b] = k => content'[b] = k
         /\ NoAllocationFailed /\ Copied(i, p, n) =>
              \A b \in Bytes : p <= b /\ b < p + n => content'[b] = i
<1>1. FileTypes /\ InOrder /\ OwnBytes /\ \A k \in 1..Count : ObjectOK(objects[k])
  BY DEF FileInv
<1>2. /\ offset' \in Nat /\ length' \in Nat /\ content' \in [Bytes -> Nat] /\ OwnBytes'
      /\ NoAllocationFailed =>
           \A k \in 1..Count, b \in Bytes :
             Within(b, objects[k]) /\ content[b] = k => content'[b] = k
      /\ NoAllocationFailed /\ Copied(i, p, n) =>
           \A b \in Bytes : p <= b /\ b < p + n => content'[b] = i
  BY <1>1, CopyKeeps
<1>3. Count' = Count /\ (NoAllocationFailed' <=> NoAllocationFailed) /\ InOrder'
  BY <1>1, SamePlaces
<1>4. FileTypes'
  BY <1>1, <1>2, <1>3 DEF FileTypes, Copying
<1> QED
  BY <1>2, <1>3, <1>4

\* The invariant of the next state, when its objects are those of this one.
LEMMA FileInvAgain ==
  ASSUME Count' = Count, NoAllocationFailed' <=> NoAllocationFailed,
         FileTypes', InOrder', OwnBytes', FailuresOK',
         \A k \in 1..Count : ObjectOK(objects[k])',
         NoAllocationFailed => \A k \in 1..Count : WrittenOK(k)'
  PROVE  FileInv'
<1>1. \A k \in 1..Count' : ObjectOK(objects[k])'
  OBVIOUS
<1>2. NoAllocationFailed' => \A k \in 1..Count' : WrittenOK(k)'
  OBVIOUS
<1> QED
  BY <1>1, <1>2 DEF FileInv

\* Nothing is written of a string but that it cannot be converted.
LEMMA NotACharacterInv ==
  ASSUME FileInv, WriteString, NotACharacter
  PROVE  FileInv'
<1>1. /\ UNCHANGED <<content, offset, length, objects, file, position, size, live, lost>>
      /\ failed'
  BY DEF WriteString, NotACharacter
<1>2. /\ FileTypes /\ InOrder /\ OwnBytes /\ FailuresOK
      /\ \A k \in 1..Count : ObjectOK(objects[k])
      /\ NoAllocationFailed => \A k \in 1..Count : WrittenOK(k)
  BY DEF FileInv
<1>3. Count' = Count /\ (NoAllocationFailed' <=> NoAllocationFailed)
  BY <1>1 DEF Count, NoAllocationFailed
<1>4. FileTypes' /\ InOrder'
  BY <1>1, <1>2, <1>3 DEF FileTypes, InOrder, Past, SizeOf
<1>5. OwnBytes'
  BY <1>1, <1>2, <1>3 DEF OwnBytes, Within, Past, SizeOf
<1>6. FailuresOK'
  BY <1>1, <1>2, <1>3 DEF FailuresOK
<1>7. ASSUME NEW k \in 1..Count PROVE ObjectOK(objects[k])'
  BY <1>1, <1>2 DEF ObjectOK, Past, SizeOf
<1>8. ASSUME NoAllocationFailed, NEW k \in 1..Count PROVE WrittenOK(k)'
  <2>1. WrittenOK(k) /\ (Live(k)' <=> Live(k))
    BY <1>1, <1>2, <1>8 DEF Live
  <2> QED BY <1>1, <2>1 DEF WrittenOK
<1> QED
  BY <1>3, <1>4, <1>5, <1>6, <1>7, <1>8, FileInvAgain

LEMMA TerminateInv ==
  ASSUME FileInv, WriteString, Terminate
  PROVE  FileInv'
<1>0. PICK i \in 1..Count : i = Innermost /\ Live(i)
  BY StringBeingWritten DEF WriteString
<1> DEFINE o == objects[i]
           last == o.count - 1
           m == last * o.elem
           a == o.elem * o.count
           p == Place(o, last, Unit)
           c == [o EXCEPT !.ended = TRUE]
<1>1. FileTypes /\ FailuresOK /\ \A k \in 1..Count : ObjectOK(objects[k])
  BY DEF FileInv
<1>2. /\ o \in Object /\ o.pos \in Nat /\ o.head \in Nat /\ o.next \in Nat /\ o.elem \in Nat
      /\ o.count \in Nat /\ o.left \in Nat
  BY <1>1, ObjectSizes DEF Object
<1>3. o.kind = "string" /\ o.elem = Unit /\ o.next + o.left + 1 <= o.count
  <2>1. ~o.ended
    BY <1>0 DEF WriteString, Current
  <2> QED BY <1>1, <2>1 DEF ObjectOK
<1>4. last \in Nat /\ last < o.count
  <2>1. o.next \in Nat /\ o.left \in Nat /\ o.count \in Nat /\ o.next + o.left + 1 <= o.count
    BY <1>2, <1>3
  <2> HIDE DEF o
  <2> QED BY <2>1
<1>5. m \in Nat /\ a \in Nat /\ m + o.elem <= a
  <2> HIDE DEF last
  <2> QED BY <1>2, <1>4, Elements
<1>6. p = o.pos + o.head + m /\ Past(o) = o.pos + (o.head + a)
  BY <1>1, <1>3, ObjectSizes DEF Past, Place
<1> HIDE DEF m, a, p, last
<1>7. p \in Nat /\ o.pos <= p /\ p + Unit <= Past(o)
  <2>1. o.pos <= o.pos + o.head + m /\ o.pos + o.head + m + o.elem <= o.pos + (o.head + a)
    BY <1>2, <1>5, NextInside
  <2>2. o.pos + o.head + m \in Nat
    BY <1>2, <1>5
  <2> QED BY <1>3, <1>6, <2>1, <2>2
<1>8. /\ Copied(i, p, Unit) \/ NotCopied(p, Unit)
      /\ objects' = [objects EXCEPT ![i] = c]
      /\ lost' = lost /\ live' = live /\ Copying /\ (failed => failed')
  <2>1. (Copied(i, p, Unit) /\ failed' = failed) \/ (NotCopied(p, Unit) /\ failed')
    BY <1>0 DEF Terminate, Current, p, last
  <2>2. objects' = [objects EXCEPT ![i] = c]
    BY <1>0 DEF Terminate
  <2>3. lost' = lost /\ live' = live /\ Copying
    BY DEF WriteString, Copying
  <2> QED BY <2>1, <2>2, <2>3
<1>9. /\ c \in Object /\ c.kind = o.kind /\ c.pos = o.pos /\ c.head = o.head
      /\ c.elem = o.elem /\ c.count = o.count /\ c.next = o.next /\ c.left = o.left /\ c.ended
  BY <1>2 DEF Object
<1> HIDE DEF c
<1>10. /\ objects' \in Seq(Object) /\ SameObjects /\ objects'[i] = c
       /\ \A k \in 1..Count : k # i => objects'[k] = objects[k]
  BY <1>1, <1>8, <1>9, OneChanged
<1>11. \A k \in 1..Count : objects'[k].next = objects[k].next
  BY <1>9, <1>10
<1>12. \A k \in 1..Count : ObjectOK(objects[k])'
  <2>1. position' = position
    BY <1>8 DEF Copying
  <2>2. objects'[i].next + objects'[i].left + 1 <= o.count
    BY <1>3, <1>9, <1>10
  <2> QED BY <1>1, <1>3, <1>10, <2>1, <2>2, OthersOK
<1>13. /\ Count' = Count /\ (NoAllocationFailed' <=> NoAllocationFailed)
       /\ FileTypes' /\ InOrder' /\ OwnBytes'
       /\ NoAllocationFailed => \A k \in 1..Count : \A b \in Bytes :
            Within(b, objects[k]) /\ content[b] = k => content'[b] = k
  <2>1. live' \in Seq(Nat) /\ \A j \in 1..Len(live') : live'[j] \in 1..Count
    BY <1>1, <1>8 DEF FileTypes
  <2>2. Unit \in Nat /\ Copying /\ (Copied(i, p, Unit) \/ NotCopied(p, Unit))
    BY <1>8 DEF Unit
  <2>3. SameObjects /\ objects' \in Seq(Object)
    BY <1>10
  <2> QED BY <1>7, <2>1, <2>2, <2>3, PlainCopy
<1>14. FailuresOK'
  BY <1>1, <1>8, <1>13 DEF FailuresOK, Copying
<1>15. ASSUME NoAllocationFailed, NEW k \in 1..Count PROVE WrittenOK(k)'
  <2>1. \A b \in Bytes : Within(b, objects[k]) /\ content[b] = k => content'[b] = k
    BY <1>13, <1>15
  <2>2. WrittenOK(k) /\ ObjectOK(objects[k])
    BY <1>15 DEF FileInv
  <2>3. /\ objects'[k].kind = objects[k].kind /\ objects'[k].pos = objects[k].pos
        /\ objects'[k].head = objects[k].head /\ objects'[k].elem = objects[k].elem
        /\ objects'[k].count = objects[k].count /\ objects'[k].next = objects[k].next
    BY <1>10, <1>11 DEF SameObjects
  <2>4. (lost => lost') /\ (~lost' /\ ~failed' => ~failed) /\ (Live(k) => Live(k)')
    BY <1>8 DEF Live
  <2> QED BY <1>1, <2>1, <2>2, <2>3, <2>4, KeepsWritten
<1> QED
  BY <1>12, <1>13, <1>14, <1>15, FileInvAgain

\* The innermost object goes out of scope, and its head is copied.
LEMMA DestroyInv ==
  ASSUME FileInv, Destroy
  PROVE  FileInv'
<1>0. PICK i \in 1..Count : i = Innermost /\ Live(i)
  BY StringBeingWritten DEF Destroy
<1> DEFINE o == objects[i]
<1>1. /\ FileTypes /\ FailuresOK /\ InOrder /\ OwnBytes
      /\ \A k \in 1..Count : ObjectOK(objects[k])
  BY DEF FileInv
<1>2. /\ o \in Object /\ o.pos \in Nat /\ o.head \in Nat /\ o.elem * o.count \in Nat
      /\ Past(o) = o.pos + (o.head + o.elem * o.count)
  BY <1>1, ObjectSizes DEF Object, Past
<1>3. o.pos <= o.pos /\ o.pos + o.head <= Past(o)
  <2> DEFINE m == o.elem * o.count
  <2>1. m \in Nat /\ Past(o) = o.pos + (o.head + m) /\ o.pos \in Nat /\ o.head \in Nat
    BY <1>2
  <2> HIDE DEF m
  <2> QED BY <2>1
<1>4. /\ live # <<>> /\ live' = SubSeq(live, 1, Len(live) - 1)
      /\ failed \/ o.kind = "string" \/ o.next = o.count
      /\ objects' = objects /\ failed' = failed /\ Copying /\ file' = file
  BY <1>0 DEF Destroy, Copying, Current
<1>5. \/ Flushes(o) /\ Copied(i, o.pos, o.head) /\ lost' = lost
      \/ Flushes(o) /\ NotCopied(o.pos, o.head) /\ lost'
      \/ ~Flushes(o) /\ UNCHANGED <<content, offset, length, lost>>
  BY <1>0 DEF Destroy, Current
<1>6. SameObjects /\ objects' \in Seq(Object)
  BY <1>1, <1>4 DEF SameObjects, FileTypes
<1>7. /\ live' \in Seq(Nat) /\ Len(live') = Len(live) - 1
      /\ \A j \in 1..Len(live') : j \in 1..Len(live) /\ live'[j] = live[j]
  <2>1. live \in Seq(Nat) /\ live # <<>>
    BY <1>1, <1>4 DEF FileTypes
  <2>2. Len(live) \in Nat /\ Len(live) > 0
    BY <2>1
  <2>3. PICK n \in Nat : n = Len(live) - 1
    <3>1. Len(live) - 1 \in Nat
      BY <2>2
    <3> QED BY <3>1
  <2>4. live' = SubSeq(live, 1, n)
    BY <1>4, <2>2, <2>3
  <2>5. live' \in Seq(Nat) /\ Len(live') = n /\ \A j \in 1..n : live'[j] = live[j]
    <3>1. \A j \in 1..n : live[j] \in Nat
      <4>1. \A j \in 1..n : j \in 1..Len(live)
        BY <2>2, <2>3
      <4> QED BY <2>1, <4>1, Element
    <3>2. /\ live' \in Seq(Nat) /\ Len(live') = IF 1 <= n THEN n - 1 + 1 ELSE 0
          /\ \A j \in 1..(n - 1 + 1) : live'[j] = live[1 + j - 1]
      BY <2>1, <2>4, <3>1
    <3>3. n - 1 + 1 = n /\ (~(1 <= n) => n = 0) /\ \A j \in 1..n : 1 + j - 1 = j
      OBVIOUS
    <3> QED BY <3>2, <3>3
  <2> QED BY <2>2, <2>3, <2>5
<1>8. \A j \in 1..Len(live') : live'[j] \in 1..Count
  BY <1>1, <1>7 DEF FileTypes
<1>9. \A k \in 1..Count : k # i => (Live(k) => Live(k)')
  <2> SUFFICES ASSUME NEW k \in 1..Count, k # i, NEW j \in 1..Len(live), live[j] = k
               PROVE  Live(k)'
    BY DEF Live
  <2>1. j # Len(live) /\ live \in Seq(Nat)
    BY <1>0, <1>1 DEF Innermost, FileTypes
  <2>2. j \in 1..Len(live')
    <3>1. Len(live) \in Nat /\ Len(live') = Len(live) - 1
      BY <1>7, <2>1
    <3> QED BY <2>1, <3>1
  <2> QED BY <1>7, <2>2 DEF Live
<1>10. \A k \in 1..Count : ObjectOK(objects[k])'
  BY <1>1, <1>4 DEF ObjectOK, Copying, Past, SizeOf
<1>11. /\ Count' = Count /\ (NoAllocationFailed' <=> NoAllocationFailed)
       /\ FileTypes' /\ InOrder' /\ OwnBytes'
       /\ NoAllocationFailed => \A k \in 1..Count : \A b \in Bytes :
            Within(b, objects[k]) /\ content[b] = k => content'[b] = k
       /\ NoAllocationFailed /\ Copied(i, o.pos, o.head) =>
            \A b \in Bytes : o.pos <= b /\ b < o.pos + o.head => content'[b] = i
  <2>1. CASE Copied(i, o.pos, o.head) \/ NotCopied(o.pos, o.head)
    <3>1. o.pos \in Nat /\ o.head \in Nat /\ Copying
      BY <1>2, <1>4
    <3>2. NoAllocationFailed => o.pos <= o.pos /\ o.pos + o.head <= Past(o)
      BY <1>3
    <3> QED BY <1>6, <1>7, <1>8, <2>1, <3>1, <3>2, PlainCopy
  <2>2. CASE UNCHANGED <<content, offset, length, lost>> /\ ~Copied(i, o.pos, o.head)
    <3>1. Count' = Count /\ (NoAllocationFailed' <=> NoAllocationFailed) /\ InOrder'
      BY <1>1, <1>6, SamePlaces
    <3>2. FileTypes'
      BY <1>1, <1>4, <1>7, <1>8, <2>2, <3>1 DEF FileTypes, Copying
    <3>3. OwnBytes'
      BY <1>1, <1>4, <2>2, <3>1 DEF OwnBytes, Within, Past, SizeOf
    <3> QED BY <2>2, <3>1, <3>2, <3>3
  <2> QED BY <1>5, <2>1, <2>2
<1>12. FailuresOK'
  <2>1. lost => lost'
    BY <1>5
  <2>2. file = "open"
    BY <1>1, <1>4 DEF FailuresOK
  <2> QED BY <1>1, <1>4, <1>11, <2>1, <2>2 DEF FailuresOK
<1>13. ASSUME NoAllocationFailed, NEW k \in 1..Count PROVE WrittenOK(k)'
  <2>1. \A b \in Bytes : Within(b, objects[k]) /\ content[b] = k => content'[b] = k
    BY <1>11, <1>13
  <2>2. WrittenOK(k) /\ ObjectOK(objects[k])
    BY <1>13 DEF FileInv
  <2>3. /\ objects'[k].kind = objects[k].kind /\ objects'[k].pos = objects[k].pos
        /\ objects'[k].head = objects[k].head /\ objects'[k].elem = objects[k].elem
        /\ objects'[k].count = objects[k].count /\ objects'[k].next = objects[k].next
    BY <1>4
  <2>4. (lost => lost') /\ (~lost' /\ ~failed' => ~failed)
    BY <1>4, <1>5
  <2>5. CASE Live(k) => Live(k)'
    BY <1>1, <2>1, <2>2, <2>3, <2>4, <2>5, KeepsWritten
  <2>6. CASE k = i
    <3>1. o.kind = "string" \/ ~lost' =>
            \A b \in Bytes : /\ o.pos + o.head <= b
                             /\ b < o.pos + o.head + o.next * o.elem
                             => content'[b] = i
      <4>1. \A b \in Bytes : /\ o.pos + o.head <= b
                             /\ b < o.pos + o.head + o.next * o.elem
                             => Within(b, o)
        BY <1>1, <2>2, <2>6, Inside
      <4>2. o.kind = "string" \/ ~lost =>
              \A b \in Bytes : /\ o.pos + o.head <= b
                               /\ b < o.pos + o.head + o.next * o.elem
                               => content[b] = i
        BY <2>2, <2>6 DEF WrittenOK
      <4> QED BY <2>1, <2>4, <2>6, <4>1, <4>2
    <3>2. ~lost' => \A b \in Bytes : o.pos <= b /\ b < o.pos + o.head => content'[b] = i
      <4>1. CASE Copied(i, o.pos, o.head)
        BY <1>11, <1>13, <4>1
      <4>2. CASE ~Flushes(o)
        <5>1. o.head = 0
          BY <1>1, <4>2 DEF Flushes, ObjectOK
        <5>2. ASSUME NEW b \in Bytes PROVE ~(o.pos <= b /\ b < o.pos + o.head)
          <6>1. b \in Nat /\ o.pos \in Nat
            BY <1>2, FileConstants DEF Bytes
          <6> QED BY <5>1, <6>1
        <5> QED BY <5>2
      <4> QED BY <1>5, <4>1, <4>2
    <3>3. ~failed' /\ o.kind # "string" => o.next = o.count
      BY <1>4
    <3> QED BY <1>4, <2>6, <3>1, <3>2, <3>3 DEF WrittenOK
  <2> QED BY <1>9, <2>5, <2>6
<1> QED
  BY <1>10, <1>11, <1>12, <1>13, FileInvAgain

\* The steps that write nothing.
LEMMA NothingWrittenInv ==
  ASSUME FileInv, CarryOn \/ Close \/ Leave \/ UNCHANGED vars
  PROVE  FileInv'
<1>1. /\ UNCHANGED <<position, size, offset, content, objects, live>>
      /\ length' = length \/ length' = position
  BY DEF CarryOn, Close, Leave, vars
<1>2. /\ FileTypes /\ InOrder /\ OwnBytes /\ FailuresOK
      /\ \A k \in 1..Count : ObjectOK(objects[k])
      /\ NoAllocationFailed => \A k \in 1..Count : WrittenOK(k)
  BY DEF FileInv
<1>3. Count' = Count /\ (NoAllocationFailed' <=> NoAllocationFailed)
  BY <1>1 DEF Count, NoAllocationFailed
<1>4. FileTypes' /\ InOrder'
  BY <1>1, <1>2, <1>3 DEF FileTypes, InOrder, Past, SizeOf
<1>5. OwnBytes'
  <2> SUFFICES ASSUME NEW b \in Bytes
               PROVE  /\ content[b] \in 0..Count
                      /\ NoAllocationFailed /\ content[b] # 0 =>
                           Within(b, objects[content[b]]) /\ b < length'
    BY <1>1, <1>3 DEF OwnBytes, Within, Past, SizeOf
  <2>1. content[b] \in 0..Count
    BY <1>2 DEF OwnBytes
  <2>2. ASSUME NoAllocationFailed, content[b] # 0
        PROVE  Within(b, objects[content[b]]) /\ b < length'
    <3> DEFINE k == content[b]
    <3>1. k \in 1..Count
      BY <2>1, <2>2 DEF Count
    <3>2. Within(b, objects[k]) /\ b < length
      BY <1>2, <2>2 DEF OwnBytes
    <3>3. Past(objects[k]) <= position /\ Past(objects[k]) \in Nat
      BY <1>2, <2>2, <3>1, ObjectSizes DEF ObjectOK, NoAllocationFailed, Count
    <3> HIDE DEF k
    <3>4. b < position
      <4>1. b \in Nat /\ position \in Nat /\ b < Past(objects[k])
        BY <1>2, <3>2, FileConstants DEF Bytes, FileTypes, Within
      <4> QED BY <3>3, <4>1
    <3> QED BY <1>1, <3>2, <3>4 DEF k
  <2> QED BY <2>1, <2>2
<1>6. ASSUME NEW k \in 1..Count PROVE ObjectOK(objects[k])'
  BY <1>1, <1>2 DEF ObjectOK, Past, SizeOf
<1>7. /\ (lost => lost') /\ (~lost' /\ ~failed' => ~failed)
      /\ file # "open" \/ file' # "open" => live = <<>>
  BY <1>2 DEF FailuresOK, CarryOn, Close, Leave, vars
<1>8. FailuresOK'
  BY <1>1, <1>2, <1>3, <1>7 DEF FailuresOK
<1>9. ASSUME NoAllocationFailed, NEW k \in 1..Count PROVE WrittenOK(k)'
  <2>1. WrittenOK(k) /\ (Live(k)' <=> Live(k))
    BY <1>1, <1>2, <1>9 DEF Live
  <2> QED BY <1>1, <1>7, <2>1 DEF WrittenOK
<1> QED
  BY <1>3, <1>4, <1>5, <1>6, <1>8, <1>9, FileInvAgain

\* What is taken of the file holds what is asked for, and it grows by no less.
LEMMA AlignedHolds ==
  ASSUME NEW n \in Nat
  PROVE  Aligned(n) \in Nat /\ n <= Aligned(n) /\ Growth(n) \in Nat /\ Aligned(n) <= Growth(n)
<1>1. ((n + 8 - 1) \div 8) * 8 \in Nat /\ n <= ((n + 8 - 1) \div 8) * 8
  OBVIOUS
<1>2. Aligned(n) \in Nat /\ n <= Aligned(n)
  BY <1>1 DEF Aligned, Align
<1> QED
  BY <1>2, FileConstants DEF Growth, Larger

\* An object that nothing has been written of.
Unwritten(o) ==
  /\ o.next = 0
  /\ o.kind = "string" =>
       o.head = StringHead /\ o.elem = Unit /\ o.left + 1 <= o.count
  /\ o.kind # "string" => o.ended
  /\ o.kind = "array" => o.head = 0

LEMMA NewObjectInv ==
  ASSUME FileInv, NEW object \in Object, Unwritten(object), NewObject(object)
  PROVE  FileInv'
<1>1. /\ FileTypes /\ FailuresOK /\ InOrder /\ OwnBytes
      /\ \A k \in 1..Count : ObjectOK(objects[k])
      /\ NoAllocationFailed => \A k \in 1..Count : WrittenOK(k)
      /\ objects \in Seq(Object) /\ position \in Nat /\ size \in Nat /\ position <= size
      /\ length \in Nat /\ Count \in Nat
  BY DEF FileInv, FileTypes, Count
<1>2. PICK n \in Nat : n = SizeOf(object)
  <2>1. object.elem \in Nat /\ object.count \in Nat /\ object.head \in Nat
    BY DEF Object
  <2>2. object.elem * object.count \in Nat
    BY <2>1, Elements
  <2> DEFINE m == object.elem * object.count
  <2>3. SizeOf(object) = object.head + m /\ m \in Nat
    BY <2>2 DEF SizeOf
  <2> HIDE DEF m
  <2> QED BY <2>1, <2>3
<1>3. /\ file = "open" /\ ~failed /\ position + n <= Bound /\ Allocate(object)
      /\ live' = Append(live, Count + 1)
      /\ UNCHANGED <<file, content, offset, lost>>
  BY <1>2 DEF NewObject, Count
<1> DEFINE at(q) == [object EXCEPT !.pos = q]
           grown(q) ==
             /\ objects' = Append(objects, at(q))
             /\ position' \in Nat /\ size' \in Nat /\ position <= position' /\ position' <= size'
             /\ \/ q = position /\ position + n <= position' /\ failed' = failed
                \/ q = Invalid /\ position' = position /\ failed'
             /\ length' = length \/ length' = size'
<1>4. PICK q \in Nat : grown(q)
  <2>1. /\ Aligned(n) \in Nat /\ n <= Aligned(n) /\ Growth(n) \in Nat /\ Aligned(n) <= Growth(n)
        /\ Invalid \in Nat
    BY AlignedHolds, FileConstants
  <2>2. ASSUME /\ objects' = Append(objects, at(position))
               /\ position' = position + n
               /\ size' = size + n
               /\ UNCHANGED <<length, failed>>
        PROVE  grown(position)
    BY <1>1, <2>2
  <2>3. ASSUME /\ position + Aligned(n) <= size
               /\ objects' = Append(objects, at(position))
               /\ position' = position + Aligned(n)
               /\ UNCHANGED <<size, length, failed>>
        PROVE  grown(position)
    BY <1>1, <2>1, <2>3
  <2>4. ASSUME /\ objects' = Append(objects, at(position))
               /\ size' = size + Growth(n)
               /\ length' = size'
               /\ position' = position + Aligned(n)
               /\ UNCHANGED failed
        PROVE  grown(position)
    <3>1. /\ position' \in Nat /\ size' \in Nat
          /\ position + n <= position' /\ position <= position' /\ position' <= size'
      <4>1. PICK a \in Nat, g \in Nat : a = Aligned(n) /\ g = Growth(n) /\ n <= a /\ a <= g
        BY <2>1
      <4>2. position + a <= size + g /\ position + n <= position + a
        BY <1>1, <4>1
      <4>3. position' = position + a /\ size' = size + g
        BY <2>4, <4>1
      <4>4. position \in Nat /\ size \in Nat
        BY <1>1
      <4> QED BY <4>1, <4>2, <4>3, <4>4
    <3> QED BY <2>4, <3>1
  <2>5. ASSUME /\ objects' = Append(objects, at(Invalid))
               /\ failed' = TRUE
               /\ UNCHANGED <<size, length, position>>
        PROVE  grown(Invalid)
    BY <1>1, <2>1, <2>5
  <2>6. grown(position) \/ grown(Invalid)
    <3> HIDE DEF grown
    <3> QED BY <1>2, <1>3, <2>2, <2>3, <2>4, <2>5 DEF Allocate
  <2> HIDE DEF grown
  <2> QED BY <1>1, <2>1, <2>6
<1> DEFINE c == at(q)
<1>5. /\ c \in Object /\ c.kind = object.kind /\ c.pos = q /\ c.head = object.head
      /\ c.elem = object.elem /\ c.count = object.count /\ c.next = 0
      /\ c.left = object.left /\ c.ended = object.ended
  BY DEF Object, Unwritten
<1>6. objects' = Append(objects, c)
  BY <1>4
<1>7. SizeOf(c) = n /\ Past(c) = q + n
  BY <1>2, <1>5 DEF SizeOf, Past
<1> HIDE DEF c
<1>8. /\ objects' \in Seq(Object) /\ Count' = Count + 1
      /\ objects'[Count + 1] = c /\ \A k \in 1..Count : objects'[k] = objects[k]
  BY <1>1, <1>5, <1>6 DEF Count
<1>9. \A k \in 1..Count' : k \in 1..Count \/ k = Count + 1
  BY <1>1, <1>8
<1>10. q = Invalid => failed'
  BY <1>1, <1>3, <1>4, FileConstants
<1>11. q # Invalid => /\ q = position /\ q + n <= Bound /\ q + n <= position'
  BY <1>3, <1>4
<1>12. NoAllocationFailed' => NoAllocationFailed /\ q # Invalid
  <2>1. NoAllocationFailed' => \A k \in 1..Count' : objects'[k].pos # Invalid
    BY DEF NoAllocationFailed, Count
  <2>2. (\A k \in 1..Count : k \in 1..Count') /\ Count + 1 \in 1..Count'
    BY <1>1, <1>8
  <2> QED BY <1>5, <1>8, <2>1, <2>2 DEF NoAllocationFailed, Count
<1>13. FileTypes'
  <2>1. live \in Seq(Nat) /\ \A j \in 1..Len(live) : live[j] \in 1..Count
    BY <1>1 DEF FileTypes
  <2>2. live' \in Seq(Nat) /\ \A j \in 1..Len(live') : live'[j] \in 1..Count'
    <3>1. /\ live' \in Seq(Nat) /\ Len(live') = Len(live) + 1 /\ Len(live) \in Nat
          /\ live'[Len(live) + 1] = Count + 1
          /\ \A j \in 1..Len(live) : live'[j] = live[j]
      BY <1>1, <1>3, <2>1
    <3>2. \A j \in 1..Len(live') : j \in 1..Len(live) \/ j = Len(live) + 1
      BY <3>1
    <3>3. Count + 1 \in 1..Count' /\ \A k \in 1..Count : k \in 1..Count'
      BY <1>1, <1>8
    <3> QED BY <2>1, <3>1, <3>2, <3>3
  <2> QED BY <1>1, <1>3, <1>4, <1>8, <2>2 DEF FileTypes
<1>14. ASSUME NEW k \in 1..Count' PROVE ObjectOK(objects[k])'
  <2>1. CASE k \in 1..Count
    <3>1. ObjectOK(objects[k]) /\ objects'[k] = objects[k] /\ Past(objects[k]) \in Nat
      BY <1>1, <1>8, <2>1, ObjectSizes
    <3>2. Past(objects[k]) <= position => Past(objects[k]) <= position'
      <4>1. /\ Past(objects[k]) \in Nat /\ position \in Nat /\ position' \in Nat
            /\ position <= position'
        BY <1>1, <1>4, <3>1
      <4> QED BY <4>1
    <3> QED BY <3>1, <3>2 DEF ObjectOK, Past, SizeOf
  <2>2. CASE k = Count + 1
    <3>1. object.count \in Nat /\ object.left \in Nat
      BY DEF Object
    <3>2. objects'[k] = c
      BY <1>8, <2>2
    <3>3. c.pos # Invalid => Past(c) <= Bound /\ Past(c) <= position'
      BY <1>5, <1>7, <1>11
    <3>4. c.kind = "string" => c.next + c.left + 1 <= c.count
      BY <1>5, <3>1 DEF Unwritten
    <3>5. c.kind # "string" => c.ended /\ c.next <= c.count
      BY <1>5, <3>1 DEF Unwritten
    <3> QED BY <1>5, <3>2, <3>3, <3>4, <3>5 DEF ObjectOK, Unwritten
  <2> QED BY <1>9, <1>14, <2>1, <2>2
<1>15. InOrder'
  <2> SUFFICES ASSUME NEW k \in 1..Count', NEW l \in 1..Count', k < l,
                      objects'[k].pos # Invalid, objects'[l].pos # Invalid
               PROVE  Past(objects'[k]) <= objects'[l].pos
    BY DEF InOrder
  <2>1. k \in 1..Count
    BY <1>1, <1>8, <1>9
  <2>2. CASE l \in 1..Count
    BY <1>1, <1>8, <2>1, <2>2 DEF InOrder
  <2>3. CASE l = Count + 1
    <3>1. objects'[k] = objects[k] /\ objects'[l] = c
      BY <1>8, <2>1, <2>3
    <3>2. Past(objects[k]) <= position
      BY <1>1, <2>1, <3>1 DEF ObjectOK
    <3>3. c.pos = position
      BY <1>5, <1>11, <3>1
    <3> QED BY <3>1, <3>2, <3>3
  <2> QED BY <1>9, <2>2, <2>3
<1>16. OwnBytes'
  <2> SUFFICES ASSUME NEW b \in Bytes
               PROVE  /\ content[b] \in 0..Count'
                      /\ NoAllocationFailed' /\ content[b] # 0 =>
                           Within(b, objects'[content[b]]) /\ b < length'
    BY <1>3 DEF OwnBytes
  <2>1. content[b] \in 0..Count
    BY <1>1 DEF OwnBytes
  <2>2. content[b] \in 0..Count'
    BY <1>1, <1>8, <2>1
  <2>3. ASSUME NoAllocationFailed', content[b] # 0
        PROVE  Within(b, objects'[content[b]]) /\ b < length'
    <3> DEFINE k == content[b]
    <3>1. k \in 1..Count /\ objects'[k] = objects[k]
      BY <1>1, <1>8, <2>1, <2>3
    <3>2. Within(b, objects[k]) /\ b < length
      BY <1>1, <1>12, <2>3 DEF OwnBytes
    <3>3. Past(objects[k]) <= position /\ Past(objects[k]) \in Nat
      BY <1>1, <1>12, <2>3, <3>1, ObjectSizes DEF ObjectOK, NoAllocationFailed, Count
    <3> HIDE DEF k
    <3>4. b < length'
      <4>1. b \in Nat /\ b < Past(objects[k])
        BY <3>2, FileConstants DEF Bytes, Within
      <4>2. b < size'
        BY <1>1, <1>4, <3>3, <4>1
      <4> QED BY <1>1, <1>4, <3>2, <4>1, <4>2
    <3>5. Within(b, objects'[k])
      BY <3>1, <3>2
    <3> QED BY <3>4, <3>5 DEF k
  <2> QED BY <2>2, <2>3
<1>17. FailuresOK'
  <2>1. ~lost' /\ ~failed' => NoAllocationFailed'
    <3> SUFFICES ASSUME ~lost, ~failed', NEW k \in 1..Count' PROVE objects'[k].pos # Invalid
      BY <1>3 DEF NoAllocationFailed, Count
    <3>1. CASE k \in 1..Count
      BY <1>1, <1>3, <1>8, <3>1 DEF FailuresOK, NoAllocationFailed, Count
    <3>2. CASE k = Count + 1
      BY <1>5, <1>8, <1>10, <3>2
    <3> QED BY <1>9, <3>1, <3>2
  <2> QED BY <1>3, <2>1 DEF FailuresOK
<1>18. ASSUME NoAllocationFailed', NEW k \in 1..Count' PROVE WrittenOK(k)'
  <2>1. live \in Seq(Nat)
    BY <1>1 DEF FileTypes
  <2>2. CASE k \in 1..Count
    <3>1. Live(k) => Live(k)'
      BY <1>3, <2>1 DEF Live
    <3>2. WrittenOK(k) /\ ObjectOK(objects[k]) /\ objects'[k] = objects[k]
      BY <1>1, <1>8, <1>12, <1>18, <2>2
    <3> QED BY <1>1, <1>3, <2>2, <3>1, <3>2, KeepsWritten
  <2>3. CASE k = Count + 1
    <3>1. Live(k)'
      BY <1>1, <1>3, <2>1, <2>3 DEF Live
    <3>2. objects'[k] = c /\ c.next = 0 /\ c.elem \in Nat
      BY <1>5, <1>8, <2>3 DEF Object
    <3>3. objects'[k].next * objects'[k].elem = 0
      BY <3>2
    <3>4. ASSUME NEW b \in Bytes
          PROVE  ~(/\ objects'[k].pos + objects'[k].head <= b
                   /\ b < objects'[k].pos + objects'[k].head + 0)
      <4>1. b \in Nat /\ c.pos \in Nat /\ c.head \in Nat
        BY <1>5, FileConstants DEF Bytes, Object
      <4> QED BY <3>2, <4>1
    <3> QED BY <3>1, <3>3, <3>4 DEF WrittenOK
  <2> QED BY <1>9, <1>18, <2>2, <2>3
<1> QED
  BY <1>13, <1>14, <1>15, <1>16, <1>17, <1>18 DEF FileInv

LEMMA FileInitInv == Init => FileInv
<1> SUFFICES ASSUME Init PROVE FileInv
  OBVIOUS
<1>1. /\ position = 0 /\ size = 0 /\ length = 0 /\ offset = 0
      /\ content = [b \in Bytes |-> 0] /\ objects = <<>> /\ live = <<>> /\ file = "open"
  BY DEF Init
<1>2. Count = 0 /\ 1..Count = {} /\ objects \in Seq(Object) /\ live \in Seq(Nat)
  BY <1>1 DEF Count
<1>3. FileTypes
  BY <1>1, <1>2 DEF FileTypes
<1>4. InOrder /\ NoAllocationFailed
  BY <1>1, <1>2 DEF InOrder, NoAllocationFailed
<1>5. OwnBytes
  BY <1>1, <1>2 DEF OwnBytes
<1> QED
  BY <1>1, <1>2, <1>3, <1>4, <1>5 DEF FileInv, FailuresOK

LEMMA FileStepInv ==
  ASSUME Characters \subseteq 1..3, FileInv, [Next]_vars
  PROVE  FileInv'
<1>1. ASSUME NEW r \in Requests, NewTyped(r) PROVE FileInv'
  <2> DEFINE object == [kind |-> r.kind, pos |-> 0, head |-> r.head, elem |-> r.elem,
                        count |-> r.count, next |-> 0, left |-> 0, ended |-> TRUE]
  <2>1. /\ r.kind \in {"object", "array", "objectArray"}
        /\ r.head \in Nat /\ r.elem \in Nat /\ r.count \in Nat
        /\ r.kind = "array" <=> r.head = 0
    BY FileAssumption DEF FileAssumption
  <2>2. object \in Object
    BY <2>1 DEF Object, Kinds
  <2>3. Unwritten(object)
    BY <2>1 DEF Unwritten
  <2>4. NewObject(object)
    BY <1>1 DEF NewTyped
  <2> HIDE DEF object
  <2> QED BY <2>2, <2>3, <2>4, NewObjectInv
<1>2. ASSUME NEW n \in Strings, NewString(n) PROVE FileInv'
  <2> DEFINE object == [kind |-> "string", pos |-> 0, head |-> StringHead, elem |-> Unit,
                        count |-> n + 1, next |-> 0, left |-> n, ended |-> FALSE]
  <2>1. n \in Nat
    BY FileAssumption DEF FileAssumption
  <2>2. object \in Object
    BY <2>1 DEF Object, Kinds, StringHead, Unit
  <2>3. Unwritten(object)
    BY <2>1 DEF Unwritten
  <2>4. NewObject(object)
    BY <1>2 DEF NewString
  <2> HIDE DEF object
  <2> QED BY <2>2, <2>3, <2>4, NewObjectInv
<1>3. ASSUME NEW j \in 1..Len(live), WriteElement(live[j]) PROVE FileInv'
  BY <1>3, WriteElementInv
<1>4. CASE WriteString
  BY <1>4, AppendCharacterInv, NotACharacterInv, TerminateInv DEF WriteString
<1>5. CASE Destroy
  BY <1>5, DestroyInv
<1>6. CASE CarryOn \/ Close \/ Leave \/ Over \/ UNCHANGED vars
  BY <1>6, NothingWrittenInv DEF Over
<1> QED
  BY <1>1, <1>2, <1>3, <1>4, <1>5, <1>6 DEF Next

\* What follows for the properties.
LEMMA FileInvSuffices ==
  ASSUME FileInv
  PROVE  OwnWritesOnly /\ EverythingWritten
<1>1. /\ FileTypes /\ InOrder /\ OwnBytes /\ FailuresOK
      /\ \A k \in 1..Count : ObjectOK(objects[k])
      /\ NoAllocationFailed => \A k \in 1..Count : WrittenOK(k)
  BY DEF FileInv
<1>2. \A k \in 1..Count : \A b \in Region(objects[k]) :
        b \in Nat /\ objects[k].pos <= b /\ b < Past(objects[k])
  <2> SUFFICES ASSUME NEW k \in 1..Count, NEW b \in Region(objects[k])
               PROVE  b \in Nat /\ objects[k].pos <= b /\ b < Past(objects[k])
    OBVIOUS
  <2>1. PICK p \in Nat, n \in Nat : p = objects[k].pos /\ n = SizeOf(objects[k])
    BY <1>1, ObjectSizes DEF Object
  <2>2. b \in p..(p + n - 1) /\ Past(objects[k]) = p + n
    BY <2>1 DEF Region, Past
  <2> QED BY <2>1, <2>2
<1>3. RegionsAreApart
  <2> SUFFICES ASSUME NEW j \in 1..Count, objects[j].pos # Invalid
               PROVE  /\ Past(objects[j]) <= size
                      /\ \A i \in 1..(j - 1) : objects[i].pos # Invalid =>
                           Past(objects[i]) <= objects[j].pos
    BY DEF RegionsAreApart, Past, Count
  <2>1. Past(objects[j]) <= size
    <3>1. Past(objects[j]) <= position /\ Past(objects[j]) \in Nat
      BY <1>1, ObjectSizes DEF ObjectOK
    <3> QED BY <1>1, <3>1 DEF FileTypes
  <2>2. \A i \in 1..(j - 1) : i \in 1..Count /\ i < j
    BY <1>1 DEF FileTypes, Count
  <2> QED BY <1>1, <2>1, <2>2 DEF InOrder
<1>4. OwnWritesOnly
  <2> SUFFICES ASSUME NoAllocationFailed, NEW b \in Bytes, content[b] # 0
               PROVE  b \in Region(objects[content[b]])
    BY <1>3 DEF OwnWritesOnly
  <2>1. PICK k \in 1..Count : k = content[b]
    BY <1>1 DEF OwnBytes, Count
  <2>2. Within(b, objects[k])
    BY <1>1, <2>1 DEF OwnBytes
  <2>3. PICK p \in Nat, n \in Nat : p = objects[k].pos /\ n = SizeOf(objects[k])
    BY <1>1, ObjectSizes DEF Object
  <2>4. b \in Nat /\ p <= b /\ b < p + n
    BY <2>2, <2>3, FileConstants DEF Within, Past, Bytes
  <2>5. b \in p..(p + n - 1)
    BY <2>3, <2>4
  <2> QED BY <2>1, <2>3, <2>5 DEF Region
<1>5. ASSUME NoAllocationFailed, NEW k \in 1..Count
      PROVE  /\ objects[k].pos \in Nat /\ objects[k].head \in Nat /\ objects[k].next \in Nat
             /\ objects[k].elem \in Nat /\ objects[k].count \in Nat
             /\ objects[k].next * objects[k].elem \in Nat
             /\ objects[k].next * objects[k].elem <= objects[k].elem * objects[k].count
             /\ objects[k].elem * objects[k].count \in Nat
             /\ objects[k].pos + (objects[k].head + objects[k].elem * objects[k].count) <= Bound
             /\ Past(objects[k]) =
                  objects[k].pos + (objects[k].head + objects[k].elem * objects[k].count)
  <2>1. objects[k] \in Object /\ ObjectOK(objects[k]) /\ objects[k].pos # Invalid
    BY <1>1, <1>5, ObjectSizes DEF NoAllocationFailed, Count
  <2>2. /\ objects[k].pos \in Nat /\ objects[k].head \in Nat /\ objects[k].next \in Nat
        /\ objects[k].elem \in Nat /\ objects[k].count \in Nat /\ objects[k].left \in Nat
    BY <2>1 DEF Object
  <2>3. objects[k].next <= objects[k].count
    BY <2>1, <2>2 DEF ObjectOK
  <2>4. Past(objects[k]) <= Bound
    BY <2>1 DEF ObjectOK
  <2>5. Past(objects[k]) =
          objects[k].pos + (objects[k].head + objects[k].elem * objects[k].count)
    BY <1>1, ObjectSizes DEF Past
  <2>6. /\ objects[k].next * objects[k].elem \in Nat
        /\ objects[k].next * objects[k].elem <= objects[k].elem * objects[k].count
        /\ objects[k].elem * objects[k].count \in Nat
    BY <2>2, <2>3, Elements
  <2> QED BY <2>2, <2>4, <2>5, <2>6
<1>6. StringsAreContiguous
  <2> SUFFICES ASSUME NoAllocationFailed, NEW k \in 1..Count, objects[k].kind = "string",
                      NEW b \in (objects[k].pos + objects[k].head)..
                                (objects[k].pos + objects[k].head + objects[k].next * Unit - 1)
               PROVE  content[b] = k
    BY DEF StringsAreContiguous, Count
  <2>1. objects[k].elem = Unit /\ WrittenOK(k)
    BY <1>1 DEF ObjectOK
  <2>2. PICK x \in Nat, h \in Nat, m \in Nat, a \in Nat :
          /\ x = objects[k].pos /\ h = objects[k].head
          /\ m = objects[k].next * objects[k].elem /\ m <= a /\ x + (h + a) <= Bound
    BY <1>5
  <2>3. b \in (x + h)..(x + h + m - 1)
    BY <2>1, <2>2
  <2>4. b \in 0..(Bound - 1) /\ x + h <= b /\ b < x + h + m
    BY <2>2, <2>3, FileConstants
  <2> QED BY <2>1, <2>2, <2>4 DEF WrittenOK, Bytes
<1>7. ASSUME file = "closed", ~failed, ~lost, NEW k \in 1..Count
      PROVE  /\ \A b \in objects[k].pos..(objects[k].pos + objects[k].head - 1) : content[b] = k
             /\ objects[k].kind # "string" => \A b \in Region(objects[k]) : content[b] = k
             /\ \A b \in Region(objects[k]) : content[b] = k => b < length
  <2>1. NoAllocationFailed /\ ~Live(k)
    BY <1>1, <1>7 DEF FailuresOK, Live
  <2>2. WrittenOK(k)
    BY <1>1, <2>1
  <2>3. PICK x \in Nat, h \in Nat, a \in Nat :
          /\ x = objects[k].pos /\ h = objects[k].head
          /\ a = objects[k].elem * objects[k].count /\ x + (h + a) <= Bound
          /\ Past(objects[k]) = x + (h + a)
    BY <1>5, <2>1
  <2>4. \A b \in x..(x + h - 1) : b \in Bytes /\ x <= b /\ b < x + h
    BY <2>3, FileConstants DEF Bytes
  <2>5. \A b \in x..(x + h - 1) : content[b] = k
    BY <1>7, <2>1, <2>2, <2>3, <2>4 DEF WrittenOK
  <2>6. \A b \in Region(objects[k]) : b \in Bytes /\ x <= b /\ b < x + (h + a)
    BY <1>2, <2>3, FileConstants DEF Bytes
  <2>7. ASSUME objects[k].kind # "string", NEW b \in Region(objects[k])
        PROVE  content[b] = k
    <3>1. objects[k].next * objects[k].elem = a
      <4>1. objects[k].next = objects[k].count
        BY <1>7, <2>1, <2>2, <2>7 DEF WrittenOK
      <4> QED BY <1>5, <2>1, <2>3, <4>1, Elements
    <3>2. b \in Bytes /\ x <= b /\ b < x + (h + a) /\ b \in Nat
      BY <1>2, <2>6, <2>7
    <3>3. (x <= b /\ b < x + h) \/ (x + h <= b /\ b < x + h + a)
      BY <2>3, <3>2
    <3> QED BY <1>7, <2>1, <2>2, <2>3, <3>1, <3>2, <3>3 DEF WrittenOK
  <2>8. ASSUME NEW b \in Region(objects[k]), content[b] = k PROVE b < length
    <3>1. b \in Bytes /\ k # 0
      BY <1>1, <2>6 DEF FileTypes, Count
    <3> QED BY <1>1, <2>1, <2>8, <3>1 DEF OwnBytes
  <2> QED BY <2>3, <2>5, <2>7, <2>8
<1>8. EverythingWritten
  BY <1>6, <1>7 DEF EverythingWritten, Count
<1> QED
  BY <1>4, <1>8

\* However large the file and whatever is allocated in it, objects are apart and
\* every byte is that of the object that wrote it, as long as no allocation fails
\* and no character has four bytes in UTF-8.
THEOREM OwnWritesOnlyHolds ==
  ASSUME Characters \subseteq 1..3
  PROVE  Spec => []OwnWritesOnly
<1>1. FileInv /\ [Next]_vars => FileInv'
  BY FileStepInv
<1>2. FileInv => OwnWritesOnly
  BY FileInvSuffices
<1> QED
  BY FileInitInv, <1>1, <1>2, PTL DEF Spec

\* And when nothing failed, the closed file has the head and every element of
\* every object; a string has the characters that were written of it at any time.
THEOREM EverythingWrittenHolds ==
  ASSUME Characters \subseteq 1..3
  PROVE  Spec => []EverythingWritten
<1>1. FileInv /\ [Next]_vars => FileInv'
  BY FileStepInv
<1>2. FileInv => EverythingWritten
  BY FileInvSuffices
<1> QED
  BY FileInitInv, <1>1, <1>2, PTL DEF Spec

=============================================================================
