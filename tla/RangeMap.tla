------------------------------ MODULE RangeMap ------------------------------
(***************************************************************************)
(* The map from ranges of addresses to entries with which the processor    *)
(* finds the module or the function of an address (processor/range_map.h,  *)
(* -inl.h).  A range is kept under its highest address.  A range that      *)
(* overlaps others is refused, or ranges are cut until they are apart, one *)
(* conflict for every call of StoreRangeInternal, which calls itself.      *)
(*                                                                         *)
(* The sums of the code do not wrap, once AddWithOverflowCheck has let the *)
(* first one pass, which RangesApartHolds relies on and TLC confirms.      *)
(***************************************************************************)
EXTENDS Integers, Sequences

CONSTANTS
  MaxAddress,  \* the largest AddressType
  MaxStores,   \* calls of StoreRange: a bound
  NoCall       \* not a call of StoreRangeInternal

ASSUME RangeAssumption ==
  /\ MaxAddress \in Nat
  /\ MaxStores \in Nat
  /\ NoCall \notin [base : Nat, delta : Nat, size : Nat, entry : Nat]

VARIABLES
  merge_strategy,  \* merge_strategy_, set before anything is stored
  map,             \* map_: from the highest address to base, delta and entry
  call,            \* the call of StoreRangeInternal to come, or NoCall
  asked,           \* what StoreRange was called with since the map was empty
  stored           \* the entries for which it has returned true

rangeVars == <<merge_strategy, map, call, asked, stored>>

Addresses == 0..MaxAddress
Ranges == [base : Addresses, delta : Addresses, entry : Nat]
Calls == [base : Addresses, delta : Addresses, size : Nat, entry : Nat]

RangeTypeOK ==
  /\ merge_strategy \in {"exclusive", "truncateLower", "truncateUpper"}
  /\ DOMAIN map \subseteq Addresses
  /\ \A h \in DOMAIN map : map[h] \in Ranges
  /\ call \in Calls \cup {NoCall}
  /\ asked \in Seq([base : Addresses, size : Nat])
  /\ stored \subseteq DOMAIN asked

RangeInit ==
  /\ merge_strategy \in {"exclusive", "truncateLower", "truncateUpper"}
  /\ map = [h \in {} |-> 0]
  /\ call = NoCall
  /\ asked = <<>>
  /\ stored = {}

MakeRange(base, delta, entry) == [base |-> base, delta |-> delta, entry |-> entry]
\* map::insert, which leaves an entry as it is, and map::erase.
With(f, k, v) == [x \in DOMAIN f \cup {k} |-> IF x \in DOMAIN f THEN f[x] ELSE v]
Minus(f, k) == [x \in DOMAIN f \ {k} |-> f[x]]

\* StoreRange.  The entry of a range is the number of the call.
StoreRange(base, size) ==
  /\ call = NoCall
  /\ Len(asked) < MaxStores
  /\ asked' = Append(asked, [base |-> base, size |-> size])
  /\ call' = [base |-> base, delta |-> 0, size |-> size, entry |-> Len(asked) + 1]
  /\ UNCHANGED <<merge_strategy, map, stored>>

(***************************************************************************)
(* StoreRangeInternal.                                                     *)
(***************************************************************************)

High == call.base + call.size - 1
InBounds == call.size > 0 /\ High <= MaxAddress

\* map_.lower_bound
LowerBound(h, address) ==
  /\ h \in DOMAIN map
  /\ address <= h
  /\ \A k \in DOMAIN map : address <= k => h <= k

\* The lowest range that ends in or above this one, which overlaps it if it
\* ends below High or begins no higher than that.  Where none ends below
\* High, iterator_base is iterator_high.
InTheWay(h) == LowerBound(h, call.base) /\ (h < High \/ map[h].base <= High)

ReturnFalse == call' = NoCall /\ UNCHANGED <<merge_strategy, map, asked, stored>>

\* A size of zero, or a sum that overflows.
OutOfBounds == ~InBounds /\ ReturnFalse

Refuse(h) ==
  /\ InTheWay(h)
  /\ \/ merge_strategy = "exclusive"
     \/ merge_strategy = "truncateLower" /\ call.base = map[h].base
     \/ merge_strategy = "truncateUpper" /\ h = High
  /\ ReturnFalse

\* kTruncateLower cuts the upper part of the range that begins lower.
CutThisAbove(h) ==
  /\ InTheWay(h)
  /\ merge_strategy = "truncateLower"
  /\ call.base < map[h].base
  /\ call' = [call EXCEPT !.size = map[h].base - call.base]
  /\ UNCHANGED <<merge_strategy, map, asked, stored>>

CutOtherAbove(h) ==
  /\ InTheWay(h)
  /\ merge_strategy = "truncateLower"
  /\ map[h].base < call.base
  /\ map' = With(Minus(map, h), call.base - 1, map[h])
  /\ UNCHANGED <<merge_strategy, call, asked, stored>>

\* kTruncateUpper cuts the lower part of the range that ends higher.
CutThisBelow(h) ==
  LET additional_delta == h - call.base + 1
  IN /\ InTheWay(h)
     /\ merge_strategy = "truncateUpper"
     /\ h < High
     /\ call' = [call EXCEPT !.base = @ + additional_delta,
                             !.delta = @ + additional_delta,
                             !.size = @ - additional_delta]
     /\ UNCHANGED <<merge_strategy, map, asked, stored>>

CutOtherBelowKept(h) ==
  LET additional_delta == High - map[h].base + 1
  IN /\ InTheWay(h)
     /\ merge_strategy = "truncateUpper"
     /\ High < h
     /\ map' = With(map, h,
                    MakeRange(map[h].base + additional_delta,
                              map[h].delta + additional_delta, map[h].entry))
     /\ UNCHANGED <<merge_strategy, call, asked, stored>>

CutOtherBelow(h) ==
  LET additional_delta == High - map[h].base + 1
  IN /\ InTheWay(h)
     /\ merge_strategy = "truncateUpper"
     /\ High < h
     /\ map' = With(Minus(map, h), h,
                    MakeRange(map[h].base + additional_delta,
                              map[h].delta + additional_delta, map[h].entry))
     /\ UNCHANGED <<merge_strategy, call, asked, stored>>

\* No range ends in this one, and the next above it, if any, begins above it.
IsFreeBelow ==
  ~\E k \in DOMAIN map : call.base <= k /\ k < High
IsFree ==
  /\ ~\E k \in DOMAIN map : call.base <= k /\ k < High
  /\ \/ \A k \in DOMAIN map : k < High
     \/ \E h \in DOMAIN map : LowerBound(h, High) /\ High < map[h].base

Insert ==
  /\ IsFree
  /\ map' = With(map, High, MakeRange(call.base, call.delta, call.entry))
  /\ call' = NoCall
  /\ stored' = stored \cup {call.entry}
  /\ UNCHANGED <<merge_strategy, asked>>

StoreRangeInternal ==
  /\ call # NoCall
  /\ \/ OutOfBounds
     \/ InBounds /\ Insert
     \/ \E h \in DOMAIN map :
          /\ InBounds
          /\ \/ Refuse(h)
             \/ CutThisAbove(h) \/ CutOtherAbove(h)
             \/ CutThisBelow(h) \/ CutOtherBelow(h)

Clear ==
  /\ call = NoCall
  /\ map' = [h \in {} |-> 0]
  /\ asked' = <<>>
  /\ stored' = {}
  /\ UNCHANGED <<merge_strategy, call>>

RangeStep ==
  \/ \E base \in Addresses, size \in 0..(MaxAddress + 1) : StoreRange(base, size)
  \/ StoreRangeInternal
  \/ Clear

RangeSpec == RangeInit /\ [][RangeStep]_rangeVars

(***************************************************************************)
(* Properties.                                                             *)
(***************************************************************************)

\* RetrieveRange: the range that encompasses the address.
Retrieved(address) ==
  {h \in DOMAIN map : LowerBound(h, address) /\ map[h].base <= address}

\* No two ranges in the map overlap, at any depth of the recursion: the lookup
\* by the highest address finds nothing else.
RangesApart ==
  \A h \in DOMAIN map :
    /\ map[h].base <= h
    /\ \A k \in DOMAIN map : h < k => h < map[k].base

AskedHigh(e) == asked[e].base + asked[e].size - 1
AskedFor(address) ==
  {e \in stored : asked[e].base <= address /\ address <= AskedHigh(e)}

\* Between calls, the entry that RetrieveRange finds for an address is the one
\* that the strategy says, of all that were stored and as they were given to
\* StoreRange: with kTruncateLower of those that begin no higher the one that
\* begins highest, if it reaches the address; with kTruncateUpper of those that
\* end no lower the one that ends lowest.  The delta is what was cut from its
\* base.  What StoreRange has refused has changed nothing.
FollowsStrategy ==
  call = NoCall => \A address \in Addresses :
    LET found == {map[h].entry : h \in Retrieved(address)}
    IN /\ found =
            {e \in AskedFor(address) :
               CASE merge_strategy = "exclusive" -> TRUE
                 [] merge_strategy = "truncateLower" ->
                      ~\E o \in stored : /\ asked[e].base < asked[o].base
                                         /\ asked[o].base <= address
                 [] merge_strategy = "truncateUpper" ->
                      ~\E o \in stored : /\ address <= AskedHigh(o)
                                         /\ AskedHigh(o) < AskedHigh(e)}
       /\ \A h \in Retrieved(address) :
            map[h].base - map[h].delta = asked[map[h].entry].base
       /\ merge_strategy = "exclusive" =>
            \A e \in DOMAIN asked \ stored :
              \/ asked[e].size = 0
              \/ AskedHigh(e) > MaxAddress
              \/ \E o \in stored : /\ asked[o].base <= AskedHigh(e)
                                   /\ asked[e].base <= AskedHigh(o)

=============================================================================
