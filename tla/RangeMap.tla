------------------------------ MODULE RangeMap ------------------------------
(***************************************************************************)
(* breakpad/include/processor/range_map-inl.h: the map from address ranges *)
(* to functions and source lines that minidump_stackwalk looks the frames  *)
(* of a dump up in.                                                        *)
(*                                                                         *)
(* map is std::map<AddressType, Range>: a function from the high address   *)
(* of a range to its base, its delta and its entry.  StoreRangeInternal    *)
(* calls itself until the range fits; each round is a step, so that what   *)
(* the rounds before have changed is there when a later one gives up.      *)
(* An entry is named by the range it is first stored for, as the functions *)
(* and lines of basic_source_line_resolver_types.h carry their own address *)
(* and size.                                                               *)
(***************************************************************************)
EXTENDS Integers

CONSTANT Space   \* number of addresses: 2^32 or 2^64 in the program

ASSUME SpaceType == Space \in Nat \ {0}

Addr == 0 .. Space - 1
End == Space     \* the key map_.end() stands for

Strategies == {"kExclusiveRanges", "kTruncateLower", "kTruncateUpper"}
Entries == [base : Addr, high : Addr]
Ranges == [base : Addr, delta : Addr, entry : Entries]
Calls == [base : Addr, delta : Addr, size : Addr, entry : Entries]

\* AddressType is unsigned: a sum or a difference of two addresses wraps.
Wrap(x) == IF x >= Space THEN x - Space ELSE IF x < 0 THEN x + Space ELSE x

VARIABLES
  map,        \* map_
  strategy,   \* merge_strategy_
  calling,    \* a StoreRange is under way
  call,       \* arguments of the current round of StoreRangeInternal
  result,     \* what the last StoreRange has returned; FALSE during a call
  before      \* history: map when the StoreRange under way was called

vars == <<map, strategy, calling, call, result, before>>

NoMap == [h \in {} |-> 0]
NoEntry == [base |-> 0, high |-> 0]
NoCall == [base |-> 0, delta |-> 0, size |-> 0, entry |-> NoEntry]

IsMap(m) == DOMAIN m \subseteq Addr /\ \A h \in DOMAIN m : m[h] \in Ranges

Typed ==
  /\ IsMap(map)
  /\ IsMap(before)
  /\ strategy \in Strategies
  /\ calling \in BOOLEAN
  /\ call \in Calls
  /\ result \in BOOLEAN

Init ==
  /\ map = NoMap
  /\ strategy = "kExclusiveRanges"
  /\ calling = FALSE
  /\ call = NoCall
  /\ result = FALSE
  /\ before = NoMap

\* map_.lower_bound(a) as a set with one element: the least key not below a.
LowerBound(m, a) ==
  {k \in DOMAIN m \cup {End} : k >= a /\ \A g \in DOMAIN m : g >= a => k <= g}

\* map_.upper_bound(a)
UpperBound(m, a) ==
  {k \in DOMAIN m \cup {End} : k > a /\ \A g \in DOMAIN m : g > a => k <= g}

\* map_.erase, and map_.insert, which leaves a key alone that is there.
Erased(m, h) == [k \in DOMAIN m \ {h} |-> m[k]]
Inserted(m, h, r) ==
  IF h \in DOMAIN m THEN m
  ELSE [k \in DOMAIN m \cup {h} |-> IF k = h THEN r ELSE m[k]]
-----------------------------------------------------------------------------
SetMergeStrategy(s) ==
  /\ ~calling
  /\ strategy' = s
  /\ UNCHANGED <<map, calling, call, result, before>>

Clear ==
  /\ ~calling
  /\ map' = NoMap
  /\ UNCHANGED <<strategy, calling, call, result, before>>

StoreRange(base, size) ==
  /\ ~calling
  /\ calling' = TRUE
  /\ call' = [base |-> base, delta |-> 0, size |-> size,
              entry |-> [base |-> base, high |-> Wrap(base + size - 1)]]
  /\ result' = FALSE
  /\ before' = map
  /\ UNCHANGED <<map, strategy>>

Returns(value) ==
  /\ calling' = FALSE
  /\ result' = value
  /\ call' = NoCall
  /\ before' = NoMap
  /\ UNCHANGED strategy

Retries(newCall) ==
  /\ call' = newCall
  /\ UNCHANGED <<strategy, calling, result, before>>

high == Wrap(call.base + Wrap(call.size - 1))

\* Mutant: no check for overflow.
IsNotEmpty == call.size # 0

IsRange == call.size # 0 /\ high >= call.base

\* The sums that made the ranges of the map, and the one asked for while it is
\* cut, are those of the numbers, without 2^32 or 2^64 added or taken away.
NothingWraps ==
  /\ \A h \in DOMAIN map : map[h].delta <= map[h].base /\ map[h].base <= h
  /\ calling /\ IsRange =>
       /\ call.base = call.entry.base + call.delta
       /\ high = call.base + call.size - 1
       /\ high <= call.entry.high

TypeOK == Typed /\ NothingWraps

\* Check for undersize or overflow.
RejectSize == calling /\ ~IsRange /\ Returns(FALSE) /\ UNCHANGED map

\* The range at key k stands in the way: it ends within the new range, or it
\* is the one above it and begins within it.
EndsWithin(k) ==
  /\ k \in LowerBound(map, call.base)
  /\ k \notin LowerBound(map, high)

BeginsWithin(k) ==
  /\ k \in LowerBound(map, call.base)
  /\ k \in LowerBound(map, high)
  /\ k # End
  /\ map[k].base <= high

Conflict(k) == calling /\ IsRange /\ (EndsWithin(k) \/ BeginsWithin(k))

Exclude(k) ==
  /\ Conflict(k)
  /\ strategy = "kExclusiveRanges"
  /\ Returns(FALSE)
  /\ UNCHANGED map

\* Mutant: the new range ends one address too early.
TruncateNewTooShort(k) ==
  /\ Conflict(k)
  /\ strategy = "kTruncateLower"
  /\ call.base < map[k].base
  /\ Retries([call EXCEPT !.size = Wrap(map[k].base - call.base - 1)])
  /\ UNCHANGED map

\* kTruncateLower: the range with the lower base ends below the other one.
TruncateNew(k) ==
  /\ Conflict(k)
  /\ strategy = "kTruncateLower"
  /\ call.base < map[k].base
  /\ Retries([call EXCEPT !.size = Wrap(map[k].base - call.base)])
  /\ UNCHANGED map

TruncateOther(k) ==
  /\ Conflict(k)
  /\ strategy = "kTruncateLower"
  /\ map[k].base < call.base
  /\ map' = Inserted(Erased(map, k), Wrap(call.base - 1), map[k])
  /\ Retries(call)

\* Mutant: a range that begins lower is refused as well.
RefuseNoHigherBase(k) ==
  /\ Conflict(k)
  /\ strategy = "kTruncateLower"
  /\ map[k].base <= call.base
  /\ Returns(FALSE)
  /\ UNCHANGED map

RefuseSameBase(k) ==
  /\ Conflict(k)
  /\ strategy = "kTruncateLower"
  /\ map[k].base = call.base
  /\ Returns(FALSE)
  /\ UNCHANGED map

\* Mutant: the delta of this round replaces those of the rounds before.
SkipBelowForgetting(k) ==
  LET additional_delta == Wrap(Wrap(k - call.base) + 1)
  IN /\ calling /\ IsRange /\ EndsWithin(k)
     /\ strategy = "kTruncateUpper"
     /\ Retries([call EXCEPT !.base = Wrap(@ + additional_delta),
                             !.delta = additional_delta,
                             !.size = Wrap(@ - additional_delta)])
     /\ UNCHANGED map

\* kTruncateUpper: the range with the higher end begins above the other one.
SkipBelow(k) ==
  LET additional_delta == Wrap(Wrap(k - call.base) + 1)
  IN /\ calling /\ IsRange /\ EndsWithin(k)
     /\ strategy = "kTruncateUpper"
     /\ Retries([call EXCEPT !.base = Wrap(@ + additional_delta),
                             !.delta = Wrap(@ + additional_delta),
                             !.size = Wrap(@ - additional_delta)])
     /\ UNCHANGED map

\* Mutant: the other range is shrunk to begin where the new one ends.
ShrinkOtherTooLittle(k) ==
  LET additional_delta == Wrap(high - map[k].base)
      shrunk == [map[k] EXCEPT !.base = Wrap(@ + additional_delta),
                               !.delta = Wrap(@ + additional_delta)]
  IN /\ calling /\ IsRange /\ BeginsWithin(k)
     /\ strategy = "kTruncateUpper"
     /\ k > high
     /\ map' = Inserted(Erased(map, k), k, shrunk)
     /\ Retries(call)

ShrinkOther(k) ==
  LET additional_delta == Wrap(Wrap(high - map[k].base) + 1)
      shrunk == [map[k] EXCEPT !.base = Wrap(@ + additional_delta),
                               !.delta = Wrap(@ + additional_delta)]
  IN /\ calling /\ IsRange /\ BeginsWithin(k)
     /\ strategy = "kTruncateUpper"
     /\ k > high
     /\ map' = Inserted(Erased(map, k), k, shrunk)
     /\ Retries(call)

\* Mutant: the other range is taken out of the map before the refusal.
RefuseCoveredErasing(k) ==
  /\ calling /\ IsRange /\ BeginsWithin(k)
  /\ strategy = "kTruncateUpper"
  /\ k <= high
  /\ Returns(FALSE)
  /\ map' = Erased(map, k)

\* The new range lies within one that is there and ends no higher.
RefuseCovered(k) ==
  /\ calling /\ IsRange /\ BeginsWithin(k)
  /\ strategy = "kTruncateUpper"
  /\ k <= high
  /\ Returns(FALSE)
  /\ UNCHANGED map

\* Mutant: a range that begins on the last address of the new one is let be.
InsertTouching(k) ==
  /\ calling /\ IsRange
  /\ k \in LowerBound(map, call.base)
  /\ k \in LowerBound(map, high)
  /\ k # End => map[k].base >= high
  /\ map' = Inserted(map, high, [base |-> call.base, delta |-> call.delta,
                                 entry |-> call.entry])
  /\ Returns(TRUE)

\* Nothing stands in the way: store the range by its high address.
Insert(k) ==
  /\ calling /\ IsRange
  /\ k \in LowerBound(map, call.base)
  /\ k \in LowerBound(map, high)
  /\ k # End => map[k].base > high
  /\ map' = Inserted(map, high, [base |-> call.base, delta |-> call.delta,
                                 entry |-> call.entry])
  /\ Returns(TRUE)

StoreRangeInternal ==
  \/ RejectSize
  \/ \E k \in DOMAIN map \cup {End} :
       \/ Exclude(k)
       \/ TruncateNew(k) \/ TruncateOther(k) \/ RefuseSameBase(k)
       \/ SkipBelow(k) \/ ShrinkOther(k) \/ RefuseCovered(k)
       \/ Insert(k)

Next ==
  \/ \E s \in Strategies : SetMergeStrategy(s)
  \/ Clear
  \/ \E base, size \in Addr : StoreRange(base, size)
  \/ StoreRangeInternal

\* A call that was made is carried out.
Spec == Init /\ [][Next]_vars /\ WF_vars(StoreRangeInternal)
-----------------------------------------------------------------------------
\* Mutant: an address between two ranges counts as one of the upper one.
RetrieveRangeUnchecked(a) == {k \in LowerBound(map, a) : k # End}

\* RetrieveRange(a): the key of the range it finds, or none.
RetrieveRange(a) ==
  {k \in LowerBound(map, a) : k # End /\ map[k].base <= a}

\* RetrieveNearestRange(a): the range a lies in, or else the last one whose
\* key is not greater than a (--upper_bound).
RetrieveNearestRange(a) ==
  IF RetrieveRange(a) # {} THEN RetrieveRange(a)
  ELSE {k \in DOMAIN map :
          \E u \in UpperBound(map, a) :
            k < u /\ \A g \in DOMAIN map : g < u => g <= k}
-----------------------------------------------------------------------------
Covers(m, h, a) == h \in DOMAIN m /\ m[h].base <= a /\ a <= h

\* No address belongs to two ranges and no range is empty, in the middle of a
\* StoreRange too: lower_bound finds the only candidate.
Disjoint ==
  \A h \in DOMAIN map :
    /\ map[h].base <= h
    /\ \A g \in DOMAIN map : g < h => g < map[h].base

\* range_map.h:87-88: the base a range was stored with has been increased by
\* delta, over all the times the range was shrunk; and a range never grows.
DeltaLeadsBack ==
  \A h \in DOMAIN map :
    /\ map[h].base - map[h].delta = map[h].entry.base
    /\ h <= map[h].entry.high

\* A StoreRange that returns false has left the map as it was, although a
\* round before the last one may have truncated or shrunk other ranges.
FailureChangesNothing ==
  [][calling /\ ~calling' /\ ~result' => map' = before]_vars

Owners(m, a) == {m[h].entry : h \in {k \in DOMAIN m : Covers(m, k, a)}}

\* What StoreRange makes of the map m it was called with when it stores the
\* range new under kTruncateUpper: new begins where the last range that ends
\* within it has ended, and a range that ends above new loses its beginning,
\* that part of it included that is below new.
GivesWayAbove(m, new, a) ==
  CASE /\ new.base <= a /\ a <= new.high
       /\ \A h \in DOMAIN m : h < new.base \/ h >= new.high \/ h < a -> {new}
    [] \E h \in DOMAIN m : Covers(m, h, a) /\ Covers(m, h, new.high) /\ a < new.base
         -> {}
    [] OTHER -> Owners(m, a)

\* ... and under kTruncateLower: new ends where the first range above it
\* begins, and a range that begins below new loses its end, that part of it
\* included that is above new.
GivesWayBelow(m, new, a) ==
  CASE /\ new.base <= a /\ a <= new.high
       /\ \A h \in DOMAIN m : m[h].base <= new.base \/ a < m[h].base -> {new}
    [] \E h \in DOMAIN m : Covers(m, h, a) /\ Covers(m, h, new.base) /\ a > new.high
         -> {}
    [] OTHER -> Owners(m, a)

Exclusively(m, new, a) ==
  IF new.base <= a /\ a <= new.high THEN {new} ELSE Owners(m, a)

\* range_map.h:53-64: who owns which address after a StoreRange that returns
\* true, whatever number of rounds it took.
StoreFollowsStrategy ==
  [][calling /\ ~calling' /\ result' =>
       \A a \in Addr : Owners(map', a) =
         CASE strategy = "kExclusiveRanges" -> Exclusively(before, call.entry, a)
           [] strategy = "kTruncateUpper" -> GivesWayAbove(before, call.entry, a)
           [] strategy = "kTruncateLower" -> GivesWayBelow(before, call.entry, a)
    ]_vars

\* When a range that is not empty and does not wrap is refused at all: under
\* kExclusiveRanges if it meets any other, under kTruncateLower if another
\* begins where it begins, under kTruncateUpper if another ends where it ends.
RefusesOnlyConflicts ==
  [][LET new == call.entry IN
     calling /\ ~calling' /\ call.size # 0 /\ new.base <= new.high =>
       (result' <=> \A h \in DOMAIN before :
          CASE strategy = "kExclusiveRanges" -> h < new.base \/ new.high < before[h].base
            [] strategy = "kTruncateLower" -> before[h].base # new.base
            [] strategy = "kTruncateUpper" -> h # new.high)
    ]_vars

\* What RetrieveRange finds is the range the address lies in, and what
\* RetrieveNearestRange finds is the one with the highest base not above it.
LookupsAreRight == ~calling =>
  \A a \in Addr :
    /\ RetrieveRange(a) = {h \in DOMAIN map : Covers(map, h, a)}
    /\ RetrieveNearestRange(a) =
         {h \in DOMAIN map :
            /\ map[h].base <= a
            /\ \A g \in DOMAIN map : map[g].base <= a => map[g].base <= map[h].base}

\* The recursion ends: a StoreRange that was called returns.
StoreReturns == calling ~> ~calling
=============================================================================
