------------------------- MODULE SymbolMaps_proofs -------------------------
(***************************************************************************)
(* RangeMap: the ranges never overlap and remember where they began; a     *)
(* range asked for is stored unless the strategy has no place for it, with *)
(* the addresses the strategy gives it; and the lookups find it.           *)
(* SymbolMaps: a ContainedRangeMap is a tree that implements NestedRanges, *)
(* and every map finds what was stored.  All that for address spaces of    *)
(* any size and any number of rounds, levels, symbols and frames.          *)
(***************************************************************************)
EXTENDS SymbolMaps, TLAPS, WellFoundedInduction, FiniteSetTheorems

\* What a round of StoreRangeInternal has left of the range asked for is a
\* part of it, and delta says how far it has moved up.
CallDelta ==
  calling /\ IsRange =>
    /\ call.base = call.entry.base + call.delta
    /\ high <= call.entry.high

IInv == Typed /\ Disjoint /\ DeltaLeadsBack /\ CallDelta

\* A range that passes the test for undersize and overflow does not wrap.
LEMMA HighPlain ==
  ASSUME call \in Calls, IsRange
  PROVE  /\ high = call.base + call.size - 1
         /\ high \in Addr
         /\ call.base <= high
         /\ call.base \in Addr
  BY SpaceType DEF Calls, IsRange, high, Wrap, Addr

\* map_.erase
LEMMA ErasedOne ==
  ASSUME NEW m, NEW h
  PROVE  /\ DOMAIN Erased(m, h) = DOMAIN m \ {h}
         /\ \A k \in DOMAIN m \ {h} : Erased(m, h)[k] = m[k]
  BY DEF Erased

\* lower_bound returns a key that is not below a, and no key lies between.
LEMMA LowerBoundLeast ==
  ASSUME NEW m, NEW a, NEW k \in LowerBound(m, a)
  PROVE  /\ k \in DOMAIN m \cup {End}
         /\ k >= a
         /\ \A g \in DOMAIN m : g >= a => k <= g
  BY DEF LowerBound

\* An empty map.
LEMMA InitIInv == Init => IInv
<1> SUFFICES ASSUME Init PROVE IInv
  OBVIOUS
<1> USE SpaceType DEF Init, NoMap
<1>1. NoCall \in Calls
  BY DEF NoCall, NoEntry, Calls, Entries, Addr
<1>2. IsMap(map)
  BY DEF IsMap
<1>3. Typed
  BY <1>1, <1>2 DEF Typed, Strategies
<1>4. Disjoint /\ DeltaLeadsBack /\ CallDelta
  BY DEF Disjoint, DeltaLeadsBack, CallDelta
<1> QED
  BY <1>3, <1>4 DEF IInv

\* A range that ends within another one is a real one, not map_.end().
LEMMA ConflictKey ==
  ASSUME Typed, NEW k, Conflict(k)
  PROVE  /\ k \in DOMAIN map
         /\ k \in Addr
         /\ map[k] \in Ranges
         /\ call.base <= k
         /\ \A g \in DOMAIN map : g >= call.base => k <= g
<1>1. call.base <= high /\ high \in Addr /\ call.base \in Addr
  BY HighPlain DEF Typed, Conflict
<1>2. /\ k \in DOMAIN map \cup {End}
      /\ k >= call.base
      /\ \A g \in DOMAIN map : g >= call.base => k <= g
  BY LowerBoundLeast DEF Conflict, EndsWithin, BeginsWithin
<1>3. DOMAIN map \subseteq Addr
  BY DEF Typed, IsMap
<1>4. ASSUME k = End PROVE k \in LowerBound(map, high)
  BY <1>1, <1>2, <1>3, <1>4, SpaceType DEF LowerBound, End, Addr
<1>5. k # End
  BY <1>4 DEF Conflict, EndsWithin, BeginsWithin
<1> QED
  BY <1>1, <1>2, <1>3, <1>5 DEF Typed, IsMap, Addr

\* A step that leaves the map alone leaves its properties alone.
LEMMA SameMap ==
  ASSUME IInv, UNCHANGED map
  PROVE  IsMap(map)' /\ Disjoint' /\ DeltaLeadsBack'
  BY DEF IInv, Typed, IsMap, Disjoint, DeltaLeadsBack

\* The end of a call.
LEMMA ReturnsKeeps ==
  ASSUME IInv, NEW v \in BOOLEAN, Returns(v), IsMap(map)'
  PROVE  Typed' /\ CallDelta'
<1>1. NoCall \in Calls
  BY SpaceType DEF NoCall, NoEntry, Calls, Entries, Addr
<1>2. IsMap(NoMap)
  BY DEF IsMap, NoMap
<1> QED
  BY <1>1, <1>2 DEF Returns, Typed, CallDelta, IInv

\* Another round.
LEMMA RetriesKeeps ==
  ASSUME IInv, NEW c \in Calls, Retries(c), IsMap(map)'
  PROVE  Typed'
  BY DEF Retries, Typed, IInv

\* A sum or difference that is an address does not wrap.
LEMMA WrapAddr == ASSUME NEW x \in Addr PROVE Wrap(x) = x
  BY SpaceType DEF Wrap, Addr

\* The range in the way begins within the new one, or ends there, or both.
LEMMA ConflictBase ==
  ASSUME IInv, NEW k, Conflict(k)
  PROVE  /\ map[k].base <= high
         /\ EndsWithin(k) => k < high
<1>1. k \in DOMAIN map /\ k \in Addr /\ map[k] \in Ranges /\ call.base <= k
  BY ConflictKey DEF IInv
<1>2. \A g \in DOMAIN map : g >= call.base => k <= g
  BY ConflictKey DEF IInv
<1>3. call.base <= high /\ high \in Addr /\ call.base \in Addr
  BY HighPlain DEF IInv, Typed, Conflict
<1>4. map[k].base <= k /\ map[k].base \in Addr
  BY <1>1 DEF IInv, Disjoint, Ranges
<1>5. DOMAIN map \subseteq Addr
  BY DEF IInv, Typed, IsMap
<1>6. ASSUME EndsWithin(k) PROVE k < high
  <2>1. k \notin LowerBound(map, high)
    BY <1>6 DEF EndsWithin
  <2>2. \A g \in DOMAIN map : g >= high => k <= g
    BY <1>2, <1>3, <1>5 DEF Addr
  <2> QED
    BY <1>1, <1>3, <2>1, <2>2 DEF LowerBound, Addr
<1> QED
  BY <1>3, <1>4, <1>1, <1>6 DEF Conflict, BeginsWithin, Addr

\* The new range ends just below the other one.
LEMMA TruncateNewKeeps ==
  ASSUME IInv, NEW k, TruncateNew(k)
  PROVE  IInv'
<1>1. Conflict(k) /\ map' = map /\ calling
  BY DEF TruncateNew, Conflict
<1>2. /\ k \in DOMAIN map /\ map[k].base \in Addr /\ call \in Calls
      /\ call.base \in Addr
  BY <1>1, ConflictKey DEF IInv, Typed, Ranges, Calls
<1>3. map[k].base <= high /\ high = call.base + call.size - 1 /\ high \in Addr
  BY <1>1, ConflictBase, HighPlain DEF IInv, Typed, Conflict
<1>4. map[k].base - call.base \in Addr /\ map[k].base - call.base >= 1
  BY <1>2, SpaceType DEF TruncateNew, Addr
<1>5. call' = [call EXCEPT !.size = map[k].base - call.base]
  BY <1>4, WrapAddr DEF TruncateNew, Retries
<1>6. call' \in Calls
  BY <1>2, <1>4, <1>5 DEF Calls
<1>7. Retries(call')
  BY DEF TruncateNew, Retries
<1>8. IsMap(map)' /\ Disjoint' /\ DeltaLeadsBack'
  BY <1>1, SameMap
<1>9. Typed'
  BY <1>6, <1>7, <1>8, RetriesKeeps
<1>10. call'.base = call.base /\ call'.entry = call.entry
       /\ call'.delta = call.delta /\ call'.size = map[k].base - call.base
  BY <1>2, <1>5 DEF Calls
<1>11. high' = map[k].base - 1
  BY <1>2, <1>3, <1>4, <1>10, SpaceType DEF high, Wrap, Addr
<1>12. CallDelta'
  BY <1>1, <1>2, <1>3, <1>10, <1>11
     DEF CallDelta, IInv, Conflict, Calls, Entries, Addr
<1> QED
  BY <1>8, <1>9, <1>12 DEF IInv

\* The other range keeps its base and its delta and ends just below the new
\* one, where no range can have ended before.
LEMMA TruncateOtherMap ==
  ASSUME IInv, NEW k, TruncateOther(k)
  PROVE  /\ Conflict(k) /\ Retries(call) /\ call \in Calls
         /\ k \in DOMAIN map /\ k \in Addr /\ map[k] \in Ranges
         /\ call.base \in Addr /\ call.base - 1 \in Addr
         /\ map[k].base <= call.base - 1 /\ call.base - 1 < k
         /\ \A g \in DOMAIN map : g >= call.base => k <= g
         /\ \A g \in DOMAIN map : g < k => g < map[k].base
         /\ DOMAIN map' = (DOMAIN map \ {k}) \cup {call.base - 1}
         /\ map'[call.base - 1] = map[k]
         /\ \A g \in DOMAIN map \ {k} : map'[g] = map[g]
<1> DEFINE h == call.base - 1
           m == Erased(map, k)
<1>1. Conflict(k) /\ map[k].base < call.base /\ Retries(call)
  BY DEF TruncateOther
<1>2. /\ k \in DOMAIN map /\ k \in Addr /\ map[k] \in Ranges
      /\ call.base <= k /\ call \in Calls /\ call.base \in Addr
      /\ \A g \in DOMAIN map : g >= call.base => k <= g
  BY <1>1, ConflictKey DEF IInv, Typed, Calls
<1>3. map[k].base \in Addr /\ h \in Addr /\ map[k].base <= h /\ h < k
  <2>1. map[k].base \in Addr
    BY <1>2 DEF Ranges
  <2> QED
    BY <1>1, <1>2, <2>1, SpaceType DEF Addr
<1>4. DOMAIN map \subseteq Addr /\ \A g \in DOMAIN map : map[g] \in Ranges
  BY DEF IInv, Typed, IsMap
<1>5. \A g \in DOMAIN map : g < k => g < map[k].base
  BY <1>2 DEF IInv, Disjoint
<1>6. h \notin DOMAIN map
  BY <1>3, <1>5, <1>4 DEF Addr
<1>7. DOMAIN m = DOMAIN map \ {k} /\ \A g \in DOMAIN m : m[g] = map[g]
  BY ErasedOne
<1>8. map' = Inserted(m, h, map[k])
  <2>1. Wrap(h) = h
    BY <1>3, WrapAddr
  <2> QED
    BY <2>1 DEF TruncateOther
<1>9. /\ DOMAIN map' = (DOMAIN map \ {k}) \cup {h}
      /\ map'[h] = map[k]
      /\ \A g \in DOMAIN map \ {k} : map'[g] = map[g]
  <2>1. h \notin DOMAIN m
    BY <1>6, <1>7
  <2>2. /\ DOMAIN map' = DOMAIN m \cup {h}
        /\ map'[h] = map[k]
        /\ \A g \in DOMAIN m : map'[g] = m[g]
    BY <1>8, <2>1 DEF Inserted
  <2> QED
    BY <1>7, <2>2
<1> QED
  BY <1>1, <1>2, <1>3, <1>5, <1>9

\* So it stays apart from those below and above.
LEMMA TruncateOtherKeeps ==
  ASSUME IInv, NEW k, TruncateOther(k)
  PROVE  IInv'
<1> DEFINE h == call.base - 1
<1>1. Conflict(k) /\ Retries(call)
  BY TruncateOtherMap
<1>2. /\ k \in DOMAIN map /\ k \in Addr /\ map[k] \in Ranges
      /\ call \in Calls /\ call.base \in Addr
      /\ \A g \in DOMAIN map : g >= call.base => k <= g
  BY TruncateOtherMap
<1>3. h \in Addr /\ map[k].base <= h /\ h < k
  BY TruncateOtherMap
<1>4. DOMAIN map \subseteq Addr /\ \A g \in DOMAIN map : map[g] \in Ranges
  BY DEF IInv, Typed, IsMap
<1>5. \A g \in DOMAIN map : g < k => g < map[k].base
  BY TruncateOtherMap
<1>6. /\ DOMAIN map' = (DOMAIN map \ {k}) \cup {h}
      /\ map'[h] = map[k]
      /\ \A g \in DOMAIN map \ {k} : map'[g] = map[g]
  BY TruncateOtherMap
<1>7. IsMap(map)'
  BY <1>2, <1>3, <1>4, <1>6 DEF IsMap
<1>8. Typed'
  BY <1>1, <1>2, <1>7, RetriesKeeps
<1>9. Disjoint'
  <2>1. ASSUME NEW g \in DOMAIN map' PROVE map'[g].base <= g
    BY <1>3, <1>6 DEF IInv, Disjoint
  <2>2. ASSUME NEW g \in DOMAIN map \ {k}, h < g PROVE h < map[g].base
    <3>1. g \in Addr /\ map[g].base \in Addr
      BY <1>4 DEF Ranges
    <3>2. k < g
      BY <1>2, <2>2, <3>1 DEF Addr
    <3>3. k < map[g].base
      BY <1>2, <3>2 DEF IInv, Disjoint
    <3> QED
      BY <1>2, <1>3, <3>1, <3>3 DEF Addr
  <2>3. ASSUME NEW g \in DOMAIN map \ {k}, g < h PROVE g < map[k].base
    <3>1. g \in Addr
      BY <1>4
    <3>2. g < k
      BY <1>2, <1>3, <2>3, <3>1 DEF Addr
    <3> QED
      BY <1>5, <3>2
  <2>4. ASSUME NEW g1 \in DOMAIN map', NEW g2 \in DOMAIN map', g2 < g1
        PROVE  g2 < map'[g1].base
    <3>1. CASE g1 = h
      <4>1. g2 # h
        BY <1>3, <2>4, <3>1 DEF Addr
      <4> QED
        BY <1>6, <2>3, <2>4, <3>1, <4>1
    <3>2. CASE g1 # h /\ g2 = h
      BY <1>6, <2>2, <2>4, <3>2
    <3>3. CASE g1 # h /\ g2 # h
      BY <1>6, <2>4, <3>3 DEF IInv, Disjoint
    <3> QED
      BY <3>1, <3>2, <3>3
  <2> QED
    BY <2>1, <2>4 DEF Disjoint
<1>10. DeltaLeadsBack'
  <2>1. h <= map[k].entry.high
    BY <1>2, <1>3 DEF IInv, DeltaLeadsBack, Ranges, Entries, Addr
  <2> QED
    BY <1>2, <1>6, <2>1 DEF IInv, DeltaLeadsBack
<1>11. CallDelta'
  BY <1>1 DEF Retries, CallDelta, IsRange, high, IInv
<1> QED
  BY <1>8, <1>9, <1>10, <1>11 DEF IInv

\* The new range moves up past the other one, which ends below its end, and
\* delta moves with it.
LEMMA SkipBelowKeeps ==
  ASSUME IInv, NEW k, SkipBelow(k)
  PROVE  IInv'
<1> DEFINE d == k - call.base + 1
<1>1. /\ Conflict(k) /\ EndsWithin(k) /\ map' = map
      /\ calling /\ calling' /\ IsRange
  BY DEF SkipBelow, Conflict, Retries
<1>2. /\ k \in Addr /\ call.base <= k /\ k < high
      /\ high = call.base + call.size - 1 /\ high \in Addr
  BY <1>1, ConflictKey, ConflictBase, HighPlain DEF IInv, Typed
<1>3. /\ call \in Calls /\ call.base \in Addr /\ call.size \in Addr
      /\ call.delta \in Addr /\ call.entry.base \in Addr
  BY DEF IInv, Typed, Calls, Entries
<1>4. call.base = call.entry.base + call.delta /\ high <= call.entry.high
  BY <1>1 DEF IInv, CallDelta
<1>5. /\ k - call.base \in Addr /\ d \in Addr /\ call.base + d = k + 1
      /\ k + 1 \in Addr /\ call.delta + d \in Addr
      /\ call.size - d \in Addr /\ call.size - d >= 1
  BY <1>2, <1>3, <1>4, SpaceType DEF Addr
<1>6. Wrap(Wrap(k - call.base) + 1) = d
  <2>1. Wrap(k - call.base) = k - call.base /\ Wrap(d) = d
    BY <1>5, WrapAddr
  <2> QED
    BY <2>1
<1>7. /\ Wrap(call.base + d) = k + 1
      /\ Wrap(call.delta + d) = call.delta + d
      /\ Wrap(call.size - d) = call.size - d
  BY <1>5, WrapAddr
<1>8. call' = [call EXCEPT !.base = k + 1, !.delta = call.delta + d,
                           !.size = call.size - d]
  BY <1>6, <1>7 DEF SkipBelow, Retries
<1>9. call' \in Calls
  BY <1>3, <1>5, <1>8 DEF Calls
<1>10. Retries(call')
  BY DEF SkipBelow, Retries
<1>11. IsMap(map)' /\ Disjoint' /\ DeltaLeadsBack'
  BY <1>1, SameMap
<1>12. Typed'
  BY <1>9, <1>10, <1>11, RetriesKeeps
<1>13. /\ call'.base = k + 1 /\ call'.delta = call.delta + d
       /\ call'.size = call.size - d /\ call'.entry = call.entry
  BY <1>3, <1>8 DEF Calls
<1>14. high' = high
  <2>1. call.size - d - 1 \in Addr /\ k + 1 + (call.size - d - 1) = high
    BY <1>2, <1>3, <1>5, SpaceType DEF Addr
  <2>2. Wrap(call.size - d - 1) = call.size - d - 1 /\ Wrap(high) = high
    BY <1>2, <2>1, WrapAddr
  <2>3. high' = Wrap(k + 1 + Wrap(call.size - d - 1))
    BY <1>13 DEF high
  <2> QED
    BY <2>1, <2>2, <2>3
<1>15. CallDelta'
  BY <1>2, <1>3, <1>4, <1>5, <1>13, <1>14 DEF CallDelta, Addr
<1> QED
  BY <1>11, <1>12, <1>15 DEF IInv

\* The other range keeps its end and begins just above the new one.
LEMMA ShrinkOtherMap ==
  ASSUME IInv, NEW k, ShrinkOther(k)
  PROVE  /\ Conflict(k) /\ Retries(call) /\ call \in Calls
         /\ k \in DOMAIN map /\ k \in Addr /\ high \in Addr
         /\ high < k /\ map[k].base <= high
         /\ DOMAIN map' = DOMAIN map
         /\ map'[k] \in Ranges
         /\ map'[k].base = high + 1
         /\ map'[k].delta = map[k].delta + (high - map[k].base + 1)
         /\ map'[k].entry = map[k].entry
         /\ \A g \in DOMAIN map \ {k} : map'[g] = map[g]
<1> DEFINE d == high - map[k].base + 1
           r == [map[k] EXCEPT !.base = high + 1, !.delta = map[k].delta + d]
           m == Erased(map, k)
<1>1. Conflict(k) /\ BeginsWithin(k) /\ Retries(call) /\ k > high
  BY DEF ShrinkOther, Conflict
<1>2. /\ k \in DOMAIN map /\ k \in Addr /\ map[k] \in Ranges
      /\ call \in Calls /\ high \in Addr /\ map[k].base <= high
  BY <1>1, ConflictKey, HighPlain DEF IInv, Typed, Conflict, BeginsWithin
<1>3. /\ map[k].base \in Addr /\ map[k].delta \in Addr
      /\ map[k].entry \in Entries /\ map[k].entry.base \in Addr
  BY <1>2 DEF Ranges, Entries
<1>4. DOMAIN map \subseteq Addr /\ \A g \in DOMAIN map : map[g] \in Ranges
  BY DEF IInv, Typed, IsMap
<1>5. map[k].base - map[k].delta = map[k].entry.base /\ k <= map[k].entry.high
  BY <1>2 DEF IInv, DeltaLeadsBack
<1>6. /\ high - map[k].base \in Addr /\ d \in Addr
      /\ map[k].base + d = high + 1 /\ high + 1 \in Addr
      /\ map[k].delta + d \in Addr /\ high + 1 <= k
  BY <1>1, <1>2, <1>3, <1>5, SpaceType DEF Addr
<1>7. map' = Inserted(m, k, r)
  <2>1. Wrap(high - map[k].base) = high - map[k].base /\ Wrap(d) = d
    BY <1>6, WrapAddr
  <2>2. Wrap(map[k].base + d) = high + 1 /\ Wrap(map[k].delta + d) = map[k].delta + d
    BY <1>6, WrapAddr
  <2>3. Wrap(Wrap(high - map[k].base) + 1) = d
    BY <2>1
  <2> QED
    BY <2>2, <2>3 DEF ShrinkOther
<1>8. /\ r \in Ranges /\ r.base = high + 1 /\ r.delta = map[k].delta + d
      /\ r.entry = map[k].entry
  BY <1>2, <1>3, <1>6 DEF Ranges
<1>9. /\ DOMAIN map' = DOMAIN map
      /\ map'[k] = r
      /\ \A g \in DOMAIN map \ {k} : map'[g] = map[g]
  <2>1. DOMAIN m = DOMAIN map \ {k} /\ \A g \in DOMAIN m : m[g] = map[g]
    BY ErasedOne
  <2>2. /\ DOMAIN map' = DOMAIN m \cup {k}
        /\ map'[k] = r
        /\ \A g \in DOMAIN m : map'[g] = m[g]
    BY <1>7, <2>1 DEF Inserted
  <2> QED
    BY <1>2, <2>1, <2>2
<1> QED
  BY <1>1, <1>2, <1>8, <1>9 DEF Addr

\* It is all that changes, and it has become smaller.
LEMMA ShrinkOtherKeeps ==
  ASSUME IInv, NEW k, ShrinkOther(k)
  PROVE  IInv'
<1>1. /\ Retries(call) /\ call \in Calls /\ k \in DOMAIN map /\ k \in Addr
      /\ high \in Addr /\ high < k /\ map[k].base <= high
  BY ShrinkOtherMap
<1>2. /\ DOMAIN map' = DOMAIN map
      /\ map'[k] \in Ranges
      /\ map'[k].base = high + 1
      /\ map'[k].delta = map[k].delta + (high - map[k].base + 1)
      /\ map'[k].entry = map[k].entry
      /\ \A g \in DOMAIN map \ {k} : map'[g] = map[g]
  BY ShrinkOtherMap
<1>3. DOMAIN map \subseteq Addr /\ \A g \in DOMAIN map : map[g] \in Ranges
  BY DEF IInv, Typed, IsMap
<1>4. IsMap(map)'
  BY <1>2, <1>3 DEF IsMap
<1>5. Typed'
  BY <1>1, <1>4, RetriesKeeps
<1>6. Disjoint'
  <2>1. high + 1 <= k
    BY <1>1 DEF Addr
  <2>2. ASSUME NEW g \in DOMAIN map' PROVE map'[g].base <= g
    BY <1>2, <2>1 DEF IInv, Disjoint
  <2>3. ASSUME NEW g \in DOMAIN map, g < k PROVE g < high + 1
    <3>1. g < map[k].base /\ g \in Addr /\ map[k].base \in Addr
      BY <1>1, <1>3, <2>3 DEF IInv, Disjoint, Ranges
    <3> QED
      BY <1>1, <3>1 DEF Addr
  <2>4. ASSUME NEW g1 \in DOMAIN map', NEW g2 \in DOMAIN map', g2 < g1
        PROVE  g2 < map'[g1].base
    <3>1. CASE g1 = k
      BY <1>2, <2>3, <2>4, <3>1
    <3>2. CASE g1 # k
      BY <1>2, <2>4, <3>2 DEF IInv, Disjoint
    <3> QED
      BY <3>1, <3>2
  <2> QED
    BY <2>2, <2>4 DEF Disjoint
<1>7. DeltaLeadsBack'
  <2>1. map[k].base - map[k].delta = map[k].entry.base /\ k <= map[k].entry.high
    BY <1>1 DEF IInv, DeltaLeadsBack
  <2>2. /\ map[k].base \in Int /\ map[k].delta \in Int
        /\ map[k].entry.base \in Int /\ high \in Int
    BY <1>1, <1>3 DEF Ranges, Entries, Addr
  <2>3. map'[k].base - map'[k].delta = map'[k].entry.base
    BY <1>2, <2>1, <2>2
  <2>4. k <= map'[k].entry.high
    BY <1>2, <2>1
  <2> QED
    BY <1>2, <2>3, <2>4 DEF IInv, DeltaLeadsBack
<1>8. CallDelta'
  BY <1>1 DEF Retries, CallDelta, IsRange, high, IInv
<1> QED
  BY <1>5, <1>6, <1>7, <1>8 DEF IInv

\* Nothing stands in the way: the new range goes where there was none.
LEMMA InsertMap ==
  ASSUME IInv, NEW k, Insert(k)
  PROVE  /\ calling /\ IsRange /\ ~calling' /\ result' /\ Returns(TRUE)
         /\ call.base \in Addr /\ high \in Addr
         /\ call.base \in Nat /\ high \in Nat /\ call.base <= high
         /\ \A g \in DOMAIN map : g < call.base \/ high < map[g].base
         /\ high \notin DOMAIN map
         /\ DOMAIN map' = DOMAIN map \cup {high}
         /\ map'[high] = [base |-> call.base, delta |-> call.delta, entry |-> call.entry]
         /\ map'[high].base = call.base /\ map'[high].entry = call.entry
         /\ \A g \in DOMAIN map : map'[g] = map[g]
<1> DEFINE r == [base |-> call.base, delta |-> call.delta, entry |-> call.entry]
<1>1. /\ calling /\ IsRange /\ map' = Inserted(map, high, r) /\ Returns(TRUE)
      /\ k # End => map[k].base > high
  BY DEF Insert
<1>2. /\ call \in Calls /\ high \in Addr /\ call.base \in Addr
      /\ call.base <= high
  BY <1>1, HighPlain DEF IInv, Typed
<1>3. DOMAIN map \subseteq Addr /\ \A g \in DOMAIN map : map[g] \in Ranges
  BY DEF IInv, Typed, IsMap
<1>5. /\ k \in DOMAIN map \cup {End} /\ k >= high
      /\ \A g \in DOMAIN map : g >= call.base => k <= g
  BY LowerBoundLeast DEF Insert
<1>6. \A g \in DOMAIN map : map[g].base <= g /\ map[g].base \in Addr
  BY <1>3 DEF IInv, Disjoint, Ranges
<1>7. ASSUME NEW g \in DOMAIN map
      PROVE  g < call.base \/ high < map[g].base
  <2>1. g \in Addr /\ map[g].base \in Addr
    BY <1>3, <1>6
  <2>2. CASE g < call.base
    BY <2>2
  <2>3. CASE g >= call.base
    <3>1. k <= g /\ k # End /\ k \in DOMAIN map /\ k \in Addr
      <4>1. k <= g
        BY <1>5, <2>3
      <4>2. k # End
        BY <2>1, <4>1, SpaceType DEF End, Addr
      <4> QED
        BY <1>3, <1>5, <4>1, <4>2
    <3>2. map[k].base > high /\ map[k].base \in Addr
      BY <1>1, <1>6, <3>1
    <3>3. CASE g = k
      BY <3>2, <3>3, <1>2 DEF Addr
    <3>4. CASE g # k
      <4>1. k < map[g].base
        BY <2>1, <3>1, <3>4 DEF IInv, Disjoint, Addr
      <4>2. k \in Int /\ high \in Int /\ map[g].base \in Int
        BY <1>2, <2>1, <3>1 DEF Addr
      <4> QED
        BY <1>5, <4>1, <4>2
    <3> QED
      BY <3>3, <3>4
  <2> QED
    BY <1>2, <2>1, <2>2, <2>3 DEF Addr
<1>8. high \notin DOMAIN map
  BY <1>2, <1>6, <1>7 DEF Addr
<1>9. /\ DOMAIN map' = DOMAIN map \cup {high}
      /\ map'[high] = r
      /\ \A g \in DOMAIN map : map'[g] = map[g]
  BY <1>1, <1>8 DEF Inserted
<1> QED
  BY <1>1, <1>2, <1>7, <1>8, <1>9, SpaceType DEF Returns, Addr

\* The new range goes where lower_bound finds no range that ends or begins
\* within it, so its key is new and it meets no other range.
LEMMA InsertKeeps ==
  ASSUME IInv, NEW k, Insert(k)
  PROVE  IInv'
<1> DEFINE r == [base |-> call.base, delta |-> call.delta, entry |-> call.entry]
<1>1. calling /\ IsRange /\ Returns(TRUE)
  BY InsertMap
<1>2. /\ call \in Calls /\ high \in Addr /\ call.base \in Addr
      /\ call.base <= high
  BY InsertMap DEF IInv, Typed
<1>3. DOMAIN map \subseteq Addr /\ \A g \in DOMAIN map : map[g] \in Ranges
  BY DEF IInv, Typed, IsMap
<1>4. r \in Ranges
  BY <1>2 DEF Calls, Ranges
<1>6. \A g \in DOMAIN map : map[g].base <= g /\ map[g].base \in Addr
  BY <1>3 DEF IInv, Disjoint, Ranges
<1>7. \A g \in DOMAIN map : g < call.base \/ high < map[g].base
  BY InsertMap
<1>9. /\ DOMAIN map' = DOMAIN map \cup {high}
      /\ map'[high] = r
      /\ \A g \in DOMAIN map : map'[g] = map[g]
  BY InsertMap
<1>10. IsMap(map)'
  BY <1>2, <1>3, <1>4, <1>9 DEF IsMap
<1>11. Typed' /\ CallDelta'
  BY <1>1, <1>10, ReturnsKeeps
<1>12. Disjoint'
  <2>1. ASSUME NEW g \in DOMAIN map' PROVE map'[g].base <= g
    BY <1>2, <1>6, <1>9
  <2>2. ASSUME NEW g1 \in DOMAIN map', NEW g2 \in DOMAIN map', g2 < g1
        PROVE  g2 < map'[g1].base
    <3>1. CASE g1 = high
      <4>1. g2 \in DOMAIN map /\ g2 \in Addr
        BY <1>2, <1>3, <1>9, <2>2, <3>1 DEF Addr
      <4>2. map[g2].base <= g2 /\ map[g2].base \in Addr
        BY <1>6, <4>1
      <4>3. g2 < call.base
        BY <1>2, <1>7, <2>2, <3>1, <4>1, <4>2 DEF Addr
      <4> QED
        BY <1>9, <3>1, <4>3
    <3>2. CASE g1 # high /\ g2 = high
      <4>1. g1 \in DOMAIN map /\ g1 \in Addr
        BY <1>3, <1>9, <3>2
      <4>2. high < map[g1].base
        BY <1>2, <1>7, <2>2, <3>2, <4>1 DEF Addr
      <4> QED
        BY <1>9, <3>2, <4>1, <4>2
    <3>3. CASE g1 # high /\ g2 # high
      BY <1>9, <2>2, <3>3 DEF IInv, Disjoint
    <3> QED
      BY <3>1, <3>2, <3>3
  <2> QED
    BY <2>1, <2>2 DEF Disjoint
<1>13. DeltaLeadsBack'
  <2>1. call.base = call.entry.base + call.delta /\ high <= call.entry.high
    BY <1>1 DEF IInv, CallDelta
  <2>2. call.delta \in Int /\ call.entry.base \in Int /\ call.base \in Int
    BY <1>2 DEF Calls, Entries, Addr
  <2> QED
    BY <1>9, <2>1, <2>2 DEF IInv, DeltaLeadsBack
<1> QED
  BY <1>11, <1>12, <1>13 DEF IInv

\* StoreRange asks for a range; if it does not wrap its entry is named by it.
LEMMA StoreRangeKeeps ==
  ASSUME IInv, NEW base \in Addr, NEW size \in Addr, StoreRange(base, size)
  PROVE  IInv'
<1>1. Wrap(base + size - 1) \in Addr
  BY SpaceType DEF Wrap, Addr
<1>2. /\ call' \in Calls /\ call'.base = base /\ call'.delta = 0
      /\ call'.size = size /\ call'.entry \in Entries
      /\ call'.entry.base = base
      /\ call'.entry.high = Wrap(base + size - 1)
  BY <1>1, SpaceType DEF StoreRange, Calls, Entries, Addr
<1>3. IsMap(map)' /\ Disjoint' /\ DeltaLeadsBack'
  BY SameMap DEF StoreRange
<1>4. Typed'
  BY <1>2, <1>3 DEF StoreRange, Typed, IInv
<1>5. CallDelta'
  BY <1>2, SpaceType DEF CallDelta, IsRange, high, Wrap, Addr
<1> QED
  BY <1>3, <1>4, <1>5 DEF IInv

\* One case for each operation and each way a round can go.
LEMMA NextIInv == IInv /\ [Next]_vars => IInv'
<1> SUFFICES ASSUME IInv, [Next]_vars PROVE IInv'
  OBVIOUS
<1>1. ASSUME NEW s \in Strategies, SetMergeStrategy(s) PROVE IInv'
  <2>1. UNCHANGED map
    BY <1>1 DEF SetMergeStrategy
  <2> QED
    BY <1>1, <2>1, SameMap
       DEF SetMergeStrategy, IInv, Typed, CallDelta, IsRange, high
<1>2. CASE Clear
  BY <1>2 DEF Clear, NoMap, IInv, Typed, IsMap, Disjoint, DeltaLeadsBack,
     CallDelta, IsRange, high
<1>3. ASSUME NEW base \in Addr, NEW size \in Addr, StoreRange(base, size)
      PROVE  IInv'
  BY <1>3, StoreRangeKeeps
<1>4. ASSUME UNCHANGED map, Returns(FALSE) PROVE IInv'
  BY <1>4, SameMap, ReturnsKeeps DEF IInv
<1>5. CASE RejectSize
  BY <1>4, <1>5 DEF RejectSize
<1>6. ASSUME NEW k, Exclude(k) \/ RefuseSameBase(k) \/ RefuseCovered(k)
      PROVE  IInv'
  BY <1>4, <1>6 DEF Exclude, RefuseSameBase, RefuseCovered
<1>7. ASSUME NEW k, \/ TruncateNew(k) \/ TruncateOther(k) \/ SkipBelow(k)
                   \/ ShrinkOther(k) \/ Insert(k)
      PROVE  IInv'
  BY <1>7, TruncateNewKeeps, TruncateOtherKeeps, SkipBelowKeeps,
     ShrinkOtherKeeps, InsertKeeps
<1>8. CASE UNCHANGED vars
  <2>1. UNCHANGED map
    BY <1>8 DEF vars
  <2> QED
    BY <1>8, <2>1, SameMap DEF vars, IInv, Typed, CallDelta, IsRange, high
<1> QED
  BY <1>1, <1>2, <1>3, <1>5, <1>6, <1>7, <1>8 DEF Next, StoreRangeInternal

\* IInv holds between any two rounds.
LEMMA Inductive == Spec => []IInv
  BY InitIInv, NextIInv, PTL DEF Spec

\* Of an entry in the map, and of the range asked for, no sum has wrapped.
LEMMA NoSumWraps == IInv => NothingWraps
<1> SUFFICES ASSUME IInv PROVE NothingWraps
  OBVIOUS
<1>1. \A h \in DOMAIN map : map[h].delta <= map[h].base /\ map[h].base <= h
  BY SpaceType DEF IInv, Typed, IsMap, Ranges, Entries, Addr, Disjoint, DeltaLeadsBack
<1>2. calling /\ IsRange =>
        /\ call.base = call.entry.base + call.delta
        /\ high = call.base + call.size - 1
        /\ high <= call.entry.high
  BY HighPlain DEF IInv, Typed, CallDelta
<1> QED
  BY <1>1, <1>2 DEF NothingWraps

\* map_ always maps addresses to ranges of addresses, and no sum of a base, a
\* delta and a size has wrapped on the way: of a range in the map the delta is
\* no more than the base and the base no more than the high address, and what
\* is left of a range asked for begins delta above where it began and ends no
\* higher than it ended.
THEOREM TypeCorrect == Spec => []TypeOK
<1>1. IInv => TypeOK
  BY NoSumWraps DEF IInv, TypeOK
<1> QED
  BY Inductive, <1>1, PTL

\* No address ever belongs to two ranges, under any of the three strategies,
\* changes of strategy included, and in the middle of a StoreRange.
THEOREM NeverOverlap == Spec => []Disjoint
<1>1. IInv => Disjoint
  BY DEF IInv
<1> QED
  BY Inductive, <1>1, PTL

\* A range knows where it began, however often and by whom it was shrunk.
THEOREM DeltaIsRight == Spec => []DeltaLeadsBack
<1>1. IInv => DeltaLeadsBack
  BY DEF IInv
<1> QED
  BY Inductive, <1>1, PTL
-----------------------------------------------------------------------------
\* Once a round has changed another range there is room for the new one: the
\* rounds that follow cannot refuse it any more.
Room ==
  \/ /\ strategy = "kTruncateLower"
     /\ \A g \in DOMAIN map : map[g].base <= call.base => g < call.base
  \/ /\ strategy = "kTruncateUpper"
     /\ \A g \in DOMAIN map : g < call.base \/ high < map[g].base

ChangedHasRoom == calling => map = before \/ (IsRange /\ Room)

\* A range is refused only where there is none.
LEMMA RefusalHasNoRoom ==
  ASSUME IInv, NEW k,
         RejectSize \/ Exclude(k) \/ RefuseSameBase(k) \/ RefuseCovered(k)
  PROVE  ~(IsRange /\ Room)
<1>1. CASE RejectSize
  BY <1>1 DEF RejectSize
<1>2. CASE Exclude(k)
  BY <1>2 DEF Exclude, Room
<1>3. CASE RefuseSameBase(k)
  <2>1. /\ k \in DOMAIN map /\ k \in Addr /\ call.base \in Addr
        /\ call.base <= k /\ map[k].base = call.base
    BY <1>3, ConflictKey DEF RefuseSameBase, IInv, Typed, Calls
  <2> QED
    BY <1>3, <2>1 DEF RefuseSameBase, Room, Addr
<1>4. CASE RefuseCovered(k)
  <2>1. Conflict(k)
    BY <1>4 DEF RefuseCovered, Conflict
  <2>2. /\ k \in DOMAIN map /\ k \in Addr /\ call.base \in Addr
        /\ call.base <= k /\ map[k].base <= high
        /\ map[k].base \in Addr /\ high \in Addr
    BY <2>1, ConflictKey, ConflictBase, HighPlain
       DEF IInv, Typed, Calls, Conflict, Ranges
  <2> QED
    BY <1>4, <2>2 DEF RefuseCovered, Room, Addr
<1> QED
  BY <1>1, <1>2, <1>3, <1>4

\* TruncateOther takes away the only range that reaches over the new base.
LEMMA TruncateOtherMakesRoom ==
  ASSUME IInv, NEW k, TruncateOther(k)
  PROVE  (IsRange /\ Room)'
<1>1. /\ Conflict(k) /\ Retries(call) /\ call.base \in Addr
      /\ k \in DOMAIN map /\ k \in Addr /\ call.base - 1 < k
      /\ \A g \in DOMAIN map : g >= call.base => k <= g
      /\ DOMAIN map' = (DOMAIN map \ {k}) \cup {call.base - 1}
      /\ \A g \in DOMAIN map \ {k} : map'[g] = map[g]
  BY TruncateOtherMap
<1>2. /\ call' = call /\ high' = high /\ IsRange'
      /\ strategy' = "kTruncateLower"
  BY <1>1 DEF Conflict, Retries, TruncateOther, IsRange, high
<1>3. ASSUME NEW g \in DOMAIN map', map'[g].base <= call.base
      PROVE  g < call.base
  <2>1. CASE g = call.base - 1
    BY <1>1, <2>1 DEF Addr
  <2>2. CASE g # call.base - 1
    <3>1. g \in DOMAIN map /\ g # k /\ g \in Addr /\ map[g].base <= call.base
      BY <1>1, <1>3, <2>2 DEF IInv, Typed, IsMap
    <3>2. map[g].base \in Addr
      BY <3>1 DEF IInv, Typed, IsMap, Ranges
    <3>3. ASSUME g >= call.base PROVE FALSE
      <4>1. k < g
        BY <1>1, <3>1, <3>3 DEF Addr
      <4>2. k < map[g].base
        BY <1>1, <3>1, <4>1 DEF IInv, Disjoint
      <4> QED
        BY <1>1, <3>1, <3>2, <4>2 DEF Addr
    <3> QED
      BY <1>1, <3>1, <3>3 DEF Addr
  <2> QED
    BY <2>1, <2>2
<1> QED
  BY <1>2, <1>3 DEF Room

\* ShrinkOther moves the only range that begins within the new one out of it.
LEMMA ShrinkOtherMakesRoom ==
  ASSUME IInv, NEW k, ShrinkOther(k)
  PROVE  (IsRange /\ Room)'
<1>1. /\ Conflict(k) /\ Retries(call) /\ k \in DOMAIN map /\ k \in Addr
      /\ high \in Addr /\ high < k
      /\ DOMAIN map' = DOMAIN map /\ map'[k].base = high + 1
      /\ \A g \in DOMAIN map \ {k} : map'[g] = map[g]
  BY ShrinkOtherMap
<1>2. /\ call' = call /\ high' = high /\ IsRange'
      /\ strategy' = "kTruncateUpper"
  BY <1>1 DEF Conflict, Retries, ShrinkOther, IsRange, high
<1>3. \A g \in DOMAIN map : g >= call.base => k <= g
  BY <1>1, ConflictKey DEF IInv
<1>4. call.base \in Addr
  BY DEF IInv, Typed, Calls
<1>5. ASSUME NEW g \in DOMAIN map'
      PROVE  g < call.base \/ high < map'[g].base
  <2>1. g \in DOMAIN map /\ g \in Addr
    BY <1>1 DEF IInv, Typed, IsMap
  <2>2. CASE g < k
    BY <1>3, <1>4, <2>1, <2>2, <1>1 DEF Addr
  <2>3. CASE g = k
    BY <1>1, <2>3 DEF Addr
  <2>4. CASE g > k
    <3>1. k < map[g].base /\ map[g].base \in Addr
      BY <1>1, <2>1, <2>4 DEF IInv, Typed, IsMap, Disjoint, Ranges
    <3> QED
      BY <1>1, <2>1, <2>4, <3>1 DEF Addr
  <2> QED
    BY <1>1, <2>1, <2>2, <2>3, <2>4 DEF Addr
<1> QED
  BY <1>2, <1>5 DEF Room

\* Shortening the new range leaves its base, so it leaves the room it has.
LEMMA TruncateNewKeepsRoom ==
  ASSUME IInv, NEW k, TruncateNew(k), Room
  PROVE  (IsRange /\ Room)'
<1>1. /\ Conflict(k) /\ map' = map /\ strategy' = strategy
      /\ strategy = "kTruncateLower"
  BY DEF TruncateNew, Retries
<1>2. /\ map[k] \in Ranges /\ call \in Calls /\ call.base \in Addr
      /\ map[k].base \in Addr /\ call.base < map[k].base
  BY <1>1, ConflictKey DEF IInv, Typed, Ranges, Calls, TruncateNew
<1>3. map[k].base - call.base \in Addr /\ map[k].base - call.base >= 1
  BY <1>2, SpaceType DEF Addr
<1>4. call'.base = call.base /\ call'.size = map[k].base - call.base
  BY <1>2, <1>3, WrapAddr DEF TruncateNew, Retries, Calls
<1>5. IsRange'
  BY <1>2, <1>3, <1>4, SpaceType DEF IsRange, high, Wrap, Addr
<1> QED
  BY <1>1, <1>4, <1>5 DEF Room

\* Nothing that ends within the new range is left to move it past.
LEMMA SkipBelowHasNoRoom ==
  ASSUME IInv, NEW k, SkipBelow(k)
  PROVE  ~Room
<1>1. Conflict(k) /\ EndsWithin(k) /\ strategy = "kTruncateUpper"
  BY DEF SkipBelow, Conflict
<1>2. /\ k \in DOMAIN map /\ k \in Addr /\ map[k] \in Ranges
      /\ call.base <= k /\ k < high /\ map[k].base <= high
      /\ map[k].base \in Addr /\ high \in Addr /\ call.base \in Addr
  BY <1>1, ConflictKey, ConflictBase, HighPlain
     DEF IInv, Typed, Calls, Conflict, Ranges
<1> QED
  BY <1>1, <1>2 DEF Room, Addr

\* Room is made once and kept until the range is stored.
LEMMA NextChangedHasRoom ==
  ASSUME IInv, ChangedHasRoom, [Next]_vars
  PROVE  /\ ChangedHasRoom'
         /\ calling /\ ~calling' /\ ~result' => map' = before
<1> USE DEF ChangedHasRoom
<1>1. ASSUME (\E s \in Strategies : SetMergeStrategy(s)) \/ Clear
             \/ (\E base, size \in Addr : StoreRange(base, size))
      PROVE  ~calling /\ ChangedHasRoom'
  BY <1>1 DEF SetMergeStrategy, Clear, StoreRange
<1>2. CASE UNCHANGED vars
  BY <1>2 DEF vars, IsRange, high, Room
<1>3. ASSUME calling, NEW k,
             RejectSize \/ Exclude(k) \/ RefuseSameBase(k) \/ RefuseCovered(k)
      PROVE  ~calling' /\ map' = before
  <2>1. map' = map /\ ~calling'
    BY <1>3 DEF RejectSize, Exclude, RefuseSameBase, RefuseCovered, Returns
  <2> QED
    BY <1>3, <2>1, RefusalHasNoRoom
<1>4. ASSUME calling, NEW k, TruncateNew(k) \/ SkipBelow(k)
      PROVE  ChangedHasRoom' /\ calling'
  <2>1. map' = map /\ before' = before /\ calling'
    BY <1>4 DEF TruncateNew, SkipBelow, Retries
  <2>2. CASE map = before
    BY <2>1, <2>2
  <2>3. CASE map # before
    BY <1>4, <2>3, TruncateNewKeepsRoom, SkipBelowHasNoRoom, <2>1
  <2> QED
    BY <2>2, <2>3
<1>5. ASSUME calling, NEW k, TruncateOther(k) \/ ShrinkOther(k)
      PROVE  ChangedHasRoom' /\ calling'
  <2>1. calling'
    BY <1>5 DEF TruncateOther, ShrinkOther, Retries
  <2> QED
    BY <1>5, <2>1, TruncateOtherMakesRoom, ShrinkOtherMakesRoom
<1>6. ASSUME calling, NEW k, Insert(k)
      PROVE  ~calling' /\ result'
  BY <1>6 DEF Insert, Returns
<1>7. ASSUME StoreRangeInternal PROVE calling
  BY <1>7 DEF StoreRangeInternal, RejectSize, Exclude, TruncateNew,
     TruncateOther, RefuseSameBase, SkipBelow, ShrinkOther, RefuseCovered,
     Insert, Conflict
<1> QED
  BY <1>1, <1>2, <1>3, <1>4, <1>5, <1>6, <1>7 DEF Next, StoreRangeInternal

\* A StoreRange that returns false has not touched the map: the ranges that
\* rounds before the last one truncate or shrink are given up only for a new
\* range that is then stored.
THEOREM FailuresLeaveNoTrace == Spec => FailureChangesNothing
<1>1. Init => ChangedHasRoom
  BY DEF Init, ChangedHasRoom
<1>2. IInv /\ ChangedHasRoom /\ [Next]_vars => ChangedHasRoom'
  BY NextChangedHasRoom
<1>3. IInv /\ ChangedHasRoom /\ [Next]_vars =>
        [calling /\ ~calling' /\ ~result' => map' = before]_vars
  BY NextChangedHasRoom
<1> QED
  BY <1>1, <1>2, <1>3, Inductive, PTL DEF Spec, FailureChangesNothing
-----------------------------------------------------------------------------
\* A set of addresses has a least one: map_ is ordered, so that lower_bound
\* and upper_bound return something.
LEMMA LeastOne ==
  ASSUME NEW T \in SUBSET Nat, T # {}
  PROVE  \E x \in T : \A y \in T : x <= y
<1> DEFINE Below == {ss \in Nat \X Nat : ss[1] < ss[2]}
<1>1. IsWellFoundedOn(Below, Nat)
  BY NatLessThanWellFounded DEF OpToRel
<1>2. PICK x \in T : \A y \in T : ~ (<<y, x>> \in Below)
  <2> HIDE DEF Below
  <2> QED
    BY <1>1, WFMin
<1>3. ASSUME NEW y \in T PROVE x <= y
  <2>1. x \in Nat /\ y \in Nat
    OBVIOUS
  <2>2. ~(y < x)
    BY <1>2, <2>1
  <2> QED
    BY <2>1, <2>2
<1> QED
  BY <1>3

\* What the lookups need to know of the map: its keys and bases are
\* addresses, and its ranges are not empty and do not meet.
LEMMA RangesOf ==
  ASSUME IInv
  PROVE  /\ DOMAIN map \subseteq Nat
         /\ \A h \in DOMAIN map :
              /\ h < Space
              /\ map[h].base \in Nat
              /\ map[h].base <= h
         /\ \A g, h \in DOMAIN map : g < h => g < map[h].base
BY SpaceType DEF IInv, Typed, IsMap, Disjoint, Ranges, Addr

\* upper_bound returns end() or a range.
LEMMA UpperBoundExists ==
  ASSUME IInv, NEW a \in Addr
  PROVE  \E u \in UpperBound(map, a) : u \in Nat /\ u > a
<1> DEFINE T == {k \in DOMAIN map \cup {End} : k > a}
<1>1. DOMAIN map \subseteq Nat /\ End \in Nat /\ End > a /\ a \in Nat
  BY RangesOf, SpaceType DEF End, Addr
<1>2. T \in SUBSET Nat /\ End \in T
  BY <1>1
<1>3. PICK u \in T : \A y \in T : u <= y
  <2> HIDE DEF T
  <2> QED
    BY <1>2, LeastOne
<1>4. u \in UpperBound(map, a)
  BY <1>3 DEF UpperBound
<1> QED
  BY <1>1, <1>3, <1>4

\* RetrieveRange finds the ranges that have the address, and nothing else.
LEMMA RetrieveRangeFinds ==
  ASSUME IInv, NEW a \in Addr
  PROVE  RetrieveRange(a) = {h \in DOMAIN map : Covers(map, h, a)}
<1>1. a \in Nat
  BY SpaceType DEF Addr
<1>2. ASSUME NEW k \in RetrieveRange(a)
      PROVE  k \in DOMAIN map /\ Covers(map, k, a)
  <2>1. k \in DOMAIN map /\ k >= a /\ map[k].base <= a
    BY <1>2 DEF RetrieveRange, LowerBound
  <2> QED
    BY <2>1, <1>1, RangesOf DEF Covers
<1>3. ASSUME NEW h \in DOMAIN map, Covers(map, h, a)
      PROVE  h \in RetrieveRange(a)
  <2>1. map[h].base <= a /\ h >= a /\ h \in Nat /\ h # End
    BY <1>1, <1>3, RangesOf DEF Covers, End
  <2>2. ASSUME NEW g \in DOMAIN map, g >= a PROVE h <= g
    BY <1>1, <2>1, <2>2, RangesOf
  <2> QED
    BY <2>1, <2>2 DEF RetrieveRange, LowerBound
<1> QED
  BY <1>2, <1>3

HighestBaseNotAbove(a) ==
  {h \in DOMAIN map :
     /\ map[h].base <= a
     /\ \A g \in DOMAIN map : map[g].base <= a => map[g].base <= map[h].base}

\* The range the address lies in is the last one that does not begin above.
LEMMA NearestIsTheOne ==
  ASSUME IInv, NEW a \in Addr, RetrieveRange(a) # {}
  PROVE  RetrieveRange(a) = HighestBaseNotAbove(a)
<1>1. a \in Nat
  BY SpaceType DEF Addr
<1>2. PICK h \in DOMAIN map : Covers(map, h, a)
  BY RetrieveRangeFinds
<1>3. map[h].base <= a /\ a <= h
  BY <1>2 DEF Covers
<1>4. ASSUME NEW g \in DOMAIN map, map[g].base <= a
      PROVE  g <= h /\ map[g].base <= map[h].base
  BY <1>1, <1>3, <1>4, RangesOf
<1>5. ASSUME NEW g \in DOMAIN map, map[g].base <= a, map[h].base <= map[g].base
      PROVE  g = h
  BY <1>1, <1>3, <1>4, <1>5, RangesOf
<1>6. ASSUME NEW k \in RetrieveRange(a) PROVE k \in HighestBaseNotAbove(a)
  <2>1. k \in DOMAIN map /\ map[k].base <= a /\ a <= k
    BY <1>6, RetrieveRangeFinds DEF Covers
  <2>2. k = h
    BY <1>1, <1>3, <2>1, RangesOf
  <2> QED
    BY <1>3, <1>4, <2>2 DEF HighestBaseNotAbove
<1>7. ASSUME NEW k \in HighestBaseNotAbove(a) PROVE k \in RetrieveRange(a)
  <2>1. k \in DOMAIN map /\ map[k].base <= a /\ map[h].base <= map[k].base
    BY <1>3, <1>7 DEF HighestBaseNotAbove
  <2>2. k = h
    BY <1>5, <2>1
  <2> QED
    BY <1>2, <2>2, RetrieveRangeFinds
<1> QED
  BY <1>6, <1>7

\* The range before upper_bound, if the address lies in none.
LEMMA NearestIsTheLast ==
  ASSUME IInv, NEW a \in Addr, RetrieveRange(a) = {}
  PROVE  RetrieveNearestRange(a) = HighestBaseNotAbove(a)
<1>1. a \in Nat
  BY SpaceType DEF Addr
<1>2. ASSUME NEW g \in DOMAIN map, map[g].base <= a PROVE g < a
  <2>1. ~Covers(map, g, a)
    BY RetrieveRangeFinds
  <2> QED
    BY <1>1, <1>2, <2>1, RangesOf DEF Covers
<1>3. ASSUME NEW k \in RetrieveNearestRange(a) PROVE k \in HighestBaseNotAbove(a)
  <2>1. PICK u \in UpperBound(map, a) :
          k \in DOMAIN map /\ k < u /\ \A g \in DOMAIN map : g < u => g <= k
    BY <1>3 DEF RetrieveNearestRange
  <2>2. u \in Nat /\ u > a /\ \A g \in DOMAIN map : g > a => u <= g
    BY RangesOf, SpaceType DEF UpperBound, End
  <2>3. k <= a /\ map[k].base <= a
    BY <1>1, <2>1, <2>2, RangesOf
  <2>4. ASSUME NEW g \in DOMAIN map, map[g].base <= a
        PROVE  map[g].base <= map[k].base
    <3>1. g < u
      BY <1>1, <1>2, <2>2, <2>4, RangesOf
    <3>2. g <= k
      BY <2>1, <3>1
    <3> QED
      BY <2>1, <3>2, RangesOf
  <2> QED
    BY <2>1, <2>3, <2>4 DEF HighestBaseNotAbove
<1>4. ASSUME NEW k \in HighestBaseNotAbove(a) PROVE k \in RetrieveNearestRange(a)
  <2>1. k \in DOMAIN map /\ map[k].base <= a
        /\ \A g \in DOMAIN map : map[g].base <= a => map[g].base <= map[k].base
    BY <1>4 DEF HighestBaseNotAbove
  <2>2. PICK u \in UpperBound(map, a) : u \in Nat /\ u > a
    BY UpperBoundExists
  <2>3. k < u
    BY <1>1, <1>2, <2>1, <2>2, RangesOf
  <2>4. ASSUME NEW g \in DOMAIN map, g < u PROVE g <= k
    <3>1. g <= a
      BY <1>1, <2>2, <2>4, RangesOf DEF UpperBound
    <3>2. map[g].base <= map[k].base
      BY <1>1, <2>1, <3>1, RangesOf
    <3> QED
      BY <2>1, <3>2, RangesOf
  <2> QED
    BY <2>1, <2>2, <2>3, <2>4 DEF RetrieveNearestRange
<1> QED
  BY <1>3, <1>4

\* A lookup finds the function or line the address belongs to, whatever the
\* StoreRange calls before have truncated, shrunk or refused: ordered by their
\* ends and disjoint, the ranges leave lower_bound and upper_bound no other.
THEOREM LookupsFindTheOwner == Spec => []LookupsAreRight
<1>1. ASSUME IInv, NEW a \in Addr
      PROVE  RetrieveNearestRange(a) = HighestBaseNotAbove(a)
  <2>1. CASE RetrieveRange(a) # {}
    BY <1>1, <2>1, NearestIsTheOne DEF RetrieveNearestRange
  <2>2. CASE RetrieveRange(a) = {}
    BY <1>1, <2>2, NearestIsTheLast
  <2> QED
    BY <2>1, <2>2
<1>2. IInv => LookupsAreRight
  BY <1>1, RetrieveRangeFinds DEF LookupsAreRight, HighestBaseNotAbove
<1> QED
  BY Inductive, <1>2, PTL
-----------------------------------------------------------------------------
\* The keys and bases of a map of ranges are addresses, none of them is empty
\* and no two meet.
Plain(m) ==
  /\ DOMAIN m \subseteq Nat
  /\ \A h \in DOMAIN m : h < Space /\ m[h].base \in Nat /\ m[h].base <= h
  /\ \A g, h \in DOMAIN m : g < h => g < m[h].base

\* No round yet.
Fresh ==
  /\ map = before
  /\ call.base = call.entry.base
  /\ call.entry.high = Wrap(call.base + call.size - 1)

\* How far the rounds under each strategy have got.  kTruncateUpper: the new
\* range has moved past others, and one may be shrunk to begin above it.
AboveSoFar ==
  /\ high = call.entry.high
  /\ call.entry.base <= call.base
  /\ call.base = call.entry.base \/ call.base - 1 \in DOMAIN before
  /\ DOMAIN map = DOMAIN before
  /\ \A h \in DOMAIN before :
       /\ map[h].entry = before[h].entry
       /\ \/ map[h].base = before[h].base
          \/ map[h].base = high + 1 /\ before[h].base <= high /\ high < h

\* kTruncateLower: one range may have been cut off below the new one, which may
\* have been cut off below another.
CutOff(k) ==
  /\ before[k].base < call.base /\ call.base <= k
  /\ DOMAIN map = (DOMAIN before \ {k}) \cup {call.base - 1}
  /\ map[call.base - 1] = before[k]
  /\ \A g \in DOMAIN before \ {k} : map[g] = before[g]

BelowSoFar ==
  /\ call.base = call.entry.base
  /\ high <= call.entry.high
  /\ high = call.entry.high \/ \E h \in DOMAIN before : before[h].base = high + 1
  /\ map = before \/ \E k \in DOMAIN before : CutOff(k)

SoFar ==
  calling =>
    /\ Plain(before)
    /\ Fresh \/ IsRange
    /\ IsRange =>
         /\ strategy = "kExclusiveRanges" =>
              map = before /\ call.base = call.entry.base /\ high = call.entry.high
         /\ strategy = "kTruncateUpper" => AboveSoFar
         /\ strategy = "kTruncateLower" => BelowSoFar

\* The invariant says as much of the map, also in the middle of a call.
LEMMA MapIsPlain == ASSUME IInv PROVE Plain(map)
BY RangesOf DEF Plain

\* A range that is left to store does not wrap.
LEMMA CallIsPlain ==
  ASSUME IInv, IsRange
  PROVE  /\ call.base \in Nat /\ high \in Nat /\ call.base <= high /\ high < Space
         /\ high = call.base + call.size - 1
         /\ call.entry.base \in Nat
         /\ call.entry.high \in Nat /\ call.entry.high < Space
<1>1. call \in Calls
  BY DEF IInv, Typed
<1>2. /\ high = call.base + call.size - 1 /\ high \in Addr
      /\ call.base <= high /\ call.base \in Addr
  BY <1>1, HighPlain
<1>3. call.entry.base \in Addr /\ call.entry.high \in Addr
  BY <1>1 DEF Calls, Entries
<1> QED
  BY <1>2, <1>3, SpaceType DEF Addr

\* A fresh call that is one for a range.
LEMMA FreshHigh ==
  ASSUME IInv, Fresh, IsRange PROVE high = call.entry.high
<1>1. high = call.base + call.size - 1 /\ high \in Addr
  BY HighPlain DEF IInv, Typed
<1>2. call.entry.high = Wrap(high)
  BY <1>1 DEF Fresh
<1> QED
  BY <1>1, <1>2, WrapAddr

\* Before the first round nothing has been given way to.
LEMMA FreshSoFar == IInv /\ Fresh /\ Plain(before) => SoFar
<1> SUFFICES ASSUME IInv, Fresh, Plain(before), IsRange
             PROVE  /\ map = before
                    /\ call.base = call.entry.base /\ high = call.entry.high
                    /\ AboveSoFar /\ BelowSoFar
  BY DEF SoFar
<1>1. map = before /\ call.base = call.entry.base /\ high = call.entry.high
  BY FreshHigh DEF Fresh
<1>2. call.base \in Nat /\ high \in Nat
  BY CallIsPlain
<1> QED
  BY <1>1, <1>2 DEF AboveSoFar, BelowSoFar

\* Every StoreRange begins like that.
LEMMA StoreRangeSoFar ==
  ASSUME IInv, NEW base \in Addr, NEW size \in Addr, StoreRange(base, size)
  PROVE  SoFar'
<1>1. IInv'
  BY StoreRangeKeeps
<1>2. /\ call'.base = base /\ call'.size = size
      /\ call'.entry.base = base /\ call'.entry.high = Wrap(base + size - 1)
      /\ map' = map /\ before' = map
  BY DEF StoreRange
<1>3. Fresh' /\ Plain(before)'
  BY <1>2, MapIsPlain DEF Fresh, Plain, Wrap
<1>4. (IInv /\ Fresh /\ Plain(before) => SoFar)'
  BY FreshSoFar, PTL
<1> QED
  BY <1>1, <1>3, <1>4

\* The range in the way meets the new one, and is the lowest one that can.
LEMMA ConflictPlain ==
  ASSUME IInv, NEW k, Conflict(k)
  PROVE  /\ IsRange /\ k \in DOMAIN map /\ k \in Nat
         /\ map[k].base \in Nat /\ map[k].base <= k
         /\ call.base <= k /\ map[k].base <= high /\ (EndsWithin(k) => k < high)
         /\ \A g \in DOMAIN map : g >= call.base => k <= g
<1>1. IsRange
  BY DEF Conflict
<1>2. /\ k \in DOMAIN map /\ call.base <= k
      /\ \A g \in DOMAIN map : g >= call.base => k <= g
  BY ConflictKey DEF IInv
<1>3. map[k].base <= high /\ (EndsWithin(k) => k < high)
  BY ConflictBase
<1> QED
  BY <1>1, <1>2, <1>3, MapIsPlain DEF Plain

\* The new range now ends below one that was in the map before the call too:
\* the one that was cut off is below the new range.
LEMMA TruncateNewSoFar ==
  ASSUME IInv, SoFar, NEW k, TruncateNew(k)
  PROVE  SoFar'
<1>1. /\ Conflict(k) /\ map' = map /\ before' = before /\ calling
      /\ strategy = "kTruncateLower" /\ strategy' = strategy /\ call.base < map[k].base
      /\ call' = [call EXCEPT !.size = Wrap(map[k].base - call.base)]
  BY DEF TruncateNew, Retries, Conflict
<1>2. /\ k \in DOMAIN map /\ k \in Nat /\ call.base <= k /\ IsRange
      /\ map[k].base \in Nat /\ map[k].base <= high
  BY <1>1, ConflictPlain
<1>3. /\ call.base \in Nat /\ high \in Nat /\ high < Space
      /\ call \in Calls /\ call.entry.high \in Nat
  BY <1>2, CallIsPlain DEF IInv, Typed
<1>4. Wrap(map[k].base - call.base) = map[k].base - call.base
  <2>1. map[k].base - call.base \in Addr
    BY <1>1, <1>2, <1>3, SpaceType DEF Addr
  <2> QED
    BY <2>1, WrapAddr
<1>5. call'.base = call.base /\ call'.entry = call.entry /\ call'.size = map[k].base - call.base
  BY <1>1, <1>3, <1>4 DEF Calls
<1>6. high' = map[k].base - 1 /\ IsRange'
  BY <1>1, <1>2, <1>3, <1>5, SpaceType DEF high, IsRange, Wrap
<1>7. BelowSoFar /\ Plain(before)
  BY <1>1, <1>2 DEF SoFar
<1>8. k \in DOMAIN before /\ before[k].base = map[k].base
  <2>1. CASE map = before
    BY <1>2, <2>1
  <2>2. ASSUME NEW j \in DOMAIN before, CutOff(j)
        PROVE  k \in DOMAIN before /\ before[k].base = map[k].base
    <3>1. k # call.base - 1
      BY <1>2, <1>3
    <3> QED
      BY <1>2, <2>2, <3>1 DEF CutOff
  <2> QED
    BY <1>7, <2>1, <2>2 DEF BelowSoFar
<1>9. map[k].base = high' + 1 /\ high' <= call.entry.high
  BY <1>2, <1>3, <1>6, <1>7 DEF BelowSoFar
<1>10. map' = before' \/ \E j \in DOMAIN before' : CutOff(j)'
  BY <1>1, <1>5, <1>7 DEF BelowSoFar, CutOff
<1>11. call'.base = call'.entry.base
  BY <1>5, <1>7 DEF BelowSoFar
<1>12. BelowSoFar'
  BY <1>1, <1>5, <1>8, <1>9, <1>10, <1>11 DEF BelowSoFar
<1> QED
  BY <1>1, <1>6, <1>7, <1>12 DEF SoFar, Plain

\* Not two ranges have the same address.
LEMMA OneCovers ==
  ASSUME NEW m, Plain(m), NEW g \in DOMAIN m, NEW h \in DOMAIN m, NEW a \in Int,
         m[g].base <= a, a <= g, m[h].base <= a, a <= h
  PROVE  g = h
<1>1. g \in Nat /\ h \in Nat /\ m[g].base \in Nat /\ m[h].base \in Nat
  BY DEF Plain
<1>2. ~(g < h) /\ ~(h < g)
  BY <1>1 DEF Plain
<1> QED
  BY <1>1, <1>2

\* One range at most reaches over the new base, so nothing was cut off before.
LEMMA TruncateOtherSoFar ==
  ASSUME IInv, SoFar, NEW k, TruncateOther(k)
  PROVE  SoFar'
<1>1. /\ Conflict(k) /\ before' = before /\ calling /\ strategy = "kTruncateLower"
      /\ strategy' = strategy /\ call' = call /\ map[k].base < call.base
  BY DEF TruncateOther, Retries, Conflict
<1>2. /\ DOMAIN map' = (DOMAIN map \ {k}) \cup {call.base - 1}
      /\ map'[call.base - 1] = map[k]
      /\ \A g \in DOMAIN map \ {k} : map'[g] = map[g]
  BY TruncateOtherMap
<1>3. k \in DOMAIN map /\ k \in Nat /\ map[k].base \in Nat /\ IsRange /\ call.base <= k
  BY <1>1, ConflictPlain
<1>4. high' = high /\ IsRange'
  BY <1>1, <1>3 DEF high, IsRange
<1>5. call.base \in Nat
  BY <1>3, CallIsPlain
<1>6. BelowSoFar /\ Plain(before)
  BY <1>1, <1>3 DEF SoFar
<1>7. map = before
  <2> SUFFICES ASSUME NEW j \in DOMAIN before, CutOff(j) PROVE FALSE
    BY <1>6 DEF BelowSoFar
  <2>1. k # call.base - 1
    BY <1>3, <1>5
  <2>2. k \in DOMAIN before /\ k # j /\ before[k].base < call.base
    BY <1>1, <1>3, <2>1 DEF CutOff
  <2>3. before[j].base <= call.base /\ call.base <= j /\ before[k].base <= call.base
    BY <1>5, <1>6, <2>2 DEF CutOff, Plain
  <2> QED
    BY <1>3, <1>5, <1>6, <2>2, <2>3, OneCovers
<1>8. CutOff(k)'
  BY <1>1, <1>2, <1>3, <1>7 DEF CutOff
<1>9. BelowSoFar'
  BY <1>1, <1>3, <1>4, <1>6, <1>7, <1>8 DEF BelowSoFar
<1> QED
  BY <1>1, <1>4, <1>6, <1>9 DEF SoFar, Plain

\* The new range begins behind one that was there before the call.
LEMMA SkipBelowSoFar ==
  ASSUME IInv, SoFar, NEW k, SkipBelow(k)
  PROVE  SoFar'
<1> DEFINE d == k - call.base + 1
<1>1. /\ Conflict(k) /\ EndsWithin(k) /\ map' = map /\ before' = before /\ calling
      /\ strategy = "kTruncateUpper" /\ strategy' = strategy
      /\ call' = [call EXCEPT !.base = Wrap(@ + Wrap(Wrap(k - call.base) + 1)),
                             !.delta = Wrap(@ + Wrap(Wrap(k - call.base) + 1)),
                             !.size = Wrap(@ - Wrap(Wrap(k - call.base) + 1))]
  BY DEF SkipBelow, Retries, Conflict
<1>2. k \in DOMAIN map /\ k \in Nat /\ IsRange /\ call.base <= k /\ k < high
  BY <1>1, ConflictPlain
<1>3. /\ call.base \in Nat /\ high \in Nat /\ high < Space
      /\ call \in Calls /\ call.entry.base \in Nat
      /\ high = call.base + call.size - 1 /\ call.size \in Int
  BY <1>2, CallIsPlain DEF IInv, Typed, Calls, Addr
<1>4. Wrap(Wrap(k - call.base) + 1) = d /\ d \in Int
  BY <1>2, <1>3, SpaceType DEF Wrap
<1>5. Wrap(call.base + d) = k + 1 /\ Wrap(call.size - d) = high - k
  BY <1>2, <1>3, SpaceType DEF Wrap
<1>6. call'.base = k + 1 /\ call'.entry = call.entry /\ call'.size = high - k
  BY <1>1, <1>3, <1>4, <1>5 DEF Calls
<1>7. high' = high /\ IsRange'
  <2>1. Wrap(high - k - 1) = high - k - 1 /\ Wrap(k + 1 + (high - k - 1)) = high
    BY <1>2, <1>3, SpaceType DEF Wrap
  <2>2. high' = high
    BY <1>6, <2>1 DEF high
  <2> QED
    BY <1>2, <1>3, <1>6, <2>2 DEF IsRange
<1>8. AboveSoFar /\ Plain(before)
  BY <1>1, <1>2 DEF SoFar
<1>9. call'.base - 1 \in DOMAIN before /\ call.entry.base <= k + 1
  BY <1>2, <1>3, <1>6, <1>8 DEF AboveSoFar
<1>10. AboveSoFar'
  BY <1>1, <1>6, <1>7, <1>8, <1>9 DEF AboveSoFar
<1> QED
  BY <1>1, <1>7, <1>8, <1>10 DEF SoFar, Plain

\* The range above the new one begins behind it, whatever it was shrunk by.
LEMMA ShrinkOtherSoFar ==
  ASSUME IInv, SoFar, NEW k, ShrinkOther(k)
  PROVE  SoFar'
<1>1. /\ Conflict(k) /\ before' = before /\ calling
      /\ strategy = "kTruncateUpper" /\ strategy' = strategy /\ call' = call
  BY DEF ShrinkOther, Retries, Conflict
<1>2. k \in DOMAIN map /\ k \in Nat /\ IsRange /\ map[k].base <= high
  BY <1>1, ConflictPlain
<1>3. /\ DOMAIN map' = DOMAIN map /\ high < k
      /\ map'[k].base = high + 1 /\ map'[k].entry = map[k].entry
      /\ \A g \in DOMAIN map \ {k} : map'[g] = map[g]
  BY ShrinkOtherMap
<1>4. high' = high /\ IsRange'
  BY <1>1, <1>2 DEF high, IsRange
<1>5. AboveSoFar /\ Plain(before)
  BY <1>1, <1>2 DEF SoFar
<1>6. before[k].base <= high
  BY <1>2, <1>5 DEF AboveSoFar
<1>7. ASSUME NEW h \in DOMAIN before
      PROVE  /\ map'[h].entry = before[h].entry
             /\ \/ map'[h].base = before[h].base
                \/ map'[h].base = high + 1 /\ before[h].base <= high /\ high < h
  <2>1. CASE h = k
    BY <1>3, <1>5, <1>6, <2>1 DEF AboveSoFar
  <2>2. CASE h # k
    BY <1>3, <1>5, <2>2 DEF AboveSoFar
  <2> QED
    BY <2>1, <2>2
<1>8. AboveSoFar'
  BY <1>1, <1>3, <1>4, <1>5, <1>7 DEF AboveSoFar
<1> QED
  BY <1>1, <1>4, <1>5, <1>8 DEF SoFar, Plain

\* The rounds taken together.
LEMMA NextSoFar == ASSUME IInv, SoFar, [Next]_vars PROVE SoFar'
<1>1. ASSUME ~calling' PROVE SoFar'
  BY <1>1 DEF SoFar
<1>2. ASSUME (\E s \in Strategies : SetMergeStrategy(s)) \/ Clear PROVE ~calling'
  BY <1>2 DEF SetMergeStrategy, Clear
<1>3. ASSUME NEW k,
             \/ RejectSize \/ Exclude(k) \/ RefuseSameBase(k)
             \/ RefuseCovered(k) \/ Insert(k)
      PROVE  ~calling'
  BY <1>3 DEF RejectSize, Exclude, RefuseSameBase, RefuseCovered, Insert, Returns
<1>4. ASSUME UNCHANGED vars PROVE SoFar'
  <2>1. UNCHANGED <<map, strategy, calling, call, before>>
    BY <1>4 DEF vars
  <2>2. high' = high /\ (IsRange' <=> IsRange)
    BY <2>1 DEF IsRange, high
  <2>3. (Plain(before)' <=> Plain(before)) /\ (Fresh' <=> Fresh)
    BY <2>1 DEF Plain, Fresh
  <2>4. AboveSoFar' <=> AboveSoFar
    BY <2>1, <2>2 DEF AboveSoFar
  <2>5. BelowSoFar' <=> BelowSoFar
    <3>1. \A k \in DOMAIN before : CutOff(k)' <=> CutOff(k)
      BY <2>1 DEF CutOff
    <3> QED
      BY <2>1, <2>2, <3>1 DEF BelowSoFar
  <2> QED
    BY <2>1, <2>2, <2>3, <2>4, <2>5 DEF SoFar
<1>5. ASSUME NEW k, TruncateNew(k) \/ TruncateOther(k) \/ SkipBelow(k) \/ ShrinkOther(k)
      PROVE  SoFar'
  BY <1>5, TruncateNewSoFar, TruncateOtherSoFar, SkipBelowSoFar, ShrinkOtherSoFar
<1>6. ASSUME NEW base \in Addr, NEW size \in Addr, StoreRange(base, size) PROVE SoFar'
  BY <1>6, StoreRangeSoFar
<1> QED
  BY <1>1, <1>2, <1>3, <1>4, <1>5, <1>6 DEF Next, StoreRangeInternal

\* An address is the new range's if it lies in it, else its owner's.
LEMMA OwnersAfter ==
  ASSUME IInv, NEW k, Insert(k), NEW a \in Addr
  PROVE  Owners(map', a) =
           IF call.base <= a /\ a <= high THEN {call.entry} ELSE Owners(map, a)
<1>1. a \in Nat
  BY SpaceType DEF Addr
<1>2. /\ call.base \in Nat /\ high \in Nat /\ call.base <= high
      /\ \A g \in DOMAIN map : g < call.base \/ high < map[g].base
      /\ high \notin DOMAIN map
      /\ DOMAIN map' = DOMAIN map \cup {high}
      /\ map'[high].base = call.base /\ map'[high].entry = call.entry
      /\ \A g \in DOMAIN map : map'[g] = map[g]
  BY InsertMap
<1>3. \A g \in DOMAIN map : g \in Nat /\ map[g].base \in Nat
  BY MapIsPlain DEF Plain
<1>4. Covers(map', high, a) <=> call.base <= a /\ a <= high
  BY <1>2 DEF Covers
<1>5. \A g \in DOMAIN map : Covers(map', g, a) <=> Covers(map, g, a)
  BY <1>2 DEF Covers
<1>6. call.base <= a /\ a <= high => \A g \in DOMAIN map : ~Covers(map, g, a)
  BY <1>1, <1>2, <1>3 DEF Covers
<1>7. CASE call.base <= a /\ a <= high
  <2>1. {g \in DOMAIN map' : Covers(map', g, a)} = {high}
    BY <1>2, <1>4, <1>5, <1>6, <1>7
  <2> QED
    BY <1>2, <1>7, <2>1 DEF Owners
<1>8. CASE ~(call.base <= a /\ a <= high)
  <2>1. {g \in DOMAIN map' : Covers(map', g, a)} = {g \in DOMAIN map : Covers(map, g, a)}
    BY <1>2, <1>4, <1>5, <1>8
  <2> QED
    BY <1>2, <1>8, <2>1 DEF Owners
<1> QED
  BY <1>7, <1>8

\* Two maps whose ranges with the address have the same entries.
LEMMA SameOwners ==
  ASSUME NEW m, NEW n, NEW a,
         \A g \in DOMAIN m : Covers(m, g, a) =>
           \E h \in DOMAIN n : Covers(n, h, a) /\ n[h].entry = m[g].entry,
         \A h \in DOMAIN n : Covers(n, h, a) =>
           \E g \in DOMAIN m : Covers(m, g, a) /\ m[g].entry = n[h].entry
  PROVE  Owners(m, a) = Owners(n, a)
<1>1. \A x \in Owners(m, a) : x \in Owners(n, a)
  BY DEF Owners
<1>2. \A x \in Owners(n, a) : x \in Owners(m, a)
  BY DEF Owners
<1> QED
  BY <1>1, <1>2

\* kTruncateUpper, in as many rounds as it takes.
LEMMA InsertGivesWayAbove ==
  ASSUME IInv, Plain(before), AboveSoFar, NEW k, Insert(k), NEW a \in Addr
  PROVE  Owners(map', a) = GivesWayAbove(before, call.entry, a)
<1> DEFINE e == call.entry
           Kept == /\ e.base <= a /\ a <= e.high
                   /\ \A h \in DOMAIN before : h < e.base \/ h >= e.high \/ h < a
           Lost == \E h \in DOMAIN before :
                     Covers(before, h, a) /\ Covers(before, h, e.high) /\ a < e.base
<1>1. a \in Nat
  BY SpaceType DEF Addr
<1>2. /\ IsRange /\ call.base \in Nat /\ high \in Nat /\ call.base <= high
      /\ \A g \in DOMAIN map : g < call.base \/ high < map[g].base
  BY InsertMap
<1>3. e.base \in Nat /\ e.high = high /\ e.base <= call.base
  BY <1>2, CallIsPlain DEF AboveSoFar
<1>4. DOMAIN map = DOMAIN before
      /\ \A h \in DOMAIN before :
           /\ h \in Nat /\ before[h].base \in Nat /\ before[h].base <= h
           /\ map[h].base \in Nat /\ map[h].base <= h /\ map[h].entry = before[h].entry
           /\ \/ map[h].base = before[h].base
              \/ map[h].base = high + 1 /\ before[h].base <= high /\ high < h
  BY MapIsPlain DEF AboveSoFar, Plain
<1>5. call.base = e.base \/ call.base - 1 \in DOMAIN before
  BY DEF AboveSoFar
<1>6. Kept <=> call.base <= a /\ a <= high
  <2>1. ASSUME Kept PROVE call.base <= a
    BY <1>1, <1>2, <1>3, <1>5, <2>1
  <2>2. ASSUME call.base <= a, a <= high, NEW h \in DOMAIN before
        PROVE  h < e.base \/ h >= e.high \/ h < a
    <3>1. h < call.base \/ high < map[h].base
      BY <1>2, <1>4
    <3> QED
      BY <1>1, <1>2, <1>3, <1>4, <2>2, <3>1
  <2> QED
    BY <1>1, <1>2, <1>3, <2>1, <2>2
<1>7. Owners(map', a) = IF Kept THEN {e} ELSE Owners(map, a)
  BY <1>6, OwnersAfter
<1>8. Kept => ~Lost
  BY <1>1, <1>3
<1>9. ASSUME Lost PROVE Owners(map, a) = {}
  <2>1. PICK h \in DOMAIN before :
          /\ before[h].base <= a /\ a <= h
          /\ before[h].base <= high /\ high <= h /\ a < e.base
    BY <1>3, <1>9 DEF Covers
  <2>2. high < map[h].base
    BY <1>2, <1>4, <2>1
  <2>3. ASSUME NEW g \in DOMAIN map, map[g].base <= a, a <= g PROVE FALSE
    <3>1. before[g].base <= a
      BY <1>1, <1>2, <1>3, <1>4, <2>1, <2>3
    <3>2. g = h
      BY <1>1, <1>4, <2>1, <2>3, <3>1, OneCovers
    <3> QED
      BY <1>1, <1>2, <1>3, <1>4, <2>1, <2>2, <2>3, <3>2
  <2> QED
    BY <2>3 DEF Owners, Covers
<1>10. ASSUME ~Kept, ~Lost PROVE Owners(map, a) = Owners(before, a)
  <2>1. ASSUME NEW g \in DOMAIN map, Covers(map, g, a) PROVE Covers(before, g, a)
    BY <1>1, <1>2, <1>4, <2>1 DEF Covers
  <2>2. ASSUME NEW g \in DOMAIN before, Covers(before, g, a) PROVE Covers(map, g, a)
    <3> SUFFICES ASSUME ~Covers(map, g, a) PROVE FALSE
      OBVIOUS
    <3>1. before[g].base <= a /\ a <= g
      BY <2>2 DEF Covers
    <3>2. a <= high /\ before[g].base <= high /\ high < g
      BY <1>1, <1>2, <1>4, <3>1 DEF Covers
    <3>3. a < call.base
      BY <1>1, <1>2, <1>6, <1>10, <3>2
    <3>4. e.base <= a
      <4>1. Covers(before, g, e.high)
        BY <1>2, <1>3, <1>4, <3>2 DEF Covers
      <4> QED
        BY <1>1, <1>3, <1>10, <2>2, <4>1
    <3>5. call.base - 1 \in DOMAIN before
      BY <1>1, <1>2, <1>3, <1>5, <3>3, <3>4
    <3>6. call.base - 1 < before[g].base
      BY <1>2, <1>4, <3>2, <3>5 DEF Plain
    <3> QED
      BY <1>1, <1>2, <1>4, <3>1, <3>3, <3>6
  <2> QED
    BY <1>4, <2>1, <2>2, SameOwners
<1>11. GivesWayAbove(before, e, a) =
         CASE Kept -> {e} [] Lost -> {} [] OTHER -> Owners(before, a)
  BY DEF GivesWayAbove
<1> HIDE DEF Kept, Lost
<1> QED
  BY <1>7, <1>8, <1>9, <1>10, <1>11

\* kTruncateLower, in as many rounds as it takes.
LEMMA InsertGivesWayBelow ==
  ASSUME IInv, Plain(before), BelowSoFar, NEW k, Insert(k), NEW a \in Addr
  PROVE  Owners(map', a) = GivesWayBelow(before, call.entry, a)
<1> DEFINE e == call.entry
           Kept == /\ e.base <= a /\ a <= e.high
                   /\ \A h \in DOMAIN before :
                        before[h].base <= e.base \/ a < before[h].base
           Lost == \E h \in DOMAIN before :
                     Covers(before, h, a) /\ Covers(before, h, e.base) /\ a > e.high
<1>1. a \in Nat
  BY SpaceType DEF Addr
<1>2. /\ IsRange /\ call.base \in Nat /\ high \in Nat /\ call.base <= high
      /\ \A g \in DOMAIN map : g < call.base \/ high < map[g].base
  BY InsertMap
<1>3. e.base = call.base /\ e.high \in Nat /\ high <= e.high
  BY <1>2, CallIsPlain DEF BelowSoFar
<1>4. \A h \in DOMAIN before :
        h \in Nat /\ before[h].base \in Nat /\ before[h].base <= h
  BY DEF Plain
<1>5. high = e.high \/ \E h \in DOMAIN before : before[h].base = high + 1
  BY DEF BelowSoFar
<1>6. map = before \/ \E j \in DOMAIN before : CutOff(j)
  BY DEF BelowSoFar
<1>7. ASSUME NEW h \in DOMAIN before, before[h].base > call.base
      PROVE  high < before[h].base
  <2>1. ASSUME NEW j \in DOMAIN before, CutOff(j)
        PROVE  h \in DOMAIN map /\ map[h] = before[h]
    <3>1. h # j
      BY <1>2, <1>4, <1>7, <2>1 DEF CutOff
    <3> QED
      BY <2>1, <3>1 DEF CutOff
  <2>2. h \in DOMAIN map /\ map[h] = before[h]
    BY <1>6, <2>1
  <2> QED
    BY <1>2, <1>4, <1>7, <2>2
<1>8. Kept <=> call.base <= a /\ a <= high
  <2>1. ASSUME Kept PROVE a <= high
    BY <1>1, <1>2, <1>3, <1>5, <2>1
  <2>2. ASSUME call.base <= a, a <= high, NEW h \in DOMAIN before
        PROVE  before[h].base <= e.base \/ a < before[h].base
    BY <1>1, <1>2, <1>3, <1>4, <1>7, <2>2
  <2> QED
    BY <1>1, <1>2, <1>3, <2>1, <2>2
<1>9. Owners(map', a) = IF Kept THEN {e} ELSE Owners(map, a)
  BY <1>8, OwnersAfter
<1>10. Kept => ~Lost
  BY <1>1, <1>3
<1>11. ASSUME Lost PROVE Owners(map, a) = {}
  <2>1. PICK h \in DOMAIN before :
          /\ before[h].base <= a /\ a <= h
          /\ before[h].base <= call.base /\ call.base <= h /\ a > e.high
    BY <1>3, <1>11 DEF Covers
  <2>2. map # before
    BY <1>2, <1>4, <2>1
  <2>3. PICK j \in DOMAIN before : CutOff(j)
    BY <1>6, <2>2
  <2>4. h = j
    <3>1. before[j].base <= call.base /\ call.base <= j
      BY <1>2, <1>4, <2>3 DEF CutOff
    <3> QED
      BY <1>2, <2>1, <3>1, OneCovers
  <2>5. ASSUME NEW g \in DOMAIN map, map[g].base <= a, a <= g PROVE FALSE
    <3>1. g # call.base - 1
      BY <1>1, <1>2, <1>3, <2>1, <2>5
    <3>2. g \in DOMAIN before /\ g # j /\ map[g] = before[g]
      BY <2>3, <3>1 DEF CutOff
    <3> QED
      BY <1>1, <2>1, <2>4, <2>5, <3>2, OneCovers
  <2> QED
    BY <2>5 DEF Owners, Covers
<1>12. ASSUME ~Kept, ~Lost PROVE Owners(map, a) = Owners(before, a)
  <2>1. CASE map = before
    BY <2>1
  <2>2. ASSUME NEW j \in DOMAIN before, CutOff(j)
        PROVE  Owners(map, a) = Owners(before, a)
    <3>1. /\ before[j].base < call.base /\ call.base <= j
          /\ DOMAIN map = (DOMAIN before \ {j}) \cup {call.base - 1}
          /\ map[call.base - 1] = before[j]
          /\ \A g \in DOMAIN before \ {j} : map[g] = before[g]
      BY <2>2 DEF CutOff
    <3>2. ASSUME Covers(before, j, a) PROVE Covers(map, call.base - 1, a)
      <4>1. before[j].base <= a /\ a <= j
        BY <3>2 DEF Covers
      <4> SUFFICES ASSUME call.base <= a PROVE FALSE
        BY <1>1, <1>2, <3>1, <4>1 DEF Covers
      <4>2. high < a
        BY <1>1, <1>2, <1>8, <1>12
      <4>3. a <= e.high
        <5>1. Covers(before, j, e.base)
          BY <1>2, <1>3, <1>4, <3>1 DEF Covers
        <5> QED
          BY <1>1, <1>3, <1>12, <3>2, <5>1
      <4>4. PICK h \in DOMAIN before : before[h].base = high + 1
        BY <1>1, <1>2, <1>3, <1>5, <4>2, <4>3
      <4>5. before[j].base <= high + 1 /\ high + 1 <= j /\ high + 1 <= h
        BY <1>1, <1>2, <1>4, <3>1, <4>1, <4>2, <4>4
      <4>6. h = j
        BY <1>2, <4>4, <4>5, OneCovers
      <4> QED
        BY <1>2, <1>4, <3>1, <4>4, <4>6
    <3>3. ASSUME Covers(map, call.base - 1, a) PROVE Covers(before, j, a)
      BY <1>1, <1>2, <1>4, <3>1, <3>3 DEF Covers
    <3>4. \A g \in DOMAIN before \ {j} : Covers(map, g, a) <=> Covers(before, g, a)
      BY <3>1 DEF Covers
    <3>5. \A g \in DOMAIN map : Covers(map, g, a) =>
            \E h \in DOMAIN before :
              Covers(before, h, a) /\ before[h].entry = map[g].entry
      BY <3>1, <3>3, <3>4
    <3>6. \A h \in DOMAIN before : Covers(before, h, a) =>
            \E g \in DOMAIN map :
              Covers(map, g, a) /\ map[g].entry = before[h].entry
      <4> SUFFICES ASSUME NEW h \in DOMAIN before, Covers(before, h, a)
                   PROVE  \E g \in DOMAIN map :
                            Covers(map, g, a) /\ map[g].entry = before[h].entry
        OBVIOUS
      <4>1. CASE h = j
        BY <3>1, <3>2, <4>1
      <4>2. CASE h # j
        BY <3>1, <3>4, <4>2
      <4> QED
        BY <4>1, <4>2
    <3> QED
      BY <3>5, <3>6, SameOwners
  <2> QED
    BY <1>6, <2>1, <2>2
<1>13. GivesWayBelow(before, e, a) =
         CASE Kept -> {e} [] Lost -> {} [] OTHER -> Owners(before, a)
  BY DEF GivesWayBelow
<1> HIDE DEF Kept, Lost
<1> QED
  BY <1>9, <1>10, <1>11, <1>12, <1>13

\* The steps that end a StoreRange.
LEMMA WhatReturns ==
  ASSUME [Next]_vars, calling, ~calling'
  PROVE  \/ RejectSize
         \/ \E k : Exclude(k) \/ RefuseSameBase(k) \/ RefuseCovered(k) \/ Insert(k)
<1>1. ASSUME NEW s, SetMergeStrategy(s) PROVE FALSE
  BY <1>1 DEF SetMergeStrategy
<1>2. ASSUME NEW base, NEW size, StoreRange(base, size) PROVE FALSE
  BY <1>2 DEF StoreRange
<1>3. ~Clear /\ ~UNCHANGED vars
  BY DEF Clear, vars
<1>4. ASSUME NEW k, TruncateNew(k) \/ TruncateOther(k) \/ SkipBelow(k) \/ ShrinkOther(k)
      PROVE FALSE
  BY <1>4 DEF TruncateNew, TruncateOther, SkipBelow, ShrinkOther, Retries
<1> QED
  BY <1>1, <1>2, <1>3, <1>4 DEF Next, StoreRangeInternal

\* The last round, strategy by strategy.
LEMMA ReturnFollowsStrategy ==
  ASSUME IInv, SoFar, [Next]_vars, calling, ~calling', result', NEW a \in Addr
  PROVE  Owners(map', a) =
         CASE strategy = "kExclusiveRanges" -> Exclusively(before, call.entry, a)
           [] strategy = "kTruncateUpper" -> GivesWayAbove(before, call.entry, a)
           [] strategy = "kTruncateLower" -> GivesWayBelow(before, call.entry, a)
<1>1. PICK k : Insert(k)
  BY WhatReturns DEF RejectSize, Exclude, RefuseSameBase, RefuseCovered, Returns
<1>2. IsRange /\ strategy \in Strategies /\ Plain(before)
  BY <1>1 DEF Insert, SoFar, IInv, Typed
<1>3. CASE strategy = "kExclusiveRanges"
  <2>1. map = before /\ call.base = call.entry.base /\ high = call.entry.high
    BY <1>2, <1>3 DEF SoFar
  <2>2. Owners(map', a) = Exclusively(before, call.entry, a)
    BY <1>1, <2>1, OwnersAfter DEF Exclusively
  <2> QED
    BY <1>3, <2>2
<1>4. CASE strategy = "kTruncateUpper"
  <2>1. Owners(map', a) = GivesWayAbove(before, call.entry, a)
    BY <1>1, <1>2, <1>4, InsertGivesWayAbove DEF SoFar
  <2> QED
    BY <1>4, <2>1
<1>5. CASE strategy = "kTruncateLower"
  <2>1. Owners(map', a) = GivesWayBelow(before, call.entry, a)
    BY <1>1, <1>2, <1>5, InsertGivesWayBelow DEF SoFar
  <2> QED
    BY <1>5, <2>1
<1> QED
  BY <1>2, <1>3, <1>4, <1>5 DEF Strategies

\* A call for a range stays one.
LEMMA StaysRange ==
  ASSUME IInv, SoFar, calling, call.size # 0, call.entry.base <= call.entry.high
  PROVE  IsRange
<1> SUFFICES ASSUME Fresh PROVE IsRange
  BY DEF SoFar
<1>1. call.base \in Addr /\ call.size \in Addr
  BY DEF IInv, Typed, Calls
<1>2. Wrap(call.size - 1) = call.size - 1
  <2>1. call.size - 1 \in Addr
    BY <1>1, SpaceType DEF Addr
  <2> QED
    BY <2>1, WrapAddr
<1>3. high = Wrap(call.base + call.size - 1)
  <2>1. call.base + (call.size - 1) = call.base + call.size - 1
    BY <1>1 DEF Addr
  <2> QED
    BY <1>2, <2>1 DEF high
<1>4. high = call.entry.high /\ call.base = call.entry.base
  BY <1>3 DEF Fresh
<1>5. call.entry.base \in Int /\ call.entry.high \in Int
  BY DEF IInv, Typed, Calls, Entries, Addr
<1> QED
  BY <1>4, <1>5 DEF IsRange

\* What does not stand in the way of a range, strategy by strategy.
LetsPass(h) ==
  CASE strategy = "kExclusiveRanges" ->
         h < call.entry.base \/ call.entry.high < before[h].base
    [] strategy = "kTruncateLower" -> before[h].base # call.entry.base
    [] strategy = "kTruncateUpper" -> h # call.entry.high

\* A refusal is on account of a range that was there before the call.
LEMMA RefusedHasConflict ==
  ASSUME IInv, SoFar, NEW k, Exclude(k) \/ RefuseSameBase(k) \/ RefuseCovered(k)
  PROVE  \E h \in DOMAIN before : ~LetsPass(h)
<1>1. Conflict(k) /\ calling
  BY DEF Exclude, RefuseSameBase, RefuseCovered, Conflict
<1>2. /\ IsRange /\ k \in DOMAIN map /\ k \in Nat /\ map[k].base \in Nat
      /\ call.base <= k /\ map[k].base <= high /\ Plain(before)
  BY <1>1, ConflictPlain DEF SoFar
<1>3. call.base \in Nat /\ high \in Nat
  BY <1>2, CallIsPlain
<1>4. CASE Exclude(k)
  <2>1. /\ strategy = "kExclusiveRanges" /\ map = before
        /\ call.base = call.entry.base /\ high = call.entry.high
    BY <1>1, <1>2, <1>4 DEF Exclude, SoFar
  <2>2. ~LetsPass(k)
    BY <1>2, <1>3, <2>1 DEF LetsPass
  <2> QED
    BY <1>2, <2>1, <2>2
<1>5. CASE RefuseSameBase(k)
  <2>1. /\ strategy = "kTruncateLower" /\ BelowSoFar /\ map[k].base = call.base
    BY <1>1, <1>2, <1>5 DEF RefuseSameBase, SoFar
  <2>2. ASSUME NEW j \in DOMAIN before, CutOff(j)
        PROVE  k \in DOMAIN before /\ before[k] = map[k]
    <3>1. k # call.base - 1
      BY <1>2, <1>3
    <3> QED
      BY <1>2, <2>2, <3>1 DEF CutOff
  <2>3. k \in DOMAIN before /\ before[k] = map[k]
    BY <1>2, <2>1, <2>2 DEF BelowSoFar
  <2>4. ~LetsPass(k)
    BY <2>1, <2>3 DEF LetsPass, BelowSoFar
  <2> QED
    BY <2>3, <2>4
<1>6. CASE RefuseCovered(k)
  <2>1. /\ strategy = "kTruncateUpper" /\ AboveSoFar /\ k <= high /\ k >= high
    BY <1>1, <1>2, <1>6 DEF RefuseCovered, BeginsWithin, LowerBound, SoFar
  <2>2. k \in DOMAIN before /\ k = call.entry.high
    BY <1>2, <1>3, <2>1 DEF AboveSoFar
  <2>3. ~LetsPass(k)
    BY <2>1, <2>2 DEF LetsPass
  <2> QED
    BY <2>2, <2>3
<1> QED
  BY <1>4, <1>5, <1>6

\* What is stored met no such range.
LEMMA StoredHasNoConflict ==
  ASSUME IInv, SoFar, NEW k, Insert(k), NEW h \in DOMAIN before
  PROVE  LetsPass(h)
<1>1. /\ IsRange /\ calling /\ call.base \in Nat /\ high \in Nat /\ call.base <= high
      /\ \A g \in DOMAIN map : g < call.base \/ high < map[g].base
      /\ high \notin DOMAIN map
  BY InsertMap
<1>2. /\ strategy \in Strategies /\ h \in Nat
      /\ before[h].base \in Nat /\ before[h].base <= h
  BY <1>1 DEF SoFar, Plain, IInv, Typed
<1>3. CASE strategy = "kExclusiveRanges"
  BY <1>1, <1>3 DEF SoFar, LetsPass
<1>4. CASE strategy = "kTruncateLower"
  <2>1. BelowSoFar
    BY <1>1, <1>4 DEF SoFar
  <2>2. ASSUME before[h].base = call.base PROVE FALSE
    <3>1. ASSUME NEW j \in DOMAIN before, CutOff(j)
          PROVE  h \in DOMAIN map /\ map[h] = before[h]
      <4>1. h # j
        BY <1>1, <1>2, <2>2, <3>1 DEF CutOff
      <4> QED
        BY <3>1, <4>1 DEF CutOff
    <3>2. h \in DOMAIN map /\ map[h] = before[h]
      BY <2>1, <3>1 DEF BelowSoFar
    <3> QED
      BY <1>1, <1>2, <2>2, <3>2
  <2> QED
    BY <1>4, <2>1, <2>2 DEF BelowSoFar, LetsPass
<1>5. CASE strategy = "kTruncateUpper"
  <2>1. AboveSoFar
    BY <1>1, <1>5 DEF SoFar
  <2> QED
    BY <1>1, <1>5, <2>1 DEF AboveSoFar, LetsPass
<1> QED
  BY <1>2, <1>3, <1>4, <1>5 DEF Strategies

\* Refused or stored, for the one reason or the other.
LEMMA ReturnRefusesConflicts ==
  ASSUME IInv, SoFar, [Next]_vars, calling, ~calling', call.size # 0,
         call.entry.base <= call.entry.high
  PROVE  result' <=> \A h \in DOMAIN before : LetsPass(h)
<1>1. IsRange
  BY StaysRange
<1>2. ~RejectSize
  BY <1>1 DEF RejectSize
<1>3. ASSUME NEW k, Exclude(k) \/ RefuseSameBase(k) \/ RefuseCovered(k)
      PROVE  ~result' /\ \E h \in DOMAIN before : ~LetsPass(h)
  BY <1>3, RefusedHasConflict DEF Exclude, RefuseSameBase, RefuseCovered, Returns
<1>4. ASSUME NEW k, Insert(k) PROVE result' /\ \A h \in DOMAIN before : LetsPass(h)
  BY <1>4, InsertMap, StoredHasNoConflict
<1> QED
  BY <1>2, <1>3, <1>4, WhatReturns

\* However many rounds a StoreRange takes, it leaves every address to the range
\* the strategy names: nobody gains or loses an address on the way that the
\* comments of range_map.h do not give or take.
THEOREM StoresFollowStrategy == Spec => StoreFollowsStrategy
<1>1. Init => SoFar
  BY DEF Init, SoFar
<1>2. IInv /\ SoFar /\ [Next]_vars => SoFar'
  BY NextSoFar
<1>3. IInv /\ SoFar /\ [Next]_vars =>
        [calling /\ ~calling' /\ result' =>
         \A a \in Addr : Owners(map', a) =
           CASE strategy = "kExclusiveRanges" -> Exclusively(before, call.entry, a)
             [] strategy = "kTruncateUpper" -> GivesWayAbove(before, call.entry, a)
             [] strategy = "kTruncateLower" -> GivesWayBelow(before, call.entry, a)]_vars
  BY ReturnFollowsStrategy
<1> QED
  BY <1>1, <1>2, <1>3, Inductive, PTL DEF Spec, StoreFollowsStrategy

\* A range that is one is stored unless the strategy finds no place for it,
\* which can be told from the map before the call: the rounds do not run into
\* a refusal that they have brought about themselves.
THEOREM OnlyConflictsRefused == Spec => RefusesOnlyConflicts
<1>1. Init => SoFar
  BY DEF Init, SoFar
<1>2. IInv /\ SoFar /\ [Next]_vars => SoFar'
  BY NextSoFar
<1>3. IInv /\ SoFar /\ [Next]_vars =>
        [LET new == call.entry IN
         calling /\ ~calling' /\ call.size # 0 /\ new.base <= new.high =>
           (result' <=> \A h \in DOMAIN before :
              CASE strategy = "kExclusiveRanges" -> h < new.base \/ new.high < before[h].base
                [] strategy = "kTruncateLower" -> before[h].base # new.base
                [] strategy = "kTruncateUpper" -> h # new.high)]_vars
  BY ReturnRefusesConflicts DEF LetsPass
<1> QED
  BY <1>1, <1>2, <1>3, Inductive, PTL DEF Spec, RefusesOnlyConflicts
-----------------------------------------------------------------------------
\* ContainedRangeMap.  Of its tree these parts are said of any map of nodes, so
\* that they can be said of the one after a step as well.
Root == Tree!Root
Nodes == Tree!Nodes

\* The range of m is within that of n; m is below n.
Holds(n, m) == n.base <= m.base /\ m.high <= n.high
Apart(m, n) == m.high < n.base \/ n.high < m.base
Inside(m, n) == n = Root \/ (Holds(n, m) /\ m # n)

\* The nodes are ranges, and each is filed under its high address below a node
\* it is within, next to nodes it is apart from.
NodesAre(ch) ==
  /\ Root \in DOMAIN ch
  /\ DOMAIN ch \subseteq Nodes \cup {Root}
  /\ \A n \in DOMAIN ch \ {Root} : n.base <= n.high
ChildrenAre(ch) ==
  \A n \in DOMAIN ch : \A h \in DOMAIN ch[n] :
    ch[n][h] \in DOMAIN ch \ {Root} /\ ch[n][h].high = h /\ Inside(ch[n][h], n)
SiblingsApart(ch) ==
  \A n \in DOMAIN ch : \A g, h \in DOMAIN ch[n] : g < h => g < ch[n][h].base
HasParent(ch) ==
  \A n \in DOMAIN ch \ {Root} : \E p \in DOMAIN ch : \E h \in DOMAIN ch[p] : ch[p][h] = n

\* Any two ranges are apart or one is within the other; and if a node is
\* within another one then so it is within a child of that one, or is it.
Nested(ch) ==
  \A m, n \in DOMAIN ch \ {Root} : Apart(m, n) \/ Holds(m, n) \/ Holds(n, m)
Reached(ch) ==
  \A n \in DOMAIN ch, m \in DOMAIN ch \ {Root} :
    Inside(m, n) => \E h \in DOMAIN ch[n] : Holds(ch[n][h], m)

Forest(ch) ==
  /\ NodesAre(ch) /\ ChildrenAre(ch) /\ SiblingsApart(ch) /\ HasParent(ch)
  /\ Nested(ch) /\ Reached(ch)

\* A node is its two addresses, and the root has an end that is none.
LEMMA NodeIs ==
  /\ \A n \in Nodes : n.base \in Nat /\ n.high \in Nat /\ n.high < Space /\ n # Root
  /\ \A m, n \in Nodes : m.base = n.base /\ m.high = n.high => m = n
<1>1. \A n \in Nodes : n.base \in Nat /\ n.high \in Nat /\ n.high < Space
  BY SpaceType DEF Nodes, Tree!Nodes, Tree!Addr
<1>2. Root.high = Space
  BY DEF Root, Tree!Root
<1>3. \A n \in Nodes : n # Root
  BY <1>1, <1>2, SpaceType
<1>4. \A m, n \in Nodes : m.base = n.base /\ m.high = n.high => m = n
  BY DEF Nodes, Tree!Nodes
<1> QED
  BY <1>1, <1>3, <1>4

\* Nodes are named by their addresses, and their ranges are not empty.
LEMMA ForestNodes ==
  ASSUME NEW ch, NodesAre(ch), NEW n \in DOMAIN ch \ {Root}
  PROVE  n \in Nodes /\ n.base \in Nat /\ n.high \in Nat /\ n.high < Space /\ n.base <= n.high
BY NodeIs DEF NodesAre

\* Only the root.
LEMMA RootIsForest ==
  ASSUME NEW ch, DOMAIN ch = {Root}, DOMAIN ch[Root] = {}
  PROVE  Forest(ch)
BY DEF Forest, NodesAre, ChildrenAre, SiblingsApart, HasParent, Nested, Reached

\* Two children of a node with an address in common are one.
LEMMA OneChild ==
  ASSUME NEW ch, Forest(ch), NEW n \in DOMAIN ch,
         NEW g \in DOMAIN ch[n], NEW h \in DOMAIN ch[n], NEW a \in Nat,
         ch[n][g].base <= a, a <= g, ch[n][h].base <= a, a <= h
  PROVE  g = h
<1>1. /\ ch[n][g] \in DOMAIN ch \ {Root} /\ ch[n][g].high = g
      /\ ch[n][h] \in DOMAIN ch \ {Root} /\ ch[n][h].high = h
  BY DEF Forest, ChildrenAre
<1>2. /\ g \in Nat /\ h \in Nat /\ ch[n][g].base \in Nat /\ ch[n][h].base \in Nat
  BY <1>1, ForestNodes DEF Forest
<1>3. ~(g < h) /\ ~(h < g)
  BY <1>2 DEF Forest, SiblingsApart
<1> QED
  BY <1>2, <1>3

\* Nobody is in two maps.
LEMMA OneParent ==
  ASSUME NEW ch, Forest(ch), NEW p \in DOMAIN ch, NEW q \in DOMAIN ch,
         NEW g \in DOMAIN ch[p], NEW h \in DOMAIN ch[q], ch[p][g] = ch[q][h]
  PROVE  p = q
<1> DEFINE n == ch[p][g]
<1>1. /\ n \in DOMAIN ch \ {Root} /\ n.high = g /\ n.high = h
      /\ Inside(n, p) /\ Inside(n, q)
  BY DEF Forest, ChildrenAre
<1>2. n.base \in Nat /\ n.high \in Nat /\ n.base <= n.high /\ n \in Nodes
  BY <1>1, ForestNodes DEF Forest
<1>3. ASSUME NEW r \in DOMAIN ch, NEW s \in DOMAIN ch \ {Root}, NEW k \in DOMAIN ch[r],
             ch[r][k] = n, Inside(n, s), Inside(s, r)
      PROVE  FALSE
  <2>1. PICK i \in DOMAIN ch[r] : Holds(ch[r][i], s)
    BY <1>3 DEF Forest, Reached
  <2>2. /\ ch[r][i] \in DOMAIN ch \ {Root} /\ ch[r][i].high = i /\ k = n.high
    BY <1>3 DEF Forest, ChildrenAre
  <2>3. /\ ch[r][i].base \in Nat /\ i \in Nat /\ s.base \in Nat /\ s.high \in Nat /\ s \in Nodes
        /\ n # s /\ Holds(s, n)
    BY <1>3, <2>2, ForestNodes DEF Forest, Inside
  <2>4. ch[r][i].base <= n.base /\ n.base <= i /\ n.base <= k
    BY <1>2, <2>1, <2>2, <2>3 DEF Holds
  <2>5. i = k
    BY <1>2, <1>3, <2>4, OneChild
  <2>6. n.base = s.base /\ n.high = s.high
    BY <1>2, <1>3, <2>1, <2>2, <2>3, <2>5 DEF Holds
  <2> QED
    BY <1>2, <2>3, <2>6, NodeIs
<1>4. CASE p = Root \/ q = Root
  BY <1>1, <1>3, <1>4 DEF Inside
<1>5. CASE p # Root /\ q # Root
  <2>1. p \in Nodes /\ q \in Nodes /\ p.base \in Nat /\ p.high \in Nat /\ q.base \in Nat /\ q.high \in Nat
    BY <1>5, ForestNodes DEF Forest
  <2>2. ~Apart(p, q)
    BY <1>1, <1>2, <1>5, <2>1 DEF Inside, Holds, Apart
  <2>3. Holds(p, q) \/ Holds(q, p)
    BY <1>5, <2>2 DEF Forest, Nested
  <2>4. p # q => Inside(q, p) \/ Inside(p, q)
    BY <2>3 DEF Inside
  <2> QED
    BY <1>1, <1>3, <1>5, <2>4
<1> QED
  BY <1>4, <1>5

\* A new node below t, which takes over those of t's children whose keys are in
\* T: the ones that are within it, while it is apart from the others.
NewNode(ch, f, t, new, T) ==
  /\ t \in DOMAIN ch /\ new \in Nodes /\ new.base <= new.high /\ Inside(new, t)
  /\ T \subseteq DOMAIN ch[t]
  /\ \A k \in T : Holds(new, ch[t][k]) /\ ch[t][k] # new
  /\ \A k \in DOMAIN ch[t] \ T : Apart(ch[t][k], new)
  /\ DOMAIN f = DOMAIN ch \cup {new}
  /\ DOMAIN f[new] = T /\ \A k \in T : f[new][k] = ch[t][k]
  /\ DOMAIN f[t] = (DOMAIN ch[t] \ T) \cup {new.high}
  /\ f[t][new.high] = new /\ \A k \in DOMAIN ch[t] \ T : f[t][k] = ch[t][k]
  /\ \A n \in DOMAIN ch \ {t, new} : f[n] = ch[n]

\* Of every other range the new one is apart, or one is within the other, and
\* none is the same.
LEMMA NewNests ==
  ASSUME NEW ch, NEW f, NEW t, NEW new, NEW T, Forest(ch), NewNode(ch, f, t, new, T)
  PROVE  /\ new \notin DOMAIN ch
         /\ \A m \in DOMAIN ch \ {Root} : Apart(m, new) \/ Holds(m, new) \/ Holds(new, m)
         /\ \A m \in DOMAIN ch \ {Root} : Inside(m, t) /\ ~Apart(m, new) => 
              \E k \in T : Holds(ch[t][k], m)
<1>1. /\ t \in DOMAIN ch /\ new \in Nodes /\ new.base <= new.high /\ Inside(new, t)
      /\ new.base \in Nat /\ new.high \in Nat /\ new # Root
  BY NodeIs DEF NewNode
<1>2. ASSUME NEW m \in DOMAIN ch \ {Root}, Inside(m, t), ~Apart(m, new)
      PROVE  \E k \in T : Holds(ch[t][k], m)
  <2>1. PICK k \in DOMAIN ch[t] : Holds(ch[t][k], m)
    BY <1>1, <1>2 DEF Forest, Reached
  <2>2. ch[t][k] \in DOMAIN ch \ {Root}
    BY <1>1 DEF Forest, ChildrenAre
  <2>3. /\ m.base \in Nat /\ m.high \in Nat /\ m.base <= m.high
        /\ ch[t][k].base \in Nat /\ ch[t][k].high \in Nat
    BY <2>2, ForestNodes DEF Forest
  <2>4. ~Apart(ch[t][k], new)
    BY <1>1, <1>2, <2>1, <2>3 DEF Apart, Holds
  <2> QED
    BY <2>1, <2>4 DEF NewNode
<1>3. ASSUME NEW m \in DOMAIN ch \ {Root}
      PROVE  m # new /\ (Apart(m, new) \/ Holds(m, new) \/ Holds(new, m))
  <2>1. m \in Nodes /\ m.base \in Nat /\ m.high \in Nat /\ m.base <= m.high
    BY ForestNodes DEF Forest
  <2>2. CASE Inside(m, t) /\ ~Apart(m, new)
    <3>1. PICK k \in T : Holds(ch[t][k], m)
      BY <1>2, <2>2
    <3>2. Holds(new, ch[t][k]) /\ ch[t][k] # new /\ ch[t][k] \in DOMAIN ch \ {Root}
      BY <1>1, <3>1 DEF NewNode, Forest, ChildrenAre
    <3>3. ch[t][k] \in Nodes /\ ch[t][k].base \in Nat /\ ch[t][k].high \in Nat
      BY <3>2, ForestNodes DEF Forest
    <3>4. Holds(new, m)
      BY <1>1, <2>1, <3>1, <3>2, <3>3 DEF Holds
    <3>5. ASSUME m = new PROVE FALSE
      <4>1. ch[t][k].base = new.base /\ ch[t][k].high = new.high
        BY <1>1, <3>1, <3>2, <3>3, <3>5 DEF Holds
      <4> QED
        BY <1>1, <3>2, <3>3, <4>1, NodeIs
    <3> QED
      BY <3>4, <3>5
  <2>3. CASE ~Inside(m, t) /\ ~Apart(m, new)
    <3>1. t # Root /\ Holds(t, new) /\ new # t
      BY <1>1, <2>3 DEF Inside
    <3>2. t \in Nodes /\ t.base \in Nat /\ t.high \in Nat
      BY <1>1, <3>1, ForestNodes DEF Forest
    <3>3. ~Apart(m, t)
      BY <1>1, <2>1, <2>3, <3>1, <3>2 DEF Apart, Holds
    <3>4. Holds(m, t)
      BY <1>1, <2>3, <3>1, <3>3 DEF Forest, Nested, Inside, Holds
    <3>5. Holds(m, new)
      BY <1>1, <2>1, <3>1, <3>2, <3>4 DEF Holds
    <3>6. ASSUME m = new PROVE FALSE
      <4>1. Holds(t, m) /\ m # t
        BY <3>1, <3>6
      <4> QED
        BY <2>3, <4>1 DEF Inside
    <3> QED
      BY <3>5, <3>6
  <2>4. CASE Apart(m, new)
    BY <1>1, <2>4 DEF Apart
  <2> QED
    BY <2>2, <2>3, <2>4
<1> QED
  BY <1>1, <1>2, <1>3 DEF Forest, NodesAre

\* And the nodes stay a forest.
LEMMA NewIsForest ==
  ASSUME NEW ch, NEW f, NEW t, NEW new, NEW T, Forest(ch), NewNode(ch, f, t, new, T)
  PROVE  Forest(f)
<1>1. /\ t \in DOMAIN ch /\ new \in Nodes /\ new.base <= new.high /\ Inside(new, t)
      /\ new.base \in Nat /\ new.high \in Nat /\ new # Root
      /\ DOMAIN f = DOMAIN ch \cup {new}
  BY NodeIs DEF NewNode
<1>2. new \notin DOMAIN ch /\ new # t
  BY <1>1, NewNests
<1>3. /\ T \subseteq DOMAIN ch[t]
      /\ DOMAIN f[new] = T /\ \A k \in T : f[new][k] = ch[t][k]
      /\ DOMAIN f[t] = (DOMAIN ch[t] \ T) \cup {new.high}
      /\ f[t][new.high] = new
      /\ \A n \in DOMAIN ch \ {t} : f[n] = ch[n]
      /\ \A k \in T : Holds(new, ch[t][k]) /\ ch[t][k] # new
      /\ \A k \in DOMAIN ch[t] \ T : Apart(ch[t][k], new)
  BY <1>2 DEF NewNode
<1>4. \A n \in DOMAIN ch : \A h \in DOMAIN ch[n] :
        ch[n][h] \in DOMAIN ch \ {Root} /\ ch[n][h].high = h /\ Inside(ch[n][h], n)
  BY DEF Forest, ChildrenAre
<1>5. \A n \in DOMAIN ch \ {Root} : n \in Nodes /\ n.base \in Nat /\ n.high \in Nat /\ n.base <= n.high
  BY ForestNodes DEF Forest
<1>6. new.high \notin DOMAIN ch[t] \ T
  <2> SUFFICES ASSUME new.high \in DOMAIN ch[t] \ T PROVE FALSE
    OBVIOUS
  <2>1. LET c == ch[t][new.high] IN c.high = new.high /\ c.base \in Nat /\ c.base <= c.high /\ Apart(c, new)
    BY <1>1, <1>3, <1>4, <1>5
  <2> QED
    BY <1>1, <2>1 DEF Apart
<1>7. \A k \in DOMAIN ch[t] \ T : f[t][k] = ch[t][k]
  BY <1>2, <1>6 DEF NewNode
<1>8. NodesAre(f)
  BY <1>1 DEF NodesAre, Forest
<1>9. ChildrenAre(f)
  <2> SUFFICES ASSUME NEW n \in DOMAIN f, NEW h \in DOMAIN f[n]
               PROVE  f[n][h] \in DOMAIN f \ {Root} /\ f[n][h].high = h /\ Inside(f[n][h], n)
    BY DEF ChildrenAre
  <2>1. CASE n = new
    BY <1>1, <1>3, <1>4, <2>1 DEF Inside
  <2>2. CASE n = t /\ h = new.high
    BY <1>1, <1>3, <2>2
  <2>3. CASE n = t /\ h # new.high
    BY <1>1, <1>3, <1>4, <1>7, <2>3
  <2>4. CASE n # t /\ n # new
    BY <1>1, <1>3, <1>4, <2>4
  <2> QED
    BY <2>1, <2>2, <2>3, <2>4
<1>10. SiblingsApart(f)
  <2> SUFFICES ASSUME NEW n \in DOMAIN f, NEW g \in DOMAIN f[n], NEW h \in DOMAIN f[n], g < h
               PROVE  g < f[n][h].base
    BY DEF SiblingsApart
  <2>0. \A m \in DOMAIN ch : \A i, j \in DOMAIN ch[m] : i < j => i < ch[m][j].base
    BY DEF Forest, SiblingsApart
  <2>1. CASE n = new
    BY <1>1, <1>3, <2>0, <2>1
  <2>2. CASE n = t
    <3>1. \A k \in DOMAIN ch[t] \ T :
            k \in Nat /\ ch[t][k].base \in Nat /\ ch[t][k].base <= k
            /\ (k < new.base \/ new.high < ch[t][k].base)
      BY <1>1, <1>3, <1>4, <1>5 DEF Apart
    <3>2. CASE g = new.high
      <4>1. h \in DOMAIN ch[t] \ T /\ f[n][h] = ch[t][h]
        BY <1>1, <1>3, <1>7, <2>2, <3>2
      <4> QED
        BY <1>1, <3>1, <3>2, <4>1
    <3>3. CASE h = new.high
      <4>1. g \in DOMAIN ch[t] \ T /\ f[n][h] = new
        BY <1>1, <1>3, <2>2, <3>3
      <4> QED
        BY <1>1, <3>1, <3>3, <4>1
    <3>4. CASE g # new.high /\ h # new.high
      BY <1>1, <1>3, <1>7, <2>0, <2>2, <3>4
    <3> QED
      BY <3>2, <3>3, <3>4
  <2>3. CASE n # t /\ n # new
    BY <1>1, <1>3, <2>0, <2>3
  <2> QED
    BY <2>1, <2>2, <2>3
<1>11. HasParent(f)
  <2> SUFFICES ASSUME NEW n \in DOMAIN f \ {Root}
               PROVE  \E p \in DOMAIN f : \E h \in DOMAIN f[p] : f[p][h] = n
    BY DEF HasParent
  <2>1. CASE n = new
    BY <1>1, <1>3, <2>1
  <2>2. CASE n # new
    <3>1. PICK p \in DOMAIN ch : \E h \in DOMAIN ch[p] : ch[p][h] = n
      BY <1>1, <2>2 DEF Forest, HasParent
    <3>2. PICK h \in DOMAIN ch[p] : ch[p][h] = n
      BY <3>1
    <3>3. CASE p # t
      BY <1>1, <1>3, <3>2, <3>3
    <3>4. CASE p = t /\ h \in T
      BY <1>1, <1>3, <3>2, <3>4
    <3>5. CASE p = t /\ h \notin T
      BY <1>1, <1>3, <1>7, <3>2, <3>5
    <3> QED
      BY <3>3, <3>4, <3>5
  <2> QED
    BY <2>1, <2>2
<1>12. Nested(f)
  <2>1. \A m \in DOMAIN ch \ {Root} : Apart(m, new) \/ Holds(m, new) \/ Holds(new, m)
    BY NewNests
  <2>2. Holds(new, new)
    BY <1>1 DEF Holds
  <2>3. \A m : Apart(m, new) => Apart(new, m)
    BY DEF Apart
  <2> QED
    BY <1>1, <2>1, <2>2, <2>3 DEF Nested, Forest
<1>13. Reached(f)
  <2> SUFFICES ASSUME NEW n \in DOMAIN f, NEW m \in DOMAIN f \ {Root}, Inside(m, n)
               PROVE  \E h \in DOMAIN f[n] : Holds(f[n][h], m)
    BY DEF Reached
  <2>0. \A q \in DOMAIN ch, r \in DOMAIN ch \ {Root} :
          Inside(r, q) => \E h \in DOMAIN ch[q] : Holds(ch[q][h], r)
    BY DEF Forest, Reached
  <2>1. CASE n = new
    <3>1. m \in DOMAIN ch \ {Root} /\ Holds(new, m)
      BY <1>1, <2>1 DEF Inside
    <3>2. m.base \in Nat /\ m.high \in Nat /\ m.base <= m.high
      BY <1>5, <3>1
    <3>3. ~Apart(m, new)
      BY <1>1, <3>1, <3>2 DEF Holds, Apart
    <3>4. Inside(m, t)
      <4> SUFFICES ASSUME t # Root PROVE Holds(t, m) /\ m # t
        BY DEF Inside
      <4>1. Holds(t, new) /\ t.base \in Nat /\ t.high \in Nat /\ t \in Nodes
        BY <1>1, <1>5 DEF Inside
      <4>2. Holds(t, m)
        BY <1>1, <3>1, <3>2, <4>1 DEF Holds
      <4>3. ASSUME m = t PROVE FALSE
        <5>1. t.base = new.base /\ t.high = new.high
          BY <1>1, <3>1, <4>1, <4>3 DEF Holds
        <5> QED
          BY <1>1, <1>2, <4>1, <5>1, NodeIs
      <4> QED
        BY <4>2, <4>3
    <3>5. PICK k \in T : Holds(ch[t][k], m)
      BY <3>1, <3>3, <3>4, NewNests
    <3> QED
      BY <1>3, <2>1, <3>5
  <2>2. CASE n = t
    <3>1. CASE m = new
      <4>1. Holds(f[t][new.high], m)
        BY <1>1, <1>3, <3>1 DEF Holds
      <4> QED
        BY <1>3, <2>2, <4>1
    <3>2. CASE m # new
      <4>1. m \in DOMAIN ch \ {Root}
        BY <1>1, <3>2
      <4>2. PICK k \in DOMAIN ch[t] : Holds(ch[t][k], m)
        BY <1>1, <2>0, <2>2, <4>1
      <4>3. CASE k \notin T
        BY <1>3, <1>7, <2>2, <4>2, <4>3
      <4>4. CASE k \in T
        <5>1. Holds(new, ch[t][k]) /\ ch[t][k] \in DOMAIN ch \ {Root}
          BY <1>1, <1>3, <1>4, <4>4
        <5>2. Holds(new, m)
          BY <1>1, <1>5, <4>1, <4>2, <5>1 DEF Holds
        <5> QED
          BY <1>3, <2>2, <5>2
      <4> QED
        BY <4>3, <4>4
    <3> QED
      BY <3>1, <3>2
  <2>3. CASE n # t /\ n # new
    <3>1. n \in DOMAIN ch /\ f[n] = ch[n]
      BY <1>1, <1>3, <2>3
    <3>2. CASE m # new
      BY <1>1, <2>0, <3>1, <3>2
    <3>3. CASE m = new
      <4>1. CASE n = Root
        <5>1. t \in DOMAIN ch \ {Root} /\ Inside(t, n)
          BY <1>1, <2>3, <4>1 DEF Inside
        <5>2. PICK h \in DOMAIN ch[n] : Holds(ch[n][h], t)
          BY <2>0, <3>1, <5>1
        <5>3. Holds(t, new) /\ ch[n][h] \in DOMAIN ch \ {Root}
          BY <1>1, <1>4, <3>1, <5>1 DEF Inside
        <5>4. Holds(ch[n][h], new)
          BY <1>1, <1>5, <5>1, <5>2, <5>3 DEF Holds
        <5> QED
          BY <3>1, <3>3, <5>4
      <4>2. CASE n # Root
        <5>1. n \in DOMAIN ch \ {Root} /\ Holds(n, new)
          BY <2>3, <3>1, <3>3, <4>2 DEF Inside
        <5>2. n \in Nodes /\ n.base \in Nat /\ n.high \in Nat
          BY <1>5, <5>1
        <5>3. ~Apart(n, new)
          BY <1>1, <5>1, <5>2 DEF Apart, Holds
        <5>4. ASSUME Inside(n, t) PROVE FALSE
          <6>1. PICK k \in T : Holds(ch[t][k], n)
            BY <5>1, <5>3, <5>4, NewNests
          <6>2. Holds(new, ch[t][k]) /\ ch[t][k] \in DOMAIN ch \ {Root}
            BY <1>1, <1>3, <1>4, <6>1
          <6>3. n.base = new.base /\ n.high = new.high
            BY <1>1, <1>5, <5>1, <5>2, <6>1, <6>2 DEF Holds
          <6> QED
            BY <1>1, <1>2, <3>1, <5>2, <6>3, NodeIs
        <5>5. t # Root /\ Holds(t, new)
          BY <1>1, <5>4 DEF Inside
        <5>6. t \in DOMAIN ch \ {Root} /\ t.base \in Nat /\ t.high \in Nat
          BY <1>1, <1>5, <5>5
        <5>7. ~Apart(n, t)
          BY <1>1, <5>1, <5>2, <5>5, <5>6 DEF Apart, Holds
        <5>8. Inside(t, n)
          BY <2>3, <5>1, <5>4, <5>6, <5>7 DEF Forest, Nested, Inside
        <5>9. PICK h \in DOMAIN ch[n] : Holds(ch[n][h], t)
          BY <2>0, <3>1, <5>6, <5>8
        <5>10. ch[n][h] \in DOMAIN ch \ {Root}
          BY <1>4, <3>1
        <5>11. Holds(ch[n][h], new)
          BY <1>1, <1>5, <5>5, <5>6, <5>9, <5>10 DEF Holds
        <5> QED
          BY <3>1, <3>3, <5>11
      <4> QED
        BY <4>1, <4>2
    <3> QED
      BY <3>2, <3>3
  <2> QED
    BY <2>1, <2>2, <2>3
<1> QED
  BY <1>8, <1>9, <1>10, <1>11, <1>12, <1>13 DEF Forest
-----------------------------------------------------------------------------
\* The range that is to be stored.
Wanted == [base |-> Tree!base, high |-> Tree!high]

\* Between two steps of a StoreRange the nodes are a forest, and the new range
\* is within the node the call is at.
TreeInv ==
  /\ Tree!TypeOK /\ Forest(children)
  /\ request = Tree!Idle => this = Root
  /\ this # Root => Tree!IsRange
  /\ Inside(Wanted, this)

\* An unsigned sum of two addresses wraps once at most.
LEMMA WrapsOnce ==
  ASSUME NEW m \in Nat \ {0}, NEW x \in m .. m + m - 1
  PROVE  x % m = x - m
<1>1. PICK q \in Int, r \in 0 .. m - 1 : r = x % m /\ x = m * q + r
  <2>1. x \in Int /\ x % m \in 0 .. m - 1 /\ x \div m \in Int /\ x = m * (x \div m) + (x % m)
    OBVIOUS
  <2> QED
    BY <2>1
<1>2. q <= 0 => m * q <= 0
  OBVIOUS
<1>3. q >= 2 => m * q >= m + m
  <2> SUFFICES ASSUME q >= 2 PROVE m * q >= m + m
    OBVIOUS
  <2>1. PICK d \in Nat : q = 2 + d
    <3>1. q - 2 \in Nat /\ q = 2 + (q - 2)
      OBVIOUS
    <3> QED
      BY <3>1
  <2>2. m * (2 + d) = m + m + m * d /\ m * d \in Nat
    OBVIOUS
  <2> QED
    BY <2>1, <2>2
<1>4. q = 1 => m * q = m
  OBVIOUS
<1>5. PICK v \in Int : v = m * q
  OBVIOUS
<1> QED
  BY <1>1, <1>2, <1>3, <1>4, <1>5

\* What passes the test for undersize and overflow is a range, and its high
\* address has not wrapped.
LEMMA RequestIs ==
  ASSUME Tree!TypeOK, request # Tree!Idle
  PROVE  /\ request \in [base : Tree!Addr, size : Tree!Addr]
         /\ Tree!base \in Nat /\ request.size \in Nat /\ Tree!high \in Nat
         /\ Tree!base < Space /\ Tree!high < Space
         /\ Tree!IsRange <=> request.size # 0 /\ request.base + request.size - 1 < Space
         /\ Tree!IsRange => /\ Tree!high = request.base + request.size - 1
                                 /\ Tree!base <= Tree!high
                                 /\ Wanted \in Nodes
<1>1. request \in [base : Tree!Addr, size : Tree!Addr]
  BY DEF Tree!TypeOK
<1>2. /\ request.base \in Nat /\ request.size \in Nat /\ request.base < Space /\ request.size < Space
      /\ Space \in Nat \ {0}
  BY <1>1, SpaceType DEF Tree!Addr
<1>0. ASSUME NEW b \in Nat, NEW s \in Nat, b < Space, s < Space
      PROVE  /\ (b + s - 1) % Space \in Nat /\ (b + s - 1) % Space < Space
             /\ s # 0 /\ b + s - 1 < Space => (b + s - 1) % Space = b + s - 1
             /\ s # 0 /\ ~(b + s - 1 < Space) => (b + s - 1) % Space = b + s - 1 - Space
  <2>1. PICK x \in Int : x = b + s - 1
    OBVIOUS
  <2>2. x \in Space .. Space + Space - 1 => x % Space = x - Space
    BY <1>2, WrapsOnce
  <2>3. x \in 0 .. Space - 1 => x % Space = x
    BY <1>2
  <2>4. x % Space \in Nat /\ x % Space < Space
    BY <1>2
  <2>5. Space \in Int /\ x >= -1 /\ x <= Space + Space - 1 /\ (s # 0 => x >= 0)
    BY <1>0, <1>2, <2>1
  <2>6. x >= 0 => x \in 0 .. Space - 1 \/ x \in Space .. Space + Space - 1
    BY <2>5

  <2> QED
    BY <1>2, <2>1, <2>2, <2>3, <2>4, <2>5, <2>6
<1>3. PICK b, s, h \in Int :
        b = request.base /\ s = request.size /\ h = (request.base + request.size - 1) % Space
  BY <1>0, <1>2
<1>4. h \in Nat /\ h < Space
  BY <1>0, <1>2, <1>3
<1>5. s # 0 /\ b + s - 1 < Space => h = b + s - 1
  BY <1>0, <1>2, <1>3
<1>6. s # 0 /\ ~(b + s - 1 < Space) => h = b + s - 1 - Space /\ h < b
  BY <1>0, <1>2, <1>3
<1>7. Tree!base = b /\ Tree!high = h
  BY <1>3 DEF Tree!base, Tree!high
<1>8. Tree!IsRange <=> s # 0 /\ h >= b
  BY <1>3, <1>7 DEF Tree!IsRange, Tree!base
<1>9. Tree!IsRange <=> s # 0 /\ b + s - 1 < Space
  BY <1>2, <1>3, <1>5, <1>6, <1>8
<1>10. Wanted \in Nodes
  BY <1>2, <1>3, <1>4, <1>7 DEF Wanted, Nodes, Tree!Nodes, Tree!Addr
<1> QED
  BY <1>1, <1>2, <1>3, <1>4, <1>5, <1>7, <1>8, <1>9, <1>10

\* The children of the node the call is at.
LEMMA ChildIs ==
  ASSUME TreeInv, NEW k \in DOMAIN children[this]
  PROVE  /\ Tree!map = children[this]
         /\ children[this][k] \in DOMAIN children \ {Root} /\ children[this][k].high = k
         /\ Inside(children[this][k], this)
         /\ children[this][k] \in Nodes
         /\ k \in Nat /\ k < Space /\ children[this][k].base \in Nat /\ children[this][k].base <= k
         /\ \A g \in DOMAIN children[this] : g < k => g < children[this][k].base
<1>1. this \in DOMAIN children
  BY DEF TreeInv, Tree!TypeOK
<1>2. /\ children[this][k] \in DOMAIN children \ {Root} /\ children[this][k].high = k
      /\ Inside(children[this][k], this)
  BY <1>1 DEF TreeInv, Forest, ChildrenAre
<1>3. /\ children[this][k] \in Nodes /\ children[this][k].base \in Nat /\ children[this][k].high \in Nat
      /\ children[this][k].high < Space /\ children[this][k].base <= children[this][k].high
  BY <1>2, ForestNodes DEF TreeInv, Forest
<1>4. \A g \in DOMAIN children[this] : g < k => g < children[this][k].base
  BY <1>1 DEF TreeInv, Forest, SiblingsApart
<1> QED
  BY <1>2, <1>3, <1>4 DEF Tree!map

\* The new range is passed on exactly to a child it lies in.
LEMMA WithinIs ==
  ASSUME TreeInv, Tree!IsRange, NEW k \in DOMAIN children[this]
  PROVE  Tree!Within(k) <=> Holds(children[this][k], Wanted)
<1>1. /\ Tree!base \in Nat /\ Tree!high \in Nat /\ Tree!base <= Tree!high
  BY RequestIs DEF TreeInv, Tree!IsRange
<1>2. /\ Wanted.base = Tree!base /\ Wanted.high = Tree!high
  BY DEF Wanted
<1>3. \A g \in DOMAIN children[this] : g \in Nat
  BY ChildIs
<1>4. /\ children[this][k].high = k /\ k \in Nat /\ children[this][k].base \in Nat /\ children[this][k].base <= k
      /\ \A g \in DOMAIN children[this] : g < k => g < children[this][k].base
      /\ Tree!map = children[this]
  BY ChildIs
<1>5. ASSUME Tree!Within(k) PROVE Holds(children[this][k], Wanted)
  BY <1>1, <1>2, <1>4, <1>5 DEF Tree!Within, Tree!LeastNotBelow, Holds
<1>6. ASSUME Holds(children[this][k], Wanted) PROVE Tree!Within(k)
  <2>1. children[this][k].base <= Tree!base /\ Tree!high <= k
    BY <1>2, <1>4, <1>6 DEF Holds
  <2>2. \A g \in DOMAIN children[this] : g >= Tree!base => k <= g
    BY <1>1, <1>3, <1>4, <2>1
  <2>3. \A g \in DOMAIN children[this] : g >= Tree!high => k <= g
    BY <1>1, <1>3, <2>2
  <2> QED
    BY <1>1, <1>3, <1>4, <2>1, <2>2, <2>3 DEF Tree!Within, Tree!LeastNotBelow
<1> QED
  BY <1>5, <1>6

\* Two ranges have addresses in common, and each has one the other has not.
Crosses(m, n) ==
  \/ m.base < n.base /\ n.base <= m.high /\ m.high < n.high
  \/ n.base < m.base /\ m.base <= n.high /\ n.high < m.high

\* A child that is refused because of crosses the new range.
LEMMA PartlyIs ==
  ASSUME TreeInv, Tree!IsRange, ~ \E k \in DOMAIN children[this] : Tree!Within(k),
         Tree!PartlyCovers
  PROVE  \E k \in DOMAIN children[this] : Crosses(Wanted, children[this][k])
<1>1. /\ Tree!base \in Nat /\ Tree!high \in Nat /\ Tree!base <= Tree!high
  BY RequestIs DEF TreeInv, Tree!IsRange
<1>2. /\ Wanted.base = Tree!base /\ Wanted.high = Tree!high
  BY DEF Wanted
<1>3. Tree!map = children[this]
  BY DEF Tree!map
<1>4. PICK k \in DOMAIN children[this] :
        \/ k \in Tree!LeastNotBelow(Tree!map, Tree!base)
           /\ Tree!base > Tree!map[k].base
        \/ Tree!ContainsHigh(k) /\ Tree!high < k
  BY <1>3 DEF Tree!PartlyCovers
<1>5. /\ children[this][k].high = k /\ k \in Nat /\ children[this][k].base \in Nat
      /\ children[this][k].base <= k
  BY ChildIs
<1>6. ~(children[this][k].base <= Tree!base /\ Tree!high <= k)
  BY <1>2, <1>5, WithinIs DEF Holds
<1>7. \/ k >= Tree!base /\ Tree!base > children[this][k].base
      \/ Tree!high >= children[this][k].base /\ Tree!high < k
  BY <1>3, <1>4 DEF Tree!LeastNotBelow, Tree!ContainsHigh
<1> QED
  BY <1>1, <1>2, <1>5, <1>6, <1>7 DEF Crosses

\* What is inserted takes over the children within it, and the others are
\* apart from it.
LEMMA TransferredIs ==
  ASSUME TreeInv, Tree!IsRange, ~ \E k \in DOMAIN children[this] : Tree!Within(k),
         ~Tree!PartlyCovers, NEW k \in DOMAIN children[this]
  PROVE  /\ k \in Tree!Transferred =>
              Holds(Wanted, children[this][k]) /\ children[this][k] # Wanted
         /\ k \notin Tree!Transferred => Apart(children[this][k], Wanted)
<1> DEFINE c == children[this][k]
           b == Tree!base
           e == Tree!high
<1>1. /\ b \in Nat /\ e \in Nat /\ b <= e
  BY RequestIs DEF TreeInv, Tree!IsRange
<1>2. /\ Wanted.base = b /\ Wanted.high = e
  BY DEF Wanted
<1>3. \A g \in DOMAIN children[this] : g \in Nat
  BY ChildIs
<1>4. /\ c.high = k /\ k \in Nat /\ c.base \in Nat /\ c.base <= k
      /\ \A g \in DOMAIN children[this] : g < k => g < c.base
      /\ Tree!map = children[this]
  BY ChildIs
<1>5. ASSUME k >= b, c.base <= e
      PROVE  /\ Holds(Wanted, c) /\ c # Wanted /\ k \in Tree!Transferred
  <2>1. b <= c.base
    <3> SUFFICES ASSUME c.base < b PROVE FALSE
      BY <1>1, <1>4
    <3>1. \A g \in DOMAIN children[this] : g >= b => k <= g
      BY <1>1, <1>3, <1>4
    <3>2. k \in Tree!LeastNotBelow(Tree!map, b)
      BY <1>4, <1>5, <3>1 DEF Tree!LeastNotBelow
    <3> QED
      BY <1>1, <1>4, <3>2 DEF Tree!PartlyCovers
  <2>2. k >= e => k \in Tree!LeastNotBelow(Tree!map, e)
    <3>1. \A g \in DOMAIN children[this] : g >= e => k <= g
      BY <1>1, <1>3, <1>4, <1>5
    <3> QED
      BY <1>4, <3>1 DEF Tree!LeastNotBelow
  <2>3. k >= e => Tree!ContainsHigh(k)
    BY <1>1, <1>4, <1>5, <2>2 DEF Tree!ContainsHigh
  <2>4. k <= e
    BY <1>1, <1>4, <2>3 DEF Tree!PartlyCovers
  <2>5. Holds(Wanted, c)
    BY <1>2, <1>4, <2>1, <2>4 DEF Holds
  <2>6. c # Wanted
    <3> SUFFICES ASSUME c = Wanted PROVE FALSE
      OBVIOUS
    <3>1. Holds(c, Wanted)
      BY <1>1, <1>2 DEF Holds
    <3> QED
      BY <3>1, WithinIs
  <2>7. \A i \in Tree!LeastNotBelow(Tree!map, e) :
          k < i \/ (k = i /\ Tree!ContainsHigh(i))
    <3> SUFFICES ASSUME NEW i \in Tree!LeastNotBelow(Tree!map, e)
                 PROVE  k < i \/ (k = i /\ Tree!ContainsHigh(i))
      OBVIOUS
    <3>1. i \in DOMAIN children[this] /\ i >= e
      BY <1>4 DEF Tree!LeastNotBelow
    <3>2. i \in Nat
      BY <1>3, <3>1
    <3> QED
      BY <1>1, <1>4, <2>3, <2>4, <3>1, <3>2
  <2> QED
    BY <1>4, <1>5, <2>5, <2>6, <2>7 DEF Tree!Transferred
<1>6. ASSUME k \in Tree!Transferred PROVE k >= b /\ c.base <= e
  <2>1. k >= b /\ \A i \in Tree!LeastNotBelow(Tree!map, e) :
          k < i \/ (k = i /\ Tree!ContainsHigh(i))
    BY <1>4, <1>6 DEF Tree!Transferred
  <2>2. CASE k < e
    BY <1>1, <1>4, <2>1, <2>2
  <2>3. CASE k >= e
    <3>1. {g \in DOMAIN children[this] : g >= e} \in SUBSET Nat
      BY <1>3
    <3>2. PICK i \in {g \in DOMAIN children[this] : g >= e} :
            \A y \in {g \in DOMAIN children[this] : g >= e} : i <= y
      BY <2>3, <3>1, LeastOne
    <3>3. i \in Tree!LeastNotBelow(Tree!map, e) /\ i <= k /\ i \in Nat
      BY <1>3, <1>4, <2>3, <3>2 DEF Tree!LeastNotBelow
    <3>4. k = i /\ Tree!ContainsHigh(i)
      BY <1>4, <2>1, <3>3
    <3> QED
      BY <1>1, <1>4, <2>1, <3>4 DEF Tree!ContainsHigh
  <2> QED
    BY <1>1, <1>4, <2>2, <2>3
<1>7. ~(k >= b /\ c.base <= e) => Apart(c, Wanted)
  BY <1>1, <1>2, <1>4 DEF Apart
<1> QED
  BY <1>5, <1>6, <1>7
-----------------------------------------------------------------------------
\* An Insert is what NewNode describes.
LEMMA InsertIsNew ==
  ASSUME TreeInv, Tree!Insert
  PROVE  NewNode(children, children', this, Wanted, Tree!Transferred)
<1> DEFINE T == Tree!Transferred
           e == Tree!high
           remaining == Tree!Without(children[this], T)
           f == children'
<1>1. /\ Tree!IsRange /\ ~Tree!PartlyCovers
      /\ ~ \E k \in DOMAIN children[this] : Tree!Within(k)
      /\ f = [n \in DOMAIN children \cup {Wanted} |->
                CASE n = Wanted -> Tree!Without(children[this], DOMAIN remaining)
                  [] n = this -> Tree!WithNew(remaining, e, Wanted)
                  [] OTHER -> children[n]]
  BY DEF Tree!Insert, Tree!map, Wanted
<1>2. /\ this \in DOMAIN children /\ Wanted \in Nodes /\ Wanted.base <= Wanted.high
      /\ Inside(Wanted, this) /\ Wanted.high = e /\ e \in Nat
  BY <1>1, RequestIs DEF TreeInv, Tree!TypeOK, Tree!IsRange, Wanted
<1>3. Wanted # this
  BY <1>2, NodeIs DEF Inside
<1>4. T \subseteq DOMAIN children[this]
  BY DEF Tree!Transferred, Tree!map
<1>5. /\ \A k \in T : Holds(Wanted, children[this][k]) /\ children[this][k] # Wanted
      /\ \A k \in DOMAIN children[this] \ T : Apart(children[this][k], Wanted)
  BY <1>1, <1>4, TransferredIs
<1>6. /\ DOMAIN remaining = DOMAIN children[this] \ T
      /\ \A k \in DOMAIN children[this] \ T : remaining[k] = children[this][k]
  BY DEF Tree!Without
<1>7. e \notin DOMAIN remaining
  <2> SUFFICES ASSUME e \in DOMAIN remaining PROVE FALSE
    OBVIOUS
  <2>1. /\ e \in DOMAIN children[this] /\ Apart(children[this][e], Wanted)
    BY <1>5, <1>6
  <2>2. children[this][e].high = e /\ children[this][e].base \in Nat /\ children[this][e].base <= e
    BY <2>1, ChildIs
  <2>3. Wanted.base \in Nat
    BY <1>2, NodeIs
  <2> QED
    BY <1>2, <2>1, <2>2, <2>3 DEF Apart
<1> HIDE DEF T
<1>8. DOMAIN children[this] \ DOMAIN remaining = T
  BY <1>4, <1>6
<1>9. /\ f[Wanted] = Tree!Without(children[this], DOMAIN remaining)
      /\ f[this] = Tree!WithNew(remaining, e, Wanted)
      /\ DOMAIN f = DOMAIN children \cup {Wanted}
      /\ \A n \in DOMAIN children \ {this, Wanted} : f[n] = children[n]
  BY <1>1, <1>2, <1>3
<1> HIDE DEF f
<1>10. DOMAIN f[Wanted] = T /\ \A k \in T : f[Wanted][k] = children[this][k]
  BY <1>8, <1>9 DEF Tree!Without
<1>11. /\ DOMAIN f[this] = DOMAIN remaining \cup {e} /\ f[this][e] = Wanted
       /\ \A k \in DOMAIN remaining : f[this][k] = remaining[k]
  BY <1>7, <1>9 DEF Tree!WithNew
<1> HIDE DEF remaining
<1>12. /\ DOMAIN f[this] = (DOMAIN children[this] \ T) \cup {Wanted.high}
       /\ f[this][Wanted.high] = Wanted
       /\ \A k \in DOMAIN children[this] \ T : f[this][k] = children[this][k]
  BY <1>2, <1>6, <1>11
<1> QED
  BY <1>2, <1>4, <1>5, <1>9, <1>10, <1>12 DEF NewNode, T, f

\* Only the root is in no map.
LEMMA OnlyRootIsFree ==
  ASSUME TreeInv
  PROVE  {m \in DOMAIN children : Tree!Parents(m) = {}} = {Root}
<1>1. \A n \in DOMAIN children \ {Root} : Tree!Parents(n) # {}
  BY DEF TreeInv, Forest, HasParent, Tree!Parents
<1>2. \A p \in DOMAIN children : \A h \in DOMAIN children[p] : children[p][h] # Root
  BY DEF TreeInv, Forest, ChildrenAre
<1>3. Tree!Parents(Root) = {}
  BY <1>2 DEF Tree!Parents
<1>4. Root \in DOMAIN children
  BY DEF TreeInv, Forest, NodesAre
<1> QED
  BY <1>1, <1>3, <1>4

\* The tree begins so.
LEMMA TreeBegins == Tree!Init => TreeInv
<1> SUFFICES ASSUME Tree!Init PROVE TreeInv
  OBVIOUS
<1>1. /\ DOMAIN children = {Root} /\ DOMAIN children[Root] = {}
      /\ request = Tree!Idle /\ this = Root /\ found = FALSE
  BY DEF Tree!Init, Tree!OnlyRoot, Tree!EmptyMap, Root
<1>2. Forest(children)
  BY <1>1, RootIsForest
<1>3. Tree!TypeOK
  BY <1>1 DEF Tree!TypeOK, Root, Nodes
<1> QED
  BY <1>1, <1>2, <1>3 DEF TreeInv, Inside

\* What TypeOK says of the nodes.
LEMMA ForestTypes ==
  ASSUME NEW ch, Forest(ch)
  PROVE  /\ Tree!Root \in DOMAIN ch
         /\ DOMAIN ch \subseteq Tree!Nodes \cup {Tree!Root}
         /\ \A n \in DOMAIN ch : \A h \in DOMAIN ch[n] :
              h \in Tree!Addr /\ ch[n][h] \in DOMAIN ch
<1>1. /\ Tree!Root \in DOMAIN ch
      /\ DOMAIN ch \subseteq Tree!Nodes \cup {Tree!Root}
  BY DEF Forest, NodesAre, Root, Nodes
<1>2. \A n \in DOMAIN ch : \A h \in DOMAIN ch[n] :
        h \in Tree!Addr /\ ch[n][h] \in DOMAIN ch
  <2> SUFFICES ASSUME NEW n \in DOMAIN ch, NEW h \in DOMAIN ch[n]
               PROVE  h \in Tree!Addr /\ ch[n][h] \in DOMAIN ch
    OBVIOUS
  <2>1. ch[n][h] \in DOMAIN ch \ {Root} /\ ch[n][h].high = h
    BY DEF Forest, ChildrenAre
  <2>2. ch[n][h].high \in Nat /\ ch[n][h].high < Space
    BY <2>1, ForestNodes DEF Forest
  <2> QED
    BY <2>1, <2>2, SpaceType DEF Tree!Addr
<1> QED
  BY <1>1, <1>2

\* A request is not Idle.
LEMMA IdleIs ==
  /\ \A r \in [base : Tree!Addr, size : Tree!Addr] : r # Tree!Idle
  /\ request = Tree!Idle => ~Tree!IsRange
<1>1. Tree!Idle.size = 0 - 1
  BY DEF Tree!Idle, Tree!Abstract!Idle
<1>2. \A r \in [base : Tree!Addr, size : Tree!Addr] : r.size \in Nat
  BY SpaceType DEF Tree!Addr
<1>3. \A r \in [base : Tree!Addr, size : Tree!Addr] : r # Tree!Idle
  BY <1>1, <1>2
<1> QED
  BY <1>3 DEF Tree!IsRange

\* A StoreRange that returns leaves the call at the root.
LEMMA TreeReturns ==
  ASSUME TreeInv, Forest(children'), NEW v \in BOOLEAN, Tree!Returns(v)
  PROVE  TreeInv'
<1>1. request' = Tree!Idle /\ this' = Root /\ found' \in BOOLEAN
  BY DEF Tree!Returns, Root
<1>2. /\ Tree!Idle' = Tree!Idle /\ Root' = Root
  BY DEF Tree!Idle, Tree!Abstract!Idle, Root, Tree!Root
<1>3. (this \in DOMAIN children)'
  BY <1>1, <1>2 DEF Forest, NodesAre
<1>5. Tree!TypeOK'
  BY <1>1, <1>2, <1>3, ForestTypes DEF Tree!TypeOK
<1> QED
  BY <1>1, <1>2, <1>5 DEF TreeInv, Inside

\* Every step of a StoreRange, Call and Clear keep the tree so.
LEMMA TreeSteps == ASSUME TreeInv, Tree!Next PROVE TreeInv'
<1> USE DEF Tree!vars
<1>0. /\ Tree!TypeOK /\ Forest(children) /\ this \in DOMAIN children
      /\ Inside(Wanted, this) /\ found \in BOOLEAN
      /\ request \in [base : Tree!Addr, size : Tree!Addr] \cup {Tree!Idle}
  BY DEF TreeInv, Tree!TypeOK
<1>1. children' = children => Forest(children')
  BY <1>0
<1>2. CASE \E b, s \in Tree!Addr : Tree!Call(b, s)
  <2>1. PICK b, s \in Tree!Addr :
          /\ request = Tree!Idle /\ request' = [base |-> b, size |-> s]
          /\ found' = FALSE /\ children' = children /\ this' = this
    BY <1>2 DEF Tree!Call
  <2>2. request' \in [base : Tree!Addr, size : Tree!Addr]
    BY <2>1
  <2>3. this = Root /\ request' # Tree!Idle'
    BY <2>1, <2>2, IdleIs DEF TreeInv, Tree!Idle, Tree!Abstract!Idle
  <2>4. Tree!TypeOK'
    BY <1>0, <2>1, <2>2 DEF Tree!TypeOK
  <2> QED
    BY <1>0, <2>1, <2>3, <2>4 DEF TreeInv, Inside
<1>3. CASE Tree!RejectSize \/ Tree!RefuseIdentical \/ Tree!RefusePartial
  <2>1. children' = children /\ Tree!Returns(FALSE)
    BY <1>3 DEF Tree!RejectSize, Tree!RefuseIdentical, Tree!RefusePartial
  <2> QED
    BY <1>1, <2>1, TreeReturns
<1>4. CASE Tree!Descend
  <2>1. PICK k \in DOMAIN children[this] :
          /\ Tree!Within(k) /\ ~Tree!Identical(k) /\ this' = children[this][k]
    BY <1>4 DEF Tree!Descend, Tree!map
  <2>2. /\ Tree!IsRange /\ children' = children /\ request' = request /\ found' = found
    BY <1>4 DEF Tree!Descend
  <2>3. Holds(children[this][k], Wanted)
    BY <2>1, <2>2, WithinIs
  <2>4. /\ children[this][k] \in DOMAIN children \ {Root} /\ children[this][k].high = k
        /\ Tree!map = children[this]
    BY ChildIs
  <2>5. Wanted # children[this][k]
    BY <2>1, <2>4 DEF Tree!Identical, Wanted
  <2>6. Wanted' = Wanted /\ Tree!IsRange'
    BY <2>2 DEF Wanted, Tree!base, Tree!high, Tree!IsRange, Tree!Idle,
                Tree!Abstract!Idle
  <2>7. Inside(Wanted', this')
    BY <2>1, <2>3, <2>5, <2>6 DEF Inside
  <2>8. request' # Tree!Idle'
    BY <2>6 DEF Tree!IsRange
  <2>9. Tree!TypeOK'
    BY <1>0, <2>1, <2>2, <2>4 DEF Tree!TypeOK
  <2> QED
    BY <1>1, <2>2, <2>6, <2>7, <2>8, <2>9 DEF TreeInv
<1>5. CASE Tree!Insert
  <2>1. Forest(children')
    BY <1>0, <1>5, InsertIsNew, NewIsForest
  <2>2. Tree!Returns(TRUE)
    BY <1>5 DEF Tree!Insert
  <2> QED
    BY <2>1, <2>2, TreeReturns
<1>6. CASE Tree!Clear
  <2>1. /\ DOMAIN children' = {Root} /\ DOMAIN children'[Root] = {}
    BY <1>6, OnlyRootIsFree DEF Tree!Clear, Tree!EmptyMap, Root
  <2>2. Forest(children')
    BY <2>1, RootIsForest
  <2>3. request = Tree!Idle /\ request' = request /\ this' = this /\ found' = found
    BY <1>6 DEF Tree!Clear
  <2>4. this = Root
    BY <2>3 DEF TreeInv
  <2>5. Tree!TypeOK'
    BY <1>0, <2>1, <2>2, <2>3, <2>4, ForestTypes DEF Tree!TypeOK
  <2>6. this' = Root
    BY <2>3, <2>4
  <2> QED
    BY <2>2, <2>5, <2>6 DEF TreeInv, Inside, Root
<1> QED
  BY <1>2, <1>3, <1>4, <1>5, <1>6 DEF Tree!Next, Tree!StoreRange
-----------------------------------------------------------------------------
\* Parents are counted as everything else is.
LEMMA ParentsCounted == ASSUME NEW S PROVE Tree!Cardinality(S) = Cardinality(S)
BY DEF Tree!Cardinality, Cardinality

\* A node is in one map and in one only, under its high address.
LEMMA TreeIsTree == ASSUME TreeInv PROVE Tree!IsTree
<1> SUFFICES ASSUME NEW n \in DOMAIN children \ {Root}
             PROVE  /\ Cardinality(Tree!Parents(n)) = 1
                    /\ \A p \in Tree!Parents(n) :
                         /\ children[p][n.high] = n
                         /\ p # Root => p.base <= n.base /\ n.high <= p.high /\ p # n
                         /\ \A h \in DOMAIN children[p] :
                              children[p][h] # n => h < n.base \/ n.high < children[p][h].base
  BY ParentsCounted DEF Tree!IsTree, Root
<1>1. Forest(children)
  BY DEF TreeInv
<1>2. PICK p \in DOMAIN children : \E h \in DOMAIN children[p] : children[p][h] = n
  BY <1>1 DEF Forest, HasParent
<1>3. Tree!Parents(n) = {p}
  BY <1>1, <1>2, OneParent DEF Tree!Parents
<1>4. Cardinality(Tree!Parents(n)) = 1
  BY <1>3, FS_Singleton
<1>5. PICK g \in DOMAIN children[p] : children[p][g] = n
  BY <1>2
<1>6. n.high = g /\ Inside(n, p)
  BY <1>1, <1>5 DEF Forest, ChildrenAre
<1>7. ASSUME NEW h \in DOMAIN children[p], children[p][h] # n
      PROVE  h < n.base \/ n.high < children[p][h].base
  <2>1. h # g /\ children[p][h] \in DOMAIN children \ {Root} /\ children[p][h].high = h
    BY <1>1, <1>5, <1>7 DEF Forest, ChildrenAre
  <2>2. h \in Nat /\ g \in Nat
    BY <1>1, <1>6, <2>1, ForestNodes DEF Forest
  <2>3. \A i, j \in DOMAIN children[p] : i < j => i < children[p][j].base
    BY <1>1 DEF Forest, SiblingsApart
  <2> QED
    BY <1>5, <1>6, <2>1, <2>2, <2>3
<1> QED
  BY <1>3, <1>4, <1>5, <1>6, <1>7 DEF Inside, Holds

-----------------------------------------------------------------------------
\* The ranges stored.
Kept == DOMAIN children \ {Root}

\* What NestedRanges accepts.
LEMMA AcceptableIs ==
  ASSUME NEW r
  PROVE  Tree!Abstract!Acceptable(r) <=>
           /\ r.base <= r.high /\ r.high < Space
           /\ r \notin Kept /\ \A s \in Kept : ~Crosses(r, s)
BY DEF Tree!Abstract!Acceptable, Tree!Abstract!Crossing, Crosses, Kept, Root

\* The answer to a request that is no range, or to one that is.
LEMMA AnswerIs ==
  ASSUME TreeInv, request # Tree!Idle, NEW v \in BOOLEAN, Tree!Returns(v),
         v => Tree!IsRange /\ Wanted \notin Kept /\ \A s \in Kept : ~Crosses(Wanted, s),
         ~v /\ Tree!IsRange => Wanted \in Kept \/ \E s \in Kept : Crosses(Wanted, s),
         Kept' = IF v THEN Kept \cup {Wanted} ELSE Kept
  PROVE  Tree!Abstract!Answer
<1> DEFINE range == [base |-> request.base, high |-> Tree!Abstract!HighOf(request)]
<1>1. /\ request.base \in Nat /\ request.size \in Nat /\ request.base < Space
      /\ Tree!IsRange <=> request.size # 0 /\ request.base + request.size - 1 < Space
      /\ Tree!IsRange => Tree!high = request.base + request.size - 1
  BY RequestIs DEF TreeInv, Tree!base
<1>2. range.base = request.base /\ range.high = request.base + request.size - 1
  BY DEF Tree!Abstract!HighOf
<1>3. Tree!IsRange <=> range.base <= range.high /\ range.high < Space
  BY <1>1, <1>2, SpaceType
<1>4. Tree!IsRange => range = Wanted
  BY <1>1, <1>2 DEF Wanted, Tree!base, Tree!Abstract!HighOf
<1>5. Tree!Abstract!Acceptable(range) <=> v
  <2> HIDE DEF range
  <2> QED
    BY <1>3, <1>4, AcceptableIs
<1>6. request' = Tree!Abstract!Idle /\ found' = v
  BY DEF Tree!Returns, Tree!Idle
<1>7. /\ Kept' = (DOMAIN children \ {Tree!Root})' /\ Kept = DOMAIN children \ {Tree!Root}
  BY DEF Kept, Root
<1> HIDE DEF range
<1>8. Kept' = IF Tree!Abstract!Acceptable(range) THEN Kept \cup {range} ELSE Kept
  BY <1>4, <1>5
<1>9. found' = Tree!Abstract!Acceptable(range)
  <2>1. Tree!Abstract!Acceptable(range) \in BOOLEAN
    BY DEF Tree!Abstract!Acceptable
  <2> QED
    BY <1>5, <1>6, <2>1
<1> QED
  BY <1>6, <1>7, <1>8, <1>9 DEF Tree!Abstract!Answer, range, Tree!Idle

\* Every step is one NestedRanges allows, or one it does not see: the answer
\* the recursion finds at some level is right for all ranges there are.
LEMMA StepsAreAllowed ==
  ASSUME TreeInv, Tree!Next
  PROVE  Tree!Abstract!Next \/ UNCHANGED <<Kept, request, found>>
<1>1. CASE \E b, s \in Tree!Addr : Tree!Call(b, s)
  <2>1. PICK b, s \in Tree!Addr :
          /\ request = Tree!Idle /\ request' = [base |-> b, size |-> s]
          /\ found' = FALSE /\ children' = children
    BY <1>1 DEF Tree!Call
  <2>2. request' \in [base : Tree!Abstract!Addr, size : Tree!Abstract!Addr]
    BY <2>1 DEF Tree!Abstract!Addr, Tree!Addr
  <2>3. (DOMAIN children \ {Tree!Root})' = DOMAIN children \ {Tree!Root}
    BY <2>1 DEF Tree!Root
  <2>4. Tree!Abstract!Request
    BY <2>1, <2>2, <2>3 DEF Tree!Abstract!Request, Tree!Idle
  <2> QED
    BY <2>4 DEF Tree!Abstract!Next
<1>2. CASE Tree!RejectSize
  <2>1. request # Tree!Idle /\ ~Tree!IsRange /\ Tree!Returns(FALSE) /\ Kept' = Kept
    BY <1>2 DEF Tree!RejectSize, Kept, Root, Tree!Root
  <2>2. Tree!Abstract!Answer
    BY <2>1, AnswerIs
  <2> QED
    BY <2>2 DEF Tree!Abstract!Next
<1>3. CASE Tree!RefuseIdentical
  <2>1. Tree!IsRange /\ Tree!Returns(FALSE) /\ Kept' = Kept
    BY <1>3 DEF Tree!RefuseIdentical, Kept, Root, Tree!Root
  <2>2. request # Tree!Idle
    BY <2>1 DEF Tree!IsRange
  <2>3. PICK k \in DOMAIN children[this] : Tree!Within(k) /\ Tree!Identical(k)
    BY <1>3 DEF Tree!RefuseIdentical, Tree!map
  <2>4. /\ children[this][k] \in Kept /\ children[this][k].high = k /\ children[this][k] \in Nodes
        /\ Tree!map = children[this]
    BY ChildIs DEF Kept
  <2>5. children[this][k].base = Wanted.base /\ children[this][k].high = Wanted.high
    BY <2>3, <2>4 DEF Tree!Identical, Wanted
  <2>6. Wanted \in Nodes
    BY <2>1, <2>2, RequestIs DEF TreeInv
  <2>7. Wanted \in Kept
    BY <2>4, <2>5, <2>6, NodeIs
  <2>8. Tree!Abstract!Answer
    BY <2>1, <2>2, <2>7, AnswerIs
  <2> QED
    BY <2>8 DEF Tree!Abstract!Next
<1>4. CASE Tree!Descend
  BY <1>4 DEF Tree!Descend, Kept, Root, Tree!Root
<1>5. CASE Tree!RefusePartial
  <2>1. /\ Tree!IsRange /\ Tree!Returns(FALSE) /\ Kept' = Kept /\ Tree!PartlyCovers
        /\ ~ \E k \in DOMAIN children[this] : Tree!Within(k)
    BY <1>5 DEF Tree!RefusePartial, Kept, Root, Tree!Root, Tree!map
  <2>2. request # Tree!Idle
    BY <2>1 DEF Tree!IsRange
  <2>3. PICK k \in DOMAIN children[this] : Crosses(Wanted, children[this][k])
    BY <2>1, PartlyIs
  <2>4. children[this][k] \in Kept
    BY ChildIs DEF Kept
  <2>5. Tree!Abstract!Answer
    BY <2>1, <2>2, <2>3, <2>4, AnswerIs
  <2> QED
    BY <2>5 DEF Tree!Abstract!Next
<1>6. CASE Tree!Insert
  <2>1. Tree!IsRange /\ Tree!Returns(TRUE)
    BY <1>6 DEF Tree!Insert
  <2>2. request # Tree!Idle
    BY <2>1 DEF Tree!IsRange
  <2>3. /\ NewNode(children, children', this, Wanted, Tree!Transferred) /\ Forest(children)
    BY <1>6, InsertIsNew DEF TreeInv
  <2>4. /\ Wanted \notin DOMAIN children
        /\ \A m \in Kept : Apart(m, Wanted) \/ Holds(m, Wanted) \/ Holds(Wanted, m)
    BY <2>3, NewNests DEF Kept
  <2>5. /\ Wanted \in Nodes /\ DOMAIN children' = DOMAIN children \cup {Wanted}
    BY <2>3 DEF NewNode
  <2>6. Wanted.base \in Nat /\ Wanted.high \in Nat /\ Wanted # Root
    BY <2>5, NodeIs
  <2>7. Kept' = Kept \cup {Wanted}
    BY <2>5, <2>6 DEF Kept, Root, Tree!Root
  <2>8. ASSUME NEW s \in Kept PROVE ~Crosses(Wanted, s)
    <3>1. s.base \in Nat /\ s.high \in Nat /\ s.base <= s.high
      BY <2>3, ForestNodes DEF Kept, Forest
    <3> QED
      BY <2>4, <2>6, <3>1 DEF Crosses, Apart, Holds
  <2>9. Tree!Abstract!Answer
    BY <2>1, <2>2, <2>4, <2>7, <2>8, AnswerIs DEF Kept
  <2> QED
    BY <2>9 DEF Tree!Abstract!Next
<1>7. CASE Tree!Clear
  <2>1. request = Tree!Idle /\ DOMAIN children' = {Root} /\ UNCHANGED <<request, found>>
    BY <1>7, OnlyRootIsFree DEF Tree!Clear
  <2>2. (DOMAIN children \ {Tree!Root})' = {}
    BY <2>1 DEF Root, Tree!Root
  <2>3. Tree!Abstract!Clear
    BY <2>1, <2>2 DEF Tree!Abstract!Clear, Tree!Idle
  <2> QED
    BY <2>3 DEF Tree!Abstract!Next
<1> QED
  BY <1>1, <1>2, <1>3, <1>4, <1>5, <1>6, <1>7 DEF Tree!Next, Tree!StoreRange
-----------------------------------------------------------------------------
\* The ranges that contain an address, those of them below a node, and the
\* smallest of these.
Width(n) == n.high - n.base
Around(a) == {m \in Kept : m.base <= a /\ a <= m.high}
Below(a, n) == {m \in Around(a) : Inside(m, n)}
Smallest(S) == {m \in S : \A o \in S : Width(m) <= Width(o)}
SmallestBelow(a) == [n \in DOMAIN children |-> Smallest(Below(a, n))]

\* The equation of the recursion.
HitOf(a, n) ==
  {children[n][k] : k \in {j \in Tree!LeastNotBelow(children[n], a) : a >= children[n][j].base}}
FoundBy(a, f) ==
  [n \in DOMAIN children |-> UNION {IF f[c] = {} THEN {c} ELSE f[c] : c \in HitOf(a, n)}]

\* RetrieveRange is a solution of it, at the root.
LEMMA RetrieveRangeIs ==
  ASSUME NEW a PROVE Tree!RetrieveRange(a) = (CHOOSE f : f = FoundBy(a, f))[Root]
BY DEF Tree!RetrieveRange, FoundBy, HitOf, Root

\* What is below a node is smaller.
LEMMA WidthIs ==
  ASSUME TreeInv
  PROVE  /\ \A n \in DOMAIN children : Width(n) \in Nat
         /\ \A n \in DOMAIN children, m \in Kept : Inside(m, n) => Width(m) < Width(n)
<1>1. \A n \in Kept : n \in Nodes /\ n.base \in Nat /\ n.high \in Nat /\ n.high < Space /\ n.base <= n.high
  BY ForestNodes DEF TreeInv, Forest, Kept
<1>2. Root.base = 0 /\ Root.high = Space /\ Space \in Nat
  BY SpaceType DEF Root, Tree!Root
<1>3. \A n \in DOMAIN children : n \in Kept \/ n = Root
  BY DEF Kept
<1>4. \A n \in DOMAIN children : Width(n) \in Nat
  BY <1>1, <1>2, <1>3 DEF Width
<1>5. ASSUME NEW n \in DOMAIN children, NEW m \in Kept, Inside(m, n)
      PROVE  Width(m) < Width(n)
  <2>1. CASE n = Root
    BY <1>1, <1>2, <2>1 DEF Width
  <2>2. CASE n # Root
    <3>1. n \in Kept /\ Holds(n, m) /\ m # n
      BY <1>3, <1>5, <2>2 DEF Inside
    <3>2. ~(m.base = n.base /\ m.high = n.high)
      BY <1>1, <3>1, NodeIs
    <3> QED
      BY <1>1, <3>1, <3>2 DEF Width, Holds
  <2> QED
    BY <2>1, <2>2
<1> QED
  BY <1>4, <1>5

\* A search goes on at the child that contains the address, if there is one.
LEMMA HitIs ==
  ASSUME TreeInv, NEW a \in Nat, NEW n \in DOMAIN children
  PROVE  /\ \A c \in HitOf(a, n) : c \in Around(a) /\ Inside(c, n)
         /\ \A c, d \in HitOf(a, n) : c = d
         /\ \A h \in DOMAIN children[n] : children[n][h].base <= a /\ a <= h => children[n][h] \in HitOf(a, n)
<1>1. Forest(children)
  BY DEF TreeInv
<1>2. \A h \in DOMAIN children[n] :
        /\ children[n][h] \in Kept /\ children[n][h].high = h /\ Inside(children[n][h], n)
        /\ h \in Nat /\ children[n][h].base \in Nat
  BY <1>1, ForestNodes DEF Forest, ChildrenAre, Kept
<1>3. \A c \in HitOf(a, n) : \E h \in DOMAIN children[n] :
        c = children[n][h] /\ children[n][h].base <= a /\ a <= h
  BY <1>2 DEF HitOf, Tree!LeastNotBelow
<1>4. ASSUME NEW c \in HitOf(a, n) PROVE c \in Around(a) /\ Inside(c, n)
  BY <1>2, <1>3 DEF Around
<1>5. ASSUME NEW c \in HitOf(a, n), NEW d \in HitOf(a, n) PROVE c = d
  <2>1. PICK h \in DOMAIN children[n] : c = children[n][h] /\ children[n][h].base <= a /\ a <= h
    BY <1>3
  <2>2. PICK i \in DOMAIN children[n] : d = children[n][i] /\ children[n][i].base <= a /\ a <= i
    BY <1>3
  <2>3. h = i
    BY <1>1, <2>1, <2>2, OneChild
  <2> QED
    BY <2>1, <2>2, <2>3
<1>6. ASSUME NEW h \in DOMAIN children[n], children[n][h].base <= a, a <= h
      PROVE  children[n][h] \in HitOf(a, n)
  <2>1. \A g \in DOMAIN children[n] : g < h => g < children[n][h].base
    BY <1>1 DEF Forest, SiblingsApart
  <2>2. \A g \in DOMAIN children[n] : g >= a => h <= g
    BY <1>2, <1>6, <2>1
  <2>3. h \in Tree!LeastNotBelow(children[n], a)
    BY <1>2, <1>6, <2>2 DEF Tree!LeastNotBelow
  <2> QED
    BY <1>2, <1>6, <2>3 DEF HitOf
<1> QED
  BY <1>4, <1>5, <1>6

\* Of some ranges one is the smallest.
LEMMA SmallestExists ==
  ASSUME TreeInv, NEW S \in SUBSET Kept, S # {}
  PROVE  Smallest(S) # {}
<1> DEFINE W == {Width(m) : m \in S}
<1>1. W \in SUBSET Nat /\ W # {}
  BY WidthIs DEF Kept
<1>2. PICK w \in W : \A v \in W : w <= v
  <2> HIDE DEF W
  <2> QED
    BY <1>1, LeastOne
<1>3. PICK m \in S : w = Width(m)
  BY <1>2
<1> QED
  BY <1>2, <1>3 DEF Smallest

\* Below a node are the child that contains the address and what is below it.
LEMMA BelowIs ==
  ASSUME TreeInv, NEW a \in Nat, NEW n \in DOMAIN children
  PROVE  /\ HitOf(a, n) = {} => Below(a, n) = {}
         /\ \A c \in HitOf(a, n) : Below(a, n) = Below(a, c) \cup {c}
<1>1. Forest(children) /\ \A m \in Kept : m.base \in Nat /\ m.high \in Nat /\ m \in Nodes
  BY ForestNodes DEF TreeInv, Forest, Kept
<1>2. ASSUME NEW m \in Below(a, n) PROVE \E c \in HitOf(a, n) : Holds(c, m)
  <2>1. m \in Kept /\ m.base <= a /\ a <= m.high /\ Inside(m, n)
    BY DEF Below, Around
  <2>2. PICK h \in DOMAIN children[n] : Holds(children[n][h], m)
    BY <1>1, <2>1 DEF Forest, Reached, Kept
  <2>3. children[n][h] \in Kept /\ children[n][h].high = h
    BY <1>1 DEF Forest, ChildrenAre, Kept
  <2>4. children[n][h].base <= a /\ a <= h
    BY <1>1, <2>1, <2>2, <2>3 DEF Holds
  <2> QED
    BY <2>2, <2>4, HitIs
<1>3. ASSUME NEW c \in HitOf(a, n), NEW m \in Below(a, n) PROVE m \in Below(a, c) \cup {c}
  <2>1. Holds(c, m) /\ m \in Around(a)
    BY <1>2, HitIs DEF Below
  <2> QED
    BY <2>1 DEF Below, Inside
<1>4. ASSUME NEW c \in HitOf(a, n), NEW m \in Below(a, c) PROVE m \in Below(a, n)
  <2>1. c \in Kept /\ m \in Kept /\ Inside(c, n) /\ Inside(m, c) /\ c # Root /\ m \in Around(a)
    BY HitIs DEF Below, Around, Kept
  <2>2. CASE n = Root
    BY <2>1, <2>2 DEF Below, Inside
  <2>3. CASE n # Root
    <3>1. n \in Kept /\ Holds(n, c) /\ Holds(c, m) /\ c # n
      BY <2>1, <2>3 DEF Kept, Inside
    <3>2. Holds(n, m)
      BY <1>1, <2>1, <3>1 DEF Holds
    <3>3. ASSUME m = n PROVE FALSE
      <4>1. n.base = c.base /\ n.high = c.high
        BY <1>1, <2>1, <3>1, <3>3 DEF Holds
      <4> QED
        BY <1>1, <2>1, <3>1, <4>1, NodeIs
    <3> QED
      BY <2>1, <3>2, <3>3 DEF Below, Inside
  <2> QED
    BY <2>2, <2>3
<1>5. \A c \in HitOf(a, n) : c \in Below(a, n)
  BY HitIs DEF Below
<1> QED
  BY <1>2, <1>3, <1>4, <1>5

\* The smallest range below each node solves the equation,
LEMMA SmallestSolves ==
  ASSUME TreeInv, NEW a \in Nat
  PROVE  SmallestBelow(a) = FoundBy(a, SmallestBelow(a))
<1> DEFINE F == SmallestBelow(a)
<1>1. ASSUME NEW n \in DOMAIN children
      PROVE  F[n] = UNION {IF F[c] = {} THEN {c} ELSE F[c] : c \in HitOf(a, n)}
  <2>0. F[n] = Smallest(Below(a, n))
    BY DEF SmallestBelow
  <2>1. CASE HitOf(a, n) = {}
    BY <2>0, <2>1, BelowIs DEF Smallest
  <2>2. CASE HitOf(a, n) # {}
    <3>1. PICK c \in HitOf(a, n) : HitOf(a, n) = {c}
      BY <2>2, HitIs
    <3>2. c \in Around(a) /\ Inside(c, n) /\ c \in Kept /\ c \in DOMAIN children
      BY HitIs DEF Around, Kept
    <3>3. F[c] = Smallest(Below(a, c))
      BY <3>2 DEF SmallestBelow
    <3>4. Below(a, n) = Below(a, c) \cup {c}
      BY BelowIs
    <3>5. Width(c) \in Nat /\ \A m \in Below(a, c) : Width(m) < Width(c) /\ Width(m) \in Nat
      BY <3>2, WidthIs DEF Below, Around, Kept
    <3>6. CASE Below(a, c) = {}
      <4>1. F[c] = {}
        BY <3>3, <3>6 DEF Smallest
      <4>2. F[n] = {c}
        BY <2>0, <3>4, <3>5, <3>6 DEF Smallest
      <4> HIDE DEF F
      <4> QED
        BY <3>1, <4>1, <4>2
    <3>7. CASE Below(a, c) # {}
      <4>1. F[c] # {}
        BY <3>3, <3>7, SmallestExists DEF Below, Around
      <4>2. F[n] = F[c]
        BY <2>0, <3>3, <3>4, <3>5, <3>7 DEF Smallest
      <4> HIDE DEF F
      <4> QED
        BY <3>1, <4>1, <4>2
    <3> QED
      BY <3>6, <3>7
  <2> QED
    BY <2>1, <2>2
<1>2. F = [n \in DOMAIN children |-> F[n]]
  BY DEF SmallestBelow
<1> HIDE DEF F
<1> QED
  BY <1>1, <1>2 DEF FoundBy, F

\* and nothing else does: two solutions would differ at a smallest node, whose
\* child is smaller still.
LEMMA OneSolution ==
  ASSUME TreeInv, NEW a \in Nat, NEW f, f = FoundBy(a, f), NEW g, g = FoundBy(a, g)
  PROVE  f = g
<1> DEFINE D == DOMAIN children
           Bad == {n \in D : f[n] # g[n]}
           W == {Width(n) : n \in Bad}
<1>1. /\ f = [n \in D |-> UNION {IF f[c] = {} THEN {c} ELSE f[c] : c \in HitOf(a, n)}]
      /\ g = [n \in D |-> UNION {IF g[c] = {} THEN {c} ELSE g[c] : c \in HitOf(a, n)}]
  BY DEF FoundBy
<1>2. f = [n \in D |-> f[n]] /\ g = [n \in D |-> g[n]]
  BY <1>1
<1>3. ASSUME Bad # {} PROVE FALSE
  <2>1. W \in SUBSET Nat /\ W # {}
    BY <1>3, WidthIs
  <2>2. PICK w \in W : \A v \in W : w <= v
    <3> HIDE DEF W
    <3> QED
      BY <2>1, LeastOne
  <2>3. PICK n \in Bad : w = Width(n)
    BY <2>2
  <2>4. ASSUME NEW c \in HitOf(a, n) PROVE f[c] = g[c]
    <3>1. c \in D /\ Width(c) < Width(n) /\ Width(c) \in Nat /\ Width(n) \in Nat
      BY HitIs, WidthIs DEF Around, Kept
    <3>2. c \notin Bad
      BY <2>2, <2>3, <3>1
    <3> QED
      BY <3>1, <3>2
  <2>5. /\ f[n] = UNION {IF f[c] = {} THEN {c} ELSE f[c] : c \in HitOf(a, n)}
        /\ g[n] = UNION {IF g[c] = {} THEN {c} ELSE g[c] : c \in HitOf(a, n)}
    BY <1>1
  <2>6. {IF f[c] = {} THEN {c} ELSE f[c] : c \in HitOf(a, n)}
        = {IF g[c] = {} THEN {c} ELSE g[c] : c \in HitOf(a, n)}
    BY <2>4
  <2> QED
    BY <2>5, <2>6
<1>4. \A n \in D : f[n] = g[n]
  BY <1>3
<1> QED
  BY <1>2, <1>4

\* RetrieveRange finds the smallest range around the address.
LEMMA TreeMostSpecific == ASSUME TreeInv PROVE Tree!MostSpecific
<1> SUFFICES ASSUME NEW a \in Tree!Addr
             PROVE  Tree!RetrieveRange(a) = Smallest(Around(a))
  BY DEF Tree!MostSpecific, Smallest, Around, Width, Kept, Root
<1>1. a \in Nat
  BY SpaceType DEF Tree!Addr
<1>2. PICK f : f = (CHOOSE g : g = FoundBy(a, g)) /\ f = FoundBy(a, f)
  BY <1>1, SmallestSolves
<1>3. f = SmallestBelow(a)
  BY <1>1, <1>2, OneSolution, SmallestSolves
<1>4. Root \in DOMAIN children
  BY DEF TreeInv, Forest, NodesAre
<1>5. Below(a, Root) = Around(a)
  BY DEF Below, Inside
<1> QED
  BY <1>2, <1>3, <1>4, <1>5, RetrieveRangeIs DEF SmallestBelow
-----------------------------------------------------------------------------
\* A symbol is in the map exactly if it was the first that was stored at its
\* address.
FirstAsked(i) == \A j \in DOMAIN asked : asked[j].address = asked[i].address => i <= j
PublicsInv ==
  /\ Publics!TypeOK
  /\ \A k \in DOMAIN symbols : \E i \in DOMAIN asked :
       asked[i].address = k /\ symbols[k] = asked[i] /\ FirstAsked(i)
  /\ \A i \in DOMAIN asked : asked[i].address \in DOMAIN symbols

\* There are no symbols at the beginning.
LEMMA PublicsBegin == Publics!Init => PublicsInv
<1> SUFFICES ASSUME Publics!Init PROVE PublicsInv
  OBVIOUS
<1>1. asked = << >> /\ stored = FALSE /\ DOMAIN symbols = {}
  BY DEF Publics!Init, Publics!EmptyMap
<1>2. asked \in Seq(Publics!Symbols) /\ DOMAIN asked = {}
  BY <1>1
<1> QED
  BY <1>1, <1>2 DEF PublicsInv, Publics!TypeOK

\* Store keeps the symbol that is there.
LEMMA PublicsStep == ASSUME PublicsInv, Publics!Next PROVE PublicsInv'
<1>0. /\ DOMAIN symbols \subseteq Publics!Addr
      /\ \A a \in DOMAIN symbols : symbols[a] \in Publics!Symbols /\ symbols[a].address = a
      /\ stored \in BOOLEAN /\ asked \in Seq(Publics!Symbols)
  BY DEF PublicsInv, Publics!TypeOK
<1>1. CASE Publics!Clear
  BY <1>0, <1>1 DEF Publics!Clear, PublicsInv, Publics!TypeOK, Publics!EmptyMap
<1>2. ASSUME NEW symbol \in Publics!Symbols, Publics!Store(symbol) PROVE PublicsInv'
  <2> DEFINE k == symbol.address
  <2>0. PICK n \in Nat : n = Len(asked) + 1
    BY <1>0
  <2>1. /\ stored' \in BOOLEAN /\ asked' = Append(asked, symbol)
        /\ symbols' = Publics!WithNew(symbols, k, symbol)
    BY <1>2 DEF Publics!Store
  <2>2. k \in Publics!Addr
    BY DEF Publics!Symbols
  <2>3. /\ asked' \in Seq(Publics!Symbols) /\ DOMAIN asked' = DOMAIN asked \cup {n}
        /\ asked'[n] = symbol /\ \A i \in DOMAIN asked : asked'[i] = asked[i] /\ i <= n /\ i # n
    BY <1>0, <2>0, <2>1
  <2>4. /\ DOMAIN symbols' = DOMAIN symbols \cup {k}
        /\ \A a \in DOMAIN symbols : symbols'[a] = symbols[a]
        /\ k \notin DOMAIN symbols => symbols'[k] = symbol
    BY <2>1 DEF Publics!WithNew
  <2>5. Publics!TypeOK'
    BY <1>0, <2>1, <2>2, <2>3, <2>4 DEF Publics!TypeOK
  <2>6. ASSUME NEW a \in DOMAIN symbols'
        PROVE  \E i \in DOMAIN asked' : asked'[i].address = a /\ symbols'[a] = asked'[i] /\ FirstAsked(i)'
    <3>1. CASE a \in DOMAIN symbols
      <4>1. PICK i \in DOMAIN asked : asked[i].address = a /\ symbols[a] = asked[i] /\ FirstAsked(i)
        BY <3>1 DEF PublicsInv
      <4>2. FirstAsked(i)'
        BY <2>3, <4>1 DEF FirstAsked
      <4> QED
        BY <2>3, <2>4, <3>1, <4>1, <4>2
    <3>2. CASE a \notin DOMAIN symbols
      <4>1. a = k /\ symbols'[a] = symbol /\ asked'[n] = symbol
        BY <2>3, <2>4, <3>2
      <4>2. \A i \in DOMAIN asked : asked[i].address # k
        BY <3>2, <4>1 DEF PublicsInv
      <4>3. FirstAsked(n)'
        BY <2>3, <4>2 DEF FirstAsked
      <4> QED
        BY <2>3, <4>1, <4>3
    <3> QED
      BY <3>1, <3>2
  <2>7. \A i \in DOMAIN asked' : asked'[i].address \in DOMAIN symbols'
    BY <2>3, <2>4 DEF PublicsInv
  <2> QED
    BY <2>5, <2>6, <2>7 DEF PublicsInv
<1> QED
  BY <1>1, <1>2 DEF Publics!Next

\* What Retrieve finds is at the highest key that is not above.
LEMMA RetrieveIs ==
  ASSUME PublicsInv, Publics!SizesAreNat, NEW a \in Publics!Addr
  PROVE  Publics!Retrieve(a) =
           {symbols[k] : k \in {j \in DOMAIN symbols :
                                  j <= a /\ \A g \in DOMAIN symbols : g <= a => g <= j}}
<1> DEFINE D == DOMAIN symbols
           it == Publics!LeastAbove(symbols, a)
<1>1. a \in Nat /\ D \subseteq Nat
  BY DEF PublicsInv, Publics!TypeOK, Publics!Addr, Publics!SizesAreNat
<1>2. ASSUME NEW k \in D PROVE (\A i \in it : k < i) <=> k <= a
  <2>1. ASSUME k <= a PROVE \A i \in it : k < i
    BY <1>1, <2>1 DEF Publics!LeastAbove
  <2>2. ASSUME ~(k <= a) PROVE \E i \in it : ~(k < i)
    <3>1. {g \in D : g > a} \in SUBSET Nat /\ k \in {g \in D : g > a}
      BY <1>1, <2>2
    <3>2. PICK i \in {g \in D : g > a} : \A y \in {g \in D : g > a} : i <= y
      BY <3>1, LeastOne
    <3>3. i \in it /\ i <= k /\ i \in Nat /\ k \in Nat
      BY <1>1, <3>1, <3>2 DEF Publics!LeastAbove
    <3> QED
      BY <3>3
  <2> QED
    BY <2>1, <2>2
<1> HIDE DEF it
<1>3. Publics!Before(symbols, it)
        = {j \in D : j <= a /\ \A g \in D : g <= a => g <= j}
  BY <1>2 DEF Publics!Before
<1> QED
  BY <1>3 DEF Publics!Retrieve, it

\* So the symbol found is the first that was asked for at that address.
LEMMA PublicsFind ==
  ASSUME PublicsInv, Publics!SizesAreNat
  PROVE  Publics!FindsFirstOfNearest
<1> SUFFICES ASSUME NEW a \in Publics!Addr
             PROVE  LET below == {i \in DOMAIN asked : asked[i].address <= a}
                        nearest == {i \in below : \A j \in below : asked[j].address <= asked[i].address}
                    IN Publics!Retrieve(a)
                         = {asked[i] : i \in {j \in nearest : \A k \in nearest : j <= k}}
  BY DEF Publics!FindsFirstOfNearest
<1> DEFINE below == {i \in DOMAIN asked : asked[i].address <= a}
           nearest == {i \in below : \A j \in below : asked[j].address <= asked[i].address}
           firsts == {j \in nearest : \A k \in nearest : j <= k}
           tops == {j \in DOMAIN symbols : j <= a /\ \A g \in DOMAIN symbols : g <= a => g <= j}
<1>1. /\ a \in Nat /\ DOMAIN symbols \subseteq Nat /\ DOMAIN asked \subseteq Nat
      /\ \A i \in DOMAIN asked : asked[i].address \in DOMAIN symbols
      /\ \A k \in DOMAIN symbols : \E i \in DOMAIN asked :
           asked[i].address = k /\ symbols[k] = asked[i] /\ FirstAsked(i)
  BY DEF PublicsInv, Publics!TypeOK, Publics!Addr, Publics!SizesAreNat
<1>2. ASSUME NEW k \in tops PROVE \E i \in firsts : symbols[k] = asked[i]
  <2>1. PICK i \in DOMAIN asked : asked[i].address = k /\ symbols[k] = asked[i] /\ FirstAsked(i)
    BY <1>1
  <2>2. i \in nearest
    BY <1>1, <2>1
  <2>3. \A j \in nearest : asked[j].address = k
    BY <1>1, <2>1, <2>2
  <2>4. \A j \in nearest : i <= j
    BY <2>1, <2>3 DEF FirstAsked
  <2> QED
    BY <2>1, <2>2, <2>4
<1>3. ASSUME NEW i \in firsts PROVE \E k \in tops : symbols[k] = asked[i]
  <2>1. i \in DOMAIN asked /\ asked[i].address \in DOMAIN symbols /\ asked[i].address <= a
    BY <1>1
  <2>2. ASSUME NEW g \in DOMAIN symbols, g <= a PROVE g <= asked[i].address
    <3>1. PICK j \in DOMAIN asked : asked[j].address = g
      BY <1>1
    <3> QED
      BY <2>2, <3>1
  <2>3. asked[i].address \in tops
    BY <2>1, <2>2
  <2>4. PICK m \in DOMAIN asked : /\ asked[m].address = asked[i].address
                                  /\ symbols[asked[i].address] = asked[m] /\ FirstAsked(m)
    BY <1>1, <2>1
  <2>5. m \in nearest
    BY <2>4
  <2>6. i <= m /\ m <= i
    BY <2>1, <2>4, <2>5 DEF FirstAsked
  <2>7. i = m
    BY <1>1, <2>1, <2>4, <2>6
  <2> QED
    BY <2>3, <2>4, <2>7
<1>4. Publics!Retrieve(a) = {symbols[k] : k \in tops}
  BY RetrieveIs
<1> HIDE DEF below, nearest, firsts, tops
<1>5. {symbols[k] : k \in tops} = {asked[i] : i \in firsts}
  BY <1>2, <1>3
<1> QED
  BY <1>4, <1>5 DEF below, nearest, firsts
-----------------------------------------------------------------------------
\* WindowsFrameInfo: its three properties together are inductive.
FramesInv == FrameInfos!TypeOK /\ FrameInfos!IndexIsInside /\ FrameInfos!SeesWhatWasSaid

\* Nothing is known, and nothing was said.
LEMMA FramesBegin ==
  ASSUME FrameInfos!FrameAssumption, FrameInfos!Init
  PROVE  FramesInv
<1>1. FrameInfos!Unknown \in FrameInfos!Infos
  BY DEF FrameInfos!FrameAssumption, FrameInfos!Unknown, FrameInfos!Infos,
         FrameInfos!STACK_INFO_UNKNOWN, FrameInfos!VALID_NONE
<1>2. /\ FrameInfos!Unknown.valid = FrameInfos!VALID_NONE
      /\ FrameInfos!Seen(FrameInfos!Unknown) = FrameInfos!Nothing
  BY DEF FrameInfos!Unknown, FrameInfos!Seen
<1> QED
  BY <1>1, <1>2 DEF FrameInfos!Init, FramesInv, FrameInfos!TypeOK,
                    FrameInfos!IndexIsInside, FrameInfos!SeesWhatWasSaid

\* A step puts something else into one frame, and says so.
LEMMA FrameChanges ==
  ASSUME FramesInv, NEW f \in Frames, NEW i \in FrameInfos!Infos, NEW what,
         info' = [info EXCEPT ![f] = i], said' = [said EXCEPT ![f] = what],
         FrameInfos!Seen(i) = what,
         i.valid # FrameInfos!VALID_NONE => i.type_ \in 0 .. FrameInfos!STACK_INFO_LAST - 1
  PROVE  FramesInv'
<1>1. info \in [Frames -> FrameInfos!Infos] /\ DOMAIN said = Frames
  BY DEF FramesInv, FrameInfos!TypeOK
<1>2. /\ info' \in [Frames -> FrameInfos!Infos] /\ DOMAIN said' = Frames
      /\ info'[f] = i /\ said'[f] = what
      /\ \A g \in Frames \ {f} : info'[g] = info[g] /\ said'[g] = said[g]
  BY <1>1
<1>3. FrameInfos!IndexIsInside'
  <2> SUFFICES ASSUME NEW g \in Frames, info'[g].valid # FrameInfos!VALID_NONE
               PROVE  info'[g].type_ \in 0 .. FrameInfos!STACK_INFO_LAST - 1
    BY DEF FrameInfos!IndexIsInside, FrameInfos!VALID_NONE, FrameInfos!STACK_INFO_LAST
  <2> QED
    BY <1>2 DEF FramesInv, FrameInfos!IndexIsInside
<1>4. FrameInfos!SeesWhatWasSaid'
  <2> SUFFICES ASSUME NEW g \in Frames PROVE FrameInfos!Seen(info'[g]) = said'[g]
    BY DEF FrameInfos!SeesWhatWasSaid, FrameInfos!Seen, FrameInfos!Nothing,
           FrameInfos!VALID_NONE
  <2> QED
    BY <1>2 DEF FramesInv, FrameInfos!SeesWhatWasSaid
<1> QED
  BY <1>2, <1>3, <1>4 DEF FramesInv, FrameInfos!TypeOK, FrameInfos!Infos

\* Lines, copies and Clear.
LEMMA FramesStep ==
  ASSUME FramesInv, FrameInfos!FrameAssumption, FrameInfos!Next
  PROVE  FramesInv'
<1>0. /\ \A f \in Frames : /\ info[f] \in FrameInfos!Infos
                           /\ FrameInfos!Seen(info[f]) = said[f]
                           /\ info[f].valid # FrameInfos!VALID_NONE =>
                                info[f].type_ \in 0 .. FrameInfos!STACK_INFO_LAST - 1
  BY DEF FramesInv, FrameInfos!TypeOK, FrameInfos!SeesWhatWasSaid, FrameInfos!IndexIsInside
<1>1. ASSUME NEW f \in Frames, NEW line \in FrameInfos!Lines,
             FrameInfos!ParseFromString(f, line)
      PROVE  FramesInv'
  <2> DEFINE i == [type_ |-> FrameInfos!AsInt(line.type), valid |-> FrameInfos!VALID_ALL,
                   parameter_size |-> FrameInfos!AsUInt(line.parameter_size),
                   local_size |-> FrameInfos!AsUInt(line.local_size),
                   allocates_base_pointer |->
                     line.has_program_string = 0 /\ FrameInfos!Number(line.last) # 0,
                   program_string |-> IF line.has_program_string = 1 THEN line.last ELSE ""]
  <2>1. /\ FrameInfos!Parses(line)
        /\ info' = [info EXCEPT ![f] = i]
        /\ said' = [said EXCEPT ![f] = FrameInfos!Says(line)]
    BY <1>1 DEF FrameInfos!ParseFromString
  <2>2. FrameInfos!AsInt(line.type) \in 0 .. FrameInfos!STACK_INFO_LAST - 1
    BY <2>1 DEF FrameInfos!Parses
  <2>3. \A n \in Nat : FrameInfos!AsUInt(n) \in 0 .. Ints - 1
    BY DEF FrameInfos!AsUInt, FrameInfos!FrameAssumption
  <2>4. /\ line.parameter_size \in Nat /\ line.local_size \in Nat /\ line.last \in FrameInfos!Tokens
        /\ line.has_program_string \in {0, 1}
    BY DEF FrameInfos!Lines, FrameInfos!FrameAssumption
  <2>5. i \in FrameInfos!Infos
    BY <2>2, <2>3, <2>4 DEF FrameInfos!Infos
  <2>6. FrameInfos!Seen(i) = FrameInfos!Says(line)
    <3>1. FrameInfos!VALID_ALL # FrameInfos!VALID_NONE
      BY DEF FrameInfos!VALID_ALL, FrameInfos!VALID_NONE
    <3>2. FrameInfos!Number(line.last) # 0 <=> FrameInfos!Number(line.last) = 1
      BY DEF FrameInfos!Number
    <3>3. line.last # ""
      BY <2>4 DEF FrameInfos!Tokens
    <3> QED
      BY <2>4, <3>1, <3>2, <3>3 DEF FrameInfos!Seen, FrameInfos!Says
  <2> HIDE DEF i
  <2>7. i.valid # FrameInfos!VALID_NONE => i.type_ \in 0 .. FrameInfos!STACK_INFO_LAST - 1
    BY <2>2 DEF i
  <2> QED
    BY <2>1, <2>5, <2>6, <2>7, FrameChanges
<1>2. ASSUME NEW f \in Frames, NEW that \in Frames, FrameInfos!CopyFrom(f, that)
      PROVE  FramesInv'
  <2>1. info' = [info EXCEPT ![f] = info[that]] /\ said' = [said EXCEPT ![f] = said[that]]
    BY <1>2 DEF FrameInfos!CopyFrom
  <2> QED
    BY <1>0, <2>1, FrameChanges
<1>3. ASSUME NEW f \in Frames, FrameInfos!Clear(f) PROVE FramesInv'
  <2> DEFINE i == [info[f] EXCEPT !.type_ = FrameInfos!STACK_INFO_UNKNOWN,
                                  !.valid = FrameInfos!VALID_NONE, !.program_string = ""]
  <2>1. info[f] \in FrameInfos!Infos /\ info \in [Frames -> FrameInfos!Infos]
    BY <1>0 DEF FramesInv, FrameInfos!TypeOK
  <2>2. info' = [info EXCEPT ![f] = i] /\ said' = [said EXCEPT ![f] = FrameInfos!Nothing]
    BY <1>3, <2>1 DEF FrameInfos!Clear, FrameInfos!Infos
  <2>3. i \in FrameInfos!Infos /\ i.valid = FrameInfos!VALID_NONE
    BY <2>1 DEF FrameInfos!Infos
  <2> HIDE DEF i
  <2>4. FrameInfos!Seen(i) = FrameInfos!Nothing
    BY <2>3 DEF FrameInfos!Seen
  <2> QED
    BY <2>2, <2>3, <2>4, FrameChanges
<1> QED
  BY <1>1, <1>2, <1>3 DEF FrameInfos!Next
-----------------------------------------------------------------------------
\* The functions are a RangeMap: what is proved of it holds of them.
LEMMA FunctionsAre ==
  /\ Functions!Init => Init
  /\ Functions!Next => Next
  /\ IInv => Functions!TypeOK
<1>1. Functions!Init => Init
  BY DEF Functions!Init, Init, Functions!NoMap, NoMap, Functions!NoCall, NoCall,
         Functions!NoEntry, NoEntry
<1>2. /\ \A s : Functions!SetMergeStrategy(s) => SetMergeStrategy(s)
      /\ Functions!Clear => Clear
  BY DEF Functions!SetMergeStrategy, SetMergeStrategy, Functions!Clear, Clear,
         Functions!NoMap, NoMap
<1>3. \A x : Functions!Wrap(x) = Wrap(x)
  BY DEF Functions!Wrap, Wrap
<1>4. \A b, s : Functions!StoreRange(b, s) => StoreRange(b, s)
  BY <1>3 DEF Functions!StoreRange, StoreRange
<1>5. \A v : Functions!Returns(v) => Returns(v)
  BY DEF Functions!Returns, Returns, Functions!NoMap, NoMap, Functions!NoCall, NoCall,
         Functions!NoEntry, NoEntry
<1>6. \A c : Functions!Retries(c) => Retries(c)
  BY DEF Functions!Retries, Retries
<1>7. Functions!high = high
  BY <1>3 DEF Functions!high, high
<1>8. Functions!IsRange <=> IsRange
  BY <1>7 DEF Functions!IsRange, IsRange
<1>9. Functions!RejectSize => RejectSize
  BY <1>5, <1>8 DEF Functions!RejectSize, RejectSize
<1>10. /\ Functions!End = End
       /\ \A a : Functions!LowerBound(map, a) = LowerBound(map, a)
  BY DEF Functions!End, End, Functions!LowerBound, LowerBound
<1>11. \A k : /\ Functions!EndsWithin(k) <=> EndsWithin(k)
              /\ Functions!BeginsWithin(k) <=> BeginsWithin(k)
  BY <1>7, <1>10 DEF Functions!EndsWithin, EndsWithin, Functions!BeginsWithin, BeginsWithin
<1>12. \A k : Functions!Conflict(k) <=> Conflict(k)
  BY <1>8, <1>11 DEF Functions!Conflict, Conflict
<1>13. \A m, k, r : /\ Functions!Erased(m, k) = Erased(m, k)
                    /\ Functions!Inserted(m, k, r) = Inserted(m, k, r)
  BY DEF Functions!Erased, Erased, Functions!Inserted, Inserted
<1>14. \A k : /\ Functions!Exclude(k) => Exclude(k)
              /\ Functions!TruncateNew(k) => TruncateNew(k)
              /\ Functions!RefuseSameBase(k) => RefuseSameBase(k)
              /\ Functions!RefuseCovered(k) => RefuseCovered(k)
  <2> TAKE k
  <2>1. Functions!Exclude(k) => Exclude(k)
    BY <1>5, <1>12 DEF Functions!Exclude, Exclude
  <2>2. Functions!TruncateNew(k) => TruncateNew(k)
    BY <1>3, <1>6, <1>12 DEF Functions!TruncateNew, TruncateNew
  <2>3. Functions!RefuseSameBase(k) => RefuseSameBase(k)
    BY <1>5, <1>12 DEF Functions!RefuseSameBase, RefuseSameBase
  <2>4. Functions!RefuseCovered(k) => RefuseCovered(k)
    BY <1>5, <1>7, <1>8, <1>11 DEF Functions!RefuseCovered, RefuseCovered
  <2> QED
    BY <2>1, <2>2, <2>3, <2>4
<1>15. \A k : Functions!TruncateOther(k) => TruncateOther(k)
  BY <1>3, <1>6, <1>12, <1>13 DEF Functions!TruncateOther, TruncateOther
<1>16. \A k : Functions!SkipBelow(k) => SkipBelow(k)
  BY <1>3, <1>6, <1>8, <1>11 DEF Functions!SkipBelow, SkipBelow
<1>17. \A k : Functions!ShrinkOther(k) => ShrinkOther(k)
  BY <1>3, <1>6, <1>7, <1>8, <1>11, <1>13 DEF Functions!ShrinkOther, ShrinkOther
<1>18. \A k : Functions!Insert(k) => Insert(k)
  BY <1>5, <1>7, <1>8, <1>10, <1>13 DEF Functions!Insert, Insert
<1>19. Functions!StoreRangeInternal => StoreRangeInternal
  BY <1>9, <1>10, <1>14, <1>15, <1>16, <1>17, <1>18
     DEF Functions!StoreRangeInternal, StoreRangeInternal
<1>20. Functions!Next => Next
  BY <1>2, <1>4, <1>19
     DEF Functions!Next, Next, Functions!Strategies, Strategies, Functions!Addr, Addr
<1>21. IInv => Functions!Typed
  BY DEF IInv, Typed, Functions!Typed, Functions!IsMap, IsMap, Functions!Ranges,
         Ranges, Functions!Entries, Entries, Functions!Addr, Addr, Functions!Calls,
         Calls, Functions!Strategies, Strategies
<1>22. IInv => Functions!NothingWraps
  BY NoSumWraps DEF NothingWraps, Functions!NothingWraps, IsRange, Functions!IsRange,
         high, Functions!high, Wrap, Functions!Wrap
<1> QED
  BY <1>1, <1>20, <1>21, <1>22 DEF Functions!TypeOK

\* What is always true of the four maps.
MapsInv == TreeInv /\ IInv /\ PublicsInv /\ FramesInv

\* It is true at the beginning;
LEMMA MapsBegin == ASSUME SymbolMapsAssumption PROVE MapsInit => MapsInv
BY TreeBegins, FunctionsAre, InitIInv, PublicsBegin, FramesBegin
   DEF MapsInit, MapsInv, SymbolMapsAssumption

\* a part that takes no step keeps what is true of it,
LEMMA TreeStays ==
  ASSUME TreeInv, UNCHANGED <<children, request, this, found>> PROVE TreeInv'
<1>1. /\ Wanted' = Wanted /\ (Tree!IsRange' <=> Tree!IsRange)
      /\ Tree!Idle' = Tree!Idle
  BY DEF Wanted, Tree!base, Tree!high, Tree!IsRange, Tree!Idle,
         Tree!Abstract!Idle
<1>2. Tree!TypeOK'
  BY DEF TreeInv, Tree!TypeOK
<1>3. Forest(children')
  BY DEF TreeInv
<1> QED
  BY <1>1, <1>2, <1>3 DEF TreeInv

\* the public symbols,
LEMMA PublicsStay ==
  ASSUME PublicsInv, UNCHANGED <<symbols, stored, asked>> PROVE PublicsInv'
BY DEF PublicsInv, Publics!TypeOK, FirstAsked

\* and the frames;
LEMMA FramesStay == ASSUME FramesInv, UNCHANGED <<info, said>> PROVE FramesInv'
BY DEF FramesInv, FrameInfos!TypeOK, FrameInfos!IndexIsInside,
       FrameInfos!SeesWhatWasSaid

\* and it stays true, whichever part takes a step.
LEMMA MapsStep ==
  ASSUME SymbolMapsAssumption, MapsInv, [MapsNext]_allVars
  PROVE  MapsInv'
<1>1. TreeInv'
  <2>1. Tree!Next \/ UNCHANGED <<children, request, this, found>>
    BY DEF MapsNext, On, tree, allVars
  <2> QED
    BY <2>1, TreeSteps, TreeStays DEF MapsInv
<1>2. IInv'
  <2>1. [Next]_vars
    BY FunctionsAre DEF MapsNext, On, functions, allVars, vars
  <2> QED
    BY <2>1, NextIInv DEF MapsInv
<1>3. PublicsInv'
  <2>1. Publics!Next \/ UNCHANGED <<symbols, stored, asked>>
    BY DEF MapsNext, On, publics, allVars
  <2> QED
    BY <2>1, PublicsStep, PublicsStay DEF MapsInv
<1>4. FramesInv'
  <2>1. FrameInfos!Next \/ UNCHANGED <<info, said>>
    BY DEF MapsNext, On, frames, allVars
  <2> QED
    BY <2>1, FramesStep, FramesStay DEF MapsInv, SymbolMapsAssumption
<1> QED
  BY <1>1, <1>2, <1>3, <1>4 DEF MapsInv

\* It is more than MapsAreRight says.
LEMMA MapsInvMeans == ASSUME SymbolMapsAssumption, MapsInv PROVE MapsAreRight
<1>1. Tree!TypeOK /\ Tree!IsTree /\ Tree!MostSpecific
  BY TreeIsTree, TreeMostSpecific DEF MapsInv, TreeInv
<1>2. Functions!TypeOK
  BY FunctionsAre DEF MapsInv
<1>3. Publics!TypeOK /\ Publics!FindsFirstOfNearest
  BY PublicsFind DEF MapsInv, PublicsInv, SymbolMapsAssumption
<1> QED
  BY <1>1, <1>2, <1>3 DEF MapsInv, FramesInv, MapsAreRight

\* contained_range_map.h, address_map.h, windows_frame_info.h: a tree of ranges
\* stays one however a store moves its subtrees, and it finds the smallest range
\* around an address; the first symbol at the nearest address is found; and of a
\* frame is seen what was last said of it.
THEOREM MapsRight == ASSUME SymbolMapsAssumption PROVE MapsSpec => []MapsAreRight
<1>1. MapsInit => MapsInv
  BY MapsBegin
<1>2. MapsInv /\ [MapsNext]_allVars => MapsInv'
  BY MapsStep
<1>3. MapsInv => MapsAreRight
  BY MapsInvMeans
<1> QED
  BY <1>1, <1>2, <1>3, PTL DEF MapsSpec

\* ContainedRangeMap::StoreRange does what NestedRanges promises: whatever the
\* recursion does, a range is accepted exactly if none that is there is the same
\* or crosses it, and Clear leaves none.
THEOREM TreeKeepsPromise ==
  ASSUME SymbolMapsAssumption
  PROVE  MapsSpec => /\ Tree!Abstract!Init
                      /\ [][Tree!Abstract!Next]_<<DOMAIN children \ {Root}, request, found>>
<1>1. MapsInit => MapsInv /\ Tree!Abstract!Init
  <2>1. MapsInit => Tree!Abstract!Init
    BY DEF MapsInit, Tree!Init, Tree!OnlyRoot, Tree!Abstract!Init, Tree!Idle
  <2> QED
    BY <2>1, MapsBegin
<1>2. MapsInv /\ [MapsNext]_allVars => MapsInv'
  BY MapsStep
<1>3. MapsInv /\ [MapsNext]_allVars
        => [Tree!Abstract!Next]_<<DOMAIN children \ {Root}, request, found>>
  <2> SUFFICES ASSUME MapsInv, [MapsNext]_allVars
               PROVE  [Tree!Abstract!Next]_<<DOMAIN children \ {Root}, request, found>>
    OBVIOUS
  <2>1. Tree!Next \/ UNCHANGED <<children, request, this, found>>
    BY DEF MapsNext, On, tree, allVars
  <2>2. CASE Tree!Next
    BY <2>2, StepsAreAllowed DEF MapsInv, Kept
  <2>3. CASE UNCHANGED <<children, request, this, found>>
    BY <2>3 DEF Root, Tree!Root
  <2> QED
    BY <2>1, <2>2, <2>3
<1> QED
  BY <1>1, <1>2, <1>3, PTL DEF MapsSpec
=============================================================================
