------------------------ MODULE MemoryObjects_proofs ------------------------
(***************************************************************************)
(* What MemoryObjects promises of its pointers, its dictionary, its        *)
(* allocator, its memory range and its readers of directories, lines and   *)
(* fields, for any number of pointers, objects, blocks, keys, entries,     *)
(* pages, bytes, files and lines.  Every part has an inductive invariant   *)
(* of its own (IInv), which the other parts' steps leave alone.            *)
(***************************************************************************)
EXTENDS MemoryObjects, FiniteSets, FiniteSetTheorems, WellFoundedInduction, SequenceTheorems, TLAPS

\* A set of numbers has a least one.
LEMMA LeastNumber ==
  ASSUME NEW T \in SUBSET Nat, T # {}
  PROVE  \E x \in T : \A y \in T : x <= y
<1> DEFINE Below == {ss \in Nat \X Nat : ss[1] < ss[2]}
<1>1. IsWellFoundedOn(Below, Nat)
  BY NatLessThanWellFounded DEF OpToRel
<1>2. PICK x \in T : \A y \in T : ~ (<<y, x>> \in Below)
  <2> HIDE DEF Below
  <2> QED
    BY <1>1, WFMin, Zenon
<1>3. ASSUME NEW y \in T PROVE x <= y
  <2>1. x \in Nat /\ y \in Nat
    OBVIOUS
  <2>2. ~(y < x)
    BY <1>2, <2>1, Zenon
  <2> QED
    BY <2>1, <2>2
<1> QED
  BY <1>3

\* What holds at the beginning and goes on holds always.
LEMMA HoldsAlways ==
  ASSUME NEW P \in SUBSET Nat, 0 \in P, \A n \in Nat : n \in P => n + 1 \in P
  PROVE  \A n \in Nat : n \in P
<1> SUFFICES ASSUME Nat \ P # {} PROVE FALSE
  OBVIOUS
<1>1. PICK n \in Nat \ P : \A k \in Nat \ P : n <= k
  BY LeastNumber, Zenon
<1>2. n # 0 /\ n \in Nat /\ n - 1 \in Nat /\ n - 1 \in P /\ (n - 1) + 1 = n
  BY <1>1
<1> QED
  BY <1>1, <1>2

\* A function can be applied again and again.
Iterates(g, T, F, x) ==
  g \in [Nat -> T] /\ g[0] = x /\ \A n \in Nat : g[n + 1] = F[g[n]]

LEMMA Iterations ==
  ASSUME NEW T, NEW F, F \in [T -> T], NEW x, x \in T
  PROVE  \E g : Iterates(g, T, F, x)
<1> DEFINE Of(n) == {g \in [0 .. n -> T] : g[0] = x /\ \A i \in 1 .. n : g[i] = F[g[i - 1]]}
           Begun == {n \in Nat : Of(n) # {}}
<1>1. 0 \in Begun
  <2>1. [i \in 0 .. 0 |-> x] \in Of(0)
    OBVIOUS
  <2> QED
    BY <2>1
<1>2. ASSUME NEW n \in Nat, n \in Begun PROVE n + 1 \in Begun
  <2>1. PICK g \in [0 .. n -> T] : g[0] = x /\ \A i \in 1 .. n : g[i] = F[g[i - 1]]
    BY <1>2
  <2> DEFINE h == [i \in 0 .. n + 1 |-> IF i = n + 1 THEN F[g[n]] ELSE g[i]]
  <2>2. h \in [0 .. n + 1 -> T]
    BY <2>1
  <2>3. h[0] = x
    BY <2>1
  <2>4. ASSUME NEW i \in 1 .. n + 1 PROVE h[i] = F[h[i - 1]]
    <3>1. i - 1 \in 0 .. n /\ i \in 0 .. n + 1
      OBVIOUS
    <3>2. CASE i = n + 1
      BY <3>1, <3>2
    <3>3. CASE i # n + 1
      BY <2>1, <3>1, <3>3
    <3> QED
      BY <3>2, <3>3
  <2> HIDE DEF h
  <2>5. h \in Of(n + 1)
    BY <2>2, <2>3, <2>4
  <2> QED
    BY <2>5
<1>3. \A n \in Nat : n \in Begun
  <2>1. Begun \in SUBSET Nat /\ \A n \in Nat : n \in Begun => n + 1 \in Begun
    BY <1>2
  <2> HIDE DEF Begun
  <2> QED
    BY <1>1, <2>1, HoldsAlways
<1> DEFINE of == [n \in Nat |-> CHOOSE g \in Of(n) : TRUE]
<1>4. \A n \in Nat : of[n] \in Of(n)
  BY <1>3, Zenon
<1> HIDE DEF of
<1>5. \A n \in Nat : of[n] \in [0 .. n -> T] /\ of[n][0] = x
  BY <1>4
<1>6. \A n \in Nat : \A i \in 1 .. n : of[n][i] = F[of[n][i - 1]]
  BY <1>4
<1>7. ASSUME NEW n \in Nat PROVE of[n + 1][n] = of[n][n]
  <2> DEFINE Alike == {i \in Nat : i <= n => of[n + 1][i] = of[n][i]}
  <2>1. Alike \in SUBSET Nat /\ 0 \in Alike
    BY <1>5
  <2>2. ASSUME NEW i \in Nat, i \in Alike PROVE i + 1 \in Alike
    <3> SUFFICES ASSUME i + 1 <= n PROVE of[n + 1][i + 1] = of[n][i + 1]
      OBVIOUS
    <3>1. i + 1 \in 1 .. n /\ i + 1 \in 1 .. n + 1 /\ (i + 1) - 1 = i /\ i <= n /\ n + 1 \in Nat
      OBVIOUS
    <3>2. of[n + 1][i] = of[n][i]
      BY <2>2, <3>1
    <3>3. of[n + 1][i + 1] = F[of[n + 1][i]] /\ of[n][i + 1] = F[of[n][i]]
      BY <1>6, <3>1
    <3> QED
      BY <3>2, <3>3
  <2>3. n \in Alike
    <3> HIDE DEF Alike
    <3> QED
      BY <2>1, <2>2, HoldsAlways
  <2> QED
    BY <2>3
<1> DEFINE f == [n \in Nat |-> of[n][n]]
<1>8. f \in [Nat -> T] /\ f[0] = x
  <2>1. \A n \in Nat : of[n][n] \in T
    BY <1>5
  <2> QED
    BY <1>5, <2>1
<1>9. ASSUME NEW n \in Nat PROVE f[n + 1] = F[f[n]]
  <2>1. n + 1 \in Nat /\ n + 1 \in 1 .. n + 1 /\ (n + 1) - 1 = n
    OBVIOUS
  <2>2. of[n + 1][n + 1] = F[of[n + 1][n]]
    BY <1>6, <2>1
  <2>3. f[n + 1] = of[n + 1][n + 1] /\ f[n] = of[n][n]
    BY <2>1
  <2> QED
    BY <1>7, <2>2, <2>3
<1> HIDE DEF f
<1> QED
  BY <1>8, <1>9 DEF Iterates

-----------------------------------------------------------------------------
\* MemoryRange.

\* What sums and products of size_t are.
LEMMA Modulo ==
  ASSUME NEW w \in Nat \ {0}, NEW x \in Nat
  PROVE  /\ x % w \in 0 .. w - 1
         /\ x < w => x % w = x
         /\ x % w <= x
         /\ w <= x /\ x < 2 * w => x % w = x - w
<1>1. x % w \in 0 .. w - 1 /\ x \div w \in Int /\ x = w * (x \div w) + (x % w)
  OBVIOUS
<1>2. x < w => x % w = x
  BY <1>1
<1>3. x % w <= x
  BY <1>1
<1>4. w <= x /\ x < 2 * w => x % w = x - w
  BY <1>1
<1> QED
  BY <1>1, <1>2, <1>3, <1>4

\* The range that was set is memory, and not at NULL unless it is empty.
SetIsMemory ==
  /\ set.data + set.length <= Memory + 1
  /\ set.length > 0 => set.data > 0

RangeIInv ==
  /\ MemRange!TypeOK
  /\ SetIsMemory
  /\ MemRange!NeverLeavesTheRange
  /\ MemRange!AccessIsInside
  /\ MemRange!InsideIsGiven

\* What is covered does not wrap, and ends in the range.
LEMMA CoversMeans ==
  ASSUME MemRange!MemoryRangeAssumption, NEW at \in MemRange!size_t, NEW length \in MemRange!size_t, length_ \in MemRange!size_t
  PROVE  MemRange!Covers(at, length) <=> at < length_ /\ at + length <= length_
<1>1. /\ at \in Nat /\ length \in Nat /\ length_ \in Nat /\ Word \in Nat \ {0}
      /\ at < Word /\ length < Word /\ length_ < Word
  BY DEF MemRange!MemoryRangeAssumption, MemRange!size_t
<1> DEFINE sum == at + length
<1>2. sum \in Nat /\ sum < 2 * Word
  BY <1>1
<1>3. MemRange!Covers(at, length) <=>
        at < length_ /\ sum % Word >= at /\ sum % Word <= length_
  BY DEF MemRange!Covers
<1>4. /\ sum < Word => sum % Word = sum
      /\ Word <= sum => sum % Word = sum - Word
  <2> HIDE DEF sum
  <2> QED
    BY <1>1, <1>2, Modulo, Zenon
<1> QED
  BY <1>1, <1>2, <1>3, <1>4

\* The address an access gives.
LEMMA DataType ==
  ASSUME MemRange!MemoryRangeAssumption, RangeIInv, NEW at \in MemRange!size_t, NEW length \in MemRange!size_t
  PROVE  /\ MemRange!Data(at, length) \in MemRange!size_t
         /\ MemRange!Covers(at, length) => MemRange!Data(at, length) = data_ + at /\ data_ > 0
         /\ ~MemRange!Covers(at, length) => MemRange!Data(at, length) = MemRange!NULL
<1>1. /\ Word \in Nat /\ Memory \in Nat /\ Memory < Word
      /\ data_ \in Nat /\ length_ \in Nat /\ data_ < Word /\ length_ < Word
      /\ at \in Nat /\ length \in Nat
      /\ set.data \in Nat /\ set.length \in Nat
  BY DEF MemRange!MemoryRangeAssumption, RangeIInv, MemRange!TypeOK, MemRange!size_t
<1>2. ASSUME MemRange!Covers(at, length)
      PROVE  data_ > 0 /\ data_ + at \in MemRange!size_t
  <2>1. at < length_
    BY <1>2 DEF MemRange!Covers
  <2>2. /\ set.data <= data_ /\ data_ + length_ <= set.data + set.length
        /\ set.data + set.length <= Memory + 1
        /\ set.length > 0 => set.data > 0
    BY <1>1, <2>1 DEF RangeIInv, MemRange!NeverLeavesTheRange, SetIsMemory
  <2> QED
    BY <1>1, <2>1, <2>2 DEF MemRange!size_t
<1> QED
  BY <1>1, <1>2 DEF MemRange!Data, MemRange!NULL, MemRange!size_t

\* Set and Reset begin anew.
LEMMA RangeSetKeeps ==
  ASSUME MemRange!MemoryRangeAssumption, RangeIInv,
         MemRange!Reset \/ \E data, length \in 0 .. Memory : MemRange!Set(data, length)
  PROVE  RangeIInv'
<1>1. Word \in Nat \ {0} /\ Memory \in Nat /\ Memory < Word
  BY DEF MemRange!MemoryRangeAssumption
<1>2. MemRange!NoAccess \in [offset : MemRange!size_t, size : MemRange!size_t, index : MemRange!size_t, data : MemRange!size_t]
  BY <1>1 DEF MemRange!NoAccess, MemRange!size_t, MemRange!NULL
<1>3. CASE MemRange!Reset
  BY <1>1, <1>2, <1>3 DEF MemRange!Reset, RangeIInv, MemRange!TypeOK, SetIsMemory, MemRange!NeverLeavesTheRange,
     MemRange!AccessIsInside, MemRange!InsideIsGiven, MemRange!NoAccess, MemRange!NULL, MemRange!size_t
<1>4. ASSUME NEW data \in 0 .. Memory, NEW length \in 0 .. Memory, MemRange!Set(data, length)
      PROVE  RangeIInv'
  <2>1. /\ data_' = data /\ got' = MemRange!NoAccess
        /\ length_' = IF data = 0 THEN 0 ELSE length
        /\ set' = [data |-> data, length |-> length_']
        /\ data # 0 => data + length <= Memory + 1
    BY <1>4 DEF MemRange!Set, MemRange!NULL
  <2>2. MemRange!TypeOK'
    BY <1>1, <1>2, <2>1 DEF MemRange!TypeOK, MemRange!size_t
  <2>3. SetIsMemory' /\ MemRange!NeverLeavesTheRange'
    BY <1>1, <2>1 DEF SetIsMemory, MemRange!NeverLeavesTheRange
  <2>4. MemRange!AccessIsInside' /\ MemRange!InsideIsGiven'
    BY <2>1 DEF MemRange!AccessIsInside, MemRange!InsideIsGiven, MemRange!NoAccess
  <2> QED
    BY <2>2, <2>3, <2>4 DEF RangeIInv
<1> QED
  BY <1>3, <1>4

\* A subrange lies in its range, or is empty.
LEMMA RangeSubrangeKeeps ==
  ASSUME MemRange!MemoryRangeAssumption, RangeIInv, NEW at \in MemRange!size_t, NEW length \in MemRange!size_t,
         MemRange!Subrange(at, length)
  PROVE  RangeIInv'
<1>1. /\ Word \in Nat \ {0} /\ Memory \in Nat /\ Memory < Word
      /\ data_ \in Nat /\ length_ \in Nat /\ length_ \in MemRange!size_t
      /\ at \in Nat /\ length \in Nat
      /\ set \in [data : 0 .. Memory, length : 0 .. Memory]
  BY DEF MemRange!MemoryRangeAssumption, RangeIInv, MemRange!TypeOK, MemRange!size_t
<1>2. /\ data_' = MemRange!Data(at, length) /\ got' = MemRange!NoAccess /\ set' = set
      /\ length_' = IF MemRange!Covers(at, length) THEN length ELSE 0
  BY DEF MemRange!Subrange
<1>3. MemRange!TypeOK'
  <2>1. MemRange!NoAccess \in [offset : MemRange!size_t, size : MemRange!size_t, index : MemRange!size_t, data : MemRange!size_t]
    BY <1>1 DEF MemRange!NoAccess, MemRange!size_t, MemRange!NULL
  <2>2. data_' \in MemRange!size_t /\ length_' \in MemRange!size_t
    BY <1>1, <1>2, DataType DEF MemRange!size_t
  <2> QED
    BY <1>1, <1>2, <2>1, <2>2 DEF MemRange!TypeOK
<1>4. SetIsMemory'
  BY <1>2 DEF RangeIInv, SetIsMemory
<1>5. MemRange!NeverLeavesTheRange'
  <2>1. CASE MemRange!Covers(at, length)
    <3>1. at < length_ /\ at + length <= length_
      BY <1>1, <2>1, CoversMeans
    <3>2. data_' = data_ + at /\ length_' = length
      BY <1>2, <2>1, DataType
    <3> QED
      BY <1>1, <1>2, <3>1, <3>2 DEF RangeIInv, MemRange!NeverLeavesTheRange
  <2>2. CASE ~MemRange!Covers(at, length)
    BY <1>2, <2>2 DEF MemRange!NeverLeavesTheRange
  <2> QED
    BY <2>1, <2>2
<1>6. MemRange!AccessIsInside' /\ MemRange!InsideIsGiven'
  BY <1>2 DEF MemRange!AccessIsInside, MemRange!InsideIsGiven, MemRange!NoAccess
<1> QED
  BY <1>3, <1>4, <1>5, <1>6 DEF RangeIInv

\* An access gives an element of the range, or NULL for one that is not in it.
LEMMA RangeGetKeeps ==
  ASSUME MemRange!MemoryRangeAssumption, RangeIInv, NEW at \in MemRange!size_t, NEW size \in MemRange!size_t,
         NEW i \in MemRange!size_t, MemRange!GetArrayElement(at, size, i)
  PROVE  RangeIInv'
<1> DEFINE o == at + i * size
           e == o % Word
<1>1. /\ Word \in Nat \ {0} /\ data_ \in Nat /\ length_ \in Nat /\ length_ \in MemRange!size_t
      /\ length_ < Word /\ at \in Nat /\ size \in Nat /\ i \in Nat
  BY DEF MemRange!MemoryRangeAssumption, RangeIInv, MemRange!TypeOK, MemRange!size_t
<1>2. o \in Nat
  BY <1>1
<1>3. got' = [offset |-> at, size |-> size, index |-> i, data |-> MemRange!Data(e, size)]
      /\ UNCHANGED <<data_, length_, set>>
  BY DEF MemRange!GetArrayElement
<1>4. /\ e \in Nat /\ e \in MemRange!size_t
      /\ o < Word => e = o
  <2> HIDE DEF o
  <2>1. o % Word \in 0 .. Word - 1
    BY <1>1, <1>2, Modulo
  <2>2. o < Word => o % Word = o
    BY <1>1, <1>2, Modulo, Zenon
  <2> QED
    BY <1>1, <2>1, <2>2 DEF MemRange!size_t
<1>6. /\ got'.data = MemRange!Data(e, size) /\ got'.size = size
      /\ got'.offset + got'.index * got'.size = o
  BY <1>3
<1> HIDE DEF o, e
<1>5. MemRange!TypeOK'
  BY <1>3, <1>4, DataType DEF RangeIInv, MemRange!TypeOK
<1>7. MemRange!Covers(e, size) <=> e < length_ /\ e + size <= length_
  BY <1>1, <1>4, CoversMeans
<1>8. MemRange!AccessIsInside'
  <2>1. ASSUME got'.data # MemRange!NULL
        PROVE  /\ data_ <= got'.data /\ got'.data + got'.size <= data_ + length_
               /\ o < Word => got'.data = data_ + o
    BY <1>1, <1>4, <1>6, <1>7, <2>1, DataType
  <2> QED
    BY <1>3, <1>6, <2>1 DEF MemRange!AccessIsInside
<1>9. MemRange!InsideIsGiven'
  <2>1. ASSUME got'.data = MemRange!NULL PROVE o >= length_ \/ o + size > length_
    <3>1. ~(e < length_ /\ e + size <= length_)
      <4>1. ~MemRange!Covers(e, size)
        <5>1. ASSUME MemRange!Covers(e, size) PROVE got'.data = data_ + e /\ data_ > 0
          BY <1>4, <1>6, <5>1, DataType
        <5> QED
          BY <1>1, <1>4, <2>1, <5>1 DEF MemRange!NULL
      <4> QED
        BY <1>7, <4>1
    <3> QED
      BY <1>1, <1>2, <1>4, <3>1
  <2> QED
    BY <1>3, <1>6, <2>1 DEF MemRange!InsideIsGiven
<1> QED
  BY <1>3, <1>5, <1>8, <1>9 DEF RangeIInv, SetIsMemory, MemRange!NeverLeavesTheRange

LEMMA RangeInit == MemRange!Init => RangeIInv
<1>1. MemRange!MemoryRangeAssumption
  BY MemoryObjectsAssumption
<1> QED
  BY <1>1 DEF MemRange!MemoryRangeAssumption, MemRange!Init, RangeIInv, MemRange!TypeOK, SetIsMemory,
    MemRange!NeverLeavesTheRange, MemRange!AccessIsInside, MemRange!InsideIsGiven, MemRange!NoAccess,
    MemRange!NULL, MemRange!size_t

LEMMA RangeNext == RangeIInv /\ [MemRange!Next]_MemRange!vars => RangeIInv'
<1> SUFFICES ASSUME RangeIInv, [MemRange!Next]_MemRange!vars PROVE RangeIInv'
  OBVIOUS
<1>1. MemRange!MemoryRangeAssumption
  BY MemoryObjectsAssumption
<1>2. CASE UNCHANGED MemRange!vars
  BY <1>2 DEF MemRange!vars, RangeIInv, MemRange!TypeOK, SetIsMemory, MemRange!NeverLeavesTheRange,
     MemRange!AccessIsInside, MemRange!InsideIsGiven
<1>3. CASE MemRange!Reset \/ \E data, length \in 0 .. Memory : MemRange!Set(data, length)
  BY <1>1, <1>3, RangeSetKeeps
<1>4. ASSUME NEW at \in MemRange!size_t, NEW length \in MemRange!size_t, MemRange!Subrange(at, length)
      PROVE  RangeIInv'
  BY <1>1, <1>4, RangeSubrangeKeeps
<1>5. ASSUME NEW at \in MemRange!size_t, NEW size \in MemRange!size_t, NEW i \in MemRange!size_t,
             MemRange!GetArrayElement(at, size, i)
      PROVE  RangeIInv'
  BY <1>1, <1>5, RangeGetKeeps
<1> QED
  BY <1>2, <1>3, <1>4, <1>5 DEF MemRange!Next

-----------------------------------------------------------------------------
\* scoped_ptr and its kin.

\* A pointer that is not null has a block of its own, of its own class, and
\* the client has the other ones.
HoldsItsOwn ==
  \A p \in DOMAIN ptr : ptr[p] # NoBlock =>
    /\ ptr[p] \in DOMAIN origin /\ ptr[p] \notin raw
    /\ origin[ptr[p]] = ClassOf[p]
    /\ \A q \in DOMAIN ptr : ptr[q] = ptr[p] => q = p

NoneIsLost == \A b \in DOMAIN origin \ raw : \E p \in DOMAIN ptr : ptr[p] = b

ScopedIInv == ScopedPtrs!TypeOK /\ HoldsItsOwn /\ NoneIsLost

\* The deallocator takes a block from its pointer, and from no other one.
LEMMA DeallocateTakes ==
  ASSUME ScopedPtrs!ScopedPtrAssumption, ScopedIInv, NEW p \in DOMAIN ptr, ScopedPtrs!Deallocate(p)
  PROVE  /\ DOMAIN origin' = DOMAIN origin \ {ptr[p]}
         /\ \A b \in DOMAIN origin' : origin'[b] = origin[b]
         /\ given' \subseteq Blocks \X ScopedPtrs!Classes
         /\ \A b \in DOMAIN origin, c \in ScopedPtrs!Classes :
              <<b, c>> \in given' \ given => c = origin[b]
<1>1. /\ NoBlock \notin DOMAIN origin /\ DOMAIN origin \subseteq Blocks
      /\ ClassOf[p] \in ScopedPtrs!Classes /\ given \subseteq Blocks \X ScopedPtrs!Classes
  BY DEF ScopedPtrs!ScopedPtrAssumption, ScopedIInv, ScopedPtrs!TypeOK
<1>2. CASE ptr[p] = NoBlock
  BY <1>1, <1>2, Zenon DEF ScopedPtrs!Deallocate
<1>3. CASE ptr[p] # NoBlock
  <2>1. /\ given' = given \cup {<<ptr[p], ClassOf[p]>>}
        /\ origin' = [b \in DOMAIN origin \ {ptr[p]} |-> origin[b]]
    BY <1>3 DEF ScopedPtrs!Deallocate, ScopedPtrs!Restrict
  <2>2. ptr[p] \in DOMAIN origin /\ origin[ptr[p]] = ClassOf[p]
    BY <1>3 DEF ScopedIInv, HoldsItsOwn
  <2> QED
    BY <1>1, <2>1, <2>2
<1> QED
  BY <1>2, <1>3

\* A new block is the client's.
LEMMA ScopedAllocate ==
  ASSUME ScopedPtrs!ScopedPtrAssumption, ScopedIInv, NEW b \in Blocks, NEW class \in ScopedPtrs!Classes,
         ScopedPtrs!Allocate(b, class)
  PROVE  ScopedIInv'
<1>1. /\ DOMAIN origin' = DOMAIN origin \cup {b} /\ b \notin DOMAIN origin
      /\ origin'[b] = class /\ \A c \in DOMAIN origin : origin'[c] = origin[c]
      /\ raw' = raw \cup {b} /\ ptr' = ptr /\ given' = given
  BY DEF ScopedPtrs!Allocate
<1>2. ScopedPtrs!TypeOK'
  BY <1>1 DEF ScopedIInv, ScopedPtrs!TypeOK
<1>3. HoldsItsOwn'
  BY <1>1 DEF ScopedIInv, ScopedPtrs!TypeOK, HoldsItsOwn
<1>4. NoneIsLost'
  BY <1>1 DEF ScopedIInv, NoneIsLost
<1> QED
  BY <1>2, <1>3, <1>4 DEF ScopedIInv

\* A block the client hands over is the pointer's alone.
LEMMA ScopedConstruct ==
  ASSUME ScopedPtrs!ScopedPtrAssumption, ScopedIInv, NEW p \in ScopedPointers, NEW b \in ScopedPtrs!Mine(p), ScopedPtrs!Construct(p, b)
  PROVE  ScopedIInv'
<1>1. /\ p \notin DOMAIN ptr
      /\ DOMAIN ptr' = DOMAIN ptr \cup {p} /\ ptr'[p] = b
      /\ \A q \in DOMAIN ptr : ptr'[q] = ptr[q]
      /\ raw' = raw \ {b} /\ origin' = origin /\ given' = given
  BY DEF ScopedPtrs!Construct
<1>2. b = NoBlock \/ (b \in raw /\ b \in DOMAIN origin /\ origin[b] = ClassOf[p])
  BY DEF ScopedPtrs!Mine, ScopedIInv, ScopedPtrs!TypeOK
<1>3. ScopedPtrs!TypeOK'
  BY <1>1, <1>2 DEF ScopedIInv, ScopedPtrs!TypeOK
<1>4. HoldsItsOwn'
  BY <1>1, <1>2 DEF ScopedIInv, ScopedPtrs!TypeOK, HoldsItsOwn
<1>5. NoneIsLost'
  BY <1>1, <1>2 DEF ScopedIInv, NoneIsLost
<1> QED
  BY <1>3, <1>4, <1>5 DEF ScopedIInv

\* A pointer that goes out of scope takes its block with it.
LEMMA ScopedDestroy ==
  ASSUME ScopedPtrs!ScopedPtrAssumption, ScopedIInv, NEW p \in ScopedPointers, ScopedPtrs!Destroy(p)
  PROVE  ScopedIInv'
<1>1. /\ p \in DOMAIN ptr /\ raw' = raw /\ ScopedPtrs!Deallocate(p)
      /\ DOMAIN ptr' = DOMAIN ptr \ {p}
      /\ \A q \in DOMAIN ptr' : ptr'[q] = ptr[q]
  BY DEF ScopedPtrs!Destroy, ScopedPtrs!Restrict
<1>2. /\ DOMAIN origin' = DOMAIN origin \ {ptr[p]}
      /\ \A b \in DOMAIN origin' : origin'[b] = origin[b]
      /\ given' \subseteq Blocks \X ScopedPtrs!Classes
  BY <1>1, DeallocateTakes, Zenon
<1>3. /\ ptr[p] \notin raw \/ ptr[p] = NoBlock
      /\ \A q \in DOMAIN ptr' : ptr[q] # ptr[p] \/ ptr[p] = NoBlock
  BY <1>1 DEF ScopedIInv, HoldsItsOwn
<1>4. NoBlock \notin DOMAIN origin
  BY DEF ScopedPtrs!ScopedPtrAssumption, ScopedIInv, ScopedPtrs!TypeOK
<1>5. ScopedPtrs!TypeOK'
  BY <1>1, <1>2, <1>3, <1>4 DEF ScopedIInv, ScopedPtrs!TypeOK
<1>6. HoldsItsOwn'
  BY <1>1, <1>2, <1>3, <1>4 DEF ScopedIInv, ScopedPtrs!TypeOK, HoldsItsOwn
<1>7. NoneIsLost'
  BY <1>1, <1>2, <1>3, <1>4 DEF ScopedIInv, NoneIsLost
<1> QED
  BY <1>5, <1>6, <1>7 DEF ScopedIInv

\* What a pointer is reset from is given back, what it is reset to was the
\* client's.
LEMMA ScopedReset ==
  ASSUME ScopedPtrs!ScopedPtrAssumption, ScopedIInv, NEW p \in DOMAIN ptr,
         NEW b \in ScopedPtrs!Mine(p) \cup {ptr[p]}, ScopedPtrs!Reset(p, b)
  PROVE  ScopedIInv'
<1>1. NoBlock \notin DOMAIN origin
  BY DEF ScopedPtrs!ScopedPtrAssumption, ScopedIInv, ScopedPtrs!TypeOK
<1>2. CASE b = ptr[p]
  <2>1. /\ ptr' = ptr /\ origin' = origin /\ given' = given /\ raw' = raw \ {b}
    BY <1>2 DEF ScopedPtrs!Reset
  <2>2. b \notin raw
    BY <1>1, <1>2 DEF ScopedIInv, ScopedPtrs!TypeOK, HoldsItsOwn
  <2> QED
    BY <2>1, <2>2 DEF ScopedIInv, ScopedPtrs!TypeOK, HoldsItsOwn, NoneIsLost
<1>3. CASE b # ptr[p]
  <2>1. /\ ScopedPtrs!Deallocate(p) /\ raw' = raw \ {b}
        /\ DOMAIN ptr' = DOMAIN ptr /\ ptr'[p] = b
        /\ \A q \in DOMAIN ptr \ {p} : ptr'[q] = ptr[q]
    BY <1>3 DEF ScopedPtrs!Reset
  <2>2. b = NoBlock \/ (b \in raw /\ b \in DOMAIN origin /\ origin[b] = ClassOf[p])
    BY <1>3 DEF ScopedPtrs!Mine, ScopedIInv, ScopedPtrs!TypeOK
  <2>3. /\ DOMAIN origin' = DOMAIN origin \ {ptr[p]}
        /\ \A c \in DOMAIN origin' : origin'[c] = origin[c]
        /\ given' \subseteq Blocks \X ScopedPtrs!Classes
    BY <2>1, DeallocateTakes
  <2>4. /\ ptr[p] \notin raw \/ ptr[p] = NoBlock
        /\ \A q \in DOMAIN ptr \ {p} : ptr[q] # ptr[p] \/ ptr[p] = NoBlock
    BY DEF ScopedIInv, HoldsItsOwn
  <2>5. ScopedPtrs!TypeOK'
    BY <1>1, <1>3, <2>1, <2>2, <2>3, <2>4 DEF ScopedIInv, ScopedPtrs!TypeOK
  <2>6. HoldsItsOwn'
    BY <1>1, <1>3, <2>1, <2>2, <2>3, <2>4 DEF ScopedIInv, ScopedPtrs!TypeOK, HoldsItsOwn
  <2>7. NoneIsLost'
    BY <1>1, <1>3, <2>1, <2>2, <2>3, <2>4 DEF ScopedIInv, NoneIsLost
  <2> QED
    BY <2>5, <2>6, <2>7 DEF ScopedIInv
<1> QED
  BY <1>2, <1>3

\* Two pointers of one class exchange their blocks.
LEMMA ScopedSwap ==
  ASSUME ScopedPtrs!ScopedPtrAssumption, ScopedIInv, NEW p \in ScopedPointers, NEW q \in ScopedPointers, ScopedPtrs!Swap(p, q)
  PROVE  ScopedIInv'
<1>1. /\ p \in DOMAIN ptr /\ q \in DOMAIN ptr /\ ClassOf[p] = ClassOf[q]
      /\ origin' = origin /\ raw' = raw /\ given' = given
      /\ ptr' = [ptr EXCEPT ![p] = ptr[q], ![q] = ptr[p]]
  BY DEF ScopedPtrs!Swap
<1>2. /\ DOMAIN ptr' = DOMAIN ptr /\ ptr'[q] = ptr[p] /\ ptr'[p] = ptr[q]
      /\ \A r \in DOMAIN ptr \ {p, q} : ptr'[r] = ptr[r]
  BY <1>1
<1>3. ScopedPtrs!TypeOK'
  BY <1>1, <1>2 DEF ScopedIInv, ScopedPtrs!TypeOK
<1>4. HoldsItsOwn'
  BY <1>1, <1>2 DEF ScopedIInv, HoldsItsOwn
<1>5. NoneIsLost'
  BY <1>1, <1>2 DEF ScopedIInv, NoneIsLost
<1> QED
  BY <1>3, <1>4, <1>5 DEF ScopedIInv

\* What a pointer releases is the client's.
LEMMA ScopedRelease ==
  ASSUME ScopedPtrs!ScopedPtrAssumption, ScopedIInv, NEW p \in ScopedPointers, ScopedPtrs!Release(p)
  PROVE  ScopedIInv'
<1>1. /\ p \in DOMAIN ptr /\ raw' = raw \cup ({ptr[p]} \ {NoBlock})
      /\ DOMAIN ptr' = DOMAIN ptr /\ ptr'[p] = NoBlock
      /\ \A q \in DOMAIN ptr \ {p} : ptr'[q] = ptr[q]
      /\ origin' = origin /\ given' = given
  BY DEF ScopedPtrs!Release
<1>2. NoBlock \notin DOMAIN origin
  BY DEF ScopedPtrs!ScopedPtrAssumption, ScopedIInv, ScopedPtrs!TypeOK
<1>3. ScopedPtrs!TypeOK'
  BY <1>1 DEF ScopedIInv, ScopedPtrs!TypeOK
<1>4. HoldsItsOwn'
  BY <1>1, <1>2 DEF ScopedIInv, HoldsItsOwn
<1>5. NoneIsLost'
  BY <1>1, <1>2 DEF ScopedIInv, NoneIsLost
<1> QED
  BY <1>3, <1>4, <1>5 DEF ScopedIInv

\* Every operation keeps IInv, and gives back what it gives back rightly.
LEMMA ScopedNext ==
  ASSUME ScopedPtrs!ScopedPtrAssumption, ScopedIInv, [ScopedPtrs!Next]_ScopedPtrs!vars
  PROVE  /\ ScopedIInv'
         /\ [\A b \in DOMAIN origin, c \in ScopedPtrs!Classes :
               <<b, c>> \in given' \ given => c = origin[b]]_ScopedPtrs!vars
<1>1. CASE UNCHANGED ScopedPtrs!vars
  BY <1>1 DEF ScopedPtrs!vars, ScopedIInv, ScopedPtrs!TypeOK, HoldsItsOwn, NoneIsLost
<1>2. CASE ScopedPtrs!Next
  <2>1. ScopedIInv'
    BY <1>2, ScopedAllocate, ScopedConstruct, ScopedDestroy, ScopedReset, ScopedSwap, ScopedRelease
       DEF ScopedPtrs!Next
  <2>2. given' = given \/ \E p \in DOMAIN ptr : ScopedPtrs!Deallocate(p)
    BY <1>2, Zenon DEF ScopedPtrs!Next, ScopedPtrs!Allocate, ScopedPtrs!Construct, ScopedPtrs!Destroy, ScopedPtrs!Reset, ScopedPtrs!Swap, ScopedPtrs!Release
  <2> QED
    BY <2>1, <2>2, DeallocateTakes, Zenon
<1> QED
  BY <1>1, <1>2

LEMMA ScopedInit == ScopedPtrs!Init => ScopedIInv
BY DEF ScopedPtrs!Init, ScopedIInv, ScopedPtrs!TypeOK, HoldsItsOwn, NoneIsLost

\* What is nobody's is the client's; what is somebody's is one pointer's.
LEMMA ScopedMeans == ScopedIInv => ScopedPtrs!TypeOK /\ ScopedPtrs!OneOwner
<1> SUFFICES ASSUME ScopedIInv, NEW b \in DOMAIN origin
             PROVE  ScopedPtrs!Cardinality({p \in DOMAIN ptr : ptr[p] = b}) = IF b \in raw THEN 0 ELSE 1
  BY DEF ScopedIInv, ScopedPtrs!OneOwner
<1>1. \A S : ScopedPtrs!Cardinality(S) = Cardinality(S)
  BY DEF ScopedPtrs!Cardinality, Cardinality, ScopedPtrs!IsFiniteSet, IsFiniteSet
<1>2. ScopedPtrs!ScopedPtrAssumption
  BY MemoryObjectsAssumption
<1>3. b # NoBlock
  BY <1>2 DEF ScopedPtrs!ScopedPtrAssumption, ScopedIInv, ScopedPtrs!TypeOK
<1> DEFINE Owning == {p \in DOMAIN ptr : ptr[p] = b}
<1>4. CASE b \in raw
  <2>1. Owning = {}
    BY <1>3, <1>4 DEF ScopedIInv, HoldsItsOwn
  <2>2. Cardinality(Owning) = 0
    BY <2>1, FS_EmptySet
  <2> QED
    BY <1>1, <1>4, <2>2
<1>5. CASE b \notin raw
  <2>1. PICK p \in DOMAIN ptr : ptr[p] = b
    BY <1>5 DEF ScopedIInv, NoneIsLost
  <2>2. Owning = {p}
    BY <1>3, <2>1 DEF ScopedIInv, HoldsItsOwn
  <2>3. Cardinality(Owning) = 1
    BY <2>2, FS_Singleton
  <2> QED
    BY <1>1, <1>5, <2>3
<1> QED
  BY <1>4, <1>5

-----------------------------------------------------------------------------
\* SimpleStringDictionary.

DictKeys == Dictionary!Strings(KeyChars, key_size - 1)
DictValues == Dictionary!Strings({"x"}, value_size - 1)

\* A key that stays and has not been returned yet is still to come.
StillToCome == \A k \in stayed :
  /\ k # << >>
  /\ k \in seen \/ \E i \in Dictionary!Slots : i >= current /\ entries[i].key = k

DictionaryIInv ==
  /\ Dictionary!TypeOK
  /\ Dictionary!KeyAppearsOnce
  /\ Dictionary!IndexStaysValid
  /\ StillToCome

LEMMA DictionaryNumbers ==
  /\ key_size \in Nat \ {0} /\ value_size \in Nat \ {0} /\ num_entries \in Nat \ {0}
  /\ MaxKey \in Nat
  BY MemoryObjectsAssumption DEF Dictionary!DictionaryAssumption

\* A string is a sequence of its characters.
LEMMA StringIs ==
  ASSUME NEW C, NEW n \in Nat, NEW s \in Dictionary!Strings(C, n)
  PROVE  s \in Seq(C) /\ Len(s) \in 0 .. n /\ SubSeq(s, 1, Len(s)) = s
<1>1. PICK l \in 0 .. n : s \in [1 .. l -> C]
  BY DEF Dictionary!Strings
<1>2. s \in Seq(C) /\ Len(s) = l
  BY <1>1
<1> QED
  BY <1>1, <1>2

LEMMA StringsGrow ==
  ASSUME NEW C, NEW m \in Nat, NEW n \in Nat, m <= n
  PROVE  /\ Dictionary!Strings(C, m) \subseteq Dictionary!Strings(C, n)
         /\ << >> \in Dictionary!Strings(C, n)
<1>1. 0 .. m \subseteq 0 .. n
  OBVIOUS
<1>2. << >> \in [1 .. 0 -> C]
  OBVIOUS
<1> QED
  BY <1>1, <1>2 DEF Dictionary!Strings

\* strncmp tells the keys apart that the entries have room for.
LEMMA SameIsEqual ==
  ASSUME NEW s \in DictKeys, NEW t \in DictKeys
  PROVE  Dictionary!Same(s, t) <=> s = t
<1>1. key_size - 1 \in Nat
  BY DictionaryNumbers
<1>2. /\ Len(s) < key_size /\ SubSeq(s, 1, Len(s)) = s
      /\ Len(t) < key_size /\ SubSeq(t, 1, Len(t)) = t
  BY <1>1, StringIs, DictionaryNumbers DEF DictKeys
<1> QED
  BY <1>2, Zenon DEF Dictionary!Same

\* The keys of a client that are not too long are stored as they are.
LEMMA KeysFit ==
  ASSUME MaxKey < key_size, NEW k \in Dictionary!Keys
  PROVE  k \in DictKeys /\ k # << >> /\ Dictionary!Cut(k, key_size) = k
<1>1. key_size - 1 \in Nat /\ MaxKey <= key_size - 1
  BY DictionaryNumbers
<1>2. k \in DictKeys /\ k # << >>
  BY <1>1, StringsGrow, DictionaryNumbers DEF Dictionary!Keys, DictKeys
<1>3. Len(k) < key_size /\ SubSeq(k, 1, Len(k)) = k
  BY <1>1, <1>2, StringIs, DictionaryNumbers DEF DictKeys
<1> QED
  BY <1>2, <1>3 DEF Dictionary!Cut

\* ... and values are cut off.
LEMMA ValuesAreCut ==
  ASSUME NEW v \in Dictionary!Values
  PROVE  Dictionary!Cut(v, value_size) \in DictValues
<1>1. value_size \in Nat \ {0} /\ value_size - 1 \in Nat
  BY DictionaryNumbers
<1>2. CASE v = << >>
  <2>1. SubSeq(v, 1, Len(v)) = << >> /\ Len(v) = 0
    BY <1>2
  <2>2. << >> \in DictValues
    BY <1>1, StringsGrow DEF DictValues
  <2>3. Dictionary!Cut(v, value_size) = SubSeq(v, 1, Len(v))
    BY <1>1, <2>1 DEF Dictionary!Cut
  <2> QED
    BY <2>1, <2>2, <2>3, Zenon
<1>3. CASE v = [i \in 1 .. value_size |-> "x"]
  <2>1. v \in Seq({"x"}) /\ Len(v) = value_size
    BY <1>1, <1>3
  <2> DEFINE t == SubSeq(v, 1, value_size - 1)
  <2>2. t \in [1 .. value_size - 1 -> {"x"}]
    <3>1. t \in Seq({"x"}) /\ Len(t) = value_size - 1
      BY <1>1, <2>1, SubSeqProperties
    <3> QED
      BY <3>1, LenProperties, Zenon
  <2>3. SubSeq(v, 1, value_size - 1) \in DictValues
    BY <1>1, <2>2 DEF DictValues, Dictionary!Strings
  <2> QED
    BY <1>1, <2>1, <2>3 DEF Dictionary!Cut
<1> QED
  BY <1>2, <1>3 DEF Dictionary!Values

\* The search for an entry ends at the first one, or behind the last.
LEMMA FirstIs ==
  ASSUME NEW T \in SUBSET Dictionary!Slots
  PROVE  \/ T = {} /\ Dictionary!First(T) = num_entries
         \/ Dictionary!First(T) \in T /\ \A j \in T : Dictionary!First(T) <= j
<1>1. CASE T = {}
  BY <1>1 DEF Dictionary!First
<1>2. CASE T # {}
  <2>1. T \in SUBSET Nat
    BY DictionaryNumbers DEF Dictionary!Slots
  <2>2. PICK x \in T : \A y \in T : x <= y
    BY <1>2, <2>1, LeastNumber
  <2> QED
    BY <1>2, <2>2 DEF Dictionary!First
<1> QED
  BY <1>1, <1>2

\* The entries one by one.
LEMMA DictionaryEntries ==
  ASSUME DictionaryIInv
  PROVE  /\ \A i \in Dictionary!Slots : entries[i].key \in DictKeys /\ entries[i].value \in DictValues
         /\ \A i, j \in Dictionary!Slots :
              entries[i].key # << >> /\ i # j => entries[i].key # entries[j].key
         /\ \A k \in DOMAIN index : k \in Dictionary!Keys /\ index[k] \in Dictionary!Slots
                                    /\ entries[index[k]].key = k
         /\ entries \in [Dictionary!Slots -> [key : DictKeys, value : DictValues]]
         /\ current \in 0 .. num_entries /\ Dictionary!Slots = 0 .. num_entries - 1
         /\ seen \subseteq DictKeys /\ stayed \subseteq DictKeys
<1>1. entries \in [Dictionary!Slots -> [key : DictKeys, value : DictValues]]
  BY DEF DictionaryIInv, Dictionary!TypeOK, DictKeys, DictValues
<1>2. \A i \in Dictionary!Slots : entries[i].key \in DictKeys /\ entries[i].value \in DictValues
  BY <1>1
<1>3. \A i, j \in Dictionary!Slots :
        entries[i].key # << >> /\ i # j => entries[i].key # entries[j].key
  BY <1>2, SameIsEqual DEF DictionaryIInv, Dictionary!KeyAppearsOnce, Dictionary!Active
<1>4. \A k \in DOMAIN index : k \in Dictionary!Keys /\ index[k] \in Dictionary!Slots
                              /\ entries[index[k]].key = k
  BY DEF DictionaryIInv, Dictionary!TypeOK, Dictionary!IndexStaysValid
<1>5. current \in 0 .. num_entries /\ seen \subseteq DictKeys /\ stayed \subseteq DictKeys
  BY DEF DictionaryIInv, Dictionary!TypeOK, DictKeys
<1> QED
  BY <1>1, <1>2, <1>3, <1>4, <1>5 DEF Dictionary!Slots

\* GetEntryIndexForKey finds the entry of the key.
LEMMA FoundIsTheKeys ==
  ASSUME MaxKey < key_size, DictionaryIInv, NEW k \in Dictionary!Keys
  PROVE  \/ /\ Dictionary!GetEntryIndexForKey(k) = num_entries
            /\ \A i \in Dictionary!Slots : entries[i].key # k
         \/ /\ Dictionary!GetEntryIndexForKey(k) \in Dictionary!Slots
            /\ entries[Dictionary!GetEntryIndexForKey(k)].key = k
<1>1. {i \in Dictionary!Slots : Dictionary!Same(k, entries[i].key)}
        = {i \in Dictionary!Slots : entries[i].key = k}
  BY KeysFit, DictionaryEntries, SameIsEqual
<1> QED
  BY <1>1, FirstIs DEF Dictionary!GetEntryIndexForKey

\* What has to hold of the entries after a step.
LEMMA DictionaryKeeps ==
  ASSUME entries' \in [Dictionary!Slots -> [key : DictKeys, value : DictValues]],
         stored' \in BOOLEAN, current' \in 0 .. num_entries,
         seen' \subseteq DictKeys, stayed' \subseteq DictKeys,
         \A k \in DOMAIN index' : k \in Dictionary!Keys /\ index'[k] \in Dictionary!Slots
                                  /\ entries'[index'[k]].key = k,
         \A i, j \in Dictionary!Slots :
           entries'[i].key # << >> /\ i # j => entries'[i].key # entries'[j].key,
         StillToCome'
  PROVE  DictionaryIInv'
<1>1. Dictionary!TypeOK'
  BY DEF Dictionary!TypeOK, DictKeys, DictValues
<1>2. \A i \in Dictionary!Slots : entries'[i].key \in DictKeys
  OBVIOUS
<1>3. Dictionary!KeyAppearsOnce'
  BY <1>2, SameIsEqual DEF Dictionary!KeyAppearsOnce, Dictionary!Active
<1>4. Dictionary!IndexStaysValid'
  BY DEF Dictionary!IndexStaysValid
<1> QED
  BY <1>1, <1>3, <1>4 DEF DictionaryIInv

\* SetKeyValue writes to the entry of the key, or to a free one that becomes it.
LEMMA DictionarySet ==
  ASSUME MaxKey < key_size, DictionaryIInv,
         NEW k \in Dictionary!Keys, NEW v \in Dictionary!Values, Dictionary!SetKeyValue(k, v)
  PROVE  DictionaryIInv'
<1> DEFINE found == Dictionary!GetEntryIndexForKey(k)
           e == IF found # num_entries THEN found ELSE Dictionary!FreeSlot
<1>1. k \in DictKeys /\ k # << >> /\ Dictionary!Cut(k, key_size) = k
  BY KeysFit
<1>2. Dictionary!Cut(v, value_size) \in DictValues
  BY ValuesAreCut
<1>3. /\ found = num_entries => \A i \in Dictionary!Slots : entries[i].key # k
      /\ found # num_entries => found \in Dictionary!Slots /\ entries[found].key = k
  BY FoundIsTheKeys, DictionaryNumbers DEF Dictionary!Slots
<1>4. Dictionary!FreeSlot # num_entries =>
        Dictionary!FreeSlot \in Dictionary!Slots /\ entries[Dictionary!FreeSlot].key = << >>
  BY FirstIs DEF Dictionary!FreeSlot, Dictionary!Active
<1> HIDE DEF found
<1>5. CASE e = num_entries
  <2>1. UNCHANGED <<entries, index, current, seen, stayed>> /\ stored' = FALSE
    BY <1>5 DEF Dictionary!SetKeyValue, found
  <2> QED
    BY <2>1, DictionaryEntries, DictionaryKeeps, Zenon DEF DictionaryIInv, StillToCome
<1>6. CASE e # num_entries
  <2>1. /\ entries' = [entries EXCEPT ![e] =
             [key |-> IF found # num_entries THEN @.key ELSE k, value |-> Dictionary!Cut(v, value_size)]]
        /\ index' = [l \in DOMAIN index \cup {k} |-> IF l = k THEN e ELSE index[l]]
        /\ UNCHANGED <<current, seen, stayed>> /\ stored' = TRUE
    BY <1>1, <1>6 DEF Dictionary!SetKeyValue, found
  <2>2. e \in Dictionary!Slots /\ entries[e].key \in {<< >>, k}
        /\ \A i \in Dictionary!Slots : i # e => entries[i].key # k
    BY <1>1, <1>3, <1>4, <1>6, DictionaryEntries
  <2> HIDE DEF e
  <2>3. /\ entries' \in [Dictionary!Slots -> [key : DictKeys, value : DictValues]]
        /\ entries'[e].key = k
        /\ \A i \in Dictionary!Slots : i # e => entries'[i] = entries[i]
    BY <1>1, <1>2, <1>3, <2>1, <2>2, DictionaryEntries DEF e
  <2>4. \A l \in DOMAIN index' : l \in Dictionary!Keys /\ index'[l] \in Dictionary!Slots
                                  /\ entries'[index'[l]].key = l
    BY <1>1, <2>1, <2>2, <2>3, DictionaryEntries, KeysFit
  <2>5. \A i, j \in Dictionary!Slots :
          entries'[i].key # << >> /\ i # j => entries'[i].key # entries'[j].key
    BY <2>2, <2>3, DictionaryEntries
  <2>6. StillToCome'
    BY <2>1, <2>2, <2>3 DEF DictionaryIInv, StillToCome
  <2> QED
    BY <2>1, <2>3, <2>4, <2>5, <2>6, DictionaryEntries, DictionaryKeeps, Zenon
<1> QED
  BY <1>5, <1>6

\* SetValueAtIndex leaves the keys.
LEMMA DictionarySetAt ==
  ASSUME DictionaryIInv, NEW k, NEW v \in Dictionary!Values, Dictionary!SetValueAtIndex(k, v)
  PROVE  DictionaryIInv'
<1>1. /\ k \in DOMAIN index /\ entries' = [entries EXCEPT ![index[k]].value = Dictionary!Cut(v, value_size)]
      /\ UNCHANGED <<stored, index, current, seen, stayed>>
      /\ Dictionary!Cut(v, value_size) \in DictValues
  BY ValuesAreCut DEF Dictionary!SetValueAtIndex
<1>2. /\ entries' \in [Dictionary!Slots -> [key : DictKeys, value : DictValues]]
      /\ \A i \in Dictionary!Slots : entries'[i].key = entries[i].key
  BY <1>1, DictionaryEntries
<1>3. StillToCome'
  BY <1>1, <1>2 DEF DictionaryIInv, StillToCome
<1> QED
  BY <1>1, <1>2, <1>3, DictionaryEntries, DictionaryKeeps DEF DictionaryIInv, Dictionary!TypeOK

\* RemoveKey frees the entry of the key, whose index and whose turn are over.
LEMMA DictionaryRemove ==
  ASSUME MaxKey < key_size, DictionaryIInv, NEW k \in Dictionary!Keys, Dictionary!RemoveKey(k)
  PROVE  DictionaryIInv'
<1> DEFINE e == Dictionary!GetEntryIndexForKey(k)
<1>1. k \in DictKeys /\ k # << >>
  BY KeysFit
<1>2. /\ e \in Dictionary!Slots /\ entries' = [entries EXCEPT ![e] = Dictionary!NoEntry]
      /\ stayed' = stayed \ {entries[e].key}
      /\ index' = [l \in DOMAIN index \ {k} |-> index[l]]
      /\ UNCHANGED <<stored, current, seen>>
  BY DEF Dictionary!RemoveKey, Dictionary!RemoveAtIndex, Dictionary!Forget
<1>3. entries[e].key = k
  BY <1>2, FoundIsTheKeys, DictionaryNumbers DEF Dictionary!Slots
<1> HIDE DEF e
<1>4. << >> \in DictKeys /\ << >> \in DictValues
  BY StringsGrow, DictionaryNumbers DEF DictKeys, DictValues
<1>5. /\ entries' \in [Dictionary!Slots -> [key : DictKeys, value : DictValues]]
      /\ entries'[e].key = << >>
      /\ \A i \in Dictionary!Slots : i # e => entries'[i] = entries[i]
  BY <1>2, <1>4, DictionaryEntries DEF Dictionary!NoEntry
<1>6. \A l \in DOMAIN index' : l \in Dictionary!Keys /\ index'[l] \in Dictionary!Slots
                                /\ entries'[index'[l]].key = l
  BY <1>2, <1>3, <1>5, DictionaryEntries
<1>7. \A i, j \in Dictionary!Slots :
        entries'[i].key # << >> /\ i # j => entries'[i].key # entries'[j].key
  BY <1>2, <1>5, DictionaryEntries
<1>8. StillToCome'
  BY <1>2, <1>3, <1>5 DEF DictionaryIInv, StillToCome
<1> QED
  BY <1>2, <1>5, <1>6, <1>7, <1>8, DictionaryEntries, DictionaryKeeps DEF DictionaryIInv, Dictionary!TypeOK

\* An iteration begins with all the keys to come, and goes on to the next.
LEMMA DictionaryIterate ==
  ASSUME DictionaryIInv, Dictionary!Copy \/ Dictionary!NewIterator \/ Dictionary!IteratorNext
  PROVE  DictionaryIInv'
<1>1. UNCHANGED <<entries, stored, index>>
  BY DEF Dictionary!Copy, Dictionary!NewIterator, Dictionary!IteratorNext
<1>2. stored' \in BOOLEAN
  BY <1>1 DEF DictionaryIInv, Dictionary!TypeOK
<1>3. CASE Dictionary!Copy
  <2>1. current' = num_entries /\ seen' = {} /\ stayed' = {}
    BY <1>3 DEF Dictionary!Copy
  <2> QED
    BY <1>1, <1>2, <2>1, DictionaryNumbers, DictionaryEntries, DictionaryKeeps DEF StillToCome
<1>4. CASE Dictionary!NewIterator
  <2>1. current' = 0 /\ seen' = {} /\ stayed' = Dictionary!ActiveKeys
    BY <1>4 DEF Dictionary!NewIterator
  <2>2. /\ stayed' \subseteq DictKeys
        /\ \A k \in stayed' : k # << >> /\ \E i \in Dictionary!Slots : entries[i].key = k
    BY <2>1, DictionaryEntries DEF Dictionary!ActiveKeys, Dictionary!Active
  <2>3. StillToCome'
    BY <1>1, <2>1, <2>2, DictionaryEntries, DictionaryNumbers DEF StillToCome
  <2> QED
    BY <1>1, <1>2, <2>1, <2>2, <2>3, DictionaryNumbers, DictionaryEntries, DictionaryKeeps
<1>5. CASE Dictionary!IteratorNext
  <2> DEFINE T == {j \in Dictionary!Slots : j >= current /\ Dictionary!Active(j)}
             f == Dictionary!First(T)
  <2>1. \/ f = num_entries /\ T = {}
        \/ f \in T /\ \A j \in T : f <= j
    BY FirstIs
  <2>2. /\ f = num_entries => current' = num_entries /\ seen' = seen
        /\ f # num_entries => current' = f + 1 /\ seen' = seen \cup {entries[f].key}
        /\ stayed' = stayed
    BY <1>5 DEF Dictionary!IteratorNext
  <2>3. num_entries \notin T
    BY DictionaryNumbers DEF Dictionary!Slots
  <2>4. \A j \in Dictionary!Slots : j \in T <=> j >= current /\ entries[j].key # << >>
    BY DEF Dictionary!Active
  <2>5. T \subseteq Dictionary!Slots
    OBVIOUS
  <2> HIDE DEF T, f
  <2>6. /\ current' \in 0 .. num_entries /\ seen' \subseteq DictKeys /\ stayed' \subseteq DictKeys
    BY <2>1, <2>2, <2>3, <2>5, DictionaryEntries, DictionaryNumbers
  <2>7. StillToCome'
    <3> SUFFICES ASSUME NEW k \in stayed
                 PROVE  /\ k # << >>
                        /\ k \in seen' \/ \E i \in Dictionary!Slots : i >= current' /\ entries[i].key = k
      BY <1>1, <2>2 DEF StillToCome
    <3>1. k # << >> /\ (k \in seen \/ \E i \in Dictionary!Slots : i >= current /\ entries[i].key = k)
      BY DEF DictionaryIInv, StillToCome
    <3>2. CASE k \in seen
      BY <2>2, <3>1, <3>2
    <3>3. ASSUME NEW i \in Dictionary!Slots, i >= current, entries[i].key = k
          PROVE  k \in seen' \/ i >= current'
      <4>1. i \in T
        BY <2>4, <3>1, <3>3
      <4>2. f \in T /\ f <= i
        BY <2>1, <4>1
      <4> QED
        BY <2>2, <2>3, <2>5, <3>3, <4>2, DictionaryEntries, DictionaryNumbers
    <3> QED
      BY <3>1, <3>2, <3>3
  <2> QED
    BY <1>1, <1>2, <2>6, <2>7, DictionaryEntries, DictionaryKeeps
<1> QED
  BY <1>3, <1>4, <1>5

LEMMA DictionaryInit == Dictionary!Init => DictionaryIInv
<1> SUFFICES ASSUME Dictionary!Init PROVE DictionaryIInv
  OBVIOUS
<1>1. << >> \in DictKeys /\ << >> \in DictValues
  BY StringsGrow, DictionaryNumbers DEF DictKeys, DictValues
<1>2. Dictionary!TypeOK
  <2>1. entries \in [Dictionary!Slots -> [key : DictKeys, value : DictValues]]
    BY <1>1 DEF Dictionary!Init, Dictionary!NoEntry
  <2>2. stored \in BOOLEAN /\ DOMAIN index = {} /\ seen = {} /\ stayed = {} /\ current = num_entries
    BY Zenon DEF Dictionary!Init
  <2>3. num_entries \in 0 .. num_entries
    BY DictionaryNumbers
  <2> QED
    BY <2>1, <2>2, <2>3 DEF Dictionary!TypeOK, DictKeys, DictValues
<1> QED
  BY <1>2 DEF Dictionary!Init, DictionaryIInv, Dictionary!KeyAppearsOnce, Dictionary!Active,
     Dictionary!NoEntry, Dictionary!IndexStaysValid, StillToCome

LEMMA DictionaryNext ==
  ASSUME MaxKey < key_size, DictionaryIInv, [Dictionary!Next]_Dictionary!vars
  PROVE  DictionaryIInv'
<1>1. CASE UNCHANGED Dictionary!vars
  BY <1>1, DictionaryEntries, DictionaryKeeps DEF Dictionary!vars, DictionaryIInv, Dictionary!TypeOK, StillToCome
<1>2. CASE Dictionary!Next
  BY <1>2, DictionarySet, DictionarySetAt, DictionaryRemove, DictionaryIterate DEF Dictionary!Next
<1> QED
  BY <1>1, <1>2

\* At the end of an iteration nothing is still to come.
LEMMA DictionaryMeans ==
  DictionaryIInv => Dictionary!IteratorMissesNone
<1> SUFFICES ASSUME DictionaryIInv, current = num_entries PROVE stayed \subseteq seen
  BY DEF Dictionary!IteratorMissesNone
<1>1. \A i \in Dictionary!Slots : ~(i >= current)
  BY DictionaryNumbers DEF Dictionary!Slots
<1> QED
  BY <1>1 DEF DictionaryIInv, StillToCome

\* The dictionary the entries stand for.
DictOf == [k \in Dictionary!ActiveKeys |->
             entries[CHOOSE i \in Dictionary!Slots : entries[i].key = k].value]

DictIsTheEntries ==
  /\ DOMAIN DictOf = {entries[i].key : i \in {j \in Dictionary!Slots : entries[j].key # << >>}}
  /\ \A i \in Dictionary!Slots : entries[i].key # << >> => DictOf[entries[i].key] = entries[i].value
  /\ DictOf = [k \in DOMAIN DictOf |-> DictOf[k]]

LEMMA DictOfIs == DictionaryIInv => DictIsTheEntries
<1> SUFFICES ASSUME DictionaryIInv PROVE DictIsTheEntries
  OBVIOUS
<1>1. DOMAIN DictOf = {entries[i].key : i \in {j \in Dictionary!Slots : entries[j].key # << >>}}
  BY DEF DictOf, Dictionary!ActiveKeys, Dictionary!Active
<1>2. ASSUME NEW i \in Dictionary!Slots, entries[i].key # << >>
      PROVE  DictOf[entries[i].key] = entries[i].value
  <2>1. \A j \in Dictionary!Slots : entries[j].key = entries[i].key => j = i
    BY <1>2, DictionaryEntries
  <2>2. (CHOOSE j \in Dictionary!Slots : entries[j].key = entries[i].key) = i
    BY <2>1
  <2>3. entries[i].key \in Dictionary!ActiveKeys
    BY <1>2 DEF Dictionary!ActiveKeys, Dictionary!Active
  <2> QED
    BY <2>2, <2>3, Zenon DEF DictOf
<1>3. DictOf = [k \in DOMAIN DictOf |-> DictOf[k]]
  BY DEF DictOf
<1> QED
  BY <1>1, <1>2, <1>3 DEF DictIsTheEntries

\* There is room for one more key exactly if an entry is free.
LEMMA RoomIsAFreeSlot ==
  ASSUME DictionaryIInv
  PROVE  Dictionary!Abstract!Cardinality(Dictionary!ActiveKeys) < num_entries
           <=> \E i \in Dictionary!Slots : entries[i].key = << >>
<1>1. \A S : Dictionary!Abstract!Cardinality(S) = Cardinality(S)
  BY DEF Dictionary!Abstract!Cardinality, Cardinality, Dictionary!Abstract!IsFiniteSet, IsFiniteSet
<1> DEFINE A == {i \in Dictionary!Slots : entries[i].key # << >>}
           f == [i \in A |-> entries[i].key]
<1>2. /\ IsFiniteSet(Dictionary!Slots) /\ Cardinality(Dictionary!Slots) = num_entries
  <2>1. IsFiniteSet(0 .. num_entries - 1) /\ Cardinality(0 .. num_entries - 1) = num_entries
    <3>1. 0 \in Int /\ num_entries - 1 \in Int /\ ~(0 > num_entries - 1) /\ num_entries - 1 - 0 + 1 = num_entries
      BY DictionaryNumbers
    <3> QED
      BY <3>1, FS_Interval
  <2> QED
    BY <2>1 DEF Dictionary!Slots
<1>3. IsFiniteSet(A) /\ Cardinality(A) <= num_entries /\ (Cardinality(A) = num_entries => A = Dictionary!Slots)
  BY <1>2, FS_Subset
<1>4. Dictionary!ActiveKeys = {entries[i].key : i \in A}
  BY DEF Dictionary!ActiveKeys, Dictionary!Active
<1>5. f \in Injection(A, Dictionary!ActiveKeys) /\ f \in Surjection(A, Dictionary!ActiveKeys)
  <2>1. f \in [A -> Dictionary!ActiveKeys] /\ \A t \in Dictionary!ActiveKeys : \E i \in A : f[i] = t
    BY <1>4
  <2>2. \A i, j \in A : f[i] = f[j] => i = j
    BY DictionaryEntries
  <2> QED
    BY <2>1, <2>2, Zenon DEF Injection, Surjection, IsInjective
<1>6. Cardinality(Dictionary!ActiveKeys) = Cardinality(A)
  <2> HIDE DEF A, f
  <2> QED
    BY <1>3, <1>5, FS_Surjection
<1>7. Cardinality(A) \in Nat
  BY <1>3, FS_CardinalityType
<1>8. A = Dictionary!Slots <=> ~ \E i \in Dictionary!Slots : entries[i].key = << >>
  OBVIOUS
<1>9. Cardinality(A) < num_entries <=> A # Dictionary!Slots
  <2> HIDE DEF A
  <2> QED
    BY <1>2, <1>3, <1>7, DictionaryNumbers
<1> HIDE DEF A
<1> QED
  BY <1>1, <1>6, <1>8, <1>9

\* A value is cut off alike.
LEMMA CutAlike ==
  ASSUME NEW v \in Dictionary!Values
  PROVE  Dictionary!Abstract!Cut(v, value_size - 1) = Dictionary!Cut(v, value_size)
<1>1. value_size \in Nat \ {0} /\ Len(v) \in Nat
  BY DictionaryNumbers DEF Dictionary!Values
<1> QED
  BY <1>1 DEF Dictionary!Abstract!Cut, Dictionary!Cut

\* The actions of the abstract dictionary, told by DictOf.
LEMMA AbstractActions ==
  ASSUME NEW k, NEW v
  PROVE  /\ Dictionary!Abstract!Set(k, v) <=>
              /\ stored' = Dictionary!Abstract!Room(k)
              /\ DictOf' = [l \in DOMAIN DictOf \cup (IF Dictionary!Abstract!Room(k) THEN {k} ELSE {}) |->
                   IF l = k THEN Dictionary!Abstract!Cut(v, value_size - 1) ELSE DictOf[l]]
         /\ Dictionary!Abstract!SetAgain(k, v) <=>
              /\ k \in DOMAIN DictOf
              /\ DictOf' = [DictOf EXCEPT ![k] = Dictionary!Abstract!Cut(v, value_size - 1)]
              /\ UNCHANGED stored
         /\ Dictionary!Abstract!Remove(k) <=>
              /\ DictOf' = [l \in DOMAIN DictOf \ {k} |-> DictOf[l]]
              /\ UNCHANGED stored
  BY DEF Dictionary!Abstract!Set, Dictionary!Abstract!SetAgain, Dictionary!Abstract!Remove, DictOf

\* SetKeyValue sets the key, or says that there is no room.
LEMMA DictionarySetRefines ==
  ASSUME MaxKey < key_size, DictionaryIInv, DictionaryIInv',
         NEW k \in Dictionary!Keys, NEW v \in Dictionary!Values, Dictionary!SetKeyValue(k, v)
  PROVE  Dictionary!Abstract!Set(k, v)
<1> DEFINE found == Dictionary!GetEntryIndexForKey(k)
           e == IF found # num_entries THEN found ELSE Dictionary!FreeSlot
           dict == DictOf
           cut == Dictionary!Cut(v, value_size)
<1>1. DictIsTheEntries /\ DictIsTheEntries'
  BY DictOfIs, PTL
<1>2. k \in DictKeys /\ k # << >> /\ Dictionary!Cut(k, key_size) = k
  BY KeysFit
<1>3. /\ found = num_entries => \A i \in Dictionary!Slots : entries[i].key # k
      /\ found # num_entries => found \in Dictionary!Slots /\ entries[found].key = k
  BY FoundIsTheKeys, DictionaryNumbers DEF Dictionary!Slots
<1>4. /\ Dictionary!FreeSlot # num_entries =>
           Dictionary!FreeSlot \in Dictionary!Slots /\ entries[Dictionary!FreeSlot].key = << >>
      /\ Dictionary!FreeSlot = num_entries => ~ \E i \in Dictionary!Slots : entries[i].key = << >>
  <2>1. num_entries \notin Dictionary!Slots
    BY DictionaryNumbers DEF Dictionary!Slots
  <2> QED
    BY <2>1, FirstIs DEF Dictionary!FreeSlot, Dictionary!Active
<1>5. Dictionary!Abstract!Room(k) <=> e # num_entries
  <2>1. DOMAIN dict = Dictionary!ActiveKeys
    BY DEF DictOf
  <2>2. k \in Dictionary!ActiveKeys <=> \E i \in Dictionary!Slots : entries[i].key = k
    BY <1>2 DEF Dictionary!ActiveKeys, Dictionary!Active
  <2>3. Dictionary!Abstract!Room(k) <=> k \in Dictionary!ActiveKeys
           \/ Dictionary!Abstract!Cardinality(Dictionary!ActiveKeys) < num_entries
    BY DEF Dictionary!Abstract!Room
  <2> HIDE DEF found
  <2> QED
    BY <1>3, <1>4, <2>2, <2>3, RoomIsAFreeSlot, DictionaryNumbers
<1> HIDE DEF found
<1>6. Dictionary!Abstract!Room(k) \in BOOLEAN
  BY DEF Dictionary!Abstract!Room
<1>7. CASE e = num_entries
  <2>1. UNCHANGED entries /\ stored' = FALSE
    BY <1>7 DEF Dictionary!SetKeyValue, found
  <2>2. DictOf' = DictOf
    BY <2>1 DEF DictOf, Dictionary!ActiveKeys, Dictionary!Active
  <2>3. k \notin DOMAIN DictOf
    BY <1>1, <1>3, <1>7, <1>4, DictionaryNumbers DEF DictIsTheEntries
  <2>4. DictOf' = [l \in DOMAIN DictOf \cup {} |-> IF l = k THEN cut ELSE DictOf[l]]
    BY <1>1, <2>2, <2>3 DEF DictIsTheEntries
  <2> QED
    <3>1. ~Dictionary!Abstract!Room(k)
      BY <1>5, <1>7
    <3>2. stored' = Dictionary!Abstract!Room(k)
      BY <1>6, <2>1, <3>1, Zenon
    <3>3. (IF Dictionary!Abstract!Room(k) THEN {k} ELSE {}) = {}
      BY <3>1
    <3>4. Dictionary!Abstract!Cut(v, value_size - 1) = cut
      BY CutAlike
    <3>5. DictOf' = [l \in DOMAIN DictOf \cup (IF Dictionary!Abstract!Room(k) THEN {k} ELSE {}) |->
                      IF l = k THEN Dictionary!Abstract!Cut(v, value_size - 1) ELSE DictOf[l]]
      BY <2>4, <3>3, <3>4
    <3> QED
      BY <3>2, <3>5, AbstractActions, Zenon
<1>8. CASE e # num_entries
  <2>1. /\ entries' = [entries EXCEPT ![e] =
             [key |-> IF found # num_entries THEN @.key ELSE k, value |-> cut]]
        /\ stored' = TRUE
    BY <1>2, <1>8 DEF Dictionary!SetKeyValue, found
  <2>2. e \in Dictionary!Slots /\ entries[e].key \in {<< >>, k}
        /\ \A i \in Dictionary!Slots : i # e => entries[i].key # k
    BY <1>2, <1>3, <1>4, <1>8, DictionaryEntries
  <2>3. /\ entries'[e].key = k /\ entries'[e].value = cut
        /\ \A i \in Dictionary!Slots : i # e => entries'[i] = entries[i]
    <3>1. entries'[e] = [key |-> IF found # num_entries THEN entries[e].key ELSE k, value |-> cut]
      BY <2>1, <2>2, DictionaryEntries
    <3>2. found # num_entries => entries[e].key = k
      BY <1>3
    <3> QED
      BY <2>1, <2>2, <3>1, <3>2, DictionaryEntries
  <2> HIDE DEF e
  <2>4. DOMAIN DictOf' = DOMAIN DictOf \cup {k}
    BY <1>1, <1>2, <2>2, <2>3 DEF DictIsTheEntries
  <2>5. DictOf'[k] = cut
    BY <1>1, <1>2, <2>2, <2>3 DEF DictIsTheEntries
  <2>6. ASSUME NEW l \in DOMAIN DictOf, l # k PROVE DictOf'[l] = DictOf[l]
    <3>1. PICK i \in Dictionary!Slots : entries[i].key = l /\ l # << >>
      BY <1>1 DEF DictIsTheEntries
    <3>2. i # e
      BY <2>2, <2>6, <3>1
    <3> QED
      BY <1>1, <2>3, <3>1, <3>2 DEF DictIsTheEntries
  <2>7. DictOf' = [l \in DOMAIN DictOf \cup {k} |-> IF l = k THEN cut ELSE DictOf[l]]
    BY <1>1, <2>4, <2>5, <2>6, Zenon DEF DictIsTheEntries
  <2> QED
    <3>1. Dictionary!Abstract!Room(k)
      BY <1>5, <1>8
    <3>2. stored' = Dictionary!Abstract!Room(k)
      BY <1>6, <2>1, <3>1
    <3>3. (IF Dictionary!Abstract!Room(k) THEN {k} ELSE {}) = {k}
      BY <3>1
    <3>4. Dictionary!Abstract!Cut(v, value_size - 1) = cut
      BY CutAlike
    <3>5. DictOf' = [l \in DOMAIN DictOf \cup (IF Dictionary!Abstract!Room(k) THEN {k} ELSE {}) |->
                      IF l = k THEN Dictionary!Abstract!Cut(v, value_size - 1) ELSE DictOf[l]]
      BY <2>7, <3>3, <3>4
    <3> QED
      BY <3>2, <3>5, AbstractActions, Zenon
<1> QED
  BY <1>7, <1>8

\* SetValueAtIndex sets a key that is there.
LEMMA DictionarySetAtRefines ==
  ASSUME DictionaryIInv, DictionaryIInv', NEW k, NEW v \in Dictionary!Values,
         Dictionary!SetValueAtIndex(k, v)
  PROVE  Dictionary!Abstract!SetAgain(k, v)
<1> DEFINE e == index[k]
           cut == Dictionary!Cut(v, value_size)
<1>1. DictIsTheEntries /\ DictIsTheEntries'
  BY DictOfIs, PTL
<1>2. k \in DOMAIN index /\ entries' = [entries EXCEPT ![e].value = cut] /\ UNCHANGED stored
  BY DEF Dictionary!SetValueAtIndex
<1>3. e \in Dictionary!Slots /\ entries[e].key = k /\ k # << >>
  BY <1>2, DictionaryEntries DEF Dictionary!Keys
<1>4. /\ \A i \in Dictionary!Slots : entries'[i].key = entries[i].key
      /\ \A i \in Dictionary!Slots : i # e => entries'[i].value = entries[i].value
      /\ entries'[e].value = cut
  BY <1>2, <1>3, DictionaryEntries
<1> HIDE DEF e, cut
<1>5. DOMAIN DictOf' = DOMAIN DictOf /\ k \in DOMAIN DictOf
  BY <1>1, <1>3, <1>4 DEF DictIsTheEntries
<1>6. DictOf'[k] = cut
  BY <1>1, <1>3, <1>4 DEF DictIsTheEntries
<1>7. ASSUME NEW l \in DOMAIN DictOf, l # k PROVE DictOf'[l] = DictOf[l]
  <2>1. PICK i \in Dictionary!Slots : entries[i].key = l /\ l # << >>
    BY <1>1 DEF DictIsTheEntries
  <2>2. i # e
    BY <1>3, <1>7, <2>1
  <2>3. DictOf[l] = entries[i].value /\ DictOf'[l] = entries'[i].value
    BY <1>1, <1>4, <2>1 DEF DictIsTheEntries
  <2> QED
    BY <1>4, <2>2, <2>3
<1>8. DictOf' = [DictOf EXCEPT ![k] = cut]
  BY <1>1, <1>5, <1>6, <1>7, Zenon DEF DictIsTheEntries
<1> QED
  BY <1>2, <1>5, <1>8, CutAlike, AbstractActions, Zenon DEF cut

\* RemoveKey removes a key that is there.
LEMMA DictionaryRemoveRefines ==
  ASSUME MaxKey < key_size, DictionaryIInv, DictionaryIInv', NEW k \in Dictionary!Keys,
         Dictionary!RemoveKey(k)
  PROVE  Dictionary!Abstract!Remove(k)
<1> DEFINE e == Dictionary!GetEntryIndexForKey(k)
<1>1. DictIsTheEntries /\ DictIsTheEntries'
  BY DictOfIs, PTL
<1>2. /\ e \in Dictionary!Slots /\ entries' = [entries EXCEPT ![e] = Dictionary!NoEntry]
      /\ UNCHANGED stored
  BY DEF Dictionary!RemoveKey, Dictionary!RemoveAtIndex
<1>3. entries[e].key = k /\ k # << >>
  BY <1>2, FoundIsTheKeys, KeysFit, DictionaryNumbers DEF Dictionary!Slots
<1> HIDE DEF e
<1>4. /\ entries'[e].key = << >>
      /\ \A i \in Dictionary!Slots : i # e => entries'[i] = entries[i]
      /\ \A i \in Dictionary!Slots : i # e => entries[i].key # k
  BY <1>2, <1>3, DictionaryEntries DEF Dictionary!NoEntry
<1>5. DOMAIN DictOf' = DOMAIN DictOf \ {k}
  BY <1>1, <1>2, <1>3, <1>4 DEF DictIsTheEntries
<1>6. ASSUME NEW l \in DOMAIN DictOf \ {k} PROVE DictOf'[l] = DictOf[l]
  <2>1. PICK i \in Dictionary!Slots : entries[i].key = l /\ l # << >>
    BY <1>1 DEF DictIsTheEntries
  <2>2. i # e
    BY <1>3, <1>6, <2>1
  <2> QED
    BY <1>1, <1>4, <2>1, <2>2 DEF DictIsTheEntries
<1>7. DictOf' = [l \in DOMAIN DictOf \ {k} |-> DictOf[l]]
  BY <1>1, <1>5, <1>6, Zenon DEF DictIsTheEntries
<1> QED
  BY <1>2, <1>7, AbstractActions, Zenon

\* The rest is not seen in the dictionary.
LEMMA DictionaryRefines ==
  ASSUME MaxKey < key_size, DictionaryIInv, DictionaryIInv', [Dictionary!Next]_Dictionary!vars
  PROVE  [Dictionary!Abstract!Next]_<<DictOf, stored>>
<1>1. CASE UNCHANGED <<entries, stored>>
  BY <1>1 DEF DictOf, Dictionary!ActiveKeys, Dictionary!Active
<1>2. CASE Dictionary!Copy \/ Dictionary!NewIterator \/ Dictionary!IteratorNext \/ UNCHANGED Dictionary!vars
  BY <1>1, <1>2 DEF Dictionary!Copy, Dictionary!NewIterator, Dictionary!IteratorNext, Dictionary!vars
<1>3. ASSUME NEW k \in Dictionary!Keys,
             \/ Dictionary!RemoveKey(k)
             \/ \E v \in Dictionary!Values : Dictionary!SetKeyValue(k, v) \/ Dictionary!SetValueAtIndex(k, v)
      PROVE  Dictionary!Abstract!Next
  BY <1>3, DictionarySetRefines, DictionarySetAtRefines, DictionaryRemoveRefines DEF Dictionary!Abstract!Next
<1> QED
  BY <1>2, <1>3 DEF Dictionary!Next

LEMMA DictionaryInitRefines == Dictionary!Init => Dictionary!Abstract!Init
<1> SUFFICES ASSUME Dictionary!Init PROVE Dictionary!Abstract!Init
  OBVIOUS
<1>1. Dictionary!ActiveKeys = {}
  BY DEF Dictionary!Init, Dictionary!ActiveKeys, Dictionary!Active, Dictionary!NoEntry
<1> QED
  BY <1>1 DEF Dictionary!Init, Dictionary!Abstract!Init

-----------------------------------------------------------------------------
\* linked_ptr.

LinkedMem == [exists : [Links -> BOOLEAN], value : [Links -> Objects \cup {NoBlock}],
              next : [Links -> Links], object : [Objects -> Linked!Lives]]

LEMMA LinkedNumbers ==
  /\ NoBlock \notin Objects
  /\ IsFiniteSet(Links) /\ Cardinality(Links) \in Nat
  /\ Linked!Cardinality(Links) = Cardinality(Links)
<1>1. NoBlock \notin Objects /\ Linked!IsFiniteSet(Links)
  BY MemoryObjectsAssumption DEF Linked!LinkedPtrAssumption
<1>2. Linked!Cardinality(Links) = Cardinality(Links) /\ IsFiniteSet(Links)
  BY <1>1 DEF Linked!Cardinality, Cardinality, Linked!IsFiniteSet, IsFiniteSet
<1> QED
  BY <1>1, <1>2, FS_CardinalityType

\* The walk from p is one along next_.
LEMMA WalkIs ==
  ASSUME NEW m \in LinkedMem, NEW p \in Links
  PROVE  \E hop \in [Nat -> Links] :
           /\ hop[0] = p /\ \A n \in Nat : hop[n + 1] = m.next[hop[n]]
           /\ Linked!Walk(m, p) = {hop[n] : n \in 0 .. Cardinality(Links)}
<1> DEFINE Steps(h) == [n \in Nat |-> IF n = 0 THEN p ELSE m.next[h[n - 1]]]
           hop == CHOOSE h : h = Steps(h)
<1>1. m.next \in [Links -> Links]
  BY DEF LinkedMem
<1>2. PICK g \in [Nat -> Links] : g[0] = p /\ \A n \in Nat : g[n + 1] = m.next[g[n]]
  <2> DEFINE F == m.next
  <2>1. F \in [Links -> Links]
    BY <1>1
  <2> HIDE DEF F
  <2>2. PICK g : Iterates(g, Links, F, p)
    BY <2>1, Iterations
  <2> QED
    BY <2>2 DEF F, Iterates
<1>3. g = Steps(g)
  <2>1. \A n \in Nat : g[n] = IF n = 0 THEN p ELSE m.next[g[n - 1]]
    <3> SUFFICES ASSUME NEW n \in Nat, n # 0 PROVE g[n] = m.next[g[n - 1]]
      BY <1>2
    <3>1. n - 1 \in Nat /\ (n - 1) + 1 = n
      OBVIOUS
    <3> QED
      BY <1>2, <3>1
  <2> QED
    BY <2>1
<1>4. hop = Steps(hop)
  BY <1>3, Zenon
<1>5. Linked!Walk(m, p) = {hop[n] : n \in 0 .. Linked!Cardinality(Links)}
  BY DEF Linked!Walk
<1>6. hop[0] = p /\ \A n \in Nat : hop[n + 1] = m.next[hop[n]]
  <2> HIDE DEF hop
  <2>1. \A n \in Nat : hop[n] = IF n = 0 THEN p ELSE m.next[hop[n - 1]]
    BY <1>4
  <2>2. \A n \in Nat : n + 1 \in Nat /\ n + 1 # 0 /\ (n + 1) - 1 = n
    OBVIOUS
  <2> QED
    BY <2>1, <2>2
<1>7. DOMAIN hop = Nat /\ hop = [n \in Nat |-> hop[n]]
  BY <1>4, Zenon
<1> HIDE DEF hop
<1>8. \A n \in Nat : hop[n] \in Links
  <2> DEFINE P == {n \in Nat : hop[n] \in Links}
  <2>1. 0 \in P /\ \A n \in Nat : n \in P => n + 1 \in P
    BY <1>1, <1>6
  <2>2. P \in SUBSET Nat
    OBVIOUS
  <2>3. \A n \in Nat : n \in P
    <3> HIDE DEF P
    <3> QED
      BY <2>1, <2>2, HoldsAlways
  <2> QED
    BY <2>3
<1>9. hop \in [Nat -> Links]
  BY <1>7, <1>8
<1> QED
  BY <1>5, <1>6, <1>9, LinkedNumbers

\* A walk stays in a set that next_ does not leave.
LEMMA WalkStays ==
  ASSUME NEW m \in LinkedMem, NEW C \in SUBSET Links, NEW p \in C,
         \A q \in C : m.next[q] \in C
  PROVE  Linked!Walk(m, p) \subseteq C
<1>1. PICK hop \in [Nat -> Links] :
        /\ hop[0] = p /\ \A n \in Nat : hop[n + 1] = m.next[hop[n]]
        /\ Linked!Walk(m, p) = {hop[n] : n \in 0 .. Cardinality(Links)}
  BY WalkIs, Zenon
<1> DEFINE P == {n \in Nat : hop[n] \in C}
<1>2. P \in SUBSET Nat /\ 0 \in P /\ \A n \in Nat : n \in P => n + 1 \in P
  BY <1>1
<1>3. \A n \in Nat : n \in P
  <2> HIDE DEF P
  <2> QED
    BY <1>2, HoldsAlways
<1> QED
  BY <1>1, <1>3, LinkedNumbers

\* The pointers of P to o.
Members(m, P, o) == {p \in P : m.value[p] = o}

\* In P, next_ leads on to a pointer to the same object, to each from one
\* only, and no pointers to an object are left out on the way round.
Circles(m, P) ==
  /\ \A p \in P : m.value[p] = NoBlock => m.next[p] = p
  /\ \A p \in P : m.value[p] # NoBlock => m.next[p] \in Members(m, P, m.value[p])
  /\ \A p, q \in P : m.next[p] = m.next[q] => p = q
  /\ \A o \in Objects : \A C \in SUBSET Members(m, P, o) :
       C # {} /\ (\A q \in C : m.next[q] \in C) => C = Members(m, P, o)

\* An object is alive as long as a pointer of P points to it.
AliveIn(m, P) == \A o \in Objects : m.object[o] = "alive" <=> Members(m, P, o) # {}

\* The operation leaves everybody where they are; or p is now there.
AllStay(m, n) == n.exists = m.exists /\ n.value = m.value
Comes(m, n, p) == n.exists = [m.exists EXCEPT ![p] = TRUE]
NoneRevives(m, n) == \A o \in Objects : n.object[o] = "alive" => m.object[o] = "alive"

There(m) == {p \in Links : m.exists[p]}

LinkedIInv ==
  /\ mem \in LinkedMem
  /\ Circles(mem, There(mem))
  /\ AliveIn(mem, There(mem))

\* What is kept of other pointers does not matter.
LEMMA OthersDoNotMatter ==
  ASSUME NEW m, NEW n, NEW P,
         \A p \in P : n.value[p] = m.value[p] /\ n.next[p] = m.next[p]
  PROVE  /\ Circles(m, P) => Circles(n, P)
         /\ n.object = m.object /\ AliveIn(m, P) => AliveIn(n, P)
<1>1. \A o : Members(n, P, o) = Members(m, P, o)
  BY DEF Members
<1>2. n.object = m.object /\ AliveIn(m, P) => AliveIn(n, P)
  BY <1>1 DEF AliveIn
<1>3. ASSUME Circles(m, P) PROVE Circles(n, P)
  <2>1. /\ \A p \in P : n.value[p] = NoBlock => n.next[p] = p
        /\ \A p \in P : n.value[p] # NoBlock => n.next[p] \in Members(n, P, n.value[p])
        /\ \A p, q \in P : n.next[p] = n.next[q] => p = q
    BY <1>1, <1>3 DEF Circles
  <2>2. ASSUME NEW o \in Objects, NEW C \in SUBSET Members(n, P, o),
               C # {}, \A q \in C : n.next[q] \in C
        PROVE  C = Members(n, P, o)
    <3>1. C \in SUBSET Members(m, P, o) /\ C \subseteq P
      BY <1>1 DEF Members
    <3>2. \A q \in C : m.next[q] \in C
      BY <2>2, <3>1
    <3> QED
      BY <1>1, <1>3, <2>2, <3>1, <3>2 DEF Circles
  <2> QED
    BY <2>1, <2>2 DEF Circles
<1> QED
  BY <1>2, <1>3

\* Whom a walk from a member meets.
LEMMA WalkMeetsMembers ==
  ASSUME NEW m \in LinkedMem, NEW P \in SUBSET Links, Circles(m, P), NEW p \in P
  PROVE  Linked!Walk(m, p) \subseteq
           IF m.value[p] = NoBlock THEN {p} ELSE Members(m, P, m.value[p])
<1>1. CASE m.value[p] = NoBlock
  <2>1. {p} \in SUBSET Links /\ p \in {p} /\ \A q \in {p} : m.next[q] \in {p}
    BY <1>1 DEF Circles
  <2>2. Linked!Walk(m, p) \subseteq {p}
    BY <2>1, WalkStays, Zenon
  <2> QED
    BY <1>1, <2>2
<1>2. CASE m.value[p] # NoBlock
  <2> DEFINE C == Members(m, P, m.value[p])
  <2>1. C \in SUBSET Links /\ p \in C
    BY DEF Members
  <2>2. \A q \in C : m.next[q] \in C
    BY <1>2 DEF Circles, Members
  <2> HIDE DEF C
  <2>3. Linked!Walk(m, p) \subseteq C
    BY <2>1, <2>2, WalkStays
  <2> QED
    BY <1>2, <2>3 DEF C
<1> QED
  BY <1>1, <1>2

\* depart: the member before p closes the gap; the last one takes the object.
LEMMA DepartLeaves ==
  ASSUME NEW m \in LinkedMem, NEW P \in SUBSET Links, NEW p \in P,
         Circles(m, P), AliveIn(m, P), NEW n \in Linked!depart(m, p)
  PROVE  /\ n \in LinkedMem /\ AllStay(m, n) /\ NoneRevives(m, n)
         /\ Circles(n, P \ {p}) /\ AliveIn(n, P \ {p})
<1>1. /\ m.value \in [Links -> Objects \cup {NoBlock}] /\ m.next \in [Links -> Links]
      /\ m.object \in [Objects -> Linked!Lives] /\ p \in Links
  BY DEF LinkedMem
<1>2. CASE m.next[p] = p
  <2>1. n = Linked!delete(m, m.value[p])
    BY <1>2 DEF Linked!depart
  <2>2. /\ n.exists = m.exists /\ n.value = m.value /\ n.next = m.next
        /\ n.object = IF m.value[p] = NoBlock THEN m.object
                      ELSE [m.object EXCEPT ![m.value[p]] = "deleted"]
        /\ n \in LinkedMem
    BY <1>1, <2>1 DEF Linked!delete, LinkedMem, Linked!Lives
  <2>3. m.value[p] # NoBlock => Members(m, P, m.value[p]) = {p}
    <3> SUFFICES ASSUME m.value[p] # NoBlock PROVE Members(m, P, m.value[p]) = {p}
      OBVIOUS
    <3>1. {p} \in SUBSET Members(m, P, m.value[p]) /\ m.value[p] \in Objects
      BY <1>1 DEF Members
    <3>2. {p} # {} /\ \A q \in {p} : m.next[q] \in {p}
      BY <1>2
    <3> QED
      BY <3>1, <3>2, Zenon DEF Circles
  <2>4. \A o \in Objects : Members(m, P \ {p}, o) =
          IF o = m.value[p] THEN {} ELSE Members(m, P, o)
    BY <2>3, LinkedNumbers DEF Members
  <2>5. Circles(m, P \ {p})
    <3>1. \A q \in P \ {p} : m.value[q] # NoBlock => m.next[q] \in Members(m, P \ {p}, m.value[q])
      BY <1>2 DEF Circles, Members
    <3>2. ASSUME NEW o \in Objects, NEW C \in SUBSET Members(m, P \ {p}, o),
                 C # {}, \A q \in C : m.next[q] \in C
          PROVE  C = Members(m, P \ {p}, o)
      <4>1. o # m.value[p]
        BY <2>4, <3>2
      <4>2. Members(m, P \ {p}, o) = Members(m, P, o)
        BY <2>4, <4>1
      <4> QED
        BY <3>2, <4>2, Zenon DEF Circles
    <3> QED
      BY <3>1, <3>2, Zenon DEF Circles
  <2>6. Circles(n, P \ {p})
    BY <2>2, <2>5, OthersDoNotMatter
  <2>7. AliveIn(n, P \ {p})
    <3> SUFFICES ASSUME NEW o \in Objects
                 PROVE  n.object[o] = "alive" <=> Members(m, P \ {p}, o) # {}
      BY <2>2 DEF AliveIn, Members
    <3>1. m.object[o] = "alive" <=> Members(m, P, o) # {}
      BY DEF AliveIn
    <3>2. n.object[o] = IF o = m.value[p] THEN "deleted" ELSE m.object[o]
      BY <1>1, <2>2, LinkedNumbers
    <3> QED
      BY <2>4, <3>1, <3>2
  <2>8. \A o \in Objects : n.object[o] = "alive" => m.object[o] = "alive"
    BY <1>1, <2>2
  <2> QED
    BY <2>2, <2>6, <2>7, <2>8 DEF AllStay, NoneRevives
<1>3. CASE m.next[p] # p
  <2>1. PICK before \in Linked!Predecessor(m, m.next[p], p) : n = [m EXCEPT !.next[before] = m.next[p]]
    BY <1>3 DEF Linked!depart
  <2>2. m.value[p] \in Objects /\ m.value[p] # NoBlock /\ m.next[p] \in Members(m, P, m.value[p])
    BY <1>1, <1>3 DEF Circles
  <2>3. before \in Members(m, P, m.value[p]) /\ m.next[before] = p
    <3>1. m.next[p] \in P /\ m.value[m.next[p]] = m.value[p]
      BY <2>2 DEF Members
    <3>2. before \in Linked!Walk(m, m.next[p]) /\ m.next[before] = p
      BY DEF Linked!Predecessor
    <3> QED
      BY <2>2, <3>1, <3>2, WalkMeetsMembers
  <2>4. before \in P /\ before # p /\ m.value[before] = m.value[p] /\ before \in Links
    BY <1>3, <2>3 DEF Members
  <2>5. /\ n.exists = m.exists /\ n.value = m.value /\ n.object = m.object
        /\ n.next = [m.next EXCEPT ![before] = m.next[p]]
        /\ n \in LinkedMem
    BY <1>1, <2>1, <2>4 DEF LinkedMem
  <2>6. n.next[before] = m.next[p] /\ \A q \in Links : q # before => n.next[q] = m.next[q]
    BY <1>1, <2>4, <2>5
  <2>7. \A o : Members(n, P \ {p}, o) = Members(m, P, o) \ {p}
    BY <2>5 DEF Members
  <2>8. AliveIn(n, P \ {p})
    <3> SUFFICES ASSUME NEW o \in Objects PROVE Members(m, P, o) \ {p} # {} <=> Members(m, P, o) # {}
      BY <2>5, <2>7, Zenon DEF AliveIn
    <3>1. p \in Members(m, P, o) => before \in Members(m, P, o)
      BY <2>4 DEF Members
    <3> QED
      BY <2>4, <3>1
  <2>9. Circles(n, P \ {p})
    <3>1. \A q \in P \ {p} : n.value[q] = NoBlock => n.next[q] = q
      BY <2>2, <2>4, <2>5, <2>6 DEF Circles
    <3>2. ASSUME NEW q \in P \ {p}, n.value[q] # NoBlock
          PROVE  n.next[q] \in Members(n, P \ {p}, n.value[q])
      <4>1. CASE q = before
        BY <1>3, <2>2, <2>4, <2>5, <2>6, <2>7, <4>1
      <4>2. CASE q # before
        <5>1. n.next[q] = m.next[q] /\ m.next[q] # p
          BY <2>3, <2>4, <2>6, <3>2, <4>2 DEF Circles
        <5>2. m.next[q] \in Members(m, P, m.value[q])
          BY <2>5, <3>2 DEF Circles
        <5> QED
          BY <2>5, <2>7, <5>1, <5>2
      <4> QED
        BY <4>1, <4>2
    <3>3. \A q, r \in P \ {p} : n.next[q] = n.next[r] => q = r
      BY <2>3, <2>4, <2>6 DEF Circles
    <3>4. ASSUME NEW o \in Objects, NEW C \in SUBSET Members(n, P \ {p}, o),
                 C # {}, \A q \in C : n.next[q] \in C
          PROVE  C = Members(n, P \ {p}, o)
      <4>1. C \in SUBSET Members(m, P, o) /\ C \subseteq P /\ C \subseteq Links /\ p \notin C
        BY <2>7 DEF Members
      <4>2. CASE before \in C
        <5>1. p \in Members(m, P, o)
          BY <2>4, <4>1, <4>2 DEF Members
        <5>2. C \cup {p} \in SUBSET Members(m, P, o)
          BY <4>1, <5>1
        <5>3. \A q \in C \cup {p} : m.next[q] \in C \cup {p}
          BY <2>3, <2>6, <3>4, <4>1, <4>2
        <5>4. C \cup {p} = Members(m, P, o)
          BY <5>2, <5>3, Zenon DEF Circles
        <5> QED
          BY <2>7, <4>1, <5>4
      <4>3. CASE before \notin C
        <5>1. \A q \in C : m.next[q] \in C
          BY <2>6, <3>4, <4>1, <4>3
        <5>2. C = Members(m, P, o)
          BY <3>4, <4>1, <5>1 DEF Circles
        <5> QED
          BY <2>7, <4>1, <5>2
      <4> QED
        BY <4>2, <4>3
    <3> QED
      BY <3>1, <3>2, <3>3, <3>4, Zenon DEF Circles
  <2> QED
    BY <2>5, <2>8, <2>9 DEF AllStay, NoneRevives
<1> QED
  BY <1>2, <1>3

\* A pointer that is in no circle becomes one of its own, to null or to an
\* object nobody points to.
LEMMA CaptureBegins ==
  ASSUME NEW m \in LinkedMem, NEW P \in SUBSET Links, NEW p \in Links, p \notin P,
         Circles(m, P), AliveIn(m, P),
         NEW raw_ \in Objects \cup {NoBlock}, raw_ # NoBlock => m.object[raw_] # "alive",
         NEW n, n = Linked!capture(Linked!Born(m, raw_), p, raw_)
  PROVE  /\ n \in LinkedMem /\ Comes(m, n, p)
         /\ Circles(n, P \cup {p}) /\ AliveIn(n, P \cup {p})
<1>1. /\ m.value \in [Links -> Objects \cup {NoBlock}] /\ m.next \in [Links -> Links]
      /\ m.object \in [Objects -> Linked!Lives] /\ m.exists \in [Links -> BOOLEAN]
  BY DEF LinkedMem
<1>2. /\ n.exists = [m.exists EXCEPT ![p] = TRUE] /\ n.value = [m.value EXCEPT ![p] = raw_]
      /\ n.next = [m.next EXCEPT ![p] = p]
      /\ n.object = IF raw_ = NoBlock THEN m.object ELSE [m.object EXCEPT ![raw_] = "alive"]
      /\ n \in LinkedMem
  BY <1>1, Zenon DEF Linked!capture, Linked!Born, Linked!join_new, LinkedMem, Linked!Lives
<1>3. /\ n.value[p] = raw_ /\ n.next[p] = p
      /\ \A q \in P : n.value[q] = m.value[q] /\ n.next[q] = m.next[q]
  BY <1>1, <1>2
<1>4. Circles(n, P)
  BY <1>3, OthersDoNotMatter
<1>5. raw_ \in Objects => Members(n, P, raw_) = {}
  <2> SUFFICES ASSUME raw_ \in Objects PROVE Members(m, P, raw_) = {}
    BY <1>3 DEF Members
  <2> QED
    BY LinkedNumbers DEF AliveIn
<1>6. \A o \in Objects : Members(n, P \cup {p}, o) = IF o = raw_ THEN {p} ELSE Members(n, P, o)
  BY <1>3, <1>5 DEF Members
<1>7. Circles(n, P \cup {p})
  <2>1. \A q \in P \cup {p} : n.value[q] = NoBlock => n.next[q] = q
    BY <1>3, <1>4 DEF Circles
  <2>2. \A q \in P \cup {p} : n.value[q] # NoBlock => n.next[q] \in Members(n, P \cup {p}, n.value[q])
    BY <1>3, <1>4 DEF Circles, Members
  <2>3. \A q, r \in P \cup {p} : n.next[q] = n.next[r] => q = r
    <3>1. \A q \in P : n.next[q] \in P
      BY <1>4 DEF Circles, Members
    <3> QED
      BY <1>3, <1>4, <3>1 DEF Circles
  <2>4. ASSUME NEW o \in Objects, NEW C \in SUBSET Members(n, P \cup {p}, o),
               C # {}, \A q \in C : n.next[q] \in C
        PROVE  C = Members(n, P \cup {p}, o)
    <3>1. CASE o = raw_
      BY <1>6, <2>4, <3>1
    <3>2. CASE o # raw_
      BY <1>4, <1>6, <2>4, <3>2, Zenon DEF Circles
    <3> QED
      BY <3>1, <3>2
  <2> QED
    BY <2>1, <2>2, <2>3, <2>4, Zenon DEF Circles
<1>8. AliveIn(n, P \cup {p})
  <2> SUFFICES ASSUME NEW o \in Objects
               PROVE  n.object[o] = "alive" <=> Members(n, P \cup {p}, o) # {}
    BY DEF AliveIn
  <2>1. n.object[o] = IF o = raw_ THEN "alive" ELSE m.object[o]
    BY <1>1, <1>2, LinkedNumbers
  <2>2. Members(n, P, o) = Members(m, P, o)
    BY <1>3 DEF Members
  <2> QED
    BY <1>6, <2>1, <2>2 DEF AliveIn
<1> QED
  BY <1>2, <1>7, <1>8 DEF Comes

\* A copy of q joins the circle of q, before it.
LEMMA CopyJoins ==
  ASSUME NEW m \in LinkedMem, NEW P \in SUBSET Links, NEW p \in Links, p \notin P, NEW q \in P,
         Circles(m, P), AliveIn(m, P), NEW n \in Linked!copy(m, p, q)
  PROVE  /\ n \in LinkedMem /\ Comes(m, n, p)
         /\ Circles(n, P \cup {p}) /\ AliveIn(n, P \cup {p})
<1>1. /\ m.value \in [Links -> Objects \cup {NoBlock}] /\ m.next \in [Links -> Links]
      /\ m.object \in [Objects -> Linked!Lives] /\ m.exists \in [Links -> BOOLEAN]
      /\ q \in Links /\ q # p
  BY DEF LinkedMem
<1> DEFINE c == [m EXCEPT !.value[p] = m.value[q]]
<1>2. /\ c \in LinkedMem /\ c.exists = m.exists /\ c.next = m.next /\ c.object = m.object
      /\ c.value = [m.value EXCEPT ![p] = m.value[q]]
  BY <1>1 DEF LinkedMem
<1>3. /\ c.value[p] = m.value[q]
      /\ \A r \in P : c.value[r] = m.value[r] /\ c.next[r] = m.next[r]
  BY <1>1, <1>2
<1>4. Circles(c, P) /\ AliveIn(c, P)
  BY <1>2, <1>3, OthersDoNotMatter, ZenonT(30)
<1>5. CASE m.value[q] = NoBlock
  <2>1. n = [Linked!join_new(c, p) EXCEPT !.exists[p] = TRUE]
    BY <1>5 DEF Linked!copy
  <2>2. n = Linked!capture(Linked!Born(m, NoBlock), p, NoBlock)
    BY <1>1, <1>2, <1>5, <2>1, Zenon DEF Linked!capture, Linked!Born, Linked!join_new, LinkedMem
  <2> QED
    BY <2>2, CaptureBegins
<1>6. CASE m.value[q] # NoBlock
  <2> DEFINE o == m.value[q]
  <2>1. PICK last \in Linked!Predecessor(c, q, q) :
          n = [[c EXCEPT !.next[last] = p, !.next[p] = q] EXCEPT !.exists[p] = TRUE]
    BY <1>6, Zenon DEF Linked!copy, Linked!join
  <2> HIDE DEF c
  <2>2. /\ last \in Members(c, P, o) /\ c.next[last] = q /\ o \in Objects
        /\ last \in P /\ last \in Links /\ last # p /\ q \in Members(c, P, o)
    <3>1. last \in Linked!Walk(c, q) /\ c.next[last] = q
      BY DEF Linked!Predecessor
    <3>2. c.value[q] = o /\ o # NoBlock /\ o \in Objects
      BY <1>1, <1>3, <1>6
    <3>3. last \in Members(c, P, o)
      BY <1>2, <1>4, <3>1, <3>2, WalkMeetsMembers, Zenon
    <3> QED
      BY <3>1, <3>2, <3>3 DEF Members
  <2>3. /\ n.exists = [m.exists EXCEPT ![p] = TRUE] /\ n.value = c.value /\ n.object = c.object
        /\ n.next = [c.next EXCEPT ![last] = p, ![p] = q]
        /\ n \in LinkedMem
    BY <1>1, <1>2, <2>1, <2>2, Zenon DEF LinkedMem
  <2>4. /\ n.next[last] = p /\ n.next[p] = q
        /\ \A r \in P : r # last => n.next[r] = c.next[r]
    BY <1>1, <1>2, <2>2, <2>3
  <2> HIDE DEF o
  <2>5. \A x : Members(n, P \cup {p}, x) = IF x = o THEN Members(c, P, o) \cup {p} ELSE Members(c, P, x)
    BY <1>3, <2>3 DEF Members, o
  <2>6. AliveIn(n, P \cup {p})
    <3> SUFFICES ASSUME NEW x \in Objects
                 PROVE  c.object[x] = "alive" <=> Members(n, P \cup {p}, x) # {}
      BY <2>3, Zenon DEF AliveIn
    <3>1. c.object[x] = "alive" <=> Members(c, P, x) # {}
      BY <1>4 DEF AliveIn
    <3> QED
      BY <2>2, <2>5, <3>1
  <2>7. Circles(n, P \cup {p})
    <3>1. \A r \in P \cup {p} : n.value[r] = NoBlock => n.next[r] = r
      <4>1. n.value[p] # NoBlock /\ n.value[last] # NoBlock
        BY <1>3, <1>6, <2>2, <2>3 DEF Members, o
      <4> QED
        BY <1>4, <2>3, <2>4, <4>1 DEF Circles
    <3>2. ASSUME NEW r \in P \cup {p}, n.value[r] # NoBlock
          PROVE  n.next[r] \in Members(n, P \cup {p}, n.value[r])
      <4>1. CASE r = p
        BY <1>3, <2>2, <2>3, <2>4, <2>5, <4>1, SMTT(20) DEF o
      <4>2. CASE r = last
        BY <2>2, <2>3, <2>4, <2>5, <4>2 DEF Members
      <4>3. CASE r # p /\ r # last
        <5>1. r \in P /\ n.next[r] = c.next[r] /\ c.value[r] # NoBlock /\ n.value[r] = c.value[r]
          BY <2>3, <2>4, <3>2, <4>3
        <5>2. c.next[r] \in Members(c, P, c.value[r])
          BY <1>4, <5>1 DEF Circles
        <5>3. Members(c, P, c.value[r]) \subseteq Members(n, P \cup {p}, c.value[r])
          BY <2>5
        <5> QED
          BY <5>1, <5>2, <5>3
      <4> QED
        BY <4>1, <4>2, <4>3
    <3>3. ASSUME NEW r \in P \cup {p}, NEW s \in P \cup {p}, n.next[r] = n.next[s]
          PROVE  r = s
      <4>1. \A t \in P : c.next[t] \in P
        BY <1>4 DEF Circles, Members
      <4>2. \A t \in P : t # last => n.next[t] # q /\ n.next[t] # p
        BY <1>4, <2>2, <2>4, <4>1 DEF Circles
      <4> QED
        BY <1>1, <1>4, <2>2, <2>4, <3>3, <4>2 DEF Circles
    <3>4. ASSUME NEW x \in Objects, NEW C \in SUBSET Members(n, P \cup {p}, x),
                 C # {}, \A r \in C : n.next[r] \in C
          PROVE  C = Members(n, P \cup {p}, x)
      <4>1. CASE x # o
        <5>1. C \in SUBSET Members(c, P, x) /\ last \notin C /\ C \subseteq P
          BY <2>2, <2>5, <4>1 DEF Members
        <5>2. \A r \in C : c.next[r] \in C
          BY <2>4, <3>4, <5>1
        <5> QED
          BY <1>4, <2>5, <3>4, <4>1, <5>1, <5>2, Zenon DEF Circles
      <4>2. CASE x = o /\ p \in C
        <5>1. q \in C /\ C \ {p} \in SUBSET Members(c, P, o) /\ C \ {p} # {} /\ C \ {p} \subseteq P
          BY <1>1, <2>4, <2>5, <3>4, <4>2 DEF Members
        <5>2. \A r \in C \ {p} : c.next[r] \in C \ {p}
          <6> SUFFICES ASSUME NEW r \in C \ {p} PROVE c.next[r] \in C \ {p}
            OBVIOUS
          <6>1. c.next[r] \in P
            BY <1>4, <5>1 DEF Circles, Members
          <6>2. r # last => c.next[r] \in C
            BY <2>4, <3>4, <5>1
          <6> QED
            BY <2>2, <5>1, <6>1, <6>2
        <5>3. C \ {p} = Members(c, P, o)
          BY <1>4, <2>2, <5>1, <5>2, Zenon DEF Circles
        <5> QED
          BY <2>5, <4>2, <5>3
      <4>3. CASE x = o /\ p \notin C
        <5>1. last \notin C /\ C \in SUBSET Members(c, P, o) /\ C \subseteq P
          BY <2>4, <2>5, <3>4, <4>3 DEF Members
        <5>2. \A r \in C : c.next[r] \in C
          BY <2>4, <3>4, <5>1
        <5>3. C = Members(c, P, o)
          BY <1>4, <2>2, <3>4, <5>1, <5>2 DEF Circles
        <5> QED
          BY <2>2, <5>1, <5>3
      <4> QED
        BY <4>1, <4>2, <4>3
    <3> QED
      BY <3>1, <3>2, <3>3, <3>4 DEF Circles
  <2> QED
    BY <2>3, <2>6, <2>7 DEF Comes
<1> QED
  BY <1>5, <1>6

\* Every operation leaves every pointer there is in the right circle.
LEMMA LinkedNext ==
  ASSUME LinkedIInv, [Linked!Next]_mem
  PROVE  LinkedIInv'
<1> DEFINE P == There(mem)
<1>1. /\ mem \in LinkedMem /\ P \in SUBSET Links /\ Circles(mem, P) /\ AliveIn(mem, P)
      /\ \A p \in Links : p \in P <=> mem.exists[p]
      /\ mem.exists \in [Links -> BOOLEAN] /\ mem.value \in [Links -> Objects \cup {NoBlock}]
      /\ mem.next \in [Links -> Links] /\ mem.object \in [Objects -> Linked!Lives]
  BY DEF LinkedIInv, There, LinkedMem
<1>a. mem \in LinkedMem /\ P \in SUBSET Links /\ Circles(mem, P) /\ AliveIn(mem, P)
  BY <1>1
<1>2. ASSUME NEW n \in LinkedMem, NEW p \in Links, mem' = n,
             Comes(mem, n, p),
             Circles(n, P \cup {p}), AliveIn(n, P \cup {p})
      PROVE  LinkedIInv'
  <2>1. There(n) = P \cup {p}
    BY <1>1, <1>2 DEF There, Comes
  <2> QED
    BY <1>2, <2>1 DEF LinkedIInv
<1> HIDE DEF P
<1>3. ASSUME NEW p \in Links, Linked!Destroy(p) PROVE LinkedIInv'
  <2>1. PICK n \in Linked!depart(mem, p) :
          mem' = [n EXCEPT !.exists[p] = FALSE, !.value[p] = NoBlock, !.next[p] = p]
    BY <1>3, Zenon DEF Linked!Destroy
  <2>2. p \in P
    BY <1>1, <1>3, Zenon DEF Linked!Destroy
  <2>3. n \in LinkedMem /\ AllStay(mem, n) /\ Circles(n, P \ {p}) /\ AliveIn(n, P \ {p})
    BY <1>a, <2>2, DepartLeaves
  <2>4. /\ mem' \in LinkedMem /\ mem'.object = n.object
        /\ mem'.exists = [mem.exists EXCEPT ![p] = FALSE]
        /\ \A q \in P \ {p} : mem'.value[q] = n.value[q] /\ mem'.next[q] = n.next[q]
    BY <1>1, <2>1, <2>3, Zenon DEF LinkedMem, AllStay
  <2>5. There(mem') = P \ {p}
    BY <1>1, <2>4 DEF There
  <2>6. Circles(mem', P \ {p}) /\ AliveIn(mem', P \ {p})
    BY <2>3, <2>4, OthersDoNotMatter
  <2> QED
    BY <2>4, <2>5, <2>6 DEF LinkedIInv
<1>4. ASSUME NEW p \in Links, Linked!Release(p) PROVE LinkedIInv'
  <2> DEFINE o == mem.value[p]
  <2>1. /\ p \in P /\ o # NoBlock /\ Linked!Owners(mem, o) = {p}
        /\ mem' = [mem EXCEPT !.object[o] = "released", !.value[p] = NoBlock]
    BY <1>1, <1>4 DEF Linked!Release
  <2>2. Members(mem, P, o) = {p} /\ o \in Objects
    BY <1>1, <2>1 DEF Linked!Owners, Members
  <2>3. mem.next[p] = p
    BY <1>1, <2>1, <2>2 DEF Circles
  <2> HIDE DEF o
  <2>4. /\ mem' \in LinkedMem /\ mem'.exists = mem.exists /\ mem'.next = mem.next
        /\ mem'.value = [mem.value EXCEPT ![p] = NoBlock]
        /\ mem'.object = [mem.object EXCEPT ![o] = "released"]
    BY <1>1, <2>1, <2>2, Zenon DEF LinkedMem, Linked!Lives
  <2>5. There(mem') = P
    BY <1>1, <2>4 DEF There, P
  <2>6. \A x \in Objects : Members(mem', P, x) = IF x = o THEN {} ELSE Members(mem, P, x)
    BY <1>1, <2>1, <2>2, <2>4, LinkedNumbers DEF Members
  <2>7. AliveIn(mem', P)
    <3> SUFFICES ASSUME NEW x \in Objects
                 PROVE  mem'.object[x] = "alive" <=> Members(mem', P, x) # {}
      BY DEF AliveIn
    <3>1. mem'.object[x] = IF x = o THEN "released" ELSE mem.object[x]
      BY <1>1, <2>2, <2>4
    <3> QED
      BY <1>1, <2>6, <3>1 DEF AliveIn
  <2>8. Circles(mem', P)
    <3>1. \A q \in P : mem'.value[q] = NoBlock => mem'.next[q] = q
      BY <1>1, <2>3, <2>4 DEF Circles
    <3>2. ASSUME NEW q \in P, mem'.value[q] # NoBlock
          PROVE  mem'.next[q] \in Members(mem', P, mem'.value[q])
      <4>1. q # p /\ mem'.value[q] = mem.value[q] /\ mem.value[q] # NoBlock /\ mem.value[q] \in Objects
        BY <1>1, <2>4, <3>2
      <4>2. mem.next[q] \in Members(mem, P, mem.value[q])
        BY <1>1, <4>1 DEF Circles
      <4>3. mem.value[q] # o
        BY <2>2, <4>1 DEF Members
      <4> QED
        BY <2>4, <2>6, <4>1, <4>2, <4>3
    <3>3. \A q, r \in P : mem'.next[q] = mem'.next[r] => q = r
      BY <1>1, <2>4 DEF Circles
    <3>4. ASSUME NEW x \in Objects, NEW C \in SUBSET Members(mem', P, x),
                 C # {}, \A q \in C : mem'.next[q] \in C
          PROVE  C = Members(mem', P, x)
      <4>1. x # o /\ Members(mem', P, x) = Members(mem, P, x)
        BY <2>6, <3>4
      <4>2. C \in SUBSET Members(mem, P, x) /\ \A q \in C : mem.next[q] \in C
        BY <2>4, <3>4, <4>1
      <4> QED
        BY <1>1, <3>4, <4>1, <4>2 DEF Circles
    <3> QED
      BY <3>1, <3>2, <3>3, <3>4 DEF Circles
  <2> QED
    BY <2>4, <2>5, <2>7, <2>8 DEF LinkedIInv
<1>5. ASSUME NEW p \in Links, NEW q \in Links, Linked!CopyConstruct(p, q) PROVE LinkedIInv'
  <2>1. p \notin P /\ q \in P /\ mem' \in Linked!copy(mem, p, q)
    BY <1>1, <1>5 DEF Linked!CopyConstruct
  <2> QED
    BY <1>a, <1>2, <2>1, CopyJoins, Zenon
<1>6. ASSUME NEW p \in Links, NEW q \in Links, Linked!Assign(p, q) PROVE LinkedIInv'
  <2>1. p \in P /\ q \in P /\ p # q
    BY <1>1, <1>6 DEF Linked!Assign
  <2>2. PICK n \in Linked!depart(mem, p) : mem' \in Linked!copy(n, p, q)
    BY <1>6 DEF Linked!Assign
  <2>3. n \in LinkedMem /\ AllStay(mem, n) /\ Circles(n, P \ {p}) /\ AliveIn(n, P \ {p})
    BY <1>a, <2>1, DepartLeaves
  <2>4. /\ mem' \in LinkedMem /\ Comes(n, mem', p)
        /\ Circles(mem', (P \ {p}) \cup {p}) /\ AliveIn(mem', (P \ {p}) \cup {p})
    <3>1. P \ {p} \in SUBSET Links /\ p \notin P \ {p} /\ q \in P \ {p}
      BY <1>a, <2>1
    <3> QED
      BY <2>2, <2>3, <3>1, CopyJoins
  <2>5. (P \ {p}) \cup {p} = P \cup {p}
    OBVIOUS
  <2>6. Comes(mem, mem', p)
    BY <2>3, <2>4 DEF AllStay, Comes
  <2> QED
    BY <1>2, <2>4, <2>5, <2>6
<1>7. ASSUME NEW p \in Links, NEW raw_ \in Linked!Raw(mem), Linked!Construct(p, raw_) PROVE LinkedIInv'
  <2>1. p \notin P /\ mem' = Linked!capture(Linked!Born(mem, raw_), p, raw_)
    BY <1>1, <1>7 DEF Linked!Construct
  <2>2. raw_ \in Objects \cup {NoBlock} /\ (raw_ # NoBlock => mem.object[raw_] # "alive")
    BY DEF Linked!Raw
  <2>3. /\ mem' \in LinkedMem /\ Comes(mem, mem', p)
        /\ Circles(mem', P \cup {p}) /\ AliveIn(mem', P \cup {p})
    BY <1>a, <2>1, <2>2, CaptureBegins
  <2> QED
    BY <1>2, <2>3
<1>8. ASSUME NEW p \in Links, NEW raw_ \in Linked!Raw(mem), Linked!Reset(p, raw_) PROVE LinkedIInv'
  <2>1. p \in P
    BY <1>1, <1>8 DEF Linked!Reset
  <2>2. PICK n \in Linked!depart(mem, p) : mem' = Linked!capture(Linked!Born(n, raw_), p, raw_)
    BY <1>8 DEF Linked!Reset
  <2>3. /\ n \in LinkedMem /\ AllStay(mem, n) /\ NoneRevives(mem, n)
        /\ Circles(n, P \ {p}) /\ AliveIn(n, P \ {p})
    BY <1>a, <2>1, DepartLeaves
  <2>4. raw_ \in Objects \cup {NoBlock} /\ (raw_ # NoBlock => n.object[raw_] # "alive")
    BY <2>3 DEF Linked!Raw, NoneRevives
  <2>5. /\ mem' \in LinkedMem /\ Comes(n, mem', p)
        /\ Circles(mem', (P \ {p}) \cup {p}) /\ AliveIn(mem', (P \ {p}) \cup {p})
    <3>1. P \ {p} \in SUBSET Links /\ p \notin P \ {p}
      BY <1>a, <2>1
    <3> QED
      BY <2>2, <2>3, <2>4, <3>1, CaptureBegins
  <2>6. (P \ {p}) \cup {p} = P \cup {p}
    OBVIOUS
  <2>7. Comes(mem, mem', p)
    BY <2>3, <2>5 DEF AllStay, Comes
  <2> QED
    BY <1>2, <2>5, <2>6, <2>7
<1> QED
  BY <1>3, <1>4, <1>5, <1>6, <1>7, <1>8 DEF Linked!Next, LinkedIInv

LEMMA LinkedInit == Linked!Init => LinkedIInv
<1> SUFFICES ASSUME Linked!Init PROVE LinkedIInv
  OBVIOUS
<1>1. mem \in LinkedMem /\ There(mem) = {} /\ \A o \in Objects : mem.object[o] = "unborn"
  BY DEF Linked!Init, LinkedMem, There, Linked!Lives
<1> QED
  BY <1>1 DEF LinkedIInv, Circles, AliveIn, Members

\* A walk that is as long as there are pointers goes all the way round.
LEMMA WalkGoesRound ==
  ASSUME NEW m \in LinkedMem, NEW P \in SUBSET Links, Circles(m, P), NEW p \in P,
         m.value[p] # NoBlock
  PROVE  Linked!Walk(m, p) = Members(m, P, m.value[p])
<1> DEFINE N == Cardinality(Links)
<1>1. PICK hop \in [Nat -> Links] :
        /\ hop[0] = p /\ \A n \in Nat : hop[n + 1] = m.next[hop[n]]
        /\ Linked!Walk(m, p) = {hop[n] : n \in 0 .. N}
  BY WalkIs, Zenon
<1>2. N \in Nat /\ IsFiniteSet(0 .. N) /\ Cardinality(0 .. N) = N + 1
  <2>1. N \in Nat /\ 0 \in Int /\ N \in Int /\ ~(0 > N)
    BY LinkedNumbers
  <2> QED
    BY <2>1, FS_Interval
<1>3. PICK i, j \in 0 .. N : i < j /\ hop[i] = hop[j]
  <2> DEFINE h == [n \in 0 .. N |-> hop[n]]
  <2>1. h \in [0 .. N -> Links]
    BY <1>2
  <2>2. N < N + 1
    BY <1>2
  <2> HIDE DEF h
  <2>3. \E x, y \in 0 .. N : x # y /\ h[x] = h[y]
    BY <1>2, <2>1, <2>2, LinkedNumbers, FS_PigeonHole
  <2> QED
    BY <1>2, <2>3 DEF h
<1> DEFINE C == {hop[n] : n \in 0 .. j - 1}
<1>4. C \subseteq Linked!Walk(m, p) /\ p \in C
  <2>1. 0 .. j - 1 \subseteq 0 .. N /\ 0 \in 0 .. j - 1
    BY <1>2, <1>3
  <2> QED
    BY <1>1, <2>1
<1>5. Linked!Walk(m, p) \subseteq Members(m, P, m.value[p])
  BY WalkMeetsMembers
<1>6. \A q \in C : m.next[q] \in C
  <2> SUFFICES ASSUME NEW n \in 0 .. j - 1 PROVE m.next[hop[n]] \in C
    OBVIOUS
  <2>1. m.next[hop[n]] = hop[n + 1]
    BY <1>1, <1>3
  <2>2. CASE n = j - 1
    BY <1>2, <1>3, <2>1, <2>2
  <2>3. CASE n # j - 1
    BY <1>2, <1>3, <2>1, <2>3
  <2> QED
    BY <2>2, <2>3
<1> HIDE DEF C
<1>7. m.value[p] \in Objects
  BY DEF LinkedMem
<1>8. C = Members(m, P, m.value[p])
  BY <1>4, <1>5, <1>6, <1>7 DEF Circles
<1> QED
  BY <1>4, <1>5, <1>8

LEMMA LinkedMeans == LinkedIInv => Linked!TypeOK /\ Linked!OneCircle /\ Linked!AliveWhileOwned
<1> SUFFICES ASSUME LinkedIInv PROVE Linked!TypeOK /\ Linked!OneCircle /\ Linked!AliveWhileOwned
  OBVIOUS
<1>1. \A o : Linked!Owners(mem, o) = Members(mem, There(mem), o)
  BY DEF Linked!Owners, Members, There
<1>2. Linked!TypeOK
  BY DEF LinkedIInv, Linked!TypeOK, LinkedMem
<1>3. Linked!AliveWhileOwned
  BY <1>1 DEF LinkedIInv, AliveIn, Linked!AliveWhileOwned
<1>4. ASSUME NEW p \in Links, mem.exists[p]
      PROVE  Linked!Walk(mem, p) = IF mem.value[p] = NoBlock THEN {p} ELSE Linked!Owners(mem, mem.value[p])
  <2>1. p \in There(mem) /\ There(mem) \in SUBSET Links /\ mem \in LinkedMem /\ Circles(mem, There(mem))
    BY <1>4 DEF There, LinkedIInv
  <2>2. CASE mem.value[p] = NoBlock
    <3>1. Linked!Walk(mem, p) \subseteq {p}
      BY <2>1, <2>2, WalkMeetsMembers
    <3>2. p \in Linked!Walk(mem, p)
      <4>1. PICK hop \in [Nat -> Links] :
              hop[0] = p /\ Linked!Walk(mem, p) = {hop[n] : n \in 0 .. Cardinality(Links)}
        BY <2>1, WalkIs
      <4> QED
        BY <4>1, LinkedNumbers
    <3> QED
      BY <2>2, <3>1, <3>2
  <2>3. CASE mem.value[p] # NoBlock
    BY <1>1, <2>1, <2>3, WalkGoesRound
  <2> QED
    BY <2>2, <2>3
<1> QED
  BY <1>2, <1>3, <1>4 DEF Linked!OneCircle

-----------------------------------------------------------------------------
\* PageAllocator.

\* Where an address is, and where a page begins.
PageOf(x) == x \div page_size
Start(p) == p * page_size

LEMMA PageNumbers ==
  /\ page_size \in Nat \ {0} /\ HeaderSize \in Nat \ {0} /\ HeaderSize < page_size
  /\ Pages \in Nat \ {0} /\ MaxBytes \in Nat \ {0}
BY MemoryObjectsAssumption DEF Allocator!PageAllocatorAssumption

LEMMA Starts ==
  /\ \A p \in Int : Start(p) \in Int /\ Start(p + 1) = Start(p) + page_size
  /\ \A p, q \in Int : p < q => Start(p) + page_size <= Start(q)
  /\ \A p, k \in Int : Start(p) + page_size * k = Start(p + k)
  /\ Start(0) = 0 /\ Start(1) = page_size
<1>1. page_size \in Nat
  BY PageNumbers
<1>2. ASSUME NEW p \in Int, NEW q \in Int, p < q PROVE p * page_size + page_size <= q * page_size
  <2>1. q - p - 1 \in Nat
    BY <1>2
  <2> DEFINE d == q - p - 1
  <2>2. d \in Nat /\ q = d + p + 1
    BY <2>1
  <2> HIDE DEF d
  <2>3. d * page_size \in Nat
    BY <1>1, <2>2
  <2>4. (d + p + 1) * page_size = d * page_size + p * page_size + page_size
    BY <1>1, <2>2
  <2> QED
    BY <1>1, <2>2, <2>3, <2>4
<1>3. \A p \in Int : p * page_size \in Int /\ (p + 1) * page_size = p * page_size + page_size
  BY <1>1
<1>4. \A p, k \in Int : p * page_size + page_size * k = (p + k) * page_size
  BY <1>1
<1>5. 0 * page_size = 0 /\ 1 * page_size = page_size
  BY <1>1
<1> QED
  BY <1>2, <1>3, <1>4, <1>5 DEF Start

LEMMA PageIs ==
  \A x, p \in Int : /\ PageOf(x) \in Int
                    /\ PageOf(x) = p <=> Start(p) <= x /\ x < Start(p) + page_size
<1> SUFFICES ASSUME NEW x \in Int, NEW p \in Int
             PROVE  /\ PageOf(x) \in Int
                    /\ PageOf(x) = p <=> Start(p) <= x /\ x < Start(p) + page_size
  OBVIOUS
<1> DEFINE q == x \div page_size
<1>1. page_size \in Nat \ {0}
  BY PageNumbers
<1>2. q \in Int /\ x = page_size * q + (x % page_size) /\ x % page_size \in 0 .. page_size - 1
  BY <1>1
<1>3. page_size * q = Start(q)
  <2>1. page_size * q = q * page_size
    BY <1>1, <1>2
  <2> QED
    BY <2>1 DEF Start
<1> HIDE DEF q
<1>4. Start(q) <= x /\ x < Start(q) + page_size /\ Start(q) \in Int /\ Start(p) \in Int
  <2>1. Start(q) \in Int /\ Start(p) \in Int
    BY <1>2, Starts
  <2> QED
    BY <1>1, <1>2, <1>3, <2>1
<1>5. PageOf(x) = q
  BY DEF PageOf, q
<1>6. ASSUME Start(p) <= x, x < Start(p) + page_size PROVE p = q
  <2>1. ~ p < q
    <3> SUFFICES ASSUME p < q PROVE FALSE
      OBVIOUS
    <3>1. Start(p) + page_size <= Start(q)
      BY <1>2, Starts
    <3> QED
      BY <1>1, <1>4, <1>6, <3>1
  <2>2. ~ q < p
    <3> SUFFICES ASSUME q < p PROVE FALSE
      OBVIOUS
    <3>1. Start(q) + page_size <= Start(p)
      BY <1>2, Starts
    <3> QED
      BY <1>1, <1>4, <1>6, <3>1
  <2> QED
    BY <1>2, <2>1, <2>2
<1> QED
  BY <1>2, <1>4, <1>5, <1>6

LEMMA AddressesAre == Allocator!Addresses = 0 .. Start(Pages + 1) - 1
BY DEF Allocator!Addresses, Start

\* A page's address is an address.
LEMMA StartIsAddress ==
  /\ 0 \in Allocator!Addresses
  /\ \A p \in 1 .. Pages : Start(p) \in Allocator!Addresses /\ PageOf(Start(p)) = p
<1>1. Start(1) <= Start(Pages + 1)
  BY PageNumbers, Starts
<1>2. \A p \in 1 .. Pages : Start(p) + page_size <= Start(Pages + 1) /\ 0 <= Start(p)
  <2> TAKE p \in 1 .. Pages
  <2>1. p \in Int /\ p < Pages + 1 /\ 0 < p /\ Pages + 1 \in Int /\ 0 \in Int
    BY PageNumbers
  <2>2. Start(p) + page_size <= Start(Pages + 1) /\ Start(0) + page_size <= Start(p)
    BY <2>1, Starts
  <2> QED
    BY <2>1, <2>2, Starts, PageNumbers
<1>3. \A p \in 1 .. Pages : p \in Int /\ Start(p) \in Int
  BY PageNumbers, Starts
<1>4. Start(Pages + 1) \in Int
  BY PageNumbers, Starts
<1>5. \A p \in 1 .. Pages : PageOf(Start(p)) = p
  BY <1>3, PageIs, PageNumbers
<1>6. 0 \in Allocator!Addresses
  <2>1. Start(1) = page_size
    BY Starts
  <2> QED
    BY <1>1, <1>4, <2>1, AddressesAre, PageNumbers
<1>7. \A p \in 1 .. Pages : Start(p) \in Allocator!Addresses
  BY <1>2, <1>3, <1>4, AddressesAre, PageNumbers
<1> QED
  BY <1>5, <1>6, <1>7

\* A header is at the beginning of pages of its own.
HeadersLie ==
  /\ \A a \in DOMAIN headers :
       /\ a \in Allocator!Addresses /\ headers[a].next \in Allocator!Addresses
       /\ headers[a].num_pages \in Nat \ {0}
       /\ a = Start(PageOf(a))
       /\ 1 <= PageOf(a) /\ PageOf(a) + headers[a].num_pages - 1 <= Pages
  /\ \A a, b \in DOMAIN headers :
       a # b => Allocator!PagesOf(a) \cap Allocator!PagesOf(b) = {}

\* The allocator's own variables.
PointersAre ==
  /\ last_ \in Allocator!Addresses /\ current_page_ \in Allocator!Addresses
  /\ page_offset_ \in 0 .. page_size - 1
  /\ refused \in BOOLEAN
  /\ freeing \in Allocator!Addresses \cup {Allocator!Live}

GrantedAre == granted \subseteq [at : Allocator!Addresses, bytes : 1 .. MaxBytes]

\* The byte is part of a block that has been granted, or of a header.
Taken(x) ==
  \/ \E b \in granted : x \in Allocator!Bytes(b.at, b.bytes)
  \/ \E a \in DOMAIN headers : x \in Allocator!Bytes(a, HeaderSize)

Rest == Allocator!Bytes(current_page_ + page_offset_, page_size - page_offset_)

\* The current page is mapped, and nobody has the rest of it.
RestIsFree ==
  current_page_ # Allocator!NULL =>
    /\ current_page_ = Start(PageOf(current_page_))
    /\ PageOf(current_page_) \in Allocator!Mapped
    /\ \A x \in Rest : ~Taken(x)

\* next leads from top to every header of h once, and ends with NULL.
Chain(h, top, k, s) ==
  /\ s[0] = Allocator!NULL /\ s[k] = top
  /\ \A i \in 1 .. k : s[i] \in DOMAIN h /\ h[s[i]].next = s[i - 1]
  /\ \A a \in DOMAIN h : \E i \in 1 .. k : s[i] = a
  /\ \A i, j \in 1 .. k : s[i] = s[j] => i = j

Chained ==
  \E k \in Nat : \E s \in [0 .. k -> Allocator!Addresses] :
    Chain(headers, IF freeing = Allocator!Live THEN last_ ELSE freeing, k, s)

\* A vector is on the stack with the room it began with.
VectorsAre ==
  /\ vectors \in [Vectors -> [data : Allocator!Addresses \cup {Allocator!Stack}, capacity : 0 .. MaxBytes]]
  /\ \A v \in Vectors :
       /\ vectors[v].capacity > 0 => OnStack[v] <= vectors[v].capacity
       /\ vectors[v].data = Allocator!Stack => 0 < vectors[v].capacity /\ vectors[v].capacity = OnStack[v]

AllocatorIInv ==
  /\ HeadersLie /\ PointersAre /\ GrantedAre
  /\ Allocator!BlocksAreApart
  /\ freeing = Allocator!Live => RestIsFree
  /\ Chained

PagesIInv == AllocatorIInv /\ VectorsAre

\* What is on which pages.
LEMMA Numbers ==
  ASSUME HeadersLie, PointersAre, GrantedAre
  PROVE  /\ \A a \in Allocator!Addresses : a \in Int /\ 0 <= a
         /\ \A a \in DOMAIN headers : a \in Int /\ PageOf(a) \in Int /\ headers[a].num_pages \in Nat \ {0}
         /\ \A b \in granted : b.at \in Int /\ b.bytes \in Int /\ 0 < b.bytes
         /\ current_page_ \in Int /\ page_offset_ \in Int /\ 0 <= page_offset_
<1>1. Start(Pages + 1) \in Int
  BY PageNumbers, Starts
<1>2. \A a \in Allocator!Addresses : a \in Int /\ 0 <= a
  BY <1>1, AddressesAre
<1>3. \A a \in DOMAIN headers : a \in Int /\ PageOf(a) \in Int /\ headers[a].num_pages \in Nat \ {0}
  BY <1>2, PageIs DEF HeadersLie
<1>4. \A b \in granted : b.at \in Int /\ b.bytes \in Int /\ 0 < b.bytes
  BY <1>2, PageNumbers DEF GrantedAre
<1>5. current_page_ \in Int /\ page_offset_ \in Int /\ 0 <= page_offset_
  BY <1>2, PageNumbers DEF PointersAre
<1> QED
  BY <1>2, <1>3, <1>4, <1>5

LEMMA MappedIs ==
  \A p : p \in Allocator!Mapped <=>
    \E a \in DOMAIN headers : p \in PageOf(a) .. PageOf(a) + headers[a].num_pages - 1
BY DEF Allocator!Mapped, Allocator!PagesOf, PageOf

\* What is taken is on a page that is mapped.
LEMMA TakenIsMapped ==
  ASSUME HeadersLie, PointersAre, GrantedAre, Allocator!BlocksAreApart, freeing = Allocator!Live,
         NEW x \in Int, Taken(x)
  PROVE  PageOf(x) \in Allocator!Mapped
<1>1. CASE \E b \in granted : x \in Allocator!Bytes(b.at, b.bytes)
  BY <1>1 DEF Allocator!BlocksAreApart, PageOf
<1>2. ASSUME NEW a \in DOMAIN headers, x \in Allocator!Bytes(a, HeaderSize)
      PROVE  PageOf(x) \in Allocator!Mapped
  <2>1. a \in Int /\ PageOf(a) \in Int /\ a = Start(PageOf(a)) /\ headers[a].num_pages \in Nat \ {0}
    BY Numbers DEF HeadersLie
  <2>2. a <= x /\ x < a + page_size
    BY <1>2, <2>1, PageNumbers DEF Allocator!Bytes
  <2>3. PageOf(x) = PageOf(a)
    BY <2>1, <2>2, PageIs
  <2>4. PageOf(x) \in PageOf(a) .. PageOf(a) + headers[a].num_pages - 1
    BY <2>1, <2>3
  <2> QED
    BY <2>4, MappedIs
<1> QED
  BY <1>1, <1>2 DEF Taken

\* A block that nobody has had any byte of, on pages that are mapped.
LEMMA BlockIsNew ==
  ASSUME HeadersLie, PointersAre, GrantedAre, NEW at \in Int, NEW bytes \in Nat \ {0},
         \A x \in Allocator!Bytes(at, bytes) : ~Taken(x)
  PROVE  /\ [at |-> at, bytes |-> bytes] \notin granted
         /\ \A b \in granted : Allocator!Bytes(b.at, b.bytes) \cap Allocator!Bytes(at, bytes) = {}
         /\ \A a \in DOMAIN headers : Allocator!Bytes(at, bytes) \cap Allocator!Bytes(a, HeaderSize) = {}
<1>1. at \in Allocator!Bytes(at, bytes)
  BY DEF Allocator!Bytes
<1>2. \A b \in granted : Allocator!Bytes(b.at, b.bytes) \cap Allocator!Bytes(at, bytes) = {}
  BY DEF Taken
<1>3. \A a \in DOMAIN headers : Allocator!Bytes(at, bytes) \cap Allocator!Bytes(a, HeaderSize) = {}
  BY DEF Taken
<1>4. [at |-> at, bytes |-> bytes] \notin granted
  <2> SUFFICES ASSUME [at |-> at, bytes |-> bytes] \in granted PROVE FALSE
    OBVIOUS
  <2>1. PICK b \in granted : b.at = at /\ b.bytes = bytes
    OBVIOUS
  <2> QED
    BY <1>1, <1>2, <2>1
<1> QED
  BY <1>2, <1>3, <1>4

\* What is on a page is an address.
LEMMA OnPageIsAddress ==
  ASSUME NEW x \in Int, PageOf(x) \in 1 .. Pages
  PROVE  x \in Allocator!Addresses
<1>1. PageOf(x) \in Int /\ Start(PageOf(x)) <= x /\ x < Start(PageOf(x)) + page_size
  BY PageIs
<1>2. Start(PageOf(x)) \in Allocator!Addresses
  BY StartIsAddress
<1>3. PageOf(x) < Pages + 1 /\ Pages + 1 \in Int
  BY PageNumbers
<1>4. Start(PageOf(x)) + page_size <= Start(Pages + 1) /\ Start(Pages + 1) \in Int /\ Start(PageOf(x)) \in Int
  BY <1>1, <1>3, Starts
<1> QED
  BY <1>1, <1>2, <1>4, AddressesAre, PageNumbers

\* Blocks and headers stay apart when a new block joins them.
LEMMA BlocksStayApart ==
  ASSUME NEW b, granted' = granted \cup {b}, freeing = Allocator!Live, Allocator!BlocksAreApart,
         DOMAIN headers \subseteq DOMAIN headers', Allocator!Mapped \subseteq Allocator!Mapped',
         \A c \in granted : Allocator!Bytes(c.at, c.bytes) \cap Allocator!Bytes(b.at, b.bytes) = {},
         \A a \in DOMAIN headers' : Allocator!Bytes(b.at, b.bytes) \cap Allocator!Bytes(a, HeaderSize) = {},
         \A c \in granted, a \in DOMAIN headers' \ DOMAIN headers :
           Allocator!Bytes(c.at, c.bytes) \cap Allocator!Bytes(a, HeaderSize) = {},
         \A x \in Allocator!Bytes(b.at, b.bytes) : PageOf(x) \in Allocator!Mapped'
  PROVE  Allocator!BlocksAreApart'
<1> DEFINE B(c) == Allocator!Bytes(c.at, c.bytes)
           H(a) == Allocator!Bytes(a, HeaderSize)
<1>1. /\ \A c, d \in granted : c # d => B(c) \cap B(d) = {}
      /\ \A c \in granted : \A a \in DOMAIN headers : B(c) \cap H(a) = {}
      /\ \A c \in granted : \A x \in B(c) : PageOf(x) \in Allocator!Mapped
  BY DEF Allocator!BlocksAreApart, PageOf
<1>2. \A c, d \in granted' : c # d => B(c) \cap B(d) = {}
  <2>1. \A c \in granted : B(c) \cap B(b) = {}
    OBVIOUS
  <2> HIDE DEF B
  <2> QED
    BY <1>1, <2>1
<1>3. \A c \in granted' : \A a \in DOMAIN headers' : B(c) \cap H(a) = {}
  <2>1. \A a \in DOMAIN headers' : B(b) \cap H(a) = {}
    OBVIOUS
  <2>2. \A c \in granted, a \in DOMAIN headers' \ DOMAIN headers : B(c) \cap H(a) = {}
    OBVIOUS
  <2> HIDE DEF B, H
  <2> QED
    BY <1>1, <2>1, <2>2
<1>4. \A c \in granted' : \A x \in B(c) : PageOf(x) \in Allocator!Mapped'
  <2>1. \A x \in B(b) : PageOf(x) \in Allocator!Mapped'
    OBVIOUS
  <2> HIDE DEF B
  <2> QED
    BY <1>1, <2>1
<1> QED
  BY <1>2, <1>3, <1>4 DEF Allocator!BlocksAreApart, PageOf, Allocator!Bytes

\* The chain is the headers' and where it begins.
LEMMA FreedAlike ==
  ASSUME Chained, headers' = headers, last_' = last_, freeing' = freeing
  PROVE  Chained'
<1>1. PICK k \in Nat : \E s \in [0 .. k -> Allocator!Addresses] :
        Chain(headers, IF freeing = Allocator!Live THEN last_ ELSE freeing, k, s)
  BY DEF Chained
<1>2. PICK s \in [0 .. k -> Allocator!Addresses] :
        Chain(headers, IF freeing = Allocator!Live THEN last_ ELSE freeing, k, s)
  BY <1>1
<1>3. Chain(headers', IF freeing' = Allocator!Live THEN last_' ELSE freeing', k, s)
  BY <1>2
<1> QED
  BY <1>3 DEF Chained

\* The rest of the current page is on that page, and after a block has been
\* taken from it there is the rest of the rest.
LEMMA FromCurrentPageKeeps ==
  ASSUME AllocatorIInv, freeing = Allocator!Live, freeing' = freeing,
         NEW bytes \in 1 .. MaxBytes, NEW ret, Allocator!Fits(bytes),
         Allocator!FromCurrentPage(bytes, ret)
  PROVE  /\ ret \in Allocator!Addresses
         /\ [at |-> ret, bytes |-> bytes] \in granted' \ granted
         /\ HeadersLie' /\ PointersAre' /\ GrantedAre' /\ Allocator!BlocksAreApart'
         /\ RestIsFree' /\ Chained'
<1>1. /\ HeadersLie /\ PointersAre /\ GrantedAre /\ Allocator!BlocksAreApart /\ RestIsFree /\ Chained
      /\ current_page_ # Allocator!NULL /\ page_size - page_offset_ >= bytes
  BY DEF AllocatorIInv, Allocator!Fits
<1>2. /\ headers' = headers /\ last_' = last_ /\ refused' = refused
      /\ ret = current_page_ + page_offset_
      /\ granted' = granted \cup {[at |-> ret, bytes |-> bytes]}
      /\ page_offset_' = (page_offset_ + bytes) % page_size
      /\ current_page_' = IF page_offset_ + bytes = page_size THEN Allocator!NULL ELSE current_page_
  BY DEF Allocator!FromCurrentPage
<1>3. /\ current_page_ \in Int /\ page_offset_ \in 0 .. page_size - 1 /\ bytes \in Nat \ {0}
      /\ page_size \in Nat \ {0} /\ ret \in Int
      /\ page_offset_ + bytes <= page_size
      /\ 0 <= current_page_
  BY <1>1, <1>2, Numbers, PageNumbers DEF PointersAre
<1>4. /\ page_offset_ + bytes < page_size => page_offset_' = page_offset_ + bytes
      /\ page_offset_ + bytes = page_size => page_offset_' = 0
  BY <1>2, <1>3
<1>5. \A x \in Rest : /\ x \in Int /\ PageOf(x) \in Allocator!Mapped /\ PageOf(x) = PageOf(current_page_)
                      /\ ~Taken(x)
  <2> TAKE x \in Rest
  <2>1. x \in Int /\ current_page_ <= x /\ x < current_page_ + page_size
    BY <1>3 DEF Rest, Allocator!Bytes
  <2>2. current_page_ = Start(PageOf(current_page_)) /\ PageOf(current_page_) \in Allocator!Mapped
    BY <1>1 DEF RestIsFree
  <2>3. PageOf(current_page_) \in Int
    BY <1>3, PageIs
  <2>4. PageOf(x) = PageOf(current_page_)
    BY <2>1, <2>2, <2>3, PageIs
  <2> QED
    BY <1>1, <2>1, <2>2, <2>4 DEF RestIsFree
<1>6. Allocator!Bytes(ret, bytes) \subseteq Rest
  BY <1>1, <1>2, <1>3 DEF Rest, Allocator!Bytes
<1>7. ret \in Allocator!Addresses
  <2>1. ret \in Rest
    BY <1>2, <1>3 DEF Rest, Allocator!Bytes
  <2>2. PageOf(ret) \in Allocator!Mapped /\ ret \in Int
    BY <1>5, <2>1
  <2>3. PageOf(ret) \in 1 .. Pages
    <3>1. PICK a \in DOMAIN headers : PageOf(ret) \in PageOf(a) .. PageOf(a) + headers[a].num_pages - 1
      BY <2>2, MappedIs
    <3>2. /\ PageOf(a) \in Int /\ headers[a].num_pages \in Nat \ {0}
          /\ 1 <= PageOf(a) /\ PageOf(a) + headers[a].num_pages - 1 <= Pages
      BY <1>1, Numbers DEF HeadersLie
    <3> QED
      BY <3>1, <3>2, PageNumbers
  <2> QED
    BY <2>2, <2>3, OnPageIsAddress
<1>8. /\ [at |-> ret, bytes |-> bytes] \notin granted
      /\ \A b \in granted : Allocator!Bytes(b.at, b.bytes) \cap Allocator!Bytes(ret, bytes) = {}
      /\ \A a \in DOMAIN headers : Allocator!Bytes(ret, bytes) \cap Allocator!Bytes(a, HeaderSize) = {}
  BY <1>1, <1>3, <1>5, <1>6, BlockIsNew
<1>9. HeadersLie'
  BY <1>1, <1>2 DEF HeadersLie, Allocator!PagesOf
<1>10. PointersAre'
  <2>1. current_page_' \in Allocator!Addresses
    BY <1>1, <1>2, StartIsAddress DEF PointersAre, Allocator!NULL
  <2>2. page_offset_' \in 0 .. page_size - 1
    BY <1>3, <1>4
  <2> QED
    BY <1>1, <1>2, <2>1, <2>2 DEF PointersAre
<1>11. GrantedAre'
  BY <1>1, <1>2, <1>7 DEF GrantedAre
<1>12. Allocator!Mapped' = Allocator!Mapped
  BY <1>2 DEF Allocator!Mapped, Allocator!PagesOf
<1>13. Allocator!BlocksAreApart'
  <2>1. \A x \in Allocator!Bytes(ret, bytes) : PageOf(x) \in Allocator!Mapped
    BY <1>5, <1>6
  <2> QED
    BY <1>1, <1>2, <1>8, <1>12, <2>1, BlocksStayApart
<1>14. RestIsFree'
  <2> SUFFICES ASSUME current_page_' # Allocator!NULL PROVE RestIsFree'
    BY DEF RestIsFree
  <2>1. current_page_' = current_page_ /\ page_offset_ + bytes < page_size /\ page_offset_' = page_offset_ + bytes
    BY <1>2, <1>3, <1>4
  <2>2. \A x \in Rest' : x \in Rest /\ x \notin Allocator!Bytes(ret, bytes)
    BY <1>2, <1>3, <2>1 DEF Rest, Allocator!Bytes
  <2>3. \A x \in Rest' : ~Taken(x)'
    BY <1>2, <1>5, <2>2 DEF Taken, Allocator!Bytes
  <2>4. current_page_' = Start(PageOf(current_page_')) /\ PageOf(current_page_') \in Allocator!Mapped'
    BY <1>1, <1>12, <2>1 DEF RestIsFree
  <2> QED
    BY <2>3, <2>4 DEF RestIsFree
<1>15. Chained'
  BY <1>1, <1>2, FreedAlike
<1> QED
  BY <1>2, <1>7, <1>8, <1>9, <1>10, <1>11, <1>13, <1>14, <1>15

\* What lies between the beginnings of two pages.
LEMMA PagesBetween ==
  ASSUME NEW p \in Int, NEW q \in Int, NEW x \in Int, Start(p) <= x, x < Start(q)
  PROVE  PageOf(x) \in Int /\ p <= PageOf(x) /\ PageOf(x) < q
<1>1. /\ PageOf(x) \in Int /\ Start(PageOf(x)) <= x /\ x < Start(PageOf(x)) + page_size
      /\ Start(p) \in Int /\ Start(q) \in Int /\ Start(PageOf(x)) \in Int /\ page_size \in Nat
  BY PageIs, Starts, PageNumbers
<1>2. ~ PageOf(x) < p
  <2> SUFFICES ASSUME PageOf(x) < p PROVE FALSE
    OBVIOUS
  <2>1. Start(PageOf(x)) + page_size <= Start(p)
    BY <1>1, Starts
  <2> QED
    BY <1>1, <2>1
<1>3. ~ q <= PageOf(x)
  <2> SUFFICES ASSUME q <= PageOf(x) PROVE FALSE
    OBVIOUS
  <2>1. Start(q) <= Start(PageOf(x))
    <3>1. CASE q = PageOf(x)
      BY <1>1, <3>1
    <3>2. CASE q < PageOf(x)
      <4>1. Start(q) + page_size <= Start(PageOf(x))
        BY <1>1, <3>2, Starts
      <4> QED
        BY <1>1, <4>1
    <3> QED
      BY <1>1, <3>1, <3>2
  <2> QED
    BY <1>1, <2>1
<1> QED
  BY <1>1, <1>2, <1>3

\* As many pages are mapped as the block and its header need, and no more.
LEMMA PagesForFit ==
  ASSUME NEW bytes \in 1 .. MaxBytes
  PROVE  LET many == Allocator!PagesFor(bytes) IN
         /\ many \in Nat \ {0} /\ Start(many) \in Int
         /\ page_size * many = Start(many)
         /\ bytes + HeaderSize <= Start(many)
         /\ Start(many) < bytes + HeaderSize + page_size
<1> DEFINE many == Allocator!PagesFor(bytes)
           x == bytes + HeaderSize + page_size - 1
<1>1. bytes \in Nat \ {0} /\ page_size \in Nat \ {0} /\ HeaderSize \in Nat \ {0} /\ x \in Int
  BY PageNumbers
<1>2. many = PageOf(x)
  BY DEF Allocator!PagesFor, PageOf
<1>3. many \in Int /\ Start(many) <= x /\ x < Start(many) + page_size /\ Start(many) \in Int
  BY <1>1, <1>2, PageIs, Starts
<1> HIDE DEF many
<1>4. many \in Nat \ {0}
  <2> SUFFICES ASSUME many < 1 PROVE FALSE
    BY <1>3
  <2>1. Start(many) + page_size <= Start(1) /\ Start(1) = page_size
    BY <1>3, Starts
  <2> QED
    BY <1>1, <1>3, <2>1
<1>5. page_size * many = Start(many)
  <2>1. page_size * many = many * page_size
    BY <1>1, <1>3
  <2> QED
    BY <2>1 DEF Start
<1> QED
  BY <1>1, <1>3, <1>4, <1>5 DEF many

\* The chain goes on with one more header in front.
LEMMA ChainGrows ==
  ASSUME Chained, freeing = Allocator!Live, freeing' = freeing,
         NEW at \in Allocator!Addresses, at \notin DOMAIN headers,
         DOMAIN headers' = DOMAIN headers \cup {at},
         headers'[at].next = last_, last_' = at,
         \A a \in DOMAIN headers : headers'[a].next = headers[a].next
  PROVE  Chained'
<1>1. PICK k \in Nat : \E s \in [0 .. k -> Allocator!Addresses] : Chain(headers, last_, k, s)
  BY DEF Chained
<1>2. PICK s \in [0 .. k -> Allocator!Addresses] : Chain(headers, last_, k, s)
  BY <1>1
<1> DEFINE n == k + 1
           t == [i \in 0 .. n |-> IF i = n THEN at ELSE s[i]]
<1>3. n \in Nat /\ t \in [0 .. n -> Allocator!Addresses] /\ t[n] = at /\ \A i \in 0 .. k : t[i] = s[i]
  BY <1>1
<1> HIDE DEF t
<1>4. t[0] = Allocator!NULL
  BY <1>2, <1>3 DEF Chain
<1>5. ASSUME NEW i \in 1 .. n PROVE t[i] \in DOMAIN headers' /\ headers'[t[i]].next = t[i - 1]
  <2>1. CASE i = n
    <3>1. t[i - 1] = s[k] /\ s[k] = last_
      BY <1>2, <1>3, <2>1 DEF Chain
    <3> QED
      BY <1>3, <2>1, <3>1
  <2>2. CASE i # n
    <3>1. i \in 1 .. k /\ i - 1 \in 0 .. k /\ i \in 0 .. k
      BY <2>2
    <3>2. s[i] \in DOMAIN headers /\ headers[s[i]].next = s[i - 1]
      BY <1>2, <3>1 DEF Chain
    <3> QED
      BY <1>3, <3>1, <3>2
  <2> QED
    BY <2>1, <2>2
<1>6. ASSUME NEW a \in DOMAIN headers' PROVE \E i \in 1 .. n : t[i] = a
  <2>1. CASE a = at
    BY <1>3, <2>1
  <2>2. CASE a # at
    <3>1. PICK i \in 1 .. k : s[i] = a
      BY <1>2, <2>2 DEF Chain
    <3> QED
      BY <1>3, <3>1
  <2> QED
    BY <2>1, <2>2
<1>7. ASSUME NEW i \in 1 .. n, NEW j \in 1 .. n, t[i] = t[j] PROVE i = j
  <2>1. \A l \in 1 .. n : l # n => l \in 1 .. k /\ t[l] = s[l] /\ s[l] \in DOMAIN headers
    BY <1>2, <1>3 DEF Chain
  <2>2. CASE i # n /\ j # n
    BY <1>2, <1>7, <2>1, <2>2, Zenon DEF Chain
  <2>3. CASE i = n \/ j = n
    BY <1>3, <1>7, <2>1, <2>3
  <2> QED
    BY <2>2, <2>3
<1>8. Chain(headers', last_', n, t)
  BY <1>3, <1>4, <1>5, <1>6, <1>7 DEF Chain
<1>9. Chain(headers', IF freeing' = Allocator!Live THEN last_' ELSE freeing', n, t)
  BY <1>8
<1> QED
  BY <1>3, <1>9 DEF Chained

\* New many are nobody's: the header has the first of them, the block begins
\* behind it, and what is left of the last one is the rest.
LEMMA FromNewPagesKeeps ==
  ASSUME AllocatorIInv, freeing = Allocator!Live, freeing' = freeing,
         NEW bytes \in 1 .. MaxBytes, NEW ret, Allocator!FromNewPages(bytes, ret),
         ret # Allocator!NULL
  PROVE  /\ ret \in Allocator!Addresses
         /\ [at |-> ret, bytes |-> bytes] \in granted' \ granted
         /\ HeadersLie' /\ PointersAre' /\ GrantedAre' /\ Allocator!BlocksAreApart'
         /\ RestIsFree' /\ Chained'
<1> DEFINE many == Allocator!PagesFor(bytes)
           left == page_size * many - (bytes + HeaderSize)
           after == (page_size - left) % page_size
<1>1. /\ HeadersLie /\ PointersAre /\ GrantedAre /\ Allocator!BlocksAreApart /\ RestIsFree /\ Chained
  BY DEF AllocatorIInv
<1>2. /\ many \in Nat \ {0} /\ Start(many) \in Int
      /\ bytes \in Nat \ {0} /\ HeaderSize \in Nat \ {0} /\ page_size \in Nat \ {0} /\ Pages \in Nat
      /\ HeaderSize < page_size
      /\ left = Start(many) - (bytes + HeaderSize)
      /\ bytes + HeaderSize <= Start(many)
      /\ Start(many) < bytes + HeaderSize + page_size
      /\ page_size * many = Start(many)
  BY PagesForFit, PageNumbers
<1>3. PICK first \in 1 .. Pages - many + 1 :
        /\ \A p \in first .. first + many - 1 : p \notin Allocator!Mapped
        /\ headers' = [a \in DOMAIN headers \cup {first * page_size} |->
             IF a = first * page_size THEN [next |-> Allocator!Link, num_pages |-> many] ELSE headers[a]]
        /\ last_' = first * page_size
        /\ page_offset_' = after
        /\ current_page_' = IF after # 0 THEN first * page_size + page_size * (many - 1) ELSE Allocator!NULL
        /\ ret = first * page_size + HeaderSize
        /\ granted' = granted \cup {[at |-> ret, bytes |-> bytes]}
        /\ refused' = refused
  BY Zenon DEF Allocator!FromNewPages
<1> HIDE DEF many
<1> DEFINE at == Start(first)
           cur == Start(first + many - 1)
<1>4. /\ first \in Int /\ first + many - 1 \in Int /\ first + many \in Int
      /\ 1 <= first /\ first + many - 1 <= Pages /\ first + many - 1 \in 1 .. Pages
      /\ at \in Int /\ cur \in Int /\ Start(first + many) \in Int
  <2>1. /\ first \in Int /\ first + many - 1 \in Int /\ first + many \in Int
        /\ 1 <= first /\ first + many - 1 <= Pages /\ first + many - 1 \in 1 .. Pages
    BY <1>2
  <2> QED
    BY <2>1, Starts
<1>5. /\ first * page_size = at
      /\ first * page_size + page_size * (many - 1) = cur
      /\ at + Start(many) = Start(first + many)
      /\ Start(first + many) = cur + page_size
  <2>1. first * page_size = at
    BY DEF Start
  <2>2. many - 1 \in Int /\ first + (many - 1) = first + many - 1 /\ (first + many - 1) + 1 = first + many
    BY <1>2, <1>4
  <2>3. at + page_size * (many - 1) = cur
    BY <1>4, <2>2, Starts
  <2>4. at + page_size * many = Start(first + many)
    <3>1. many \in Int /\ first \in Int
      BY <1>2, <1>4
    <3> QED
      BY <3>1, Starts
  <2>5. Start(first + many) = cur + page_size
    BY <1>4, <2>2, Starts
  <2> QED
    BY <1>2, <2>1, <2>3, <2>4, <2>5
<1>6. /\ left \in 0 .. page_size - 1
      /\ left = 0 => after = 0
      /\ left # 0 => after = page_size - left
      /\ after \in 0 .. page_size - 1
  <2>1. left \in 0 .. page_size - 1
    BY <1>2
  <2>2. page_size \in Nat \ {0}
    BY <1>2
  <2> HIDE DEF left
  <2> QED
    BY <2>1, <2>2
<1> HIDE DEF left, after, at, cur
<1>7. /\ DOMAIN headers' = DOMAIN headers \cup {at}
      /\ headers'[at].next = last_ /\ headers'[at].num_pages = many
      /\ \A a \in DOMAIN headers : a # at => headers'[a] = headers[a]
      /\ last_' = at /\ page_offset_' = after
      /\ current_page_' = IF after # 0 THEN cur ELSE Allocator!NULL
      /\ ret = at + HeaderSize
      /\ granted' = granted \cup {[at |-> ret, bytes |-> bytes]}
      /\ refused' = refused
  BY <1>3, <1>5 DEF Allocator!Link
<1> USE DEF at
<1>8. at \in Allocator!Addresses /\ PageOf(at) = first
  <2>1. first \in 1 .. Pages
    BY <1>2, <1>4
  <2> QED
    BY <2>1, StartIsAddress
<1>9. at \notin DOMAIN headers
  <2> SUFFICES ASSUME at \in DOMAIN headers PROVE FALSE
    OBVIOUS
  <2>1. first \in PageOf(at) .. PageOf(at) + headers[at].num_pages - 1
    BY <1>1, <1>4, <1>8, Numbers
  <2>2. first \in Allocator!Mapped
    BY <2>1, MappedIs
  <2> QED
    BY <1>2, <1>3, <1>4, <2>2
<1>10. \A a \in DOMAIN headers : headers'[a] = headers[a]
  BY <1>7, <1>9
<1>11. \A p : p \in Allocator!Mapped' <=> p \in Allocator!Mapped \/ p \in first .. first + many - 1
  <2>1. \A p : p \in Allocator!Mapped' <=>
          \E a \in DOMAIN headers' : p \in PageOf(a) .. PageOf(a) + headers'[a].num_pages - 1
    BY DEF Allocator!Mapped, Allocator!PagesOf, PageOf
  <2> QED
    BY <1>7, <1>8, <1>10, <2>1, MappedIs
<1>12. \A x \in Int : at <= x /\ x < cur + page_size =>
         PageOf(x) \in first .. first + many - 1 /\ ~Taken(x)
  <2> SUFFICES ASSUME NEW x \in Int, at <= x, x < cur + page_size
               PROVE  PageOf(x) \in first .. first + many - 1 /\ ~Taken(x)
    OBVIOUS
  <2>1. PageOf(x) \in first .. first + many - 1
    <3>1. Start(first) <= x /\ x < Start(first + many)
      BY <1>5
    <3>2. PageOf(x) \in Int /\ first <= PageOf(x) /\ PageOf(x) < first + many
      BY <1>4, <3>1, PagesBetween
    <3> QED
      BY <1>2, <1>4, <3>2
  <2> QED
    BY <1>1, <1>3, <2>1, TakenIsMapped
<1>13. /\ ret \in Int /\ at < ret /\ ret + bytes <= cur + page_size
       /\ \A x \in Allocator!Bytes(ret, bytes) :
            x \in Int /\ at + HeaderSize <= x /\ x < at + HeaderSize + bytes /\ x < cur + page_size
  BY <1>2, <1>4, <1>5, <1>7 DEF Allocator!Bytes
<1>14. \A x \in Allocator!Bytes(ret, bytes) : PageOf(x) \in first .. first + many - 1 /\ ~Taken(x)
  BY <1>2, <1>4, <1>12, <1>13
<1>15. /\ [at |-> ret, bytes |-> bytes] \notin granted
       /\ \A b \in granted : Allocator!Bytes(b.at, b.bytes) \cap Allocator!Bytes(ret, bytes) = {}
       /\ \A a \in DOMAIN headers : Allocator!Bytes(ret, bytes) \cap Allocator!Bytes(a, HeaderSize) = {}
  BY <1>1, <1>2, <1>13, <1>14, BlockIsNew
<1>16. ret \in Allocator!Addresses
  <2>1. ret \in Allocator!Bytes(ret, bytes)
    BY <1>2, <1>13 DEF Allocator!Bytes
  <2>2. PageOf(ret) \in 1 .. Pages
    BY <1>2, <1>4, <1>14, <2>1
  <2> QED
    BY <1>13, <2>2, OnPageIsAddress
<1>17. HeadersLie'
  <2>1. ASSUME NEW a \in DOMAIN headers'
        PROVE  /\ a \in Allocator!Addresses /\ headers'[a].next \in Allocator!Addresses
               /\ headers'[a].num_pages \in Nat \ {0}
               /\ a = Start(PageOf(a))
               /\ 1 <= PageOf(a) /\ PageOf(a) + headers'[a].num_pages - 1 <= Pages
    <3>1. CASE a = at
      BY <1>1, <1>2, <1>4, <1>7, <1>8, <3>1 DEF PointersAre
    <3>2. CASE a # at
      BY <1>1, <1>7, <1>10, <3>2 DEF HeadersLie
    <3> QED
      BY <3>1, <3>2
  <2>2. \A a \in DOMAIN headers : Allocator!PagesOf(a)' = Allocator!PagesOf(a)
    BY <1>10 DEF Allocator!PagesOf
  <2>3. Allocator!PagesOf(at)' = first .. first + many - 1
    <3>1. (at \div page_size)' = first
      BY <1>8 DEF PageOf
    <3> QED
      BY <1>7, <1>8 DEF Allocator!PagesOf, PageOf
  <2>4. \A a \in DOMAIN headers : Allocator!PagesOf(a) \cap (first .. first + many - 1) = {}
    BY <1>3 DEF Allocator!Mapped
  <2>5. ASSUME NEW a \in DOMAIN headers', NEW b \in DOMAIN headers', a # b
        PROVE  Allocator!PagesOf(a)' \cap Allocator!PagesOf(b)' = {}
    <3>1. CASE a \in DOMAIN headers /\ b \in DOMAIN headers
      BY <1>1, <2>2, <2>5, <3>1 DEF HeadersLie
    <3>2. CASE a = at /\ b \in DOMAIN headers
      BY <2>2, <2>3, <2>4, <3>2
    <3>3. CASE b = at /\ a \in DOMAIN headers
      BY <2>2, <2>3, <2>4, <3>3
    <3> QED
      BY <1>7, <2>5, <3>1, <3>2, <3>3
  <2> QED
    BY <2>1, <2>5 DEF HeadersLie
<1>18. PointersAre'
  <2>1. cur \in Allocator!Addresses
    BY <1>4, StartIsAddress DEF cur
  <2>2. current_page_' \in Allocator!Addresses
    BY <1>7, <2>1, StartIsAddress DEF Allocator!NULL
  <2> QED
    BY <1>1, <1>6, <1>7, <1>8, <2>2 DEF PointersAre
<1>19. GrantedAre'
  BY <1>1, <1>7, <1>16 DEF GrantedAre
<1>20. Allocator!BlocksAreApart'
  <2> DEFINE b == [at |-> ret, bytes |-> bytes]
  <2>1. \A x \in Allocator!Bytes(ret, bytes) : PageOf(x) \in Allocator!Mapped'
    BY <1>11, <1>14
  <2>2. \A x \in Allocator!Bytes(at, HeaderSize) :
          x \in Int /\ at <= x /\ x < at + HeaderSize /\ x < cur + page_size
    BY <1>2, <1>4, <1>5 DEF Allocator!Bytes
  <2>3. \A c \in granted : Allocator!Bytes(c.at, c.bytes) \cap Allocator!Bytes(at, HeaderSize) = {}
    BY <1>12, <2>2 DEF Taken
  <2>4. Allocator!Bytes(ret, bytes) \cap Allocator!Bytes(at, HeaderSize) = {}
    BY <1>2, <1>4, <1>13, <2>2
  <2>5. \A a \in DOMAIN headers' : Allocator!Bytes(b.at, b.bytes) \cap Allocator!Bytes(a, HeaderSize) = {}
    BY <1>7, <1>15, <2>4
  <2>6. \A c \in granted, a \in DOMAIN headers' \ DOMAIN headers :
          Allocator!Bytes(c.at, c.bytes) \cap Allocator!Bytes(a, HeaderSize) = {}
    BY <1>7, <2>3
  <2>7. \A c \in granted : Allocator!Bytes(c.at, c.bytes) \cap Allocator!Bytes(b.at, b.bytes) = {}
    BY <1>15
  <2>8. /\ granted' = granted \cup {b} /\ DOMAIN headers \subseteq DOMAIN headers'
        /\ Allocator!Mapped \subseteq Allocator!Mapped'
        /\ \A x \in Allocator!Bytes(b.at, b.bytes) : PageOf(x) \in Allocator!Mapped'
    BY <1>7, <1>11, <2>1
  <2> HIDE DEF b
  <2> QED
    BY <1>1, <2>5, <2>6, <2>7, <2>8, BlocksStayApart
<1>21. RestIsFree'
  <2> SUFFICES ASSUME current_page_' # Allocator!NULL PROVE RestIsFree'
    BY DEF RestIsFree
  <2>1. current_page_' = cur /\ page_offset_' = page_size - left /\ left \in Int
    BY <1>6, <1>7
  <2>2. PageOf(cur) = first + many - 1
    BY <1>4, StartIsAddress DEF cur
  <2>3. current_page_' = Start(PageOf(current_page_')) /\ PageOf(current_page_') \in Allocator!Mapped'
    BY <1>2, <1>4, <1>11, <2>1, <2>2 DEF cur
  <2>4. ASSUME NEW x \in Rest' PROVE ~Taken(x)'
    <3>1. x \in Int /\ at + HeaderSize + bytes <= x /\ x < cur + page_size
      BY <1>2, <1>4, <1>5, <2>1 DEF Rest, Allocator!Bytes
    <3>2. ~Taken(x)
      BY <1>2, <1>4, <1>12, <3>1
    <3>3. x \notin Allocator!Bytes(ret, bytes) /\ x \notin Allocator!Bytes(at, HeaderSize)
      BY <1>2, <1>4, <1>7, <3>1 DEF Allocator!Bytes
    <3> QED
      BY <1>7, <3>2, <3>3 DEF Taken, Allocator!Bytes
  <2> QED
    BY <2>3, <2>4 DEF RestIsFree
<1>22. Chained'
  BY <1>1, <1>7, <1>8, <1>9, <1>10, ChainGrows
<1> QED
  BY <1>7, <1>15, <1>16, <1>17, <1>18, <1>19, <1>20, <1>21, <1>22

\* The allocator stays as it is.
LEMMA SameAllocator ==
  ASSUME AllocatorIInv, headers' = headers, last_' = last_, current_page_' = current_page_,
         page_offset_' = page_offset_, granted' = granted, refused' \in BOOLEAN, freeing' = freeing
  PROVE  AllocatorIInv'
<1>1. /\ HeadersLie /\ PointersAre /\ GrantedAre /\ Allocator!BlocksAreApart
      /\ freeing = Allocator!Live => RestIsFree
      /\ Chained
  BY DEF AllocatorIInv
<1>2. Chained'
  BY <1>1, FreedAlike
<1>3. HeadersLie'
  BY <1>1 DEF HeadersLie, Allocator!PagesOf
<1>4. PointersAre'
  BY <1>1 DEF PointersAre
<1>5. GrantedAre'
  BY <1>1 DEF GrantedAre
<1>6. Allocator!Mapped' = Allocator!Mapped
  BY DEF Allocator!Mapped, Allocator!PagesOf
<1>7. Allocator!BlocksAreApart'
  BY <1>1, <1>6 DEF Allocator!BlocksAreApart, Allocator!Bytes
<1>8. freeing' = Allocator!Live => RestIsFree'
  BY <1>1, <1>6 DEF RestIsFree, Rest, Taken, Allocator!Bytes
<1> QED
  BY <1>2, <1>3, <1>4, <1>5, <1>7, <1>8 DEF AllocatorIInv

\* No header is at NULL.
LEMMA NullIsNoHeader == ASSUME HeadersLie PROVE Allocator!NULL \notin DOMAIN headers
<1> SUFFICES ASSUME 0 \in DOMAIN headers PROVE FALSE
  BY DEF Allocator!NULL
<1>1. 1 <= PageOf(0) /\ PageOf(0) \in Int
  BY PageIs DEF HeadersLie
<1>2. PageOf(0) = 0
  <2>1. Start(0) = 0 /\ 0 \in Int
    BY Starts
  <2> QED
    BY <2>1, PageIs, PageNumbers
<1> QED
  BY <1>1, <1>2

\* Whatever is asked for, the allocator gives an address, and if anything was
\* asked for, a block that is new, or NULL when mmap has failed.
LEMMA AllocKeeps ==
  ASSUME AllocatorIInv, freeing = Allocator!Live, freeing' = freeing,
         NEW bytes \in 0 .. MaxBytes, NEW ret, Allocator!Alloc(bytes, ret)
  PROVE  /\ ret \in Allocator!Addresses
         /\ \/ bytes = 0
            \/ [at |-> ret, bytes |-> bytes] \in granted' \ granted
            \/ ret = Allocator!NULL /\ refused'
         /\ AllocatorIInv'
<1>1. ASSUME ret = Allocator!NULL, headers' = headers, last_' = last_, current_page_' = current_page_,
             page_offset_' = page_offset_, granted' = granted, refused' \in BOOLEAN
      PROVE  ret \in Allocator!Addresses /\ AllocatorIInv'
  <2>1. ret \in Allocator!Addresses
    BY <1>1, StartIsAddress DEF Allocator!NULL
  <2> QED
    BY <1>1, <2>1, SameAllocator
<1>2. CASE bytes = 0
  <2>1. /\ ret = Allocator!NULL /\ headers' = headers /\ last_' = last_ /\ current_page_' = current_page_
        /\ page_offset_' = page_offset_ /\ granted' = granted /\ refused' = refused /\ refused \in BOOLEAN
    BY <1>2 DEF Allocator!Alloc, Allocator!allocator, AllocatorIInv, PointersAre
  <2> QED
    BY <1>1, <1>2, <2>1
<1>3. CASE bytes # 0 /\ Allocator!Fits(bytes)
  <2>1. bytes \in 1 .. MaxBytes /\ Allocator!FromCurrentPage(bytes, ret)
    BY <1>3 DEF Allocator!Alloc
  <2> QED
    BY <1>3, <2>1, FromCurrentPageKeeps DEF AllocatorIInv
<1>4. CASE bytes # 0 /\ ~Allocator!Fits(bytes)
  <2>1. bytes \in 1 .. MaxBytes /\ Allocator!FromNewPages(bytes, ret)
    BY <1>4 DEF Allocator!Alloc
  <2>2. CASE ret = Allocator!NULL
    <3>1. \A first \in 1 .. Pages - Allocator!PagesFor(bytes) + 1 : first * page_size + HeaderSize # Allocator!NULL
      <4> TAKE first \in 1 .. Pages - Allocator!PagesFor(bytes) + 1
      <4>1. Allocator!PagesFor(bytes) \in Nat \ {0}
        BY <2>1, PagesForFit
      <4>2. first \in 1 .. Pages
        BY <4>1, PageNumbers
      <4>3. Start(first) \in 0 .. Start(Pages + 1) - 1
        BY <4>2, StartIsAddress, AddressesAre
      <4>4. Start(Pages + 1) \in Int
        BY PageNumbers, Starts
      <4>5. Start(first) + HeaderSize # 0
        BY <4>3, <4>4, PageNumbers
      <4> QED
        BY <4>5 DEF Start, Allocator!NULL
    <3>2. /\ headers' = headers /\ last_' = last_ /\ current_page_' = current_page_
          /\ page_offset_' = page_offset_ /\ granted' = granted /\ refused' = TRUE
      BY <2>1, <2>2, <3>1, Zenon DEF Allocator!FromNewPages, Allocator!allocator
    <3> QED
      BY <1>1, <2>2, <3>2
  <2>3. CASE ret # Allocator!NULL
    BY <2>1, <2>3, FromNewPagesKeeps DEF AllocatorIInv
  <2> QED
    BY <2>2, <2>3
<1> QED
  BY <1>2, <1>3, <1>4

\* What a vector gets when it is constructed, or grows from capacity.
MovesToRoom(v) ==
  vectors'[v] # vectors[v] =>
    LET new == vectors'[v] IN
      \/ new.data = Allocator!Stack /\ new.capacity <= OnStack[v] /\ vectors[v].data # Allocator!Stack
      \/ [at |-> new.data, bytes |-> new.capacity] \in granted' \ granted
      \/ new.data = Allocator!NULL /\ refused'

LEMMA VectorNumbers == \A v \in Vectors : OnStack[v] \in 0 .. 1 /\ OnStack[v] <= MaxBytes
<1>1. \A v \in Vectors : OnStack[v] \in {0, 1}
  BY DEF OnStack
<1> QED
  BY <1>1, PageNumbers

LEMMA VectorMoves ==
  ASSUME PagesIInv, freeing = Allocator!Live, freeing' = freeing,
         NEW v \in Vectors, NEW n \in 1 .. MaxBytes, NEW ret, Allocator!allocate(v, n, ret),
         vectors' = [vectors EXCEPT ![v] = [data |-> ret, capacity |-> n]],
         \/ vectors[v].capacity = 0 /\ (OnStack[v] > 0 => n = OnStack[v])
         \/ 0 < vectors[v].capacity /\ vectors[v].capacity < n
  PROVE  PagesIInv' /\ \A w \in Vectors : MovesToRoom(w)
<1>1. AllocatorIInv /\ VectorsAre /\ n \in Nat \ {0} /\ n \in 0 .. MaxBytes
  BY PageNumbers DEF PagesIInv
<1>2. vectors'[v] = [data |-> ret, capacity |-> n] /\ \A w \in Vectors : w # v => vectors'[w] = vectors[w]
  BY <1>1 DEF VectorsAre
<1>3. OnStack[v] \in Nat /\ vectors[v].capacity \in Nat
  BY <1>1, VectorNumbers, PageNumbers DEF VectorsAre
<1>4. \/ n = OnStack[v] /\ vectors[v].capacity = 0
      \/ OnStack[v] < n
  <2>1. CASE vectors[v].capacity = 0
    BY <1>1, <1>3, <2>1
  <2>2. CASE 0 < vectors[v].capacity /\ vectors[v].capacity < n
    BY <1>1, <1>3, <2>2 DEF VectorsAre
  <2> QED
    BY <1>3, <2>1, <2>2
<1>5. /\ AllocatorIInv'
      /\ ret \in Allocator!Addresses \cup {Allocator!Stack}
      /\ ret = Allocator!Stack => n = OnStack[v]
      /\ MovesToRoom(v)
  <2>1. CASE n <= OnStack[v]
    <3>1. /\ ret = Allocator!Stack /\ headers' = headers /\ last_' = last_ /\ current_page_' = current_page_
          /\ page_offset_' = page_offset_ /\ granted' = granted /\ refused' = refused
      BY <2>1 DEF Allocator!allocate, Allocator!allocator
    <3>2. n = OnStack[v] /\ vectors[v].capacity = 0
      BY <1>1, <1>3, <1>4, <2>1
    <3>3. vectors[v].data # Allocator!Stack
      BY <1>1, <3>2 DEF VectorsAre
    <3>4. refused' \in BOOLEAN
      BY <1>1, <3>1 DEF AllocatorIInv, PointersAre
    <3>5. AllocatorIInv'
      BY <1>1, <3>1, <3>4, SameAllocator
    <3> QED
      BY <1>2, <1>3, <3>1, <3>2, <3>3, <3>5 DEF MovesToRoom
  <2>2. CASE ~(n <= OnStack[v])
    <3>1. Allocator!Alloc(n, ret)
      BY <2>2 DEF Allocator!allocate
    <3>2. /\ ret \in Allocator!Addresses
          /\ \/ [at |-> ret, bytes |-> n] \in granted' \ granted
             \/ ret = Allocator!NULL /\ refused'
          /\ AllocatorIInv'
      BY <1>1, <3>1, AllocKeeps
    <3>3. Allocator!Stack \notin Allocator!Addresses
      BY <1>1, Numbers DEF AllocatorIInv, Allocator!Stack
    <3> QED
      BY <1>2, <3>2, <3>3 DEF MovesToRoom
  <2> QED
    BY <2>1, <2>2
<1>6. VectorsAre'
  <2>1. vectors' \in [Vectors -> [data : Allocator!Addresses \cup {Allocator!Stack}, capacity : 0 .. MaxBytes]]
    BY <1>1, <1>5 DEF VectorsAre
  <2>2. ASSUME NEW w \in Vectors
        PROVE  /\ vectors'[w].capacity > 0 => OnStack[w] <= vectors'[w].capacity
               /\ vectors'[w].data = Allocator!Stack =>
                    0 < vectors'[w].capacity /\ vectors'[w].capacity = OnStack[w]
    <3>1. CASE w = v
      BY <1>1, <1>2, <1>3, <1>4, <1>5, <3>1
    <3>2. CASE w # v
      BY <1>1, <1>2, <3>2 DEF VectorsAre
    <3> QED
      BY <3>1, <3>2
  <2> QED
    BY <2>1, <2>2 DEF VectorsAre
<1>7. \A w \in Vectors : MovesToRoom(w)
  BY <1>2, <1>5 DEF MovesToRoom
<1> QED
  BY <1>5, <1>6, <1>7 DEF PagesIInv

\* FreeAll walks along the chain: what it unmaps is the first of it.
LEMMA DestroyKeeps == ASSUME AllocatorIInv, Allocator!Destroy PROVE AllocatorIInv'
<1>1. /\ freeing = Allocator!Live /\ freeing' = last_ /\ headers' = headers /\ last_' = last_
      /\ current_page_' = current_page_ /\ page_offset_' = page_offset_ /\ granted' = granted
      /\ refused' = refused
  BY DEF Allocator!Destroy, Allocator!allocator
<1>2. /\ HeadersLie /\ PointersAre /\ GrantedAre /\ Chained
  BY DEF AllocatorIInv
<1>3. freeing' # Allocator!Live /\ freeing' \in Allocator!Addresses
  BY <1>1, <1>2, Numbers DEF PointersAre, Allocator!Live
<1>4. HeadersLie' /\ GrantedAre'
  BY <1>1, <1>2 DEF HeadersLie, GrantedAre, Allocator!PagesOf
<1>5. PointersAre'
  BY <1>1, <1>2, <1>3 DEF PointersAre
<1>6. Chained'
  BY <1>1, <1>2, <1>3 DEF Chained
<1> QED
  BY <1>3, <1>4, <1>5, <1>6 DEF AllocatorIInv, Allocator!BlocksAreApart

LEMMA UnmapKeeps == ASSUME AllocatorIInv, Allocator!Unmap PROVE AllocatorIInv'
<1>1. /\ freeing \in DOMAIN headers /\ freeing' = headers[freeing].next /\ last_' = last_
      /\ headers' = [a \in DOMAIN headers \ {freeing} |-> headers[a]]
      /\ current_page_' = current_page_ /\ page_offset_' = page_offset_ /\ granted' = granted
      /\ refused' = refused
  BY DEF Allocator!Unmap
<1>2. /\ HeadersLie /\ PointersAre /\ GrantedAre /\ Chained
  BY DEF AllocatorIInv
<1>3. /\ DOMAIN headers' = DOMAIN headers \ {freeing}
      /\ \A a \in DOMAIN headers' : headers'[a] = headers[a]
  BY <1>1
<1>4. freeing' \in Allocator!Addresses /\ freeing \in Allocator!Addresses
  BY <1>1, <1>2 DEF HeadersLie
<1>5. freeing' # Allocator!Live /\ freeing # Allocator!Live /\ Allocator!NULL \notin DOMAIN headers
  <2>1. Allocator!Live \notin Allocator!Addresses
    BY <1>2, Numbers DEF Allocator!Live
  <2> QED
    BY <1>2, <1>4, <2>1, NullIsNoHeader
<1>6. HeadersLie' /\ GrantedAre'
  <2>1. \A a \in DOMAIN headers' : Allocator!PagesOf(a)' = Allocator!PagesOf(a)
    BY <1>3 DEF Allocator!PagesOf
  <2> QED
    BY <1>1, <1>2, <1>3, <2>1 DEF HeadersLie, GrantedAre
<1>7. PointersAre'
  BY <1>1, <1>2, <1>4 DEF PointersAre
<1>8. Chained'
  <2>1. PICK k \in Nat : \E s \in [0 .. k -> Allocator!Addresses] : Chain(headers, freeing, k, s)
    BY <1>2, <1>5 DEF Chained
  <2>2. PICK s \in [0 .. k -> Allocator!Addresses] : Chain(headers, freeing, k, s)
    BY <2>1
  <2>3. k # 0 /\ s[k] = freeing
    BY <1>1, <1>5, <2>2 DEF Chain
  <2> DEFINE n == k - 1
             t == [i \in 0 .. n |-> s[i]]
  <2>4. n \in Nat /\ k = n + 1 /\ t \in [0 .. n -> Allocator!Addresses] /\ \A i \in 0 .. n : t[i] = s[i]
    BY <2>1, <2>3
  <2> HIDE DEF n, t
  <2>5. \A i \in 1 .. n : i \in 1 .. k /\ i # k /\ i \in 0 .. n /\ i - 1 \in 0 .. n
    BY <2>4
  <2>6. k \in 1 .. k /\ n \in 0 .. n /\ 0 \in 0 .. n
    BY <2>4
  <2>7. t[0] = Allocator!NULL /\ t[n] = freeing'
    <3>1. headers[s[k]].next = s[k - 1] /\ k - 1 = n
      BY <2>2, <2>4, <2>6 DEF Chain
    <3> QED
      BY <1>1, <2>2, <2>3, <2>4, <2>6, <3>1 DEF Chain
  <2>8. \A i, j \in 1 .. k : s[i] = s[j] => i = j
    BY <2>2 DEF Chain
  <2>9. ASSUME NEW i \in 1 .. n PROVE t[i] \in DOMAIN headers' /\ headers'[t[i]].next = t[i - 1]
    <3>1. s[i] \in DOMAIN headers /\ headers[s[i]].next = s[i - 1]
      BY <2>2, <2>5 DEF Chain
    <3>2. s[i] # freeing
      BY <2>3, <2>5, <2>6, <2>8
    <3> QED
      BY <1>3, <2>4, <2>5, <3>1, <3>2
  <2>10. ASSUME NEW a \in DOMAIN headers' PROVE \E i \in 1 .. n : t[i] = a
    <3>1. PICK i \in 1 .. k : s[i] = a
      BY <1>3, <2>2 DEF Chain
    <3>2. i # k
      BY <1>3, <2>3, <3>1
    <3>3. i \in 1 .. n /\ i \in 0 .. n
      BY <2>4, <3>2
    <3> QED
      BY <2>4, <3>1, <3>3
  <2>11. \A i, j \in 1 .. n : t[i] = t[j] => i = j
    BY <2>4, <2>5, <2>8
  <2>12. Chain(headers', freeing', n, t)
    BY <2>7, <2>9, <2>10, <2>11 DEF Chain
  <2>13. Chain(headers', IF freeing' = Allocator!Live THEN last_' ELSE freeing', n, t)
    BY <1>5, <2>12
  <2> QED
    BY <2>4, <2>13 DEF Chained
<1> QED
  BY <1>5, <1>6, <1>7, <1>8 DEF AllocatorIInv, Allocator!BlocksAreApart

LEMMA PagesNext ==
  ASSUME PagesIInv, [Allocator!Next]_Allocator!vars
  PROVE  PagesIInv' /\ \A v \in Vectors : MovesToRoom(v)
<1>1. AllocatorIInv /\ VectorsAre
  BY DEF PagesIInv
<1>2. ASSUME vectors' = vectors PROVE VectorsAre' /\ \A v \in Vectors : MovesToRoom(v)
  <2>1. VectorsAre'
    BY <1>1, <1>2 DEF VectorsAre
  <2> QED
    BY <1>2, <2>1 DEF MovesToRoom
<1>3. ASSUME NEW n \in 0 .. MaxBytes, Allocator!CallAlloc(n)
      PROVE  PagesIInv' /\ \A v \in Vectors : MovesToRoom(v)
  <2>1. PICK ret \in Allocator!Addresses : Allocator!Alloc(n, ret)
    BY <1>3 DEF Allocator!CallAlloc
  <2>2. freeing = Allocator!Live /\ freeing' = freeing /\ vectors' = vectors
    BY <1>3 DEF Allocator!CallAlloc
  <2>3. AllocatorIInv'
    BY <1>1, <2>1, <2>2, AllocKeeps, Zenon
  <2> QED
    BY <1>2, <2>2, <2>3 DEF PagesIInv
<1>4. ASSUME NEW v \in Vectors, NEW n \in 1 .. MaxBytes, Allocator!Construct(v, n)
      PROVE  PagesIInv' /\ \A w \in Vectors : MovesToRoom(w)
  <2> DEFINE m == IF OnStack[v] > 0 THEN OnStack[v] ELSE n
  <2>1. /\ freeing = Allocator!Live /\ freeing' = freeing /\ vectors[v].capacity = 0
        /\ \E ret \in Allocator!Addresses \cup {Allocator!Stack} :
             /\ Allocator!allocate(v, m, ret)
             /\ vectors' = [vectors EXCEPT ![v] = [data |-> ret, capacity |-> m]]
    BY <1>4, Zenon DEF Allocator!Construct
  <2>2. m \in 1 .. MaxBytes /\ (OnStack[v] > 0 => m = OnStack[v])
    BY VectorNumbers, PageNumbers
  <2> HIDE DEF m
  <2>3. PICK ret : /\ Allocator!allocate(v, m, ret)
                   /\ vectors' = [vectors EXCEPT ![v] = [data |-> ret, capacity |-> m]]
    BY <2>1, Zenon
  <2> QED
    BY <2>1, <2>2, <2>3, VectorMoves, Zenon
<1>5. ASSUME NEW v \in Vectors, NEW n \in 1 .. MaxBytes, Allocator!Grow(v, n)
      PROVE  PagesIInv' /\ \A w \in Vectors : MovesToRoom(w)
  <2>1. PICK ret : /\ Allocator!allocate(v, n, ret)
                   /\ vectors' = [vectors EXCEPT ![v] = [data |-> ret, capacity |-> n]]
    BY <1>5, Zenon DEF Allocator!Grow
  <2>2. /\ freeing = Allocator!Live /\ freeing' = freeing
        /\ 0 < vectors[v].capacity /\ vectors[v].capacity < n
    BY <1>5 DEF Allocator!Grow
  <2> QED
    BY <2>1, <2>2, VectorMoves, Zenon
<1>6. ASSUME Allocator!Destroy PROVE PagesIInv' /\ \A v \in Vectors : MovesToRoom(v)
  <2>1. vectors' = vectors
    BY <1>6 DEF Allocator!Destroy
  <2> QED
    BY <1>1, <1>2, <1>6, <2>1, DestroyKeeps DEF PagesIInv
<1>7. ASSUME Allocator!Unmap PROVE PagesIInv' /\ \A v \in Vectors : MovesToRoom(v)
  <2>1. vectors' = vectors
    BY <1>7 DEF Allocator!Unmap
  <2> QED
    BY <1>1, <1>2, <1>7, <2>1, UnmapKeeps DEF PagesIInv
<1>8. ASSUME UNCHANGED Allocator!vars PROVE PagesIInv' /\ \A v \in Vectors : MovesToRoom(v)
  <2>1. /\ headers' = headers /\ last_' = last_ /\ current_page_' = current_page_
        /\ page_offset_' = page_offset_ /\ granted' = granted /\ refused' = refused
        /\ vectors' = vectors /\ freeing' = freeing
    BY <1>8 DEF Allocator!vars, Allocator!allocator
  <2>2. refused' \in BOOLEAN
    BY <1>1, <2>1 DEF AllocatorIInv, PointersAre
  <2>3. AllocatorIInv'
    BY <1>1, <2>1, <2>2, SameAllocator
  <2> QED
    BY <1>2, <2>1, <2>3 DEF PagesIInv
<1> QED
  BY <1>3, <1>4, <1>5, <1>6, <1>7, <1>8 DEF Allocator!Next

LEMMA PagesInit == Allocator!Init => PagesIInv
<1> SUFFICES ASSUME Allocator!Init PROVE PagesIInv
  OBVIOUS
<1>1. /\ DOMAIN headers = {} /\ last_ = 0 /\ current_page_ = Allocator!NULL /\ page_offset_ = 0
      /\ granted = {} /\ refused = FALSE /\ freeing = Allocator!Live
      /\ vectors = [v \in Vectors |-> [data |-> 0, capacity |-> 0]]
  BY DEF Allocator!Init, Allocator!NULL
<1>2. HeadersLie /\ GrantedAre /\ Allocator!BlocksAreApart /\ RestIsFree
  BY <1>1 DEF HeadersLie, GrantedAre, Allocator!BlocksAreApart, RestIsFree
<1>3. PointersAre
  <2>1. last_ \in Allocator!Addresses /\ current_page_ \in Allocator!Addresses
    BY <1>1, StartIsAddress DEF Allocator!NULL
  <2>2. page_offset_ \in 0 .. page_size - 1
    BY <1>1, PageNumbers
  <2> QED
    BY <1>1, <2>1, <2>2, Zenon DEF PointersAre
<1>4. Chained
  <2> DEFINE s == [i \in 0 .. 0 |-> 0]
  <2>1. s \in [0 .. 0 -> Allocator!Addresses] /\ s[0] = 0 /\ \A i \in 1 .. 0 : FALSE
    BY StartIsAddress
  <2> HIDE DEF s
  <2>2. Chain(headers, last_, 0, s)
    BY <1>1, <2>1 DEF Chain, Allocator!NULL
  <2>3. Chain(headers, IF freeing = Allocator!Live THEN last_ ELSE freeing, 0, s)
    BY <1>1, <2>2
  <2>4. 0 \in Nat
    OBVIOUS
  <2> QED
    BY <2>1, <2>3, <2>4, Zenon DEF Chained
<1>5. VectorsAre
  <2>1. 0 # Allocator!Stack /\ 0 \in 0 .. MaxBytes
    BY PageNumbers DEF Allocator!Stack
  <2>2. \A v \in Vectors : vectors[v].data = 0 /\ vectors[v].capacity = 0
    BY <1>1
  <2>3. vectors \in [Vectors -> [data : Allocator!Addresses \cup {Allocator!Stack}, capacity : 0 .. MaxBytes]]
    BY <1>1, <2>1, StartIsAddress
  <2> QED
    BY <2>1, <2>2, <2>3 DEF VectorsAre
<1> QED
  BY <1>2, <1>3, <1>4, <1>5 DEF PagesIInv, AllocatorIInv

\* The chain is not longer than there are many.
LEMMA ChainFits ==
  ASSUME HeadersLie, NEW top, NEW k \in Nat, NEW s, Chain(headers, top, k, s)
  PROVE  k <= Pages
<1> SUFFICES ASSUME Pages < k PROVE FALSE
  BY PageNumbers
<1> DEFINE f == [i \in 1 .. k |-> PageOf(s[i])]
<1>1. \A i \in 1 .. k : s[i] \in DOMAIN headers /\ f[i] = PageOf(s[i])
  BY DEF Chain
<1>2. \A a \in DOMAIN headers : PageOf(a) \in 1 .. Pages /\ PageOf(a) \in Allocator!PagesOf(a)
  <2> TAKE a \in DOMAIN headers
  <2>1. /\ a \in Allocator!Addresses /\ headers[a].num_pages \in Nat \ {0}
        /\ 1 <= PageOf(a) /\ PageOf(a) + headers[a].num_pages - 1 <= Pages
    BY DEF HeadersLie
  <2>2. a \in Int
    <3>1. Start(Pages + 1) \in Int
      BY PageNumbers, Starts
    <3> QED
      BY <2>1, <3>1, AddressesAre
  <2>3. PageOf(a) \in Int
    BY <2>2, PageIs
  <2>4. PageOf(a) \in 1 .. Pages
    BY <2>1, <2>3, PageNumbers
  <2>5. PageOf(a) \in PageOf(a) .. PageOf(a) + headers[a].num_pages - 1
    BY <2>1, <2>3
  <2> QED
    BY <2>4, <2>5 DEF Allocator!PagesOf, PageOf
<1>3. f \in [1 .. k -> 1 .. Pages]
  BY <1>1, <1>2
<1>4. /\ IsFiniteSet(1 .. k) /\ Cardinality(1 .. k) = k
      /\ IsFiniteSet(1 .. Pages) /\ Cardinality(1 .. Pages) = Pages
  <2>1. 1 \in Int /\ k \in Int /\ Pages \in Int /\ ~(1 > k) /\ ~(1 > Pages)
    BY PageNumbers
  <2>2. IsFiniteSet(1 .. k) /\ Cardinality(1 .. k) = k - 1 + 1
    BY <2>1, FS_Interval
  <2>3. IsFiniteSet(1 .. Pages) /\ Cardinality(1 .. Pages) = Pages - 1 + 1
    BY <2>1, FS_Interval
  <2> QED
    BY <2>1, <2>2, <2>3
<1> HIDE DEF f
<1>5. \E i, j \in 1 .. k : i # j /\ f[i] = f[j]
  BY <1>3, <1>4, FS_PigeonHole, Zenon
<1>6. PICK i \in 1 .. k, j \in 1 .. k : i # j /\ f[i] = f[j]
  BY <1>5
<1>7. s[i] # s[j]
  BY <1>6 DEF Chain
<1>8. Allocator!PagesOf(s[i]) \cap Allocator!PagesOf(s[j]) = {}
  BY <1>1, <1>7 DEF HeadersLie
<1> QED
  BY <1>1, <1>2, <1>6, <1>8

\* What OwnsPointer comes to from last_: one more header with every step.
LEMMA FoundIs ==
  \E found \in [Nat -> SUBSET DOMAIN headers] :
    /\ found[0] = {last_} \cap DOMAIN headers
    /\ \A n \in Nat : found[n + 1] =
         found[n] \cup ({headers[a].next : a \in found[n]} \cap DOMAIN headers)
    /\ \A p : Allocator!OwnsPointer(p) <=>
         \E a \in found[Pages] : p \div page_size \in Allocator!PagesOf(a)
<1> DEFINE D == DOMAIN headers
           More(C) == C \cup ({headers[a].next : a \in C} \cap D)
           Steps(h) == [n \in Nat |-> IF n = 0 THEN {last_} \cap D ELSE More(h[n - 1])]
           found == CHOOSE h : h = Steps(h)
<1>1. PICK g \in [Nat -> SUBSET D] : g[0] = {last_} \cap D /\ \A n \in Nat : g[n + 1] = More(g[n])
  <2> DEFINE F == [C \in SUBSET D |-> More(C)]
             x == {last_} \cap D
             T == SUBSET D
  <2>1. F \in [T -> T] /\ x \in T /\ \A C \in T : F[C] = More(C)
    OBVIOUS
  <2> HIDE DEF F, x, T, More
  <2>2. PICK g : Iterates(g, T, F, x)
    BY <2>1, Iterations
  <2>3. g \in [Nat -> T] /\ g[0] = x /\ \A n \in Nat : g[n + 1] = More(g[n])
    BY <2>1, <2>2 DEF Iterates
  <2> QED
    BY <2>3 DEF x, T
<1> HIDE DEF More
<1>2. g = Steps(g)
  <2>1. \A n \in Nat : g[n] = IF n = 0 THEN {last_} \cap D ELSE More(g[n - 1])
    <3> SUFFICES ASSUME NEW n \in Nat, n # 0 PROVE g[n] = More(g[n - 1])
      BY <1>1
    <3>1. n - 1 \in Nat /\ (n - 1) + 1 = n
      OBVIOUS
    <3> QED
      BY <1>1, <3>1
  <2> QED
    BY <2>1
<1>3. found = Steps(found)
  BY <1>2
<1>4. \A p : Allocator!OwnsPointer(p) <=>
         \E a \in found[Pages] : p \div page_size \in Allocator!PagesOf(a)
  BY DEF Allocator!OwnsPointer, More
<1>5. found[0] = {last_} \cap D /\ \A n \in Nat : found[n + 1] = More(found[n])
  <2> HIDE DEF found
  <2>1. \A n \in Nat : found[n] = IF n = 0 THEN {last_} \cap D ELSE More(found[n - 1])
    BY <1>3
  <2>2. \A n \in Nat : n + 1 \in Nat /\ n + 1 # 0 /\ (n + 1) - 1 = n
    OBVIOUS
  <2> QED
    BY <2>1, <2>2
<1>6. DOMAIN found = Nat /\ found = [n \in Nat |-> found[n]]
  BY <1>3, Zenon
<1> HIDE DEF found
<1>7. \A n \in Nat : found[n] \in SUBSET D
  <2> DEFINE P == {n \in Nat : found[n] \in SUBSET D}
  <2>1. 0 \in P /\ \A n \in Nat : n \in P => n + 1 \in P
    BY <1>5 DEF More
  <2>2. P \in SUBSET Nat
    OBVIOUS
  <2>3. \A n \in Nat : n \in P
    <3> HIDE DEF P
    <3> QED
      BY <2>1, <2>2, HoldsAlways
  <2> QED
    BY <2>3
<1>8. found \in [Nat -> SUBSET D]
  BY <1>6, <1>7
<1> QED
  BY <1>4, <1>5, <1>8 DEF More

\* It comes to all of them.
LEMMA AllAreFound ==
  ASSUME HeadersLie, Chained, freeing = Allocator!Live
  PROVE  Allocator!OwnsWhatItMaps
<1>1. PICK k \in Nat : \E s \in [0 .. k -> Allocator!Addresses] : Chain(headers, last_, k, s)
  BY DEF Chained
<1>2. PICK s \in [0 .. k -> Allocator!Addresses] : Chain(headers, last_, k, s)
  BY <1>1
<1>3. PICK found \in [Nat -> SUBSET DOMAIN headers] :
        /\ found[0] = {last_} \cap DOMAIN headers
        /\ \A n \in Nat : found[n + 1] =
             found[n] \cup ({headers[a].next : a \in found[n]} \cap DOMAIN headers)
        /\ \A p : Allocator!OwnsPointer(p) <=>
             \E a \in found[Pages] : p \div page_size \in Allocator!PagesOf(a)
  BY FoundIs, Zenon
<1> DEFINE P == {n \in Nat : \A i \in 1 .. k : k <= n + i => s[i] \in found[n]}
<1>4. 0 \in P
  <2> SUFFICES ASSUME NEW i \in 1 .. k, k <= 0 + i PROVE s[i] \in found[0]
    OBVIOUS
  <2>1. i = k
    OBVIOUS
  <2> QED
    BY <1>2, <1>3, <2>1 DEF Chain
<1>5. ASSUME NEW n \in Nat, n \in P PROVE n + 1 \in P
  <2> SUFFICES ASSUME NEW i \in 1 .. k, k <= (n + 1) + i PROVE s[i] \in found[n + 1]
    OBVIOUS
  <2>1. CASE k <= n + i
    BY <1>3, <1>5, <2>1
  <2>2. CASE ~(k <= n + i)
    <3>1. i + 1 \in 1 .. k /\ k <= n + (i + 1) /\ (i + 1) - 1 = i
      BY <2>2
    <3>2. s[i + 1] \in found[n]
      BY <1>5, <3>1
    <3>3. s[i] \in DOMAIN headers /\ headers[s[i + 1]].next = s[i]
      BY <1>2, <3>1 DEF Chain
    <3> QED
      BY <1>3, <3>2, <3>3
  <2> QED
    BY <2>1, <2>2
<1>6. Pages \in P
  <2>1. P \in SUBSET Nat /\ \A n \in Nat : n \in P => n + 1 \in P
    BY <1>5
  <2> HIDE DEF P
  <2> QED
    BY <1>4, <2>1, HoldsAlways, PageNumbers
<1>7. k <= Pages
  BY <1>2, ChainFits
<1>8. found[Pages] = DOMAIN headers
  <2>1. \A i \in 1 .. k : s[i] \in found[Pages]
    BY <1>6, <1>7, PageNumbers
  <2>2. \A a \in DOMAIN headers : \E i \in 1 .. k : s[i] = a
    BY <1>2 DEF Chain
  <2>3. found[Pages] \subseteq DOMAIN headers
    BY <1>3, PageNumbers
  <2>4. DOMAIN headers \subseteq found[Pages]
    BY <2>1, <2>2, Zenon
  <2> QED
    BY <2>3, <2>4, Zenon
<1> QED
  BY <1>3, <1>8 DEF Allocator!OwnsWhatItMaps, Allocator!Mapped

LEMMA PagesMean ==
  PagesIInv => /\ Allocator!TypeOK
               /\ Allocator!BlocksAreApart /\ Allocator!OwnsWhatItMaps /\ Allocator!GivesAllBack
<1> SUFFICES ASSUME PagesIInv
             PROVE  /\ Allocator!TypeOK
                    /\ Allocator!BlocksAreApart /\ Allocator!OwnsWhatItMaps /\ Allocator!GivesAllBack
  OBVIOUS
<1>1. HeadersLie /\ PointersAre /\ GrantedAre /\ Allocator!BlocksAreApart /\ Chained /\ VectorsAre
  BY DEF PagesIInv, AllocatorIInv
<1>2. Allocator!OwnsWhatItMaps
  BY <1>1, AllAreFound DEF Allocator!OwnsWhatItMaps
<1>3. Allocator!GivesAllBack
  <2>1. CASE freeing = Allocator!Live
    BY <2>1 DEF Allocator!GivesAllBack, Allocator!Live, Allocator!NULL
  <2>2. CASE freeing # Allocator!Live
    <3>1. PICK k \in Nat : \E s \in [0 .. k -> Allocator!Addresses] : Chain(headers, freeing, k, s)
      BY <1>1, <2>2 DEF Chained
    <3>2. PICK s \in [0 .. k -> Allocator!Addresses] : Chain(headers, freeing, k, s)
      BY <3>1
    <3>3. CASE k = 0
      <4>1. DOMAIN headers = {} /\ freeing = Allocator!NULL
        BY <3>2, <3>3 DEF Chain
      <4> QED
        BY <4>1 DEF Allocator!GivesAllBack, Allocator!Mapped
    <3>4. CASE k # 0
      <4>1. freeing \in DOMAIN headers
        BY <3>2, <3>4 DEF Chain
      <4> QED
        BY <1>1, <4>1, NullIsNoHeader DEF Allocator!GivesAllBack
    <3> QED
      BY <3>3, <3>4
  <2> QED
    BY <2>1, <2>2
<1>4. Allocator!TypeOK
  <2>1. ASSUME NEW a \in DOMAIN headers
        PROVE  Allocator!PagesOf(a) # {} /\ Allocator!PagesOf(a) \subseteq 1 .. Pages
    <3>1. /\ PageOf(a) \in Int /\ headers[a].num_pages \in Nat \ {0}
          /\ 1 <= PageOf(a) /\ PageOf(a) + headers[a].num_pages - 1 <= Pages
      BY <1>1, Numbers DEF HeadersLie
    <3>2. Allocator!PagesOf(a) = PageOf(a) .. PageOf(a) + headers[a].num_pages - 1
      BY DEF Allocator!PagesOf, PageOf
    <3>3. PageOf(a) \in PageOf(a) .. PageOf(a) + headers[a].num_pages - 1
      BY <3>1
    <3> QED
      BY <3>1, <3>2, <3>3, PageNumbers
  <2> QED
    BY <1>1, <2>1 DEF Allocator!TypeOK, HeadersLie, PointersAre, GrantedAre, VectorsAre
<1> QED
  BY <1>1, <1>2, <1>3, <1>4

-----------------------------------------------------------------------------
\* What is defined by recursion up to a number exists.
Steps(G, N, S) == \A n \in 1 .. N : \A s \in S : G[n][s] \in S
Recurs(f, N, S, x, G) ==
  f \in [0 .. N -> S] /\ f[0] = x /\ \A n \in 1 .. N : f[n] = G[n][f[n - 1]]

LEMMA Recursion ==
  ASSUME NEW N \in Nat, NEW S, NEW x, x \in S, NEW G, Steps(G, N, S)
  PROVE  \E f : Recurs(f, N, S, x, G)
<1> DEFINE Of(m) == {f \in [0 .. m -> S] : f[0] = x /\ \A n \in 1 .. m : f[n] = G[n][f[n - 1]]}
           Begun == {m \in Nat : m <= N => Of(m) # {}}
<1>0. \A n \in 1 .. N : \A s \in S : G[n][s] \in S
  BY DEF Steps
<1>1. 0 \in Begun
  <2>1. [n \in 0 .. 0 |-> x] \in Of(0)
    OBVIOUS
  <2> QED
    BY <2>1
<1>2. ASSUME NEW m \in Nat, m \in Begun PROVE m + 1 \in Begun
  <2> SUFFICES ASSUME m + 1 <= N PROVE Of(m + 1) # {}
    OBVIOUS
  <2>1. PICK f \in [0 .. m -> S] : f[0] = x /\ \A n \in 1 .. m : f[n] = G[n][f[n - 1]]
    BY <1>2
  <2> DEFINE h == [n \in 0 .. m + 1 |-> IF n = m + 1 THEN G[n][f[m]] ELSE f[n]]
  <2>2. f[m] \in S /\ m + 1 \in 1 .. N /\ G[m + 1][f[m]] \in S
    BY <1>0, <2>1
  <2>3. h \in [0 .. m + 1 -> S] /\ h[0] = x
    BY <2>1, <2>2
  <2>4. ASSUME NEW n \in 1 .. m + 1 PROVE h[n] = G[n][h[n - 1]]
    <3>1. n - 1 \in 0 .. m /\ n \in 0 .. m + 1 /\ n - 1 \in 0 .. m + 1 /\ n - 1 # m + 1
      OBVIOUS
    <3>2. h[n - 1] = f[n - 1]
      BY <3>1
    <3>3. CASE n = m + 1
      BY <3>1, <3>2, <3>3
    <3>4. CASE n # m + 1
      BY <2>1, <3>1, <3>2, <3>4
    <3> QED
      BY <3>3, <3>4
  <2> HIDE DEF h
  <2>5. h \in Of(m + 1)
    BY <2>3, <2>4
  <2> QED
    BY <2>5
<1>3. N \in Begun
  <2>1. Begun \in SUBSET Nat /\ \A n \in Nat : n \in Begun => n + 1 \in Begun
    BY <1>2
  <2> HIDE DEF Begun
  <2> QED
    BY <1>1, <2>1, HoldsAlways
<1> QED
  BY <1>3 DEF Recurs

-----------------------------------------------------------------------------
\* DirectoryReader.
EntryBytes(s, f) ==
  [n \in 0 .. Len(s) |-> IF n = 0 THEN 0 ELSE f[n - 1] + directory[s[n]]]

\* The length of some entries is the sum of theirs.
LEMMA BytesAre ==
  ASSUME NEW s \in Seq(DOMAIN directory), \A e \in DOMAIN directory : directory[e] \in Nat
  PROVE  \E f \in [0 .. Len(s) -> Nat] :
           /\ f[0] = 0 /\ \A n \in 1 .. Len(s) : f[n] = f[n - 1] + directory[s[n]]
           /\ Directory!BytesOf(s) = f[Len(s)]
<1> DEFINE N == Len(s)
           G == [n \in 1 .. N |-> [b \in Nat |-> b + directory[s[n]]]]
           g == CHOOSE f : f = EntryBytes(s, f)
<1>1. N \in Nat /\ \A n \in 1 .. N : directory[s[n]] \in Nat
  OBVIOUS
<1>2. PICK f \in [0 .. N -> Nat] : f[0] = 0 /\ \A n \in 1 .. N : f[n] = G[n][f[n - 1]]
  <2>1. Steps(G, N, Nat)
    BY <1>1 DEF Steps
  <2>2. N \in Nat /\ 0 \in Nat
    BY <1>1
  <2> HIDE DEF G, N
  <2>3. \E f : Recurs(f, N, Nat, 0, G)
    BY <2>1, <2>2, Recursion, Zenon
  <2> QED
    BY <2>3 DEF Recurs
<1>3. \A n \in 1 .. N : f[n - 1] \in Nat /\ f[n] = f[n - 1] + directory[s[n]]
  <2> SUFFICES ASSUME NEW n \in 1 .. N PROVE f[n - 1] \in Nat /\ f[n] = f[n - 1] + directory[s[n]]
    OBVIOUS
  <2>1. n - 1 \in 0 .. N
    BY <1>1
  <2> QED
    BY <1>2, <2>1
<1>4. f = EntryBytes(s, f)
  <2>1. \A n \in 0 .. N : n # 0 => n \in 1 .. N
    BY <1>1
  <2>2. \A n \in 0 .. N : f[n] = IF n = 0 THEN 0 ELSE f[n - 1] + directory[s[n]]
    BY <1>2, <1>3, <2>1
  <2> QED
    BY <2>2 DEF EntryBytes
<1>5. g = EntryBytes(s, g)
  BY <1>4
<1>6. \A n \in 0 .. N : g[n] = IF n = 0 THEN 0 ELSE g[n - 1] + directory[s[n]]
  <2> HIDE DEF g
  <2> QED
    BY <1>5 DEF EntryBytes
<1> HIDE DEF g
<1>7. \A n \in 0 .. N : g[n] \in Nat
  <2> DEFINE P == {n \in Nat : n <= N => g[n] \in Nat}
  <2>1. 0 \in P
    BY <1>1, <1>6
  <2>2. ASSUME NEW n \in Nat, n \in P PROVE n + 1 \in P
    <3> SUFFICES ASSUME n + 1 <= N PROVE g[n + 1] \in Nat
      OBVIOUS
    <3>1. n + 1 \in 0 .. N /\ n + 1 # 0 /\ (n + 1) - 1 = n /\ n + 1 \in 1 .. N /\ g[n] \in Nat
      BY <1>1, <2>2
    <3>2. g[n + 1] = g[n] + directory[s[n + 1]]
      BY <1>6, <3>1
    <3> QED
      BY <1>1, <3>1, <3>2
  <2>3. P \in SUBSET Nat
    OBVIOUS
  <2>4. \A n \in Nat : n \in P
    <3> HIDE DEF P
    <3> QED
      BY <2>1, <2>2, <2>3, HoldsAlways
  <2> QED
    BY <1>1, <2>4
<1>8. g \in [0 .. N -> Nat]
  BY <1>5, <1>7 DEF EntryBytes
<1>9. Directory!BytesOf(s) = g[N]
  BY DEF Directory!BytesOf, EntryBytes, g
<1>10. 0 \in 0 .. N /\ \A n \in 1 .. N : n \in 0 .. N /\ n # 0
  BY <1>1
<1> QED
  BY <1>6, <1>8, <1>9, <1>10

\* The entries s are so many bytes long.
Sums(f, s) ==
  f \in [0 .. Len(s) -> Nat] /\ f[0] = 0 /\ \A n \in 1 .. Len(s) : f[n] = f[n - 1] + directory[s[n]]
Fits(s) == \E f : Sums(f, s) /\ f[Len(s)] <= BufferBytes

DirectoryIInv ==
  /\ directory \in Directory!Directories
  /\ read \in 0 .. Len(directory) /\ taken \in 0 .. read
  /\ held = [i \in 1 .. read - taken |-> taken + i] /\ Fits(held)
  /\ eof \in BOOLEAN /\ failed \in BOOLEAN
  /\ answer \in {"none", "entry", "false"}
  /\ name \in 0 .. Len(directory)
  /\ answer = "entry" => taken < read /\ name = taken + 1
  /\ answer = "false" /\ ~failed => taken = read /\ read = Len(directory)

LEMMA DirectoryIs ==
  ASSUME directory \in Directory!Directories
  PROVE  /\ directory \in Seq(Nat) /\ Len(directory) \in Nat
         /\ DOMAIN directory = 1 .. Len(directory)
         /\ \A e \in DOMAIN directory : directory[e] \in Nat
<1>1. PICK n \in 0 .. MaxEntries : directory \in [1 .. n -> 1 .. BufferBytes]
  BY DEF Directory!Directories
<1>2. BufferBytes \in Nat /\ MaxEntries \in Nat
  BY MemoryObjectsAssumption DEF Directory!DirectoryAssumption
<1>3. n \in Nat /\ Len(directory) = n /\ directory \in Seq(1 .. BufferBytes)
  BY <1>1, <1>2
<1> QED
  BY <1>1, <1>2, <1>3

LEMMA FitsMeans ==
  ASSUME directory \in Directory!Directories, NEW s \in Seq(DOMAIN directory)
  PROVE  Fits(s) <=> Directory!BytesOf(s) <= BufferBytes
<1>1. PICK g \in [0 .. Len(s) -> Nat] :
        /\ g[0] = 0 /\ \A n \in 1 .. Len(s) : g[n] = g[n - 1] + directory[s[n]]
        /\ Directory!BytesOf(s) = g[Len(s)]
  BY BytesAre, DirectoryIs, Zenon
<1>2. Sums(g, s)
  BY <1>1 DEF Sums
<1>3. ASSUME NEW f, Sums(f, s) PROVE f[Len(s)] = g[Len(s)]
  <2> DEFINE P == {n \in Nat : n <= Len(s) => f[n] = g[n]}
  <2>1. 0 \in P
    BY <1>2, <1>3 DEF Sums
  <2>2. ASSUME NEW n \in Nat, n \in P PROVE n + 1 \in P
    <3> SUFFICES ASSUME n + 1 <= Len(s) PROVE f[n + 1] = g[n + 1]
      OBVIOUS
    <3>1. n + 1 \in 1 .. Len(s) /\ (n + 1) - 1 = n /\ f[n] = g[n]
      BY <2>2
    <3>2. f[n + 1] = f[n] + directory[s[n + 1]] /\ g[n + 1] = g[n] + directory[s[n + 1]]
      BY <1>2, <1>3, <3>1 DEF Sums
    <3> QED
      BY <3>1, <3>2
  <2>3. P \in SUBSET Nat /\ Len(s) \in Nat
    OBVIOUS
  <2>4. Len(s) \in P
    <3> HIDE DEF P
    <3> QED
      BY <2>1, <2>2, <2>3, HoldsAlways
  <2> QED
    BY <2>3, <2>4
<1> QED
  BY <1>1, <1>2, <1>3, Zenon DEF Fits

\* What is left after the first entry fits as well.
LEMMA TailFits ==
  ASSUME directory \in Directory!Directories, NEW s \in Seq(DOMAIN directory), s # << >>, Fits(s)
  PROVE  Fits(Tail(s))
<1>1. PICK f : Sums(f, s) /\ f[Len(s)] <= BufferBytes
  BY DEF Fits
<1>2. /\ Len(s) \in Nat /\ Len(s) >= 1 /\ Len(Tail(s)) = Len(s) - 1
      /\ \A n \in 1 .. Len(s) - 1 : Tail(s)[n] = s[n + 1]
      /\ \A n \in 1 .. Len(s) : directory[s[n]] \in Nat
  BY DirectoryIs
<1>3. /\ f \in [0 .. Len(s) -> Nat] /\ f[0] = 0
      /\ \A n \in 1 .. Len(s) : f[n] = f[n - 1] + directory[s[n]]
  BY <1>1 DEF Sums
<1>4. BufferBytes \in Nat
  BY MemoryObjectsAssumption DEF Directory!DirectoryAssumption
<1> DEFINE N == Len(s) - 1
           d == directory[s[1]]
           g == [n \in 0 .. N |-> f[n + 1] - d]
           P == {n \in Nat : n <= N => f[n + 1] >= d}
<1>5. f[1] = d /\ d \in Nat /\ N \in Nat
  <2>1. 1 \in 1 .. Len(s) /\ 1 - 1 = 0
    BY <1>2
  <2> QED
    BY <1>2, <1>3, <2>1
<1>6. \A n \in Nat : n \in P
  <2>1. 0 \in P
    BY <1>5
  <2>2. ASSUME NEW n \in Nat, n \in P PROVE n + 1 \in P
    <3> SUFFICES ASSUME n + 1 <= N PROVE f[n + 2] >= d
      OBVIOUS
    <3>1. n + 2 \in 1 .. Len(s) /\ (n + 2) - 1 = n + 1 /\ n + 1 \in 0 .. Len(s) /\ n <= N
      BY <1>2
    <3>2. f[n + 1] \in Nat /\ directory[s[n + 2]] \in Nat /\ f[n + 2] = f[n + 1] + directory[s[n + 2]]
      BY <1>2, <1>3, <3>1
    <3> HIDE DEF d, N
    <3> QED
      BY <1>5, <2>2, <3>1, <3>2
  <2>3. P \in SUBSET Nat
    OBVIOUS
  <2> HIDE DEF P
  <2> QED
    BY <2>1, <2>2, <2>3, HoldsAlways
<1>7. g \in [0 .. N -> Nat]
  <2> SUFFICES ASSUME NEW n \in 0 .. N PROVE f[n + 1] - d \in Nat
    OBVIOUS
  <2>1. n \in Nat /\ n <= N /\ n + 1 \in 0 .. Len(s)
    BY <1>2
  <2>2. f[n + 1] >= d /\ f[n + 1] \in Nat
    BY <1>3, <1>6, <2>1
  <2> HIDE DEF d, N
  <2> QED
    BY <1>5, <2>2
<1>8. g[0] = 0
  BY <1>5
<1>9. ASSUME NEW n \in 1 .. N PROVE g[n] = g[n - 1] + directory[Tail(s)[n]]
  <2>1. /\ n + 1 \in 1 .. Len(s) /\ (n + 1) - 1 = n /\ n \in 0 .. N /\ n - 1 \in 0 .. N
        /\ (n - 1) + 1 = n /\ Tail(s)[n] = s[n + 1] /\ n \in 0 .. Len(s)
    BY <1>2
  <2>2. f[n + 1] = f[n] + directory[s[n + 1]] /\ f[n] \in Nat /\ directory[s[n + 1]] \in Nat
    BY <1>2, <1>3, <2>1
  <2>3. g[n] = f[n + 1] - d /\ g[n - 1] = f[n] - d
    BY <2>1
  <2> HIDE DEF g, d, N
  <2> QED
    BY <1>5, <2>1, <2>2, <2>3
<1>10. g[N] <= BufferBytes
  <2>1. g[N] = f[Len(s)] - d /\ f[Len(s)] \in Nat
    BY <1>2, <1>3, <1>5
  <2> HIDE DEF g, d, N
  <2> QED
    BY <1>1, <1>4, <1>5, <2>1
<1> HIDE DEF g
<1> QED
  BY <1>2, <1>7, <1>8, <1>9, <1>10 DEF Fits, Sums

\* The entries in the buffer are those of the directory.
LEMMA HeldIs ==
  ASSUME directory \in Directory!Directories, NEW m \in Nat, NEW n \in Nat, m + n <= Len(directory)
  PROVE  LET s == [i \in 1 .. n |-> m + i]
         IN /\ s \in Seq(DOMAIN directory) /\ Len(s) = n
            /\ n = 0 <=> s = << >>
            /\ n > 0 => Head(s) = m + 1 /\ Tail(s) = [i \in 1 .. n - 1 |-> (m + 1) + i]
<1> DEFINE s == [i \in 1 .. n |-> m + i]
<1>1. \A i \in 1 .. n : m + i \in DOMAIN directory
  BY DirectoryIs
<1>2. s \in Seq(DOMAIN directory) /\ Len(s) = n
  BY <1>1
<1>3. n = 0 <=> s = << >>
  BY <1>2
<1>4. ASSUME n > 0 PROVE Head(s) = m + 1 /\ Tail(s) = [i \in 1 .. n - 1 |-> (m + 1) + i]
  <2> DEFINE t == [i \in 1 .. n - 1 |-> (m + 1) + i]
  <2>1. Head(s) = m + 1
    BY <1>2, <1>4
  <2>2. Tail(s) \in Seq(DOMAIN directory) /\ Len(Tail(s)) = n - 1
    BY <1>2, <1>3, <1>4
  <2>3. t \in Seq(Nat) /\ Len(t) = n - 1
    BY <1>4
  <2>4. \A i \in 1 .. n - 1 : Tail(s)[i] = t[i]
    BY <1>2, <1>4
  <2>5. Tail(s) \in Seq(Nat)
    BY <2>2, DirectoryIs, SMTT(20)
  <2> HIDE DEF s, t
  <2>6. Tail(s) = t
    BY <2>2, <2>3, <2>4, <2>5, SeqEqual
  <2> QED
    BY <2>1, <2>6 DEF t
<1> QED
  BY <1>2, <1>3, <1>4

LEMMA DirectoryInit == Directory!Init => DirectoryIInv
<1> SUFFICES ASSUME Directory!Init PROVE DirectoryIInv
  OBVIOUS
<1>1. Len(directory) \in Nat /\ BufferBytes \in Nat
  BY DirectoryIs, MemoryObjectsAssumption DEF Directory!Init, Directory!DirectoryAssumption
<1>2. held = [i \in 1 .. 0 |-> 0 + i]
  BY DEF Directory!Init
<1>3. Fits(<< >>)
  <2> DEFINE f == [n \in 0 .. 0 |-> 0]
  <2>1. Sums(f, << >>) /\ f[0] <= BufferBytes
    BY <1>1 DEF Sums
  <2> QED
    BY <2>1 DEF Fits
<1>4. Fits(held) /\ read - taken = 0 /\ taken = 0 /\ read = 0
  BY <1>3 DEF Directory!Init
<1>5. held = [i \in 1 .. read - taken |-> taken + i]
  BY <1>2, <1>4
<1>6. read \in 0 .. Len(directory) /\ taken \in 0 .. read /\ name \in 0 .. Len(directory)
  BY <1>1, <1>4 DEF Directory!Init
<1>7. /\ directory \in Directory!Directories
      /\ eof \in BOOLEAN /\ failed \in BOOLEAN /\ answer = "none"
  BY DEF Directory!Init
<1> QED
  BY <1>4, <1>5, <1>6, <1>7 DEF DirectoryIInv

LEMMA DirectoryNext == DirectoryIInv /\ [Directory!Next]_Directory!vars => DirectoryIInv'
<1> SUFFICES ASSUME DirectoryIInv, [Directory!Next]_Directory!vars PROVE DirectoryIInv'
  OBVIOUS
<1>0. /\ directory \in Directory!Directories /\ Len(directory) \in Nat
      /\ read \in 0 .. Len(directory) /\ taken \in 0 .. read
      /\ held = [i \in 1 .. read - taken |-> taken + i] /\ Fits(held)
      /\ eof \in BOOLEAN /\ failed \in BOOLEAN
      /\ answer \in {"none", "entry", "false"}
      /\ name \in 0 .. Len(directory)
      /\ answer = "entry" => taken < read /\ name = taken + 1
      /\ answer = "false" /\ ~failed => taken = read /\ read = Len(directory)
  BY DirectoryIs DEF DirectoryIInv
<1>1. read - taken \in Nat /\ taken \in Nat /\ read \in Nat /\ taken + (read - taken) <= Len(directory)
  BY <1>0
<1>2. /\ held \in Seq(DOMAIN directory)
      /\ read = taken <=> held = << >>
      /\ read > taken => /\ Head(held) = taken + 1
                         /\ Tail(held) = [i \in 1 .. (read - taken) - 1 |-> (taken + 1) + i]
  <2>1. /\ held \in Seq(DOMAIN directory)
        /\ read - taken = 0 <=> held = << >>
        /\ read - taken > 0 => /\ Head(held) = taken + 1
                         /\ Tail(held) = [i \in 1 .. (read - taken) - 1 |-> (taken + 1) + i]
    BY <1>0, <1>1, HeldIs
  <2> QED
    BY <1>1, <2>1
<1>3. directory' = directory
  BY DEF Directory!Next, Directory!GetNextEntry, Directory!PopEntry, Directory!vars
<1>4. \A s : Fits(s) => Fits(s)'
  BY <1>3 DEF Fits, Sums
<1>5. ASSUME UNCHANGED Directory!vars PROVE DirectoryIInv'
  <2>1. Fits(held)'
    BY <1>0, <1>3, <1>5 DEF Fits, Sums, Directory!vars
  <2> QED
    BY <1>0, <1>5, <2>1 DEF DirectoryIInv, Directory!vars, Directory!Directories
<1>6. ASSUME Directory!PopEntry PROVE DirectoryIInv'
  <2>1. /\ held' = Tail(held) /\ answer' = "none" /\ taken' = taken + 1
        /\ read' = read /\ eof' = eof /\ name' = name /\ failed' = failed
        /\ taken < read
    BY <1>0, <1>6 DEF Directory!PopEntry
  <2>2. held' = [i \in 1 .. read' - taken' |-> taken' + i]
    <3>1. (read - taken) - 1 = read' - taken' /\ read > taken
      BY <1>1, <2>1
    <3> QED
      BY <1>2, <2>1, <3>1
  <2>3. Fits(Tail(held))
    BY <1>0, <1>1, <1>2, <2>1, TailFits
  <2>4. Fits(held)'
    BY <1>3, <2>1, <2>3 DEF Fits, Sums
  <2>5. taken' \in 0 .. read'
    BY <1>0, <1>1, <2>1
  <2> QED
    BY <1>0, <1>3, <2>1, <2>2, <2>4, <2>5 DEF DirectoryIInv, Directory!Directories
<1>7. ASSUME held = << >>, Directory!More, taken' = taken PROVE DirectoryIInv'
  <2>1. PICK n \in 0 .. Len(directory) - read :
          /\ n = 0 => read = Len(directory)
          /\ Directory!BytesOf([i \in 1 .. n |-> read + i]) <= BufferBytes
          /\ held' = [i \in 1 .. n |-> read + i] /\ read' = read + n
          /\ eof' = (IF n = 0 THEN TRUE ELSE eof)
    BY <1>7 DEF Directory!More
  <2>2. read = taken /\ n \in Nat /\ read + n <= Len(directory) /\ failed' = FALSE
    <3>1. read = taken /\ failed' = FALSE
      BY <1>1, <1>2, <1>7 DEF Directory!More
    <3> HIDE <1>7
    <3> QED
      BY <1>1, <2>1, <3>1
  <2> DEFINE given_ == [i \in 1 .. n |-> read + i]
  <2>3. /\ given_ \in Seq(DOMAIN directory)
        /\ n = 0 <=> given_ = << >>
        /\ n > 0 => Head(given_) = read + 1
    BY <1>0, <1>1, <2>2, HeldIs
  <2>4. Fits(given_)
    <3> HIDE DEF given_
    <3> QED
      BY <1>0, <2>1, <2>3, FitsMeans DEF given_
  <2>5. Fits(held)'
    <3>1. held' = given_
      BY <2>1
    <3> HIDE DEF given_
    <3> QED
      BY <1>3, <2>4, <3>1 DEF Fits, Sums
  <2>6. held' = [i \in 1 .. read' - taken' |-> taken' + i] /\ taken' \in 0 .. read' /\ read' \in 0 .. Len(directory)
    <3>1. read' - taken' = n /\ taken' = read /\ read' = read + n
      BY <1>1, <1>7, <2>1, <2>2
    <3> QED
      BY <1>1, <2>1, <2>2, <3>1
  <2>7. /\ n = 0 => answer' = "false" /\ name' = name
        /\ n # 0 => answer' = "entry" /\ name' = read + 1
    BY <1>7, <2>1, <2>2, <2>3 DEF Directory!More, Directory!Answer
  <2>8. /\ answer' \in {"none", "entry", "false"} /\ name' \in 0 .. Len(directory)
        /\ answer' = "entry" => taken' < read' /\ name' = taken' + 1
        /\ answer' = "false" /\ ~failed' => taken' = read' /\ read' = Len(directory)
    BY <1>0, <1>1, <1>7, <2>1, <2>2, <2>7
  <2>9. eof' \in BOOLEAN /\ failed' \in BOOLEAN
    BY <1>0, <2>1, <2>2
  <2> QED
    BY <1>0, <1>3, <2>5, <2>6, <2>8, <2>9 DEF DirectoryIInv, Directory!Directories
<1>8. ASSUME held = << >>, Directory!Error, taken' = taken PROVE DirectoryIInv'
  <2>1. /\ answer' = "false" /\ failed' = TRUE
        /\ read' = read /\ held' = held /\ eof' = eof /\ name' = name
    BY <1>8 DEF Directory!Error
  <2>2. Fits(held)'
    BY <1>0, <1>3, <2>1 DEF Fits, Sums
  <2> QED
    BY <1>0, <1>3, <1>8, <2>1, <2>2 DEF DirectoryIInv, Directory!Directories
<1>9. ASSUME held # << >>, Directory!Again, taken' = taken PROVE DirectoryIInv'
  <2>1. /\ answer' = "entry" /\ name' = Head(held)
        /\ read' = read /\ held' = held /\ eof' = eof /\ failed' = failed
    BY <1>9 DEF Directory!Again, Directory!Answer
  <2>2. Fits(held)'
    BY <1>0, <1>3, <2>1 DEF Fits, Sums
  <2>3. taken < read /\ name' = taken + 1 /\ name' \in 0 .. Len(directory)
    BY <1>0, <1>1, <1>2, <1>9, <2>1
  <2> QED
    BY <1>0, <1>3, <1>9, <2>1, <2>2, <2>3 DEF DirectoryIInv, Directory!Directories
<1> QED
  BY <1>5, <1>6, <1>7, <1>8, <1>9 DEF Directory!Next, Directory!GetNextEntry

LEMMA DirectoryMeans ==
  DirectoryIInv => Directory!TypeOK /\ Directory!EntriesInOrder /\ Directory!EndMeansAll
<1> SUFFICES ASSUME DirectoryIInv
             PROVE  Directory!TypeOK /\ Directory!EntriesInOrder /\ Directory!EndMeansAll
  OBVIOUS
<1>1. /\ directory \in Directory!Directories /\ Len(directory) \in Nat
      /\ read \in 0 .. Len(directory) /\ taken \in 0 .. read
      /\ held = [i \in 1 .. read - taken |-> taken + i] /\ Fits(held)
  BY DirectoryIs DEF DirectoryIInv
<1>2. read - taken \in Nat /\ taken \in Nat /\ taken + (read - taken) <= Len(directory)
  BY <1>1
<1>3. held \in Seq(DOMAIN directory) /\ (read - taken > 0 => Head(held) = taken + 1)
  BY <1>1, <1>2, HeldIs
<1>4. Directory!BytesOf(held) <= BufferBytes
  BY <1>1, <1>3, FitsMeans
<1>5. taken \in 0 .. Len(directory) /\ (taken < read => Head(held) = taken + 1)
  BY <1>1, <1>2, <1>3
<1> QED
  BY <1>1, <1>3, <1>4, <1>5 DEF DirectoryIInv, Directory!TypeOK, Directory!EntriesInOrder, Directory!EndMeansAll

\* A set of numbers that do not pass a bound has a greatest one.
LEMMA GreatestNumber ==
  ASSUME NEW N \in Nat, NEW T \in SUBSET (0 .. N), T # {}
  PROVE  \E x \in T : \A y \in T : x >= y
<1> DEFINE U == {n \in Nat : n <= N /\ N - n \in T}
<1>1. U \in SUBSET Nat /\ U # {}
  <2>1. PICK y \in T : TRUE
    OBVIOUS
  <2>2. N - y \in U
    BY <2>1
  <2> QED
    BY <2>2
<1>2. PICK m \in U : \A n \in U : m <= n
  <2> HIDE DEF U
  <2> QED
    BY <1>1, LeastNumber, Zenon
<1>3. ASSUME NEW y \in T PROVE N - m >= y
  <2>1. y \in Nat /\ N - y \in U /\ m \in Nat
    BY <1>2
  <2>2. m <= N - y
    BY <1>2, <2>1
  <2> HIDE DEF U
  <2> QED
    BY <2>1, <2>2
<1> QED
  BY <1>2, <1>3

LEMMA MinMaxAre ==
  ASSUME NEW N \in Nat, NEW T \in SUBSET (0 .. N), T # {}
  PROVE  /\ CpuInfo!Min(T) \in T /\ \A y \in T : CpuInfo!Min(T) <= y
         /\ CpuInfo!Max(T) \in T /\ \A y \in T : CpuInfo!Max(T) >= y
         /\ Lines!Min(T) = CpuInfo!Min(T) /\ Lines!Max(T) = CpuInfo!Max(T)
<1>1. T \in SUBSET Nat
  OBVIOUS
<1>2. \E x \in T : \A y \in T : x <= y
  BY <1>1, LeastNumber, Zenon
<1>3. \E x \in T : \A y \in T : x >= y
  BY GreatestNumber
<1>4. CpuInfo!Min(T) \in T /\ \A y \in T : CpuInfo!Min(T) <= y
  BY <1>2, Zenon DEF CpuInfo!Min
<1>5. CpuInfo!Max(T) \in T /\ \A y \in T : CpuInfo!Max(T) >= y
  BY <1>3, Zenon DEF CpuInfo!Max
<1>6. Lines!Min(T) = CpuInfo!Min(T) /\ Lines!Max(T) = CpuInfo!Max(T)
  BY DEF CpuInfo!Min, CpuInfo!Max, Lines!Min, Lines!Max
<1> QED
  BY <1>4, <1>5, <1>6

LEMMA MinIs ==
  ASSUME NEW N \in Nat, NEW T \in SUBSET (0 .. N), NEW x \in T, \A y \in T : x <= y
  PROVE  CpuInfo!Min(T) = x /\ Lines!Min(T) = x
<1>1. CpuInfo!Min(T) \in T /\ CpuInfo!Min(T) <= x /\ x <= CpuInfo!Min(T) /\ Lines!Min(T) = CpuInfo!Min(T)
  BY MinMaxAre
<1>2. CpuInfo!Min(T) \in Nat /\ x \in Nat
  <2>1. \A t \in T : t \in Nat
    OBVIOUS
  <2> QED
    BY <1>1, <2>1
<1> QED
  BY <1>1, <1>2

LEMMA MaxIs ==
  ASSUME NEW N \in Nat, NEW T \in SUBSET (0 .. N), NEW x \in T, \A y \in T : x >= y
  PROVE  CpuInfo!Max(T) = x /\ Lines!Max(T) = x
<1>1. CpuInfo!Max(T) \in T /\ CpuInfo!Max(T) >= x /\ x >= CpuInfo!Max(T) /\ Lines!Max(T) = CpuInfo!Max(T)
  BY MinMaxAre
<1>2. CpuInfo!Max(T) \in Nat /\ x \in Nat
  <2>1. \A t \in T : t \in Nat
    OBVIOUS
  <2> QED
    BY <1>1, <2>1
<1> QED
  BY <1>1, <1>2

-----------------------------------------------------------------------------
\* LineReader.
Ending == {"newline", "NUL"}
Ends == {i \in DOMAIN file : file[i] \in Ending}
          \cup {i \in {Len(file) + 1} : Len(file) # 0 /\ file[Len(file)] \notin Ending}

\* c counts the ends of lines.
Counts(c) ==
  /\ c \in [0 .. Len(file) + 1 -> Nat] /\ c[0] = 0
  /\ \A p \in 1 .. Len(file) + 1 : c[p] = c[p - 1] + (IF p \in Ends THEN 1 ELSE 0)

LEMMA EndsAre ==
  ASSUME NEW C, file \in Seq(C)
  PROVE  /\ Lines!LineEnds = Ends /\ CpuInfo!LineEnds = Ends
         /\ Ends \subseteq 1 .. Len(file) + 1
         /\ Len(file) + 1 \in Ends => Len(file) \notin {0} \cup Ends
         /\ Len(file) = 0 \/ Len(file) \in Ends \/ Len(file) + 1 \in Ends
         /\ \A i \in 1 .. Len(file) : i \in Ends <=> file[i] \in Ending
<1>0. Len(file) \in Nat /\ DOMAIN file = 1 .. Len(file)
  OBVIOUS
<1>1. \A i \in 1 .. Len(file) : i \in Ends <=> file[i] \in Ending
  BY <1>0 DEF Ends
<1>2. Len(file) + 1 \in Ends <=> Len(file) # 0 /\ file[Len(file)] \notin Ending
  BY <1>0 DEF Ends
<1>3. Ends \subseteq 1 .. Len(file) + 1
  BY <1>0 DEF Ends
<1>4. Len(file) # 0 => Len(file) \in 1 .. Len(file)
  BY <1>0
<1>5. Lines!Terminators(file) = {i \in DOMAIN file : file[i] \in Ending}
  BY DEF Lines!Terminators, Ending
<1>6. CpuInfo!Terminators(file) = {i \in DOMAIN file : file[i] \in Ending}
  BY DEF CpuInfo!Terminators, Ending
<1>7. Len(file) \in {0} \cup {i \in DOMAIN file : file[i] \in Ending}
        <=> ~(Len(file) # 0 /\ file[Len(file)] \notin Ending)
  BY <1>0, <1>4
<1>8. Lines!LineEnds = Ends
  BY <1>5, <1>7 DEF Lines!LineEnds, Ends
<1>9. CpuInfo!LineEnds = Ends
  BY <1>6, <1>7 DEF CpuInfo!LineEnds, Ends
<1> QED
  BY <1>0, <1>1, <1>2, <1>3, <1>4, <1>8, <1>9

\* What a function that is defined by recursion gives.
LEMMA CountsBegin ==
  ASSUME NEW C, file \in Seq(C)
  PROVE  \E c : Counts(c)
<1> DEFINE N == Len(file) + 1
           G == [n \in 1 .. N |-> [s \in Nat |-> s + (IF n \in Ends THEN 1 ELSE 0)]]
<1>1. N \in Nat
  OBVIOUS
<1>2. PICK f : Recurs(f, N, Nat, 0, G)
  <2>1. Steps(G, N, Nat) /\ 0 \in Nat
    BY DEF Steps
  <2> HIDE DEF G, N
  <2> QED
    BY <1>1, <2>1, Recursion, Zenon
<1>3. \A n \in 1 .. N : f[n] = f[n - 1] + (IF n \in Ends THEN 1 ELSE 0)
  <2> SUFFICES ASSUME NEW n \in 1 .. N PROVE f[n] = f[n - 1] + (IF n \in Ends THEN 1 ELSE 0)
    OBVIOUS
  <2>1. n - 1 \in 0 .. N
    BY <1>1
  <2>2. f[n - 1] \in Nat
    BY <1>2, <2>1 DEF Recurs
  <2> QED
    BY <1>2, <2>2 DEF Recurs
<1> QED
  BY <1>2, <1>3 DEF Recurs, Counts

\* A number for which a function is defined so that ... counts.
CountsFrom(f) ==
  [p \in 0 .. Len(file) + 1 |-> IF p = 0 THEN 0 ELSE f[p - 1] + (IF p \in Ends THEN 1 ELSE 0)]

LEMMA CountsAre ==
  ASSUME NEW C, file \in Seq(C), NEW f, f = CountsFrom(f)
  PROVE  Counts(f)
<1> DEFINE N == Len(file) + 1
<1>1. N \in Nat
  OBVIOUS
<1>2. \A n \in 0 .. N : f[n] = IF n = 0 THEN 0 ELSE f[n - 1] + (IF n \in Ends THEN 1 ELSE 0)
  BY DEF CountsFrom
<1>3. \A n \in Nat : n <= N => f[n] \in Nat
  <2> DEFINE P == {n \in Nat : n <= N => f[n] \in Nat}
  <2>1. 0 \in P
    BY <1>1, <1>2
  <2>2. ASSUME NEW n \in Nat, n \in P PROVE n + 1 \in P
    <3> SUFFICES ASSUME n + 1 <= N PROVE f[n + 1] \in Nat
      OBVIOUS
    <3>1. n + 1 \in 0 .. N /\ n + 1 # 0 /\ (n + 1) - 1 = n /\ f[n] \in Nat
      BY <1>1, <2>2
    <3>2. f[n + 1] = f[n] + (IF n + 1 \in Ends THEN 1 ELSE 0)
      BY <1>2, <3>1
    <3> QED
      BY <3>1, <3>2
  <2>3. P \in SUBSET Nat
    OBVIOUS
  <2>4. \A n \in Nat : n \in P
    <3> HIDE DEF P
    <3> QED
      BY <2>1, <2>2, <2>3, HoldsAlways
  <2> QED
    BY <2>4
<1>4. f \in [0 .. N -> Nat]
  BY <1>1, <1>3 DEF CountsFrom
<1>5. 0 \in 0 .. N /\ \A n \in 1 .. N : n \in 0 .. N /\ n # 0
  BY <1>1
<1> QED
  BY <1>2, <1>4, <1>5 DEF Counts

LEMMA LinesAreCounted ==
  ASSUME NEW C, file \in Seq(C)
  PROVE  Counts(Lines!LinesUpTo) /\ Counts(CpuInfo!LinesUpTo)
<1>1. PICK f : Counts(f)
  BY CountsBegin
<1>2. f = CountsFrom(f)
  <2>1. Len(file) \in Nat
    OBVIOUS
  <2>2. \A p \in 0 .. Len(file) + 1 : p # 0 => p \in 1 .. Len(file) + 1
    BY <2>1
  <2> QED
    BY <1>1, <2>2 DEF Counts, CountsFrom
<1> DEFINE g == CHOOSE h : h = CountsFrom(h)
<1>3. g = CountsFrom(g)
  BY <1>2
<1>4. Lines!LinesUpTo = g
  BY EndsAre DEF Lines!LinesUpTo, CountsFrom
<1>5. CpuInfo!LinesUpTo = g
  BY EndsAre DEF CpuInfo!LinesUpTo, CountsFrom
<1> HIDE DEF g
<1> QED
  BY <1>3, <1>4, <1>5, CountsAre

\* Between two ends there is none to be counted.
LEMMA CountStays ==
  ASSUME NEW C, file \in Seq(C), NEW c, Counts(c),
         NEW p \in 0 .. Len(file) + 1, NEW q \in 0 .. Len(file) + 1, p <= q,
         \A i \in p + 1 .. q : i \notin Ends
  PROVE  c[q] = c[p]
<1>0. Len(file) \in Nat /\ p \in Nat /\ q \in Nat
  OBVIOUS
<1> DEFINE P == {n \in Nat : p + n <= q => c[p + n] = c[p]}
<1>1. 0 \in P
  BY <1>0
<1>2. ASSUME NEW n \in Nat, n \in P PROVE n + 1 \in P
  <2> SUFFICES ASSUME p + (n + 1) <= q PROVE c[p + (n + 1)] = c[p]
    OBVIOUS
  <2>1. /\ p + (n + 1) \in 1 .. Len(file) + 1 /\ (p + (n + 1)) - 1 = p + n
        /\ p + (n + 1) \in p + 1 .. q /\ p + n \in 0 .. Len(file) + 1 /\ p + n <= q
    BY <1>0
  <2>2. c[p + (n + 1)] = c[p + n] /\ c[p + n] \in Nat
    <3>1. p + (n + 1) \notin Ends
      BY <2>1
    <3>2. c[p + n] \in Nat
      BY <2>1 DEF Counts
    <3>3. c[p + (n + 1)] = c[(p + (n + 1)) - 1] + 0
      BY <2>1, <3>1 DEF Counts
    <3> QED
      BY <2>1, <3>2, <3>3
  <2> QED
    BY <1>2, <2>1, <2>2
<1>3. P \in SUBSET Nat /\ q - p \in Nat /\ p + (q - p) = q
  BY <1>0
<1>4. q - p \in P
  <2> HIDE DEF P
  <2> QED
    BY <1>1, <1>2, <1>3, HoldsAlways
<1> QED
  BY <1>0, <1>3, <1>4

\* The next end is one more.
LEMMA CountGrows ==
  ASSUME NEW C, file \in Seq(C), NEW c, Counts(c),
         NEW p \in 0 .. Len(file) + 1, NEW q \in Ends, p < q,
         \A i \in p + 1 .. q - 1 : i \notin Ends
  PROVE  c[q] = c[p] + 1
<1>0. Len(file) \in Nat /\ p \in Nat /\ q \in 1 .. Len(file) + 1 /\ q - 1 \in 0 .. Len(file) + 1 /\ p <= q - 1
  BY EndsAre
<1>1. c[q - 1] = c[p]
  BY <1>0, CountStays
<1> QED
  BY <1>0, <1>1 DEF Counts

\* There are no more lines than characters.
LEMMA LinesAreFew ==
  ASSUME NEW C, file \in Seq(C), NEW c, Counts(c), NEW p \in {0} \cup Ends
  PROVE  c[p] \in 0 .. Len(file)
<1>0. Len(file) \in Nat /\ p \in 0 .. Len(file) + 1
  BY EndsAre
<1> DEFINE P == {n \in Nat : n <= Len(file) + 1 => c[n] <= n}
<1>1. \A n \in Nat : n \in P
  <2>1. 0 \in P
    BY DEF Counts
  <2>2. ASSUME NEW n \in Nat, n \in P PROVE n + 1 \in P
    <3> SUFFICES ASSUME n + 1 <= Len(file) + 1 PROVE c[n + 1] <= n + 1
      OBVIOUS
    <3>1. n + 1 \in 1 .. Len(file) + 1 /\ (n + 1) - 1 = n /\ n \in 0 .. Len(file) + 1
      BY <1>0
    <3>2. c[n + 1] = c[n] + (IF n + 1 \in Ends THEN 1 ELSE 0) /\ c[n] \in Nat /\ c[n] <= n
      BY <1>0, <2>2, <3>1 DEF Counts
    <3> QED
      BY <3>2
  <2>3. P \in SUBSET Nat
    OBVIOUS
  <2> HIDE DEF P
  <2> QED
    BY <2>1, <2>2, <2>3, HoldsAlways
<1>2. c[p] \in Nat /\ c[p] <= p
  BY <1>0, <1>1 DEF Counts
<1>3. CASE p <= Len(file)
  BY <1>0, <1>2, <1>3
<1>4. CASE p = Len(file) + 1
  <2>1. Len(file) # 0 /\ Len(file) \notin Ends /\ p \in Ends /\ Len(file) - 1 \in Nat
    BY <1>0, <1>4, EndsAre
  <2>2. /\ Len(file) \in 1 .. Len(file) + 1 /\ p \in 1 .. Len(file) + 1 /\ p - 1 = Len(file)
        /\ Len(file) - 1 \in 0 .. Len(file) + 1
    BY <1>0, <1>4, <2>1
  <2>3. c[p] = c[Len(file)] + 1 /\ c[Len(file)] = c[Len(file) - 1] + 0 /\ c[Len(file) - 1] \in Nat
    BY <2>1, <2>2 DEF Counts
  <2>4. c[Len(file) - 1] <= Len(file) - 1
    BY <1>0, <1>1, <2>1
  <2> QED
    BY <1>0, <2>1, <2>3, <2>4
<1> QED
  BY <1>0, <1>3, <1>4

\* The line that ends at q begins behind the end before.
LEMMA LineIs ==
  ASSUME NEW C, file \in Seq(C), NEW p \in {0} \cup Ends, NEW q \in Ends, p < q,
         \A i \in p + 1 .. q - 1 : i \notin Ends
  PROVE  Lines!LineAt(q) = SubSeq(file, p + 1, q - 1) /\ CpuInfo!LineAt(q) = SubSeq(file, p + 1, q - 1)
<1>0. /\ Len(file) \in Nat /\ q \in 1 .. Len(file) + 1 /\ Ends \subseteq 1 .. Len(file) + 1
      /\ p \in Nat /\ p \in 0 .. Len(file) + 1
  BY EndsAre
<1> DEFINE T == {n \in {0} \cup Ends : n < q}
<1>1. p \in T /\ T \subseteq 0 .. Len(file) + 1
  <2>1. \A n \in {0} \cup Ends : n \in 0 .. Len(file) + 1
    BY <1>0
  <2> QED
    BY <1>0, <2>1
<1>2. ASSUME NEW y \in T PROVE p >= y
  <2>1. y \in Nat /\ y < q
    BY <1>1
  <2>2. y = 0 \/ y \in Ends
    OBVIOUS
  <2>3. ~(y >= p + 1)
    <3> SUFFICES ASSUME y >= p + 1 PROVE FALSE
      OBVIOUS
    <3>1. y \in p + 1 .. q - 1 /\ y # 0
      BY <1>0, <2>1
    <3> QED
      BY <2>2, <3>1
  <2> QED
    BY <1>0, <2>1, <2>3
<1>3. Len(file) + 1 \in Nat
  BY <1>0
<1>4. CpuInfo!Max(T) = p /\ Lines!Max(T) = p
  <2> HIDE DEF T
  <2> QED
    BY <1>1, <1>2, <1>3, MaxIs
<1> QED
  BY <1>4, EndsAre DEF Lines!LineAt, CpuInfo!LineAt

\* Behind its first j characters, in which a line has been changed, the buffer
\* holds what the file holds behind p, but for the NUL at an end.
Follows(C, K, p, j) ==
  /\ buf_ \in Seq(C) /\ Len(buf_) <= K
  /\ offset \in 0 .. Len(file)
  /\ hit_eof_ \in BOOLEAN /\ (hit_eof_ => offset = Len(file))
  /\ \/ p + Len(buf_) = offset
     \/ hit_eof_ /\ p + Len(buf_) = Len(file) + 1 /\ Len(file) + 1 \in Ends
  /\ \A i \in DOMAIN buf_ : i > j =>
       \/ p + i \in Ends /\ buf_[i] = "NUL"
       \/ p + i <= Len(file) /\ buf_[i] = file[p + i]

\* The next line is n characters long, and its end is in the buffer.
NextIs(p, n) ==
  /\ n \in Nat /\ n < Len(buf_) /\ buf_[n + 1] = "NUL" /\ p + n + 1 \in Ends
  /\ \A i \in p + 1 .. p + n : i \notin Ends

\* One turn of the loop of GetNextLine: it returns FALSE, or a line that ends
\* in the buffer or with the file, or reads on.
NoEnd(b) == \A i \in DOMAIN b : b[i] \notin Ending
Turn(K) ==
  /\ call = "running" /\ UNCHANGED <<file, popped>>
  /\ \/ call' = "false" /\ UNCHANGED <<offset, buf_, hit_eof_, len>>
     \/ /\ call' = "line" /\ UNCHANGED <<offset, hit_eof_>>
        /\ \E i \in DOMAIN buf_ :
             /\ buf_[i] \in Ending /\ \A k \in 1 .. i - 1 : buf_[k] \notin Ending
             /\ buf_' = [buf_ EXCEPT ![i] = "NUL"] /\ len' = i - 1
     \/ /\ call' = "line" /\ UNCHANGED <<offset, hit_eof_>>
        /\ NoEnd(buf_) /\ hit_eof_ /\ Len(buf_) \in 1 .. K - 1
        /\ buf_' = Append(buf_, "NUL") /\ len' = Len(buf_)
     \/ /\ NoEnd(buf_) /\ Len(buf_) < K /\ ~hit_eof_ /\ UNCHANGED <<len, call>>
        /\ \E n \in Nat :
             /\ n <= K - Len(buf_) /\ n <= Len(file) - offset /\ (n = 0 => offset = Len(file))
             /\ buf_' = buf_ \o SubSeq(file, offset + 1, offset + n)
             /\ offset' = offset + n /\ hit_eof_' = (n = 0)

LEMMA LinesTurn ==
  ASSUME Lines!GetNextLine, NEW C, buf_ \in Seq(C), Len(buf_) <= LineLen, offset \in 0 .. Len(file),
         Len(file) \in Nat, LineLen \in Nat
  PROVE  Turn(LineLen)
<1>0. call = "running" /\ UNCHANGED <<file, popped>> /\ Len(buf_) \in Nat
  BY DEF Lines!GetNextLine
<1>1. CASE Lines!EndOfFile \/ Lines!TooLong
  BY <1>0, <1>1 DEF Lines!EndOfFile, Lines!TooLong, Lines!reader, Turn
<1>2. Lines!Terminators(buf_) = {} => NoEnd(buf_)
  BY DEF Lines!Terminators, NoEnd, Ending
<1>3. CASE Lines!TerminatedLine
  <2> DEFINE T == Lines!Terminators(buf_)
             i == Lines!Min(T)
  <2>1. T \subseteq 0 .. Len(buf_) /\ T # {}
    BY <1>0, <1>3 DEF Lines!Terminators, Lines!TerminatedLine
  <2>2. i \in T /\ \A k \in T : i <= k
    <3> HIDE DEF T
    <3> QED
      BY <1>0, <2>1, MinMaxAre
  <2>3. i \in DOMAIN buf_ /\ buf_[i] \in Ending
    BY <2>2 DEF Lines!Terminators, Ending
  <2>4. ASSUME NEW k \in 1 .. i - 1 PROVE buf_[k] \notin Ending
    <3>1. i \in Nat /\ k \in Nat /\ k < i /\ k \in DOMAIN buf_
      BY <1>0, <2>3
    <3>2. k \notin T
      BY <2>2, <3>1
    <3> QED
      BY <3>1, <3>2 DEF Lines!Terminators, Ending
  <2>5. buf_' = [buf_ EXCEPT ![i] = "NUL"] /\ len' = i - 1 /\ call' = "line" /\ UNCHANGED <<offset, hit_eof_>>
    BY <1>3 DEF Lines!TerminatedLine
  <2> HIDE DEF i
  <2> QED
    BY <1>0, <2>3, <2>4, <2>5 DEF Turn
<1>4. CASE Lines!LastLine
  BY <1>0, <1>2, <1>4 DEF Lines!LastLine, Turn
<1>5. CASE Lines!Pull
  <2>1. CASE call' = "false" /\ UNCHANGED Lines!reader
    BY <1>0, <2>1 DEF Lines!reader, Turn
  <2>2. ASSUME NEW n \in 0 .. Lines!Min({LineLen - Len(buf_), Len(file) - offset}),
               n = 0 => offset = Len(file),
               buf_' = buf_ \o SubSeq(file, offset + 1, offset + n),
               offset' = offset + n, hit_eof_' = (n = 0), UNCHANGED <<len, call>>
        PROVE  Turn(LineLen)
    <3> DEFINE T == {LineLen - Len(buf_), Len(file) - offset}
    <3>1. T \subseteq 0 .. LineLen + Len(file) /\ LineLen + Len(file) \in Nat /\ T # {}
      BY <1>0
    <3>2. Lines!Min(T) <= LineLen - Len(buf_) /\ Lines!Min(T) <= Len(file) - offset /\ Lines!Min(T) \in Nat
      <4>1. Lines!Min(T) \in T /\ \A k \in T : Lines!Min(T) <= k
        <5> HIDE DEF T
        <5> QED
          BY <3>1, MinMaxAre, ZenonT(30)
      <4>2. LineLen - Len(buf_) \in T /\ Len(file) - offset \in T
        OBVIOUS
      <4>3. \A k \in T : k \in Nat
        BY <3>1
      <4> HIDE DEF T
      <4> QED
        BY <4>1, <4>2, <4>3
    <3>3. n \in Nat /\ n <= LineLen - Len(buf_) /\ n <= Len(file) - offset
      <4> HIDE DEF T
      <4>1. n \in 0 .. Lines!Min(T)
        BY DEF T
      <4> QED
        BY <1>0, <3>2, <4>1
    <3>4. NoEnd(buf_) /\ Len(buf_) < LineLen /\ ~hit_eof_
      BY <1>2, <1>5 DEF Lines!Pull
    <3> QED
      BY <1>0, <2>2, <3>3, <3>4 DEF Turn
  <2> QED
    BY <1>5, <2>1, <2>2 DEF Lines!Pull
<1> QED
  BY <1>1, <1>3, <1>4, <1>5 DEF Lines!GetNextLine

\* The fields are read through a buffer with a length of its own.
LEMMA CpuInfoTurn ==
  ASSUME CpuInfo!GetNextLine, NEW C, buf_ \in Seq(C), Len(buf_) <= FieldLineLen, offset \in 0 .. Len(file),
         Len(file) \in Nat, FieldLineLen \in Nat
  PROVE  Turn(FieldLineLen)
<1>0. call = "running" /\ UNCHANGED <<file, popped>> /\ Len(buf_) \in Nat
  BY DEF CpuInfo!GetNextLine
<1>1. CASE CpuInfo!EndOfFile \/ CpuInfo!TooLong
  BY <1>0, <1>1 DEF CpuInfo!EndOfFile, CpuInfo!TooLong, CpuInfo!reader, Turn
<1>2. CpuInfo!Terminators(buf_) = {} => NoEnd(buf_)
  BY DEF CpuInfo!Terminators, NoEnd, Ending
<1>3. CASE CpuInfo!TerminatedLine
  <2> DEFINE T == CpuInfo!Terminators(buf_)
             i == CpuInfo!Min(T)
  <2>1. T \subseteq 0 .. Len(buf_) /\ T # {}
    BY <1>0, <1>3 DEF CpuInfo!Terminators, CpuInfo!TerminatedLine
  <2>2. i \in T /\ \A k \in T : i <= k
    <3> HIDE DEF T
    <3> QED
      BY <1>0, <2>1, MinMaxAre
  <2>3. i \in DOMAIN buf_ /\ buf_[i] \in Ending
    BY <2>2 DEF CpuInfo!Terminators, Ending
  <2>4. ASSUME NEW k \in 1 .. i - 1 PROVE buf_[k] \notin Ending
    <3>1. i \in Nat /\ k \in Nat /\ k < i /\ k \in DOMAIN buf_
      BY <1>0, <2>3
    <3>2. k \notin T
      BY <2>2, <3>1
    <3> QED
      BY <3>1, <3>2 DEF CpuInfo!Terminators, Ending
  <2>5. buf_' = [buf_ EXCEPT ![i] = "NUL"] /\ len' = i - 1 /\ call' = "line" /\ UNCHANGED <<offset, hit_eof_>>
    BY <1>3 DEF CpuInfo!TerminatedLine
  <2> HIDE DEF i
  <2> QED
    BY <1>0, <2>3, <2>4, <2>5 DEF Turn
<1>4. CASE CpuInfo!LastLine
  BY <1>0, <1>2, <1>4 DEF CpuInfo!LastLine, Turn
<1>5. CASE CpuInfo!Pull
  <2>1. CASE call' = "false" /\ UNCHANGED CpuInfo!reader
    BY <1>0, <2>1 DEF CpuInfo!reader, Turn
  <2>2. ASSUME NEW n \in 0 .. CpuInfo!Min({FieldLineLen - Len(buf_), Len(file) - offset}),
               n = 0 => offset = Len(file),
               buf_' = buf_ \o SubSeq(file, offset + 1, offset + n),
               offset' = offset + n, hit_eof_' = (n = 0), UNCHANGED <<len, call>>
        PROVE  Turn(FieldLineLen)
    <3> DEFINE T == {FieldLineLen - Len(buf_), Len(file) - offset}
    <3>1. T \subseteq 0 .. FieldLineLen + Len(file) /\ FieldLineLen + Len(file) \in Nat /\ T # {}
      BY <1>0
    <3>2. CpuInfo!Min(T) <= FieldLineLen - Len(buf_) /\ CpuInfo!Min(T) <= Len(file) - offset /\ CpuInfo!Min(T) \in Nat
      <4>1. CpuInfo!Min(T) \in T /\ \A k \in T : CpuInfo!Min(T) <= k
        <5> HIDE DEF T
        <5> QED
          BY <3>1, MinMaxAre
      <4>2. FieldLineLen - Len(buf_) \in T /\ Len(file) - offset \in T
        OBVIOUS
      <4>3. \A k \in T : k \in Nat
        BY <3>1
      <4> HIDE DEF T
      <4> QED
        BY <4>1, <4>2, <4>3
    <3>3. n \in Nat /\ n <= FieldLineLen - Len(buf_) /\ n <= Len(file) - offset
      <4> HIDE DEF T
      <4>1. n \in 0 .. CpuInfo!Min(T)
        BY DEF T
      <4> QED
        BY <1>0, <3>2, <4>1
    <3>4. NoEnd(buf_) /\ Len(buf_) < FieldLineLen /\ ~hit_eof_
      BY <1>2, <1>5 DEF CpuInfo!Pull
    <3> QED
      BY <1>0, <2>2, <3>3, <3>4 DEF Turn
  <2> QED
    BY <1>5, <2>1, <2>2 DEF CpuInfo!Pull
<1> QED
  BY <1>1, <1>3, <1>4, <1>5 DEF CpuInfo!GetNextLine

\* In the buffer, what ends a line is an end.
LEMMA EndsInBuffer ==
  ASSUME NEW C, file \in Seq(C), NEW K, NEW p \in Nat, NEW j \in Nat, Follows(C, K, p, j),
         NEW i \in DOMAIN buf_, i > j
  PROVE  /\ buf_[i] \in Ending <=> p + i \in Ends
         /\ p + i \notin Ends => p + i \in 1 .. Len(file) /\ buf_[i] = file[p + i]
<1>1. i \in Nat /\ Len(file) \in Nat
  BY DEF Follows
<1>2. (p + i \in Ends /\ buf_[i] = "NUL") \/ (p + i <= Len(file) /\ buf_[i] = file[p + i])
  BY DEF Follows
<1>3. CASE p + i \in Ends /\ buf_[i] = "NUL"
  BY <1>3 DEF Ending
<1>4. CASE p + i <= Len(file) /\ buf_[i] = file[p + i]
  <2>1. p + i \in 1 .. Len(file)
    BY <1>1, <1>4
  <2> QED
    BY <1>4, <2>1, EndsAre
<1> QED
  BY <1>2, <1>3, <1>4

\* However the loop turns, the buffer goes on as the file does, and a line that
\* is returned is the next one.
LEMMA TurnKeeps ==
  ASSUME NEW C, file \in Seq(C), "NUL" \in C, NEW K \in Nat, NEW p \in Nat,
         Follows(C, K, p, 0), Turn(K)
  PROVE  /\ Follows(C, K, p, 0)' /\ (call' = "line" => NextIs(p, len)')
         /\ call' \in {"running", "line", "false"}
         /\ call' # "line" => len' = len
<1>0. /\ call = "running" /\ file' = file /\ Len(file) \in Nat /\ Len(buf_) \in Nat
      /\ buf_ \in Seq(C) /\ Len(buf_) <= K /\ offset \in 0 .. Len(file)
      /\ hit_eof_ \in BOOLEAN /\ (hit_eof_ => offset = Len(file))
      /\ \/ p + Len(buf_) = offset
         \/ hit_eof_ /\ p + Len(buf_) = Len(file) + 1 /\ Len(file) + 1 \in Ends
      /\ DOMAIN buf_ = 1 .. Len(buf_)
  BY DEF Turn, Follows
<1>1. \A i \in DOMAIN buf_ : /\ i > 0
                             /\ buf_[i] \in Ending <=> p + i \in Ends
                             /\ p + i \notin Ends => p + i \in 1 .. Len(file) /\ buf_[i] = file[p + i]
  BY <1>0, EndsInBuffer
<1>2. Ends' = Ends
  BY <1>0 DEF Ends
<1>3. CASE call' = "false" /\ UNCHANGED <<offset, buf_, hit_eof_, len>>
  BY <1>0, <1>2, <1>3 DEF Follows
<1>4. ASSUME call' = "line", UNCHANGED <<offset, hit_eof_>>, NEW i \in DOMAIN buf_,
             buf_[i] \in Ending, \A k \in 1 .. i - 1 : buf_[k] \notin Ending,
             buf_' = [buf_ EXCEPT ![i] = "NUL"], len' = i - 1
      PROVE  Follows(C, K, p, 0)' /\ NextIs(p, len)'
  <2>1. p + i \in Ends /\ i \in Nat /\ i >= 1 /\ i <= Len(buf_)
    BY <1>0, <1>1, <1>4
  <2>2. buf_' \in Seq(C) /\ Len(buf_') = Len(buf_) /\ DOMAIN buf_' = DOMAIN buf_
    BY <1>0, <1>4
  <2>3. \A n \in DOMAIN buf_ : buf_'[n] = IF n = i THEN "NUL" ELSE buf_[n]
    BY <1>0, <1>4
  <2>4. \A n \in DOMAIN buf_' : \/ p + n \in Ends' /\ buf_'[n] = "NUL"
                                \/ p + n <= Len(file') /\ buf_'[n] = file'[p + n]
    <3> SUFFICES ASSUME NEW n \in DOMAIN buf_
                 PROVE  (p + n \in Ends /\ buf_'[n] = "NUL") \/ (p + n <= Len(file) /\ buf_'[n] = file[p + n])
      BY <1>0, <1>2, <2>2
    <3>1. CASE n = i
      BY <2>1, <2>3, <3>1
    <3>2. CASE n # i
      <4>1. buf_'[n] = buf_[n] /\ n > 0
        BY <1>1, <2>3, <3>2
      <4>2. (p + n \in Ends /\ buf_[n] = "NUL") \/ (p + n <= Len(file) /\ buf_[n] = file[p + n])
        BY <4>1 DEF Follows
      <4> QED
        BY <4>1, <4>2
    <3> QED
      BY <3>1, <3>2
  <2>5. Follows(C, K, p, 0)'
    BY <1>0, <1>2, <1>4, <2>2, <2>4 DEF Follows
  <2>6. ASSUME NEW k \in p + 1 .. p + (i - 1) PROVE k \notin Ends
    <3>1. k - p \in 1 .. i - 1 /\ k - p \in DOMAIN buf_ /\ p + (k - p) = k
      BY <1>0, <2>1
    <3> QED
      BY <1>1, <1>4, <3>1
  <2>7. /\ p + (i - 1) + 1 = p + i /\ i - 1 \in Nat /\ i - 1 < Len(buf_) /\ (i - 1) + 1 = i
        /\ buf_'[i] = "NUL"
    BY <1>0, <2>1, <2>3
  <2>8. NextIs(p, len)'
    BY <1>2, <1>4, <2>1, <2>2, <2>6, <2>7 DEF NextIs
  <2> QED
    BY <2>5, <2>8
<1>5. ASSUME call' = "line", UNCHANGED <<offset, hit_eof_>>,
             NoEnd(buf_), hit_eof_, Len(buf_) \in 1 .. K - 1,
             buf_' = Append(buf_, "NUL"), len' = Len(buf_)
      PROVE  Follows(C, K, p, 0)' /\ NextIs(p, len)'
  <2>1. Len(buf_) \in DOMAIN buf_ /\ p + Len(buf_) \notin Ends /\ offset = Len(file)
    BY <1>0, <1>1, <1>5 DEF NoEnd
  <2>2. p + Len(buf_) = Len(file)
    BY <1>0, <2>1
  <2>3. Len(file) + 1 \in Ends
    <3>1. Len(file) # 0 /\ Len(file) \notin Ends
      BY <1>0, <1>5, <2>1, <2>2, SMTT(20)
    <3> QED
      BY <3>1, EndsAre
  <2>4. buf_' \in Seq(C) /\ Len(buf_') = Len(buf_) + 1 /\ DOMAIN buf_' = 1 .. Len(buf_) + 1
    BY <1>0, <1>5
  <2>5. \A n \in DOMAIN buf_' : \/ p + n \in Ends' /\ buf_'[n] = "NUL"
                                \/ p + n <= Len(file') /\ buf_'[n] = file'[p + n]
    <3> SUFFICES ASSUME NEW n \in 1 .. Len(buf_) + 1
                 PROVE  (p + n \in Ends /\ buf_'[n] = "NUL") \/ (p + n <= Len(file) /\ buf_'[n] = file[p + n])
      BY <1>0, <1>2, <2>4
    <3>1. CASE n = Len(buf_) + 1
      <4>1. buf_'[n] = "NUL"
        BY <1>0, <1>5, <3>1
      <4>2. p + n = Len(file) + 1
        BY <1>0, <2>2, <3>1
      <4> QED
        BY <2>3, <4>1, <4>2
    <3>2. CASE n # Len(buf_) + 1
      <4>1. n \in DOMAIN buf_ /\ n > 0
        BY <1>0, <3>2
      <4>2. buf_'[n] = buf_[n]
        BY <1>0, <1>5, <4>1
      <4>3. (p + n \in Ends /\ buf_[n] = "NUL") \/ (p + n <= Len(file) /\ buf_[n] = file[p + n])
        BY <4>1 DEF Follows
      <4> QED
        BY <4>2, <4>3
    <3> QED
      BY <3>1, <3>2
  <2>6. p + Len(buf_') = Len(file) + 1 /\ Len(buf_') <= K
    BY <1>0, <1>5, <2>2, <2>4, SMTT(20)
  <2>7. Follows(C, K, p, 0)'
    BY <1>0, <1>2, <1>5, <2>1, <2>3, <2>4, <2>5, <2>6 DEF Follows
  <2>8. ASSUME NEW k \in p + 1 .. p + Len(buf_) PROVE k \notin Ends
    <3>1. k - p \in DOMAIN buf_ /\ p + (k - p) = k
      BY <1>0
    <3> QED
      BY <1>1, <1>5, <3>1 DEF NoEnd
  <2>9. /\ p + Len(buf_) + 1 = Len(file) + 1 /\ Len(buf_) < Len(buf_')
        /\ buf_'[Len(buf_) + 1] = "NUL"
    BY <1>0, <1>5, <2>2, <2>4, SMTT(20)
  <2>10. NextIs(p, len)'
    BY <1>0, <1>2, <1>5, <2>3, <2>8, <2>9 DEF NextIs
  <2> QED
    BY <2>7, <2>10
<1>6. ASSUME ~hit_eof_, Len(buf_) < K, NEW n \in Nat, n <= K - Len(buf_), n <= Len(file) - offset,
             n = 0 => offset = Len(file), buf_' = buf_ \o SubSeq(file, offset + 1, offset + n),
             offset' = offset + n, hit_eof_' = (n = 0)
      PROVE  Follows(C, K, p, 0)'
  <2> DEFINE more == SubSeq(file, offset + 1, offset + n)
  <2>1. p + Len(buf_) = offset /\ offset \in Nat /\ offset + n <= Len(file)
    BY <1>0, <1>6
  <2>2. more \in Seq(C) /\ Len(more) = n /\ \A k \in 1 .. n : more[k] = file[offset + k]
    <3>1. offset + 1 \in 1 .. Len(file) + 1 /\ offset + n \in 0 .. Len(file)
      BY <1>0, <2>1
    <3>2. more \in Seq(C)
      BY <3>1
    <3>3. Len(more) = n
      BY <1>0, <2>1
    <3>4. \A k \in 1 .. n : more[k] = file[offset + k]
      BY <1>0, <2>1
    <3> QED
      BY <3>2, <3>3, <3>4
  <2>3. buf_' = buf_ \o more
    BY <1>6
  <2> HIDE DEF more
  <2>4. /\ buf_' \in Seq(C) /\ Len(buf_') = Len(buf_) + n
        /\ \A k \in 1 .. Len(buf_) : buf_'[k] = buf_[k]
        /\ \A k \in 1 .. Len(buf_) + n : k > Len(buf_) => buf_'[k] = more[k - Len(buf_)]
    <3> HIDE <1>6
    <3>1. buf_' \in Seq(C) /\ Len(buf_') = Len(buf_) + n
      <4>1. buf_ \in Seq(C) /\ more \in Seq(C) /\ Len(more) = n
        BY <1>0, <2>2
      <4>2. buf_ \o more \in Seq(C) /\ Len(buf_ \o more) = Len(buf_) + Len(more)
        BY <4>1, ConcatProperties, Zenon
      <4> QED
        BY <2>3, <4>1, <4>2
    <3>2. \A k \in 1 .. Len(buf_) : buf_'[k] = buf_[k]
      BY <1>0, <2>2, <2>3
    <3>3. \A k \in 1 .. Len(buf_) + n : k > Len(buf_) => buf_'[k] = more[k - Len(buf_)]
      BY <1>0, <2>2, <2>3
    <3> QED
      BY <3>1, <3>2, <3>3
  <2>5. \A k \in DOMAIN buf_' : \/ p + k \in Ends' /\ buf_'[k] = "NUL"
                                \/ p + k <= Len(file') /\ buf_'[k] = file'[p + k]
    <3> SUFFICES ASSUME NEW k \in 1 .. Len(buf_) + n
                 PROVE  (p + k \in Ends /\ buf_'[k] = "NUL") \/ (p + k <= Len(file) /\ buf_'[k] = file[p + k])
      BY <1>0, <1>2, <2>4
    <3>1. CASE k <= Len(buf_)
      <4>1. k \in DOMAIN buf_ /\ k > 0 /\ buf_'[k] = buf_[k]
        BY <1>0, <2>4, <3>1
      <4>2. (p + k \in Ends /\ buf_[k] = "NUL") \/ (p + k <= Len(file) /\ buf_[k] = file[p + k])
        BY <4>1 DEF Follows
      <4> QED
        BY <4>1, <4>2
    <3>2. CASE k > Len(buf_)
      <4>1. k - Len(buf_) \in 1 .. n /\ offset + (k - Len(buf_)) = p + k /\ p + k <= Len(file)
        BY <1>0, <2>1, <3>2
      <4> QED
        BY <2>2, <2>4, <3>2, <4>1
    <3> QED
      BY <1>0, <3>1, <3>2
  <2>6. /\ Len(buf_') <= K /\ offset' \in 0 .. Len(file) /\ p + Len(buf_') = offset'
        /\ hit_eof_' \in BOOLEAN /\ (hit_eof_' => offset' = Len(file))
    <3>1. Len(buf_') <= K /\ p + Len(buf_') = offset + n
      <4>1. Len(buf_') = Len(buf_) + n /\ Len(buf_) \in Nat /\ n <= K - Len(buf_)
        BY <1>0, <1>6, <2>4
      <4> QED
        BY <2>1, <4>1
    <3>2. offset + n \in 0 .. Len(file)
      BY <1>0, <2>1
    <3>3. n = 0 => offset + n = Len(file)
      BY <1>0, <1>6
    <3> QED
      BY <1>6, <3>1, <3>2, <3>3
  <2> QED
    BY <1>0, <1>2, <2>4, <2>5, <2>6 DEF Follows
<1> QED
  <2>1. CASE call' = "false" /\ UNCHANGED <<offset, buf_, hit_eof_, len>>
    BY <1>3, <2>1
  <2>2. CASE /\ call' = "line" /\ UNCHANGED <<offset, hit_eof_>>
             /\ \E i \in DOMAIN buf_ :
                  /\ buf_[i] \in Ending /\ \A k \in 1 .. i - 1 : buf_[k] \notin Ending
                  /\ buf_' = [buf_ EXCEPT ![i] = "NUL"] /\ len' = i - 1
    BY <1>4, <2>2
  <2>3. CASE /\ call' = "line" /\ UNCHANGED <<offset, hit_eof_>>
             /\ NoEnd(buf_) /\ hit_eof_ /\ Len(buf_) \in 1 .. K - 1
             /\ buf_' = Append(buf_, "NUL") /\ len' = Len(buf_)
    BY <1>5, <2>3
  <2>4. CASE /\ Len(buf_) < K /\ ~hit_eof_ /\ UNCHANGED <<len, call>>
             /\ \E n \in Nat :
                  /\ n <= K - Len(buf_) /\ n <= Len(file) - offset /\ (n = 0 => offset = Len(file))
                  /\ buf_' = buf_ \o SubSeq(file, offset + 1, offset + n)
                  /\ offset' = offset + n /\ hit_eof_' = (n = 0)
    BY <1>0, <1>6, <2>4
  <2> QED
    BY <2>1, <2>2, <2>3, <2>4 DEF Turn

\* A part of a sequence.
LEMMA PartIs ==
  ASSUME NEW S, NEW s \in Seq(S), NEW m \in Nat, NEW n \in Nat, 1 <= m, m <= n + 1, n <= Len(s)
  PROVE  /\ SubSeq(s, m, n) \in Seq(S) /\ Len(SubSeq(s, m, n)) = n - m + 1
         /\ \A i \in 1 .. n - m + 1 : SubSeq(s, m, n)[i] = s[m + i - 1]
<1>1. \A i \in m .. n : s[i] \in S
  OBVIOUS
<1>2. m \in Int /\ n \in Int
  OBVIOUS
<1>3. /\ SubSeq(s, m, n) \in Seq(S) /\ Len(SubSeq(s, m, n)) = IF m <= n THEN n - m + 1 ELSE 0
      /\ \A i \in 1 .. n - m + 1 : SubSeq(s, m, n)[i] = s[m + i - 1]
  BY <1>1, <1>2, SubSeqProperties
<1>4. ~(m <= n) => n - m + 1 = 0
  OBVIOUS
<1> QED
  BY <1>3, <1>4

\* A line that is popped is left behind.
LEMMA PopKeeps ==
  ASSUME NEW C, file \in Seq(C), NEW K \in Nat, NEW p \in Nat, NEW j \in Nat, NEW n, j <= n + 1,
         Follows(C, K, p, j), NextIs(p, n), file' = file, offset' = offset, hit_eof_' = hit_eof_,
         buf_' = SubSeq(buf_, n + 2, Len(buf_))
  PROVE  Follows(C, K, p + n + 1, 0)'
<1>0. /\ Len(file) \in Nat /\ Len(buf_) \in Nat /\ n \in Nat /\ n < Len(buf_)
      /\ buf_ \in Seq(C) /\ Len(buf_) <= K /\ offset \in 0 .. Len(file)
      /\ hit_eof_ \in BOOLEAN /\ (hit_eof_ => offset = Len(file))
      /\ \/ p + Len(buf_) = offset
         \/ hit_eof_ /\ p + Len(buf_) = Len(file) + 1 /\ Len(file) + 1 \in Ends
      /\ DOMAIN buf_ = 1 .. Len(buf_)
  BY DEF NextIs, Follows
<1>1. Ends' = Ends
  BY DEF Ends
<1>2. /\ buf_' \in Seq(C) /\ Len(buf_') = Len(buf_) - (n + 1)
      /\ \A i \in 1 .. Len(buf_) - (n + 1) : buf_'[i] = buf_[i + (n + 1)]
  <2>1. n + 2 \in Nat /\ 1 <= n + 2 /\ n + 2 <= Len(buf_) + 1 /\ Len(buf_) <= Len(buf_)
    BY <1>0
  <2>2. Len(buf_) - (n + 2) + 1 = Len(buf_) - (n + 1) /\ \A i \in Nat : (n + 2) + i - 1 = i + (n + 1)
    BY <1>0
  <2>3. /\ buf_' \in Seq(C) /\ Len(buf_') = Len(buf_) - (n + 2) + 1
        /\ \A i \in 1 .. Len(buf_) - (n + 2) + 1 : buf_'[i] = buf_[(n + 2) + i - 1]
    <3> DEFINE b == buf_
    <3>1. b \in Seq(C) /\ Len(b) \in Nat /\ buf_' = SubSeq(b, n + 2, Len(b))
      BY <1>0
    <3>2. n + 2 \in Nat /\ 1 <= n + 2 /\ n + 2 <= Len(b) + 1 /\ Len(b) <= Len(b)
      BY <2>1
    <3> HIDE DEF b
    <3>3. /\ SubSeq(b, n + 2, Len(b)) \in Seq(C) /\ Len(SubSeq(b, n + 2, Len(b))) = Len(b) - (n + 2) + 1
          /\ \A i \in 1 .. Len(b) - (n + 2) + 1 : SubSeq(b, n + 2, Len(b))[i] = b[(n + 2) + i - 1]
      BY <3>1, <3>2, PartIs, ZenonT(30)
    <3> QED
      BY <3>1, <3>3 DEF b
  <2>4. \A i \in 1 .. Len(buf_) - (n + 1) : i \in Nat
    BY <1>0
  <2> QED
    BY <2>2, <2>3, <2>4
<1>3. (p + n + 1) + Len(buf_') = p + Len(buf_) /\ Len(buf_') <= K
  <2>1. Len(buf_') = Len(buf_) - (n + 1)
    BY <1>2
  <2>2. Len(buf_) \in Nat /\ n \in Nat /\ Len(buf_) <= K
    BY <1>0
  <2> HIDE <1>0
  <2>3. \A l \in Nat : l = Len(buf_) - (n + 1) => (p + n + 1) + l = p + Len(buf_) /\ l <= K
    BY <2>2
  <2>4. Len(buf_) - (n + 1) \in Nat
    BY <1>0
  <2> QED
    BY <2>1, <2>3, <2>4
<1>4. \A i \in DOMAIN buf_' :
        \/ (p + n + 1) + i \in Ends' /\ buf_'[i] = "NUL"
        \/ (p + n + 1) + i <= Len(file') /\ buf_'[i] = file'[(p + n + 1) + i]
  <2> SUFFICES ASSUME NEW i \in 1 .. Len(buf_) - (n + 1)
               PROVE  \/ (p + n + 1) + i \in Ends /\ buf_'[i] = "NUL"
                      \/ (p + n + 1) + i <= Len(file) /\ buf_'[i] = file[(p + n + 1) + i]
    <3>1. DOMAIN buf_' = 1 .. Len(buf_) - (n + 1)
      BY <1>2
    <3> QED
      BY <1>0, <1>1, <3>1
  <2>1. i + (n + 1) \in DOMAIN buf_ /\ i + (n + 1) > j /\ p + (i + (n + 1)) = (p + n + 1) + i
    BY <1>0
  <2>2. \/ p + (i + (n + 1)) \in Ends /\ buf_[i + (n + 1)] = "NUL"
        \/ p + (i + (n + 1)) <= Len(file) /\ buf_[i + (n + 1)] = file[p + (i + (n + 1))]
    BY <2>1 DEF Follows
  <2> QED
    BY <1>2, <2>1, <2>2
<1> QED
  BY <1>0, <1>1, <1>2, <1>3, <1>4 DEF Follows

LinesIInv ==
  /\ file \in Lines!Files
  /\ call \in {"none", "running", "line", "false"} /\ len \in 0 .. LineLen
  /\ \A c : Counts(c) => \E p \in {0} \cup Ends :
       c[p] = popped /\ Follows(LineChars, LineLen, p, 0) /\ (call = "line" => NextIs(p, len))

LEMMA LineNumbers ==
  /\ LineLen \in Nat \ {0} /\ FieldLineLen \in Nat \ {0} /\ MaxFile \in Nat
  /\ "NUL" \in LineChars /\ "NUL" \in FieldChars
  /\ Lines!Files = UNION {[1 .. n -> LineChars] : n \in 0 .. MaxFile}
  /\ CpuInfo!Files = UNION {[1 .. n -> FieldChars] : n \in 0 .. MaxFile}
<1>1. /\ LineLen \in Nat \ {0} /\ FieldLineLen \in Nat \ {0} /\ MaxFile \in Nat
      /\ "NUL" \in LineChars /\ "NUL" \in FieldChars
  BY MemoryObjectsAssumption DEF Lines!LineReaderAssumption, CpuInfo!LineReaderAssumption
<1> QED
  BY <1>1 DEF Lines!Files, CpuInfo!Files

LEMMA FilesAre ==
  ASSUME NEW C, file \in UNION {[1 .. n -> C] : n \in 0 .. MaxFile}
  PROVE  file \in Seq(C) /\ Len(file) \in 0 .. MaxFile
<1>1. PICK n \in 0 .. MaxFile : file \in [1 .. n -> C]
  OBVIOUS
<1>2. n \in Nat
  BY LineNumbers
<1> QED
  BY <1>1, <1>2

\* At the beginning the buffer is empty.
LEMMA ReaderBegins ==
  ASSUME NEW C, file \in Seq(C), NEW K \in Nat, offset = 0, buf_ = << >>, hit_eof_ = FALSE
  PROVE  Follows(C, K, 0, 0)
<1>1. /\ buf_ \in Seq(C) /\ Len(buf_) = 0 /\ Len(buf_) <= K /\ offset \in 0 .. Len(file)
      /\ 0 + Len(buf_) = offset
  OBVIOUS
<1>2. DOMAIN buf_ = {}
  OBVIOUS
<1> QED
  BY <1>1, <1>2 DEF Follows

LEMMA LinesInit ==
  ASSUME file \in Lines!Files, offset = 0, buf_ = << >>, hit_eof_ = FALSE, len = 0,
         call = "none", popped = 0
  PROVE  LinesIInv
<1>1. file \in Seq(LineChars) /\ LineLen \in Nat
  BY LineNumbers, FilesAre
<1>2. Follows(LineChars, LineLen, 0, 0)
  BY <1>1, ReaderBegins
<1>3. \A c : Counts(c) => c[0] = popped
  BY DEF Counts
<1>4. len \in 0 .. LineLen
  BY <1>1
<1> QED
  BY <1>2, <1>3, <1>4 DEF LinesIInv

\* An end that follows another one counts one more.
LEMMA NextCounts ==
  ASSUME NEW C, file \in Seq(C), NEW c, Counts(c), NEW p \in {0} \cup Ends, NEW n, NextIs(p, n)
  PROVE  /\ p \in Nat /\ n \in Nat /\ p + n + 1 \in Ends /\ c[p + n + 1] = c[p] + 1
         /\ Lines!LineAt(p + n + 1) = SubSeq(file, p + 1, p + n)
         /\ CpuInfo!LineAt(p + n + 1) = SubSeq(file, p + 1, p + n)
<1>1. /\ n \in Nat /\ p + n + 1 \in Ends /\ p \in 0 .. Len(file) + 1
      /\ Len(file) \in Nat /\ \A i \in p + 1 .. p + n : i \notin Ends
  BY EndsAre DEF NextIs
<1>2. p < p + n + 1 /\ (p + n + 1) - 1 = p + n
  BY <1>1
<1>3. \A i \in p + 1 .. (p + n + 1) - 1 : i \notin Ends
  BY <1>1, <1>2
<1>4. c[p + n + 1] = c[p] + 1
  BY <1>1, <1>2, <1>3, CountGrows
<1>5. /\ Lines!LineAt(p + n + 1) = SubSeq(file, p + 1, (p + n + 1) - 1)
      /\ CpuInfo!LineAt(p + n + 1) = SubSeq(file, p + 1, (p + n + 1) - 1)
  BY <1>1, <1>2, <1>3, LineIs
<1> QED
  BY <1>1, <1>2, <1>4, <1>5

LEMMA LinesNext == LinesIInv /\ [Lines!Next]_Lines!vars => LinesIInv'
<1> SUFFICES ASSUME LinesIInv, [Lines!Next]_Lines!vars PROVE LinesIInv'
  OBVIOUS
<1>0. /\ file \in Lines!Files /\ file \in Seq(LineChars) /\ Len(file) \in Nat
      /\ LineLen \in Nat /\ "NUL" \in LineChars
      /\ call \in {"none", "running", "line", "false"} /\ len \in 0 .. LineLen
  BY LineNumbers, FilesAre DEF LinesIInv
<1>1. file' = file
  BY DEF Lines!Next, Lines!Call, Lines!GetNextLine, Lines!Pop, Lines!PopLine, Lines!vars
<1>2. Lines!Files' = Lines!Files /\ Ends' = Ends /\ \A c : Counts(c)' => Counts(c)
  BY <1>1 DEF Lines!Files, Ends, Counts
<1> DEFINE Good(c, p) == /\ c[p] = popped /\ Follows(LineChars, LineLen, p, 0)
                         /\ call = "line" => NextIs(p, len)
<1>3. \A c : Counts(c) => \E p \in {0} \cup Ends : Good(c, p)
  BY DEF LinesIInv
<1>4. ASSUME NEW c, Counts(c)
      PROVE  /\ \E p \in {0} \cup Ends : Good(c, p)'
             /\ call' \in {"none", "running", "line", "false"} /\ len' \in 0 .. LineLen
  <2>1. PICK p \in {0} \cup Ends : Good(c, p)
    BY <1>3, <1>4
  <2>2. p \in Nat
    BY <1>0, EndsAre
  <2>3. CASE UNCHANGED Lines!vars
    <3>1. /\ offset' = offset /\ buf_' = buf_ /\ hit_eof_' = hit_eof_ /\ len' = len
          /\ call' = call /\ popped' = popped
      BY <2>3 DEF Lines!vars, Lines!reader
    <3>2. Good(c, p)'
      BY <1>1, <1>2, <2>1, <3>1 DEF Follows, NextIs
    <3> QED
      BY <1>0, <3>1, <3>2
  <2>4. CASE Lines!Call
    <3>1. /\ offset' = offset /\ buf_' = buf_ /\ hit_eof_' = hit_eof_ /\ len' = len
          /\ call' = "running" /\ popped' = popped
      BY <2>4 DEF Lines!Call, Lines!reader
    <3>2. Good(c, p)'
      BY <1>1, <1>2, <2>1, <3>1 DEF Follows
    <3> QED
      BY <1>0, <3>1, <3>2
  <2>5. CASE Lines!GetNextLine
    <3>1. Turn(LineLen)
      BY <1>0, <2>1, <2>5, LinesTurn DEF Follows
    <3>2. /\ Follows(LineChars, LineLen, p, 0)' /\ (call' = "line" => NextIs(p, len)')
          /\ call' \in {"running", "line", "false"} /\ (call' # "line" => len' = len)
      BY <1>0, <2>1, <2>2, <3>1, TurnKeeps
    <3>3. popped' = popped
      BY <3>1 DEF Turn
    <3>4. Good(c, p)'
      BY <2>1, <3>2, <3>3
    <3>5. len' \in 0 .. LineLen
      <4>1. CASE call' = "line"
        <5>1. /\ len' \in Nat /\ len' < Len(buf_') /\ Len(buf_') <= LineLen
              /\ buf_' \in Seq(LineChars)
          BY <3>2, <4>1 DEF NextIs, Follows
        <5> QED
          BY <1>0, <5>1
      <4> QED
        BY <1>0, <3>2, <4>1
    <3> QED
      BY <3>2, <3>4, <3>5
  <2>6. CASE Lines!Pop
    <3>1. /\ call = "line" /\ call' = "none" /\ buf_' = SubSeq(buf_, len + 2, Len(buf_))
          /\ popped' = popped + 1 /\ offset' = offset /\ hit_eof_' = hit_eof_ /\ len' = len
      BY <2>6 DEF Lines!Pop, Lines!PopLine
    <3>2. NextIs(p, len) /\ Follows(LineChars, LineLen, p, 0)
      BY <2>1, <3>1
    <3>3. p + len + 1 \in Ends /\ c[p + len + 1] = c[p] + 1 /\ 0 <= len + 1
      BY <1>0, <1>4, <3>2, NextCounts
    <3>4. Follows(LineChars, LineLen, p + len + 1, 0)'
      <4> DEFINE n == len
      <4>1. NextIs(p, n) /\ buf_' = SubSeq(buf_, n + 2, Len(buf_)) /\ 0 <= n + 1 /\ n' = n
        BY <3>1, <3>2, <3>3
      <4>2. p + len' + 1 = p + n + 1
        BY <4>1
      <4> QED
        BY <1>0, <1>1, <2>2, <3>1, <3>2, <4>1, <4>2, PopKeeps
    <3>5. Good(c, p + len + 1)'
      BY <2>1, <3>1, <3>3, <3>4
    <3> QED
      BY <1>0, <3>1, <3>3, <3>5
  <2> QED
    BY <2>3, <2>4, <2>5, <2>6 DEF Lines!Next
<1>5. PICK c : Counts(c)
  BY <1>0, CountsBegin
<1>6. call' \in {"none", "running", "line", "false"} /\ len' \in 0 .. LineLen
  BY <1>4, <1>5
<1>7. ASSUME NEW d, Counts(d)' PROVE \E p \in {0} \cup Ends' : Good(d, p)'
  BY <1>2, <1>4, <1>7
<1> QED
  BY <1>0, <1>1, <1>2, <1>6, <1>7 DEF LinesIInv

\* In a line that has its end in the buffer, the buffer is as the file.
LEMMA LineInBuffer ==
  ASSUME NEW C, file \in Seq(C), NEW K, NEW p \in {0} \cup Ends, NEW n, Follows(C, K, p, 0), NextIs(p, n)
  PROVE  /\ SubSeq(buf_, 1, n) = SubSeq(file, p + 1, p + n)
         /\ SubSeq(buf_, 1, n) \in Seq(C) /\ Len(SubSeq(buf_, 1, n)) = n
         /\ \A i \in 1 .. n : SubSeq(buf_, 1, n)[i] = buf_[i] /\ buf_[i] \notin Ending
<1> DEFINE b == buf_
           f == file
<1>0. /\ Len(f) \in Nat /\ Len(b) \in Nat /\ n \in Nat /\ n < Len(b) /\ p \in Nat
      /\ b \in Seq(C) /\ f \in Seq(C) /\ p + n + 1 <= Len(f) + 1
      /\ \A i \in p + 1 .. p + n : i \notin Ends
  BY EndsAre DEF NextIs, Follows
<1>1. \A i \in 1 .. n : b[i] \notin Ending /\ b[i] = f[p + i]
  <2> SUFFICES ASSUME NEW i \in 1 .. n PROVE b[i] \notin Ending /\ b[i] = f[p + i]
    OBVIOUS
  <2>1. i \in DOMAIN buf_ /\ i > 0 /\ p + i \in p + 1 .. p + n
    BY <1>0
  <2>2. p + i \notin Ends
    BY <1>0, <2>1
  <2> QED
    BY <1>0, <2>1, <2>2, EndsInBuffer
<1> HIDE DEF b, f
<1>2. /\ SubSeq(b, 1, n) \in Seq(C) /\ Len(SubSeq(b, 1, n)) = n - 1 + 1
      /\ \A i \in 1 .. n - 1 + 1 : SubSeq(b, 1, n)[i] = b[1 + i - 1]
  <2>1. b \in Seq(C) /\ n \in Nat /\ 1 \in Nat /\ 1 <= 1 /\ 1 <= n + 1 /\ n <= Len(b)
    BY <1>0
  <2> QED
    BY <2>1, PartIs, ZenonT(30)
<1>3. /\ SubSeq(f, p + 1, p + n) \in Seq(C) /\ Len(SubSeq(f, p + 1, p + n)) = (p + n) - (p + 1) + 1
      /\ \A i \in 1 .. (p + n) - (p + 1) + 1 : SubSeq(f, p + 1, p + n)[i] = f[(p + 1) + i - 1]
  <2>1. /\ f \in Seq(C) /\ p + 1 \in Nat /\ p + n \in Nat /\ 1 <= p + 1 /\ p + 1 <= (p + n) + 1
        /\ p + n <= Len(f)
    BY <1>0
  <2> QED
    BY <2>1, PartIs, ZenonT(30)
<1>4. n - 1 + 1 = n /\ (p + n) - (p + 1) + 1 = n
  BY <1>0
<1>5. \A i \in 1 .. n : 1 + i - 1 = i /\ (p + 1) + i - 1 = p + i
  BY <1>0
<1>6. \A i \in 1 .. n : SubSeq(b, 1, n)[i] = b[i] /\ SubSeq(f, p + 1, p + n)[i] = f[p + i]
  BY <1>2, <1>3, <1>4, <1>5
<1>7. SubSeq(b, 1, n) = SubSeq(f, p + 1, p + n)
  <2>1. Len(SubSeq(b, 1, n)) = Len(SubSeq(f, p + 1, p + n))
    BY <1>2, <1>3, <1>4
  <2>2. \A i \in 1 .. Len(SubSeq(b, 1, n)) : SubSeq(b, 1, n)[i] = SubSeq(f, p + 1, p + n)[i]
    BY <1>1, <1>2, <1>4, <1>6
  <2> QED
    BY <1>2, <1>3, <2>1, <2>2, SeqEqual, Zenon
<1> QED
  BY <1>1, <1>2, <1>4, <1>6, <1>7 DEF b, f

\* Some end comes, unless there is nothing more.
LEMMA NextEnd ==
  ASSUME NEW C, file \in Seq(C), NEW p \in Nat, p < Len(file)
  PROVE  \E q \in Ends : p < q /\ \A i \in p + 1 .. q - 1 : i \notin Ends
<1>0. Len(file) \in Nat /\ Ends \subseteq 1 .. Len(file) + 1
  BY EndsAre
<1> DEFINE T == {q \in Ends : p < q}
<1>1. T # {}
  <2>1. Len(file) # 0
    BY <1>0
  <2>2. Len(file) \in Ends \/ Len(file) + 1 \in Ends
    BY <2>1, EndsAre
  <2>3. p < Len(file) /\ p < Len(file) + 1
    BY <1>0
  <2> QED
    BY <2>2, <2>3
<1>2. T \in SUBSET Nat
  <2>1. \A q \in Ends : q \in Nat
    BY <1>0
  <2> QED
    BY <2>1
<1>3. PICK q \in T : \A y \in T : q <= y
  <2> HIDE DEF T
  <2> QED
    BY <1>1, <1>2, LeastNumber, Zenon
<1>4. q \in Ends /\ p < q /\ q \in Nat
  BY <1>2, <1>3
<1>5. ASSUME NEW i \in p + 1 .. q - 1 PROVE i \notin Ends
  <2> SUFFICES ASSUME i \in Ends PROVE FALSE
    OBVIOUS
  <2>1. i \in T /\ i < q /\ i \in Nat
    BY <1>4
  <2> QED
    BY <1>3, <1>4, <2>1
<1> QED
  BY <1>4, <1>5

LEMMA LinesMean == LinesIInv => Lines!TypeOK /\ Lines!LinesInOrder /\ Lines!NoLineLost
<1> SUFFICES ASSUME LinesIInv PROVE Lines!TypeOK /\ Lines!LinesInOrder /\ Lines!NoLineLost
  OBVIOUS
<1>0. /\ file \in Lines!Files /\ file \in Seq(LineChars) /\ Len(file) \in 0 .. MaxFile
      /\ LineLen \in Nat \ {0} /\ Len(file) \in Nat
      /\ call \in {"none", "running", "line", "false"} /\ len \in 0 .. LineLen
  BY LineNumbers, FilesAre DEF LinesIInv
<1> DEFINE c == Lines!LinesUpTo
<1>1. Counts(c)
  BY <1>0, LinesAreCounted
<1> HIDE DEF c
<1>2. PICK p \in {0} \cup Ends :
        c[p] = popped /\ Follows(LineChars, LineLen, p, 0) /\ (call = "line" => NextIs(p, len))
  BY <1>1 DEF LinesIInv
<1>3. p \in 0 .. Len(file) + 1
  BY <1>0, EndsAre
<1>4. Lines!TypeOK
  <2>1. popped \in 0 .. MaxFile
    <3>1. popped \in 0 .. Len(file)
      BY <1>0, <1>1, <1>2, LinesAreFew
    <3>2. \A x \in 0 .. Len(file) : x \in 0 .. MaxFile
      BY <1>0, LineNumbers
    <3> QED
      BY <3>1, <3>2
  <2>2. /\ buf_ \in Seq(LineChars) /\ Len(buf_) <= LineLen /\ offset \in 0 .. Len(file)
        /\ hit_eof_ \in BOOLEAN
    BY <1>2 DEF Follows
  <2> QED
    BY <1>0, <2>1, <2>2 DEF Lines!TypeOK
<1>5. Lines!LinesInOrder
  <2> SUFFICES ASSUME call = "line"
               PROVE  \E q \in Lines!LineEnds : Lines!LinesUpTo[q] = popped + 1 /\ SubSeq(buf_, 1, len) = Lines!LineAt(q)
    BY DEF Lines!LinesInOrder
  <2>1. NextIs(p, len) /\ Follows(LineChars, LineLen, p, 0)
    BY <1>2
  <2>2. p + len + 1 \in Ends /\ c[p + len + 1] = popped + 1
    BY <1>0, <1>1, <1>2, <2>1, NextCounts
  <2>3. Lines!LineAt(p + len + 1) = SubSeq(file, p + 1, p + len)
    BY <1>0, <1>1, <2>1, NextCounts
  <2>4. SubSeq(buf_, 1, len) = SubSeq(file, p + 1, p + len)
    <3>1. p \in {0} \cup Ends /\ file \in Seq(LineChars)
      BY <1>0, <1>2
    <3> QED
      BY <2>1, <3>1, LineInBuffer, SMTT(30)
  <2>5. Lines!LineEnds = Ends
    BY <1>0, EndsAre
  <2> QED
    BY <2>2, <2>3, <2>4, <2>5 DEF c
<1>6. ASSUME hit_eof_, buf_ = << >> PROVE popped = Lines!LinesUpTo[Len(file) + 1]
  <2>1. p = Len(file) \/ p = Len(file) + 1
    BY <1>0, <1>2, <1>3, <1>6 DEF Follows
  <2>2. CASE p = Len(file) + 1
    BY <1>2, <2>2 DEF c
  <2>3. CASE p = Len(file)
    <3>1. Len(file) + 1 \notin Ends
      BY <1>0, <1>2, <2>3, EndsAre
    <3>2. Len(file) + 1 \in 1 .. Len(file) + 1 /\ (Len(file) + 1) - 1 = p /\ c[p] \in Nat
      BY <1>0, <1>1, <1>3, <2>3 DEF Counts
    <3>3. c[Len(file) + 1] = c[p] + 0
      BY <1>1, <3>1, <3>2 DEF Counts
    <3> QED
      BY <1>2, <3>2, <3>3 DEF c
  <2> QED
    BY <2>1, <2>2, <2>3
<1>7. ASSUME Lines!Terminators(buf_) = {}, Len(buf_) = LineLen
      PROVE  \E q \in Lines!LineEnds : Lines!LinesUpTo[q] = popped + 1 /\ Len(Lines!LineAt(q)) >= LineLen
  <2>1. buf_ \in Seq(LineChars) /\ DOMAIN buf_ = 1 .. LineLen /\ Follows(LineChars, LineLen, p, 0)
    BY <1>2, <1>7 DEF Follows
  <2>2. \A i \in 1 .. LineLen : p + i \notin Ends /\ p + i \in 1 .. Len(file)
    <3> SUFFICES ASSUME NEW i \in 1 .. LineLen PROVE p + i \notin Ends /\ p + i \in 1 .. Len(file)
      OBVIOUS
    <3>1. i \in DOMAIN buf_ /\ i > 0 /\ p \in Nat
      BY <1>0, <1>3, <2>1
    <3>2. buf_[i] \notin Ending
      BY <1>7, <3>1 DEF Lines!Terminators, Ending
    <3> QED
      BY <1>0, <2>1, <3>1, <3>2, EndsInBuffer
  <2>3. LineLen \in 1 .. LineLen /\ p < Len(file) /\ p \in Nat
    <3>1. LineLen \in 1 .. LineLen
      BY <1>0
    <3> QED
      BY <1>0, <1>3, <2>2, <3>1
  <2>4. PICK q \in Ends : p < q /\ \A i \in p + 1 .. q - 1 : i \notin Ends
    BY <1>0, <2>3, NextEnd
  <2>5. q \in Nat /\ q <= Len(file) + 1
    BY <1>0, EndsAre
  <2>6. ~(q <= p + LineLen)
    <3> SUFFICES ASSUME q <= p + LineLen PROVE FALSE
      OBVIOUS
    <3>1. q - p \in 1 .. LineLen /\ p + (q - p) = q
      BY <1>0, <2>3, <2>4, <2>5
    <3> QED
      BY <2>2, <3>1
  <2>7. c[q] = popped + 1
    BY <1>0, <1>1, <1>2, <1>3, <2>4, CountGrows
  <2>8. Lines!LineAt(q) = SubSeq(file, p + 1, q - 1)
    BY <1>0, <2>4, LineIs
  <2>9. Len(SubSeq(file, p + 1, q - 1)) = (q - 1) - (p + 1) + 1
    <3>1. /\ file \in Seq(LineChars) /\ p + 1 \in Nat /\ q - 1 \in Nat /\ 1 <= p + 1
          /\ p + 1 <= (q - 1) + 1 /\ q - 1 <= Len(file)
      BY <1>0, <2>3, <2>4, <2>5
    <3> QED
      BY <3>1, PartIs, ZenonT(30)
  <2>10. (q - 1) - (p + 1) + 1 >= LineLen
    BY <1>0, <2>3, <2>5, <2>6
  <2>11. Lines!LineEnds = Ends
    BY <1>0, EndsAre
  <2> QED
    BY <2>7, <2>8, <2>9, <2>10, <2>11 DEF c
<1> QED
  BY <1>4, <1>5, <1>6, <1>7 DEF Lines!NoLineLost

\* ProcCpuInfoReader.
FieldSet == [name : Seq(FieldChars), value : Seq(FieldChars)]

\* The first colon of a line that has one.
LEMMA ColonIs ==
  ASSUME NEW C, NEW line \in Seq(C), CpuInfo!Colons(line) # {}
  PROVE  /\ CpuInfo!Min(CpuInfo!Colons(line)) \in 1 .. Len(line)
         /\ line[CpuInfo!Min(CpuInfo!Colons(line))] = ":"
<1> DEFINE T == CpuInfo!Colons(line)
<1>1. T \subseteq 0 .. Len(line) /\ Len(line) \in Nat /\ T # {}
  BY DEF CpuInfo!Colons
<1>2. CpuInfo!Min(T) \in T
  <2> HIDE DEF T
  <2> QED
    BY <1>1, MinMaxAre
<1> QED
  BY <1>2 DEF CpuInfo!Colons

\* The name is what is before the colon, up to the last character that is no
\* space.
LEMMA NameIs ==
  ASSUME NEW C, NEW line \in Seq(C), CpuInfo!Colons(line) # {}
  PROVE  LET k == CpuInfo!Min(CpuInfo!Colons(line))
         IN \E m \in 0 .. k - 1 :
              /\ CpuInfo!Name(line) = SubSeq(line, 1, m)
              /\ CpuInfo!Name(line) \in Seq(C) /\ Len(CpuInfo!Name(line)) = m
              /\ \A i \in 1 .. m : CpuInfo!Name(line)[i] = line[i]
              /\ m > 0 => line[m] # "space"
              /\ \A i \in m + 1 .. k - 1 : line[i] = "space"
<1> DEFINE k == CpuInfo!Min(CpuInfo!Colons(line))
<1>1. k \in 1 .. Len(line) /\ Len(line) \in Nat /\ k - 1 \in Nat /\ k - 1 <= Len(line)
  BY ColonIs
<1> HIDE DEF k
<1> DEFINE before == SubSeq(line, 1, k - 1)
<1>2. /\ before \in Seq(C) /\ Len(before) = k - 1 /\ DOMAIN before = 1 .. k - 1
      /\ \A i \in 1 .. k - 1 : before[i] = line[i]
  <2>1. 1 \in Nat /\ 1 <= 1 /\ 1 <= (k - 1) + 1
    BY <1>1
  <2>2. /\ before \in Seq(C) /\ Len(before) = (k - 1) - 1 + 1
        /\ \A i \in 1 .. (k - 1) - 1 + 1 : before[i] = line[1 + i - 1]
    BY <1>1, <2>1, PartIs
  <2>3. (k - 1) - 1 + 1 = k - 1 /\ \A i \in 1 .. k - 1 : 1 + i - 1 = i
    BY <1>1
  <2> HIDE DEF before
  <2>4. DOMAIN before = 1 .. k - 1
    BY <2>2, <2>3
  <2> QED
    BY <2>2, <2>3, <2>4
<1> HIDE DEF before
<1> DEFINE T == CpuInfo!NonSpaces(before) \cup {0}
           m == CpuInfo!Max(T)
<1>3. T = {i \in 1 .. k - 1 : line[i] # "space"} \cup {0}
  BY <1>2 DEF CpuInfo!NonSpaces
<1>4. m \in T /\ \A y \in T : m >= y
  <2>1. T \subseteq 0 .. k - 1 /\ T # {}
    BY <1>1, <1>3
  <2> HIDE DEF T
  <2> QED
    BY <1>1, <2>1, MinMaxAre
<1>5. CpuInfo!Name(line) = SubSeq(before, 1, m)
  BY DEF CpuInfo!Name, before, k
<1> HIDE DEF T, m
<1>6. m \in 0 .. k - 1 /\ (m > 0 => line[m] # "space")
  BY <1>1, <1>3, <1>4
<1>7. ASSUME NEW i \in m + 1 .. k - 1 PROVE line[i] = "space"
  <2>1. i \in 1 .. k - 1 /\ ~(m >= i)
    BY <1>1, <1>6
  <2>2. i \notin T
    BY <1>4, <2>1
  <2> QED
    BY <1>3, <2>1, <2>2
<1>8. /\ SubSeq(before, 1, m) \in Seq(C) /\ Len(SubSeq(before, 1, m)) = m
      /\ \A i \in 1 .. m : SubSeq(before, 1, m)[i] = line[i]
  <2>1. 1 \in Nat /\ 1 <= 1 /\ 1 <= m + 1 /\ m \in Nat /\ m <= Len(before) /\ before \in Seq(C)
    BY <1>1, <1>2, <1>6
  <2>2. /\ SubSeq(before, 1, m) \in Seq(C) /\ Len(SubSeq(before, 1, m)) = m - 1 + 1
        /\ \A i \in 1 .. m - 1 + 1 : SubSeq(before, 1, m)[i] = before[1 + i - 1]
    BY <2>1, PartIs, ZenonT(30)
  <2>3. m - 1 + 1 = m /\ \A i \in 1 .. m : 1 + i - 1 = i /\ i \in 1 .. k - 1
    BY <1>1, <1>6
  <2>4. \A i \in 1 .. m : SubSeq(before, 1, m)[i] = before[i]
    BY <2>2, <2>3
  <2>5. Len(SubSeq(before, 1, m)) = m
    BY <2>2, <2>3
  <2> QED
    BY <1>2, <2>2, <2>3, <2>4, <2>5
<1>9. /\ SubSeq(line, 1, m) \in Seq(C) /\ Len(SubSeq(line, 1, m)) = m
      /\ \A i \in 1 .. m : SubSeq(line, 1, m)[i] = line[i]
  <2>1. 1 \in Nat /\ 1 <= 1 /\ 1 <= m + 1 /\ m \in Nat /\ m <= Len(line) /\ line \in Seq(C)
    BY <1>1, <1>6
  <2>2. /\ SubSeq(line, 1, m) \in Seq(C) /\ Len(SubSeq(line, 1, m)) = m - 1 + 1
        /\ \A i \in 1 .. m - 1 + 1 : SubSeq(line, 1, m)[i] = line[1 + i - 1]
    BY <2>1, PartIs, ZenonT(30)
  <2>3. m - 1 + 1 = m /\ \A i \in 1 .. m : 1 + i - 1 = i
    BY <1>1, <1>6
  <2>4. \A i \in 1 .. m : SubSeq(line, 1, m)[i] = line[i]
    BY <2>2, <2>3
  <2>5. Len(SubSeq(line, 1, m)) = m
    BY <2>2, <2>3
  <2> QED
    BY <2>2, <2>4, <2>5
<1>10. SubSeq(before, 1, m) = SubSeq(line, 1, m)
  <2>1. \A i \in 1 .. m : SubSeq(before, 1, m)[i] = SubSeq(line, 1, m)[i]
    BY <1>8, <1>9
  <2>2. /\ Len(SubSeq(before, 1, m)) = Len(SubSeq(line, 1, m))
        /\ \A i \in 1 .. Len(SubSeq(before, 1, m)) : SubSeq(before, 1, m)[i] = SubSeq(line, 1, m)[i]
    BY <1>8, <1>9, <2>1
  <2> QED
    BY <1>8, <1>9, <2>2, SeqEqual, Zenon
<1> QED
  BY <1>5, <1>6, <1>7, <1>8, <1>10 DEF k

\* The value begins at the first character behind the colon that is no space.
LEMMA ValueIs ==
  ASSUME NEW C, NEW line \in Seq(C), CpuInfo!Colons(line) # {}
  PROVE  LET k == CpuInfo!Min(CpuInfo!Colons(line))
             v == CpuInfo!ValueAt(line)
         IN /\ v \in k + 1 .. Len(line) + 1
            /\ v <= Len(line) => line[v] # "space"
            /\ \A i \in k + 1 .. v - 1 : line[i] = "space"
<1> DEFINE k == CpuInfo!Min(CpuInfo!Colons(line))
<1>1. k \in 1 .. Len(line) /\ Len(line) \in Nat /\ DOMAIN line = 1 .. Len(line)
  BY ColonIs
<1> DEFINE T == {i \in CpuInfo!NonSpaces(line) : i > k} \cup {Len(line) + 1}
           v == CpuInfo!Min(T)
<1>2. CpuInfo!ValueAt(line) = v
  BY DEF CpuInfo!ValueAt
<1> HIDE DEF k
<1>3. T = {i \in 1 .. Len(line) : line[i] # "space" /\ i > k} \cup {Len(line) + 1}
  BY <1>1 DEF CpuInfo!NonSpaces
<1>4. v \in T /\ \A y \in T : v <= y
  <2>1. T \subseteq 0 .. Len(line) + 1 /\ T # {} /\ Len(line) + 1 \in Nat
    BY <1>1, <1>3
  <2> HIDE DEF T
  <2> QED
    BY <2>1, MinMaxAre
<1> HIDE DEF T, v
<1>5. v \in k + 1 .. Len(line) + 1 /\ (v <= Len(line) => line[v] # "space")
  BY <1>1, <1>3, <1>4
<1>6. ASSUME NEW i \in k + 1 .. v - 1 PROVE line[i] = "space"
  <2>1. i \in 1 .. Len(line) /\ i > k /\ ~(v <= i)
    BY <1>1, <1>5
  <2>2. i \notin T
    BY <1>4, <2>1
  <2> QED
    BY <1>3, <2>1, <2>2
<1> QED
  BY <1>2, <1>5, <1>6 DEF k

\* A line has a field if it has a name, and the field is its name and value.
LEMMA FieldIs ==
  ASSUME NEW C, NEW line \in Seq(C)
  PROVE  /\ CpuInfo!HasField(line) <=> ~CpuInfo!Nameless(line)
         /\ ~CpuInfo!Nameless(line) =>
              CpuInfo!FieldOf(line) = [name |-> CpuInfo!Name(line),
                                       value |-> SubSeq(line, CpuInfo!ValueAt(line), Len(line))]
<1>0. CASE CpuInfo!Colons(line) = {}
  BY <1>0 DEF CpuInfo!HasField, CpuInfo!Nameless
<1>1. CASE CpuInfo!Colons(line) # {}
  <2> DEFINE k == CpuInfo!Min(CpuInfo!Colons(line))
             w == CpuInfo!ValueAt(line)
  <2>1. k \in 1 .. Len(line) /\ Len(line) \in Nat /\ DOMAIN line = 1 .. Len(line)
    BY <1>1, ColonIs
  <2>2. PICK m \in 0 .. k - 1 :
          /\ CpuInfo!Name(line) = SubSeq(line, 1, m) /\ Len(CpuInfo!Name(line)) = m
          /\ CpuInfo!Name(line) \in Seq(C)
          /\ m > 0 => line[m] # "space"
          /\ \A i \in m + 1 .. k - 1 : line[i] = "space"
    BY <1>1, NameIs
  <2>3. /\ w \in k + 1 .. Len(line) + 1
        /\ w <= Len(line) => line[w] # "space"
        /\ \A i \in k + 1 .. w - 1 : line[i] = "space"
    BY <1>1, ValueIs
  <2>4. CpuInfo!Nameless(line) <=> m = 0
    <3>1. CpuInfo!Name(line) = << >> <=> m = 0
      <4>1. \A s \in Seq(C) : s = << >> <=> Len(s) = 0
        OBVIOUS
      <4> QED
        BY <2>2, <4>1, Zenon
    <3> QED
      BY <1>1, <3>1 DEF CpuInfo!Nameless
  <2>5. CpuInfo!HasField(line) <=> \E j \in 1 .. Len(line) : line[j] # "space" /\ j < k
    BY <1>1, <2>1 DEF CpuInfo!HasField, CpuInfo!NonSpaces
  <2>6. CpuInfo!HasField(line) <=> m # 0
    <3> HIDE DEF k
    <3>1. ASSUME NEW j \in 1 .. Len(line), line[j] # "space", j < k, m = 0 PROVE FALSE
      <4>1. j \in m + 1 .. k - 1
        BY <2>1, <3>1
      <4> QED
        BY <2>2, <3>1, <4>1
    <3>2. m # 0 => m \in 1 .. Len(line) /\ line[m] # "space" /\ m < k
      BY <2>1, <2>2
    <3> QED
      BY <2>5, <3>1, <3>2
  <2>7. ASSUME m # 0
        PROVE  CpuInfo!FieldOf(line) = [name |-> CpuInfo!Name(line), value |-> SubSeq(line, w, Len(line))]
    <3> DEFINE names == {n \in DOMAIN line : n < k /\ \A i \in n + 1 .. k - 1 : line[i] = "space"}
               values == {v \in 1 .. Len(line) + 1 : v > k /\ \A i \in k + 1 .. v - 1 : line[i] = "space"}
    <3>1. CpuInfo!FieldOf(line) = [name |-> SubSeq(line, 1, CpuInfo!Min(names)),
                                   value |-> SubSeq(line, CpuInfo!Max(values), Len(line))]
      BY DEF CpuInfo!FieldOf
    <3> HIDE DEF k, w
    <3>2. CpuInfo!Min(names) = m
      <4>1. names \subseteq 0 .. Len(line) /\ m \in names
        BY <2>1, <2>2, <2>7
      <4>2. ASSUME NEW y \in names PROVE m <= y
        <5> SUFFICES ASSUME y < m PROVE FALSE
          BY <2>1
        <5>1. m \in y + 1 .. k - 1 /\ m > 0
          BY <2>1, <2>2, <2>7
        <5> QED
          BY <2>2, <5>1
      <4> HIDE DEF names
      <4> QED
        BY <2>1, <4>1, <4>2, MinIs
    <3>3. CpuInfo!Max(values) = w
      <4>1. values \subseteq 0 .. Len(line) + 1 /\ w \in values /\ Len(line) + 1 \in Nat
        BY <2>1, <2>3
      <4>2. ASSUME NEW y \in values PROVE w >= y
        <5> SUFFICES ASSUME w < y PROVE FALSE
          BY <2>1, <2>3
        <5>1. w \in k + 1 .. y - 1 /\ w <= Len(line)
          BY <2>1, <2>3
        <5> QED
          BY <2>3, <5>1
      <4> HIDE DEF values
      <4> QED
        BY <4>1, <4>2, MaxIs
    <3> QED
      BY <2>2, <3>1, <3>2, <3>3
  <2> QED
    BY <2>4, <2>6, <2>7
<1> QED
  BY <1>0, <1>1

\* What is returned for a line.
WithField(s, line) == IF CpuInfo!HasField(line) THEN Append(s, CpuInfo!FieldOf(line)) ELSE s

\* g gives the fields of the lines that end up to a place.
FieldsAre(g) ==
  /\ g[0] = << >>
  /\ \A p \in {0} \cup Ends, n \in Nat :
       p + n + 1 \in Ends /\ (\A i \in p + 1 .. p + n : i \notin Ends) =>
         g[p + n + 1] = WithField(g[p], SubSeq(file, p + 1, p + n))

\* The field that was returned last is in the buffer: the name, a NUL, the
\* value further on, and a NUL.
Kept(field) ==
  LET n == Len(field.name)
      v == value_
      e == pop_count_ + 1
  IN /\ n + 1 \in DOMAIN buf_ /\ buf_[n + 1] = "NUL" /\ e \in DOMAIN buf_ /\ buf_[e] = "NUL"
     /\ v \in n + 2 .. e /\ value_len_ = e - v /\ Len(field.value) = e - v
     /\ \A i \in 1 .. n : buf_[i] = field.name[i] /\ buf_[i] # "NUL"
     /\ \A i \in v .. e - 1 : buf_[i] = field.value[i - v + 1] /\ buf_[i] # "NUL"

CpuInfoTypes ==
  /\ file \in CpuInfo!Files
  /\ call \in {"none", "running", "line", "false"} /\ len \in 0 .. FieldLineLen
  /\ pop_count_ \in -1 .. FieldLineLen
  /\ value_ \in 0 .. FieldLineLen /\ value_len_ \in 0 .. FieldLineLen
  /\ asked \in {"no", "running", "field", "false"}
  /\ fields \in Seq(FieldSet)
  /\ call # "none" => asked = "running" /\ pop_count_ = -1
  /\ asked = "field" => fields # << >> /\ Kept(fields[Len(fields)])

\* The lines up to p were popped; the one behind has been taken if pop_count_
\* is its length.
TakenTo(c, g, p) ==
  /\ c[p] = popped /\ fields = g[p + pop_count_ + 1]
  /\ Follows(FieldChars, FieldLineLen, p, pop_count_ + 1)
  /\ call = "line" => NextIs(p, len)
  /\ pop_count_ >= 0 => NextIs(p, pop_count_)

CpuInfoIInv ==
  /\ CpuInfoTypes
  /\ \A c, g : Counts(c) /\ FieldsAre(g) => \E p \in {0} \cup Ends : TakenTo(c, g, p)

\* FieldsUpTo, which is defined character by character, line by line.
FieldsFrom(f) ==
  [p \in 0 .. Len(file) + 1 |->
     IF p = 0 THEN << >>
     ELSE IF p \in Ends /\ CpuInfo!HasField(CpuInfo!LineAt(p))
          THEN Append(f[p - 1], CpuInfo!FieldOf(CpuInfo!LineAt(p))) ELSE f[p - 1]]

LEMMA FieldsStay ==
  ASSUME NEW C, file \in Seq(C), NEW f, f = FieldsFrom(f),
         NEW p \in 0 .. Len(file) + 1, NEW q \in 0 .. Len(file) + 1, p <= q,
         \A i \in p + 1 .. q : i \notin Ends
  PROVE  f[q] = f[p]
<1>0. Len(file) \in Nat /\ p \in Nat /\ q \in Nat
  OBVIOUS
<1> DEFINE P == {n \in Nat : p + n <= q => f[p + n] = f[p]}
<1>1. 0 \in P
  BY <1>0
<1>2. ASSUME NEW n \in Nat, n \in P PROVE n + 1 \in P
  <2> SUFFICES ASSUME p + (n + 1) <= q PROVE f[p + (n + 1)] = f[p]
    OBVIOUS
  <2>1. /\ p + (n + 1) \in 0 .. Len(file) + 1 /\ (p + (n + 1)) - 1 = p + n /\ p + (n + 1) # 0
        /\ p + (n + 1) \in p + 1 .. q /\ p + n <= q
    BY <1>0
  <2>2. p + (n + 1) \notin Ends
    BY <2>1
  <2>3. f[p + (n + 1)] = f[(p + (n + 1)) - 1]
    <3> DEFINE x == p + (n + 1)
    <3>1. FieldsFrom(f)[x] = f[x - 1]
      <4>1. x \in 0 .. Len(file) + 1 /\ x # 0 /\ x \notin Ends
        BY <2>1, <2>2
      <4> HIDE DEF x
      <4> QED
        BY <4>1 DEF FieldsFrom
    <3> QED
      BY <3>1
  <2> QED
    BY <1>2, <2>1, <2>3
<1>3. P \in SUBSET Nat /\ q - p \in Nat /\ p + (q - p) = q
  BY <1>0
<1>4. q - p \in P
  <2> HIDE DEF P
  <2> QED
    BY <1>1, <1>2, <1>3, HoldsAlways
<1> QED
  BY <1>0, <1>3, <1>4

LEMMA FieldsOfLines ==
  ASSUME NEW C, file \in Seq(C), NEW f, f = FieldsFrom(f)
  PROVE  FieldsAre(f)
<1>1. f[0] = << >>
  <2>1. FieldsFrom(f)[0] = << >>
    BY DEF FieldsFrom
  <2> QED
    BY <2>1
<1>2. ASSUME NEW p \in {0} \cup Ends, NEW n \in Nat, p + n + 1 \in Ends,
             \A i \in p + 1 .. p + n : i \notin Ends
      PROVE  f[p + n + 1] = WithField(f[p], SubSeq(file, p + 1, p + n))
  <2> DEFINE q == p + n + 1
             line == SubSeq(file, p + 1, p + n)
  <2>1. /\ q \in Ends /\ p \in 0 .. Len(file) + 1 /\ q \in 0 .. Len(file) + 1 /\ p < q /\ q # 0
        /\ q - 1 = p + n /\ q - 1 \in 0 .. Len(file) + 1 /\ p <= q - 1
    BY <1>2, EndsAre
  <2>2. \A i \in p + 1 .. q - 1 : i \notin Ends
    BY <1>2, <2>1
  <2>3. CpuInfo!LineAt(q) = SubSeq(file, p + 1, q - 1)
    <3> HIDE DEF q
    <3> QED
      BY <2>1, <2>2, LineIs
  <2>4. CpuInfo!LineAt(q) = line
    BY <2>1, <2>3
  <2>5. f[q - 1] = f[p]
    <3> HIDE DEF q
    <3> QED
      BY <2>1, <2>2, FieldsStay
  <2>6. f[q] = IF CpuInfo!HasField(CpuInfo!LineAt(q))
               THEN Append(f[q - 1], CpuInfo!FieldOf(CpuInfo!LineAt(q))) ELSE f[q - 1]
    <3>1. FieldsFrom(f)[q] = IF CpuInfo!HasField(CpuInfo!LineAt(q))
               THEN Append(f[q - 1], CpuInfo!FieldOf(CpuInfo!LineAt(q))) ELSE f[q - 1]
      <4> HIDE DEF q
      <4> QED
        BY <2>1 DEF FieldsFrom
    <3> QED
      BY <3>1
  <2>7. f[q] = WithField(f[p], line)
    <3> HIDE DEF q, line
    <3> QED
      BY <2>4, <2>5, <2>6 DEF WithField
  <2> QED
    BY <2>7
<1> QED
  BY <1>1, <1>2 DEF FieldsAre

LEMMA FieldsAreGiven ==
  ASSUME NEW C, file \in Seq(C)
  PROVE  FieldsAre(CpuInfo!FieldsUpTo) /\ CpuInfo!FieldsUpTo = FieldsFrom(CpuInfo!FieldsUpTo)
<1> DEFINE N == Len(file) + 1
           S == Seq({CpuInfo!FieldOf(CpuInfo!LineAt(p)) : p \in 0 .. N})
           field(p) == CpuInfo!FieldOf(CpuInfo!LineAt(p))
           has(p) == p \in Ends /\ CpuInfo!HasField(CpuInfo!LineAt(p))
           G == [n \in 1 .. N |-> [s \in S |-> IF has(n) THEN Append(s, field(n)) ELSE s]]
<1>1. N \in Nat /\ << >> \in S
  OBVIOUS
<1>2. PICK f : Recurs(f, N, S, << >>, G)
  <2>1. Steps(G, N, S)
    <3>1. \A n \in 1 .. N : field(n) \in {CpuInfo!FieldOf(CpuInfo!LineAt(p)) : p \in 0 .. N}
      BY <1>1
    <3> HIDE DEF field, has
    <3>2. \A n \in 1 .. N : \A s \in S : Append(s, field(n)) \in S
      BY <3>1
    <3> HIDE DEF S
    <3> QED
      BY <3>2 DEF Steps
  <2> HIDE DEF G, N, S
  <2> QED
    BY <1>1, <2>1, Recursion, Zenon
<1>3. ASSUME NEW n \in 1 .. N PROVE f[n] = IF has(n) THEN Append(f[n - 1], field(n)) ELSE f[n - 1]
  <2>1. n - 1 \in 0 .. N
    BY <1>1
  <2> HIDE DEF S, field, has, N
  <2>2. f[n - 1] \in S
    BY <1>2, <2>1 DEF Recurs
  <2>3. f[n] = G[n][f[n - 1]]
    BY <1>2 DEF Recurs
  <2> QED
    BY <2>2, <2>3
<1>4. f = FieldsFrom(f)
  <2>1. \A p \in 0 .. N : p # 0 => p \in 1 .. N
    BY <1>1
  <2>2. f[0] = << >> /\ DOMAIN f = 0 .. N /\ f = [p \in 0 .. N |-> f[p]]
    <3> HIDE DEF S, G, N
    <3> QED
      BY <1>2 DEF Recurs
  <2>3. ASSUME NEW p \in 0 .. N
        PROVE  f[p] = IF p = 0 THEN << >> ELSE IF has(p) THEN Append(f[p - 1], field(p)) ELSE f[p - 1]
    <3> HIDE DEF S, G, N, has, field
    <3> QED
      BY <1>3, <2>1, <2>2
  <2>4. f = [p \in 0 .. N |-> IF p = 0 THEN << >> ELSE IF has(p) THEN Append(f[p - 1], field(p)) ELSE f[p - 1]]
    <3> HIDE DEF S, G, N, has, field
    <3> QED
      BY <2>2, <2>3
  <2> QED
    BY <2>4 DEF FieldsFrom
<1> DEFINE g == CHOOSE h : h = FieldsFrom(h)
<1>5. g = FieldsFrom(g)
  <2> HIDE DEF S, G, N, has, field
  <2> QED
    BY <1>4
<1>6. CpuInfo!FieldsUpTo = g
  BY EndsAre DEF CpuInfo!FieldsUpTo, FieldsFrom
<1> HIDE DEF g, S, G, N, has, field
<1>7. FieldsAre(g)
  BY <1>5, FieldsOfLines
<1> QED
  BY <1>5, <1>6, <1>7

LEMMA CpuInfoNumbers ==
  ASSUME CpuInfoTypes
  PROVE  /\ file \in Seq(FieldChars) /\ Len(file) \in Nat
         /\ FieldLineLen \in Nat \ {0} /\ "NUL" \in FieldChars
BY LineNumbers, FilesAre DEF CpuInfoTypes

LEMMA CpuInfoInit ==
  ASSUME file \in CpuInfo!Files, offset = 0, buf_ = << >>, hit_eof_ = FALSE, len = 0,
         call = "none", popped = 0, pop_count_ = -1, value_ = 0, value_len_ = 0,
         asked = "no", fields = << >>
  PROVE  CpuInfoIInv
<1>1. file \in Seq(FieldChars) /\ FieldLineLen \in Nat
  BY LineNumbers, FilesAre
<1>2. Follows(FieldChars, FieldLineLen, 0, 0)
  BY <1>1, ReaderBegins
<1>3. 0 \in 0 .. FieldLineLen /\ -1 \in -1 .. FieldLineLen /\ -1 + 1 = 0 /\ 0 + -1 + 1 = 0 /\ ~(-1 >= 0)
  BY <1>1
<1>4. ASSUME NEW c, NEW g, Counts(c), FieldsAre(g) PROVE TakenTo(c, g, 0)
  <2>1. c[0] = 0 /\ g[0] = << >>
    BY <1>4 DEF Counts, FieldsAre
  <2> QED
    BY <1>2, <1>3, <2>1 DEF TakenTo
<1> QED
  BY <1>3, <1>4 DEF CpuInfoIInv, CpuInfoTypes

LEMMA CpuInfoSame ==
  ASSUME file' = file
  PROVE  CpuInfo!Files' = CpuInfo!Files /\ Ends' = Ends /\ \A c, g : Counts(c)' /\ FieldsAre(g)' => Counts(c) /\ FieldsAre(g)
<1>1. Ends' = Ends
  BY DEF Ends
<1>2. \A c : Counts(c)' => Counts(c)
  BY <1>1 DEF Counts
<1>3. \A g : FieldsAre(g)' => FieldsAre(g)
  BY <1>1 DEF FieldsAre, WithField
<1> QED
  BY <1>1, <1>2, <1>3 DEF CpuInfo!Files

LEMMA AskKeeps ==
  ASSUME CpuInfoTypes, NEW c, NEW g, NEW p \in {0} \cup Ends, TakenTo(c, g, p), CpuInfo!Ask
  PROVE  TakenTo(c, g, p)' /\ CpuInfoTypes'
<1>1. /\ asked # "running" /\ asked' = "running" /\ file' = file /\ offset' = offset /\ hit_eof_' = hit_eof_
      /\ buf_' = buf_ /\ len' = len /\ call' = call /\ popped' = popped /\ pop_count_' = pop_count_
      /\ value_' = value_ /\ value_len_' = value_len_ /\ fields' = fields
  BY DEF CpuInfo!Ask, CpuInfo!vars, CpuInfo!reader, CpuInfo!own
<1>2. call = "none"
  BY <1>1 DEF CpuInfoTypes
<1>3. CpuInfoTypes'
  BY <1>1, <1>2 DEF CpuInfoTypes, CpuInfo!Files
<1>4. TakenTo(c, g, p)'
  BY <1>1, <1>2 DEF TakenTo, Follows, NextIs, Ends
<1> QED
  BY <1>3, <1>4

LEMMA StutterKeeps ==
  ASSUME CpuInfoTypes, NEW c, NEW g, NEW p \in {0} \cup Ends, TakenTo(c, g, p), UNCHANGED CpuInfo!cpuinfo
  PROVE  TakenTo(c, g, p)' /\ CpuInfoTypes'
<1>1. /\ asked' = asked /\ file' = file /\ offset' = offset /\ hit_eof_' = hit_eof_
      /\ buf_' = buf_ /\ len' = len /\ call' = call /\ popped' = popped /\ pop_count_' = pop_count_
      /\ value_' = value_ /\ value_len_' = value_len_ /\ fields' = fields
  BY DEF CpuInfo!cpuinfo, CpuInfo!vars, CpuInfo!reader, CpuInfo!own
<1>2. CpuInfoTypes'
  BY <1>1 DEF CpuInfoTypes, CpuInfo!Files, Kept
<1>3. TakenTo(c, g, p)'
  BY <1>1 DEF TakenTo, Follows, NextIs, Ends
<1> QED
  BY <1>2, <1>3

LEMMA NoFieldKeeps ==
  ASSUME CpuInfoTypes, NEW c, NEW g, NEW p \in {0} \cup Ends, TakenTo(c, g, p), CpuInfo!NoField
  PROVE  TakenTo(c, g, p)' /\ CpuInfoTypes'
<1>1. /\ asked' = "false" /\ file' = file /\ offset' = offset /\ hit_eof_' = hit_eof_
      /\ buf_' = buf_ /\ len' = len /\ call' = "none" /\ popped' = popped /\ pop_count_' = pop_count_
      /\ value_' = value_ /\ value_len_' = value_len_ /\ fields' = fields
  BY DEF CpuInfo!NoField, CpuInfo!reader, CpuInfo!own
<1>2. CpuInfoTypes'
  BY <1>1 DEF CpuInfoTypes, CpuInfo!Files
<1>3. TakenTo(c, g, p)'
  BY <1>1 DEF TakenTo, Follows, NextIs, Ends
<1> QED
  BY <1>2, <1>3

\* The line before is popped.
LEMMA NextLineKeeps ==
  ASSUME CpuInfoTypes, NEW c, NEW g, Counts(c), NEW p \in {0} \cup Ends, TakenTo(c, g, p),
         CpuInfo!NextLine
  PROVE  (\E q \in {0} \cup Ends : TakenTo(c, g, q)') /\ CpuInfoTypes'
<1>0. /\ file \in Seq(FieldChars) /\ Len(file) \in Nat /\ FieldLineLen \in Nat \ {0}
      /\ p \in Nat /\ pop_count_ \in -1 .. FieldLineLen
  BY CpuInfoNumbers, EndsAre DEF CpuInfoTypes
<1>1. /\ asked = "running" /\ asked' = "running" /\ file' = file /\ offset' = offset /\ hit_eof_' = hit_eof_
      /\ len' = len /\ call' = "running" /\ pop_count_' = -1
      /\ value_' = value_ /\ value_len_' = value_len_ /\ fields' = fields
      /\ pop_count_ >= 0 => buf_' = SubSeq(buf_, pop_count_ + 2, Len(buf_)) /\ popped' = popped + 1
      /\ ~(pop_count_ >= 0) => buf_' = buf_ /\ popped' = popped
  BY DEF CpuInfo!NextLine, CpuInfo!PopLine, CpuInfo!reader
<1>2. CpuInfoTypes'
  <2>1. -1 \in -1 .. FieldLineLen
    BY <1>0
  <2> QED
    BY <1>1, <2>1 DEF CpuInfoTypes, CpuInfo!Files
<1>3. CASE ~(pop_count_ >= 0)
  <2>1. pop_count_ = -1 /\ pop_count_' = pop_count_ /\ buf_' = buf_ /\ popped' = popped
    BY <1>0, <1>1, <1>3
  <2>2. TakenTo(c, g, p)'
    BY <1>1, <1>3, <2>1 DEF TakenTo, Follows, Ends
  <2> QED
    BY <1>2, <2>2
<1>4. CASE pop_count_ >= 0
  <2>1. PICK n \in Nat : n = pop_count_
    BY <1>0, <1>4
  <2>2. /\ NextIs(p, n) /\ Follows(FieldChars, FieldLineLen, p, n + 1) /\ c[p] = popped
        /\ fields = g[p + n + 1]
    BY <1>4, <2>1 DEF TakenTo
  <2>3. p + n + 1 \in Ends /\ c[p + n + 1] = c[p] + 1
    BY <1>0, <2>2, NextCounts
  <2>4. buf_' = SubSeq(buf_, n + 2, Len(buf_)) /\ popped' = popped + 1
    BY <1>1, <1>4, <2>1
  <2>5. n + 1 \in Nat /\ n + 1 <= n + 1
    OBVIOUS
  <2>6. Follows(FieldChars, FieldLineLen, p + n + 1, 0)'
    BY <1>0, <1>1, <2>2, <2>4, <2>5, PopKeeps
  <2>7. pop_count_' + 1 = 0 /\ (p + n + 1) + pop_count_' + 1 = p + n + 1 /\ ~(pop_count_' >= 0)
    BY <1>0, <1>1
  <2>8. TakenTo(c, g, p + n + 1)'
    BY <1>1, <2>2, <2>3, <2>4, <2>6, <2>7 DEF TakenTo
  <2> QED
    BY <1>2, <2>3, <2>8
<1> QED
  BY <1>3, <1>4

\* A turn of the loop of GetNextLine.
LEMMA GetNextLineKeeps ==
  ASSUME CpuInfoTypes, NEW c, NEW g, NEW p \in {0} \cup Ends, TakenTo(c, g, p),
         CpuInfo!GetNextLine, UNCHANGED <<CpuInfo!own, asked, fields>>
  PROVE  TakenTo(c, g, p)' /\ CpuInfoTypes'
<1>0. /\ file \in Seq(FieldChars) /\ Len(file) \in Nat /\ FieldLineLen \in Nat /\ "NUL" \in FieldChars
      /\ p \in Nat /\ pop_count_ \in -1 .. FieldLineLen /\ len \in 0 .. FieldLineLen
  BY CpuInfoNumbers, EndsAre DEF CpuInfoTypes
<1>1. /\ call = "running" /\ pop_count_' = pop_count_ /\ value_' = value_ /\ value_len_' = value_len_
      /\ asked' = asked /\ fields' = fields
  BY DEF CpuInfo!GetNextLine, CpuInfo!own
<1>2. asked = "running" /\ pop_count_ = -1 /\ pop_count_ + 1 = 0 /\ ~(pop_count_ >= 0)
  BY <1>1 DEF CpuInfoTypes
<1>3. Follows(FieldChars, FieldLineLen, p, 0)
  BY <1>2 DEF TakenTo
<1>4. Turn(FieldLineLen)
  BY <1>0, <1>3, CpuInfoTurn DEF Follows
<1>5. /\ Follows(FieldChars, FieldLineLen, p, 0)' /\ (call' = "line" => NextIs(p, len)')
      /\ call' \in {"running", "line", "false"} /\ (call' # "line" => len' = len)
  BY <1>0, <1>3, <1>4, TurnKeeps
<1>6. file' = file /\ popped' = popped
  BY <1>4 DEF Turn
<1>7. len' \in 0 .. FieldLineLen
  <2>1. CASE call' = "line"
    <3>1. /\ len' \in Nat /\ len' < Len(buf_') /\ Len(buf_') <= FieldLineLen
          /\ buf_' \in Seq(FieldChars)
      BY <1>5, <2>1 DEF NextIs, Follows
    <3> QED
      BY <1>0, <3>1
  <2> QED
    BY <1>0, <1>5, <2>1
<1>8. CpuInfoTypes'
  BY <1>1, <1>2, <1>5, <1>6, <1>7 DEF CpuInfoTypes, CpuInfo!Files
<1>9. TakenTo(c, g, p)'
  BY <1>1, <1>2, <1>5, <1>6 DEF TakenTo
<1> QED
  BY <1>8, <1>9

\* The line that was returned is the next one of the file, and what it gives is
\* what the place behind its end gives.
LEMMA TakenLine ==
  ASSUME CpuInfoTypes, NEW c, NEW g, Counts(c), FieldsAre(g), NEW p \in {0} \cup Ends, TakenTo(c, g, p),
         asked = "running", call = "line"
  PROVE  LET line == SubSeq(buf_, 1, len)
         IN /\ pop_count_ = -1 /\ NextIs(p, len) /\ Follows(FieldChars, FieldLineLen, p, 0)
            /\ line \in Seq(FieldChars) /\ Len(line) = len /\ len \in Nat /\ len < FieldLineLen
            /\ \A i \in 1 .. len : line[i] = buf_[i] /\ line[i] \notin Ending
            /\ g[p + len + 1] = WithField(fields, line)
<1>0. /\ file \in Seq(FieldChars) /\ Len(file) \in Nat /\ FieldLineLen \in Nat
      /\ p \in Nat /\ pop_count_ = -1
  BY CpuInfoNumbers, EndsAre DEF CpuInfoTypes
<1>1. NextIs(p, len) /\ Follows(FieldChars, FieldLineLen, p, 0) /\ fields = g[p]
  <2>1. pop_count_ + 1 = 0 /\ p + pop_count_ + 1 = p
    BY <1>0
  <2> QED
    BY <2>1 DEF TakenTo
<1>2. /\ SubSeq(buf_, 1, len) = SubSeq(file, p + 1, p + len)
      /\ SubSeq(buf_, 1, len) \in Seq(FieldChars) /\ Len(SubSeq(buf_, 1, len)) = len
      /\ \A i \in 1 .. len : SubSeq(buf_, 1, len)[i] = buf_[i] /\ buf_[i] \notin Ending
  <2>1. file \in Seq(FieldChars) /\ p \in {0} \cup Ends
    BY <1>0
  <2> QED
    BY <1>1, <2>1, LineInBuffer, SMTT(30)
<1>3. g[p + len + 1] = WithField(g[p], SubSeq(file, p + 1, p + len))
  <2>1. len \in Nat /\ p + len + 1 \in Ends /\ \A i \in p + 1 .. p + len : i \notin Ends
    BY <1>1 DEF NextIs
  <2> QED
    BY <2>1 DEF FieldsAre
<1>4. len \in Nat /\ len < FieldLineLen
  <2>1. /\ len \in Nat /\ len < Len(buf_) /\ Len(buf_) <= FieldLineLen /\ Len(buf_) \in Nat
    BY <1>1 DEF NextIs, Follows
  <2> QED
    BY <1>0, <2>1
<1> QED
  BY <1>0, <1>1, <1>2, <1>3, <1>4

\* A line without a field is passed over.
LEMMA SkipKeeps ==
  ASSUME CpuInfoTypes, NEW c, NEW g, Counts(c), FieldsAre(g), NEW p \in {0} \cup Ends,
         TakenTo(c, g, p), CpuInfo!Skip
  PROVE  TakenTo(c, g, p)' /\ CpuInfoTypes'
<1> DEFINE line == SubSeq(buf_, 1, len)
<1>0. /\ asked = "running" /\ call = "line" /\ asked' = "running" /\ call' = "none"
      /\ file' = file /\ offset' = offset /\ hit_eof_' = hit_eof_ /\ buf_' = buf_ /\ len' = len
      /\ popped' = popped /\ fields' = fields /\ pop_count_' = len
      /\ CpuInfo!Nameless(line)
      /\ \/ CpuInfo!Colons(line) = {} /\ value_' = value_ /\ value_len_' = value_len_
         \/ /\ CpuInfo!Colons(line) # {}
            /\ value_' = CpuInfo!ValueAt(line) /\ value_len_' = len + 1 - CpuInfo!ValueAt(line)
  BY DEF CpuInfo!Skip, CpuInfo!reader
<1>1. /\ pop_count_ = -1 /\ NextIs(p, len) /\ Follows(FieldChars, FieldLineLen, p, 0)
      /\ line \in Seq(FieldChars) /\ Len(line) = len /\ len \in Nat /\ len < FieldLineLen
      /\ g[p + len + 1] = WithField(fields, line)
  BY <1>0, TakenLine
<1> HIDE DEF line
<1>2. g[p + len + 1] = fields
  BY <1>0, <1>1, FieldIs DEF WithField
<1>3. value_' \in 0 .. FieldLineLen /\ value_len_' \in 0 .. FieldLineLen
  <2>1. CASE CpuInfo!Colons(line) = {}
    BY <1>0, <2>1 DEF CpuInfoTypes
  <2>2. CASE CpuInfo!Colons(line) # {}
    <3> DEFINE k == CpuInfo!Min(CpuInfo!Colons(line))
               v == CpuInfo!ValueAt(line)
    <3>1. k \in 1 .. len /\ v \in k + 1 .. len + 1
      BY <1>1, <2>2, ColonIs, ValueIs
    <3>2. FieldLineLen \in Nat
      BY CpuInfoNumbers
    <3> HIDE DEF k, v
    <3>3. v \in 0 .. FieldLineLen /\ len + 1 - v \in 0 .. FieldLineLen
      BY <1>1, <3>1, <3>2
    <3> QED
      BY <1>0, <2>2, <3>3 DEF v
  <2> QED
    BY <2>1, <2>2
<1>4. CpuInfoTypes'
  <2>1. len \in -1 .. FieldLineLen
    BY <1>1, CpuInfoNumbers
  <2> QED
    BY <1>0, <1>3, <2>1 DEF CpuInfoTypes, CpuInfo!Files
<1>5. TakenTo(c, g, p)'
  <2>1. Follows(FieldChars, FieldLineLen, p, len + 1)
    <3>1. 0 <= len + 1
      BY <1>1
    <3>2. \A i \in DOMAIN buf_ : i > len + 1 => i > 0
      <4>1. DOMAIN buf_ = 1 .. Len(buf_)
        BY <1>1 DEF Follows
      <4> QED
        BY <1>1, <4>1
    <3> QED
      BY <1>1, <3>2 DEF Follows
  <2>2. Follows(FieldChars, FieldLineLen, p, pop_count_ + 1)' /\ NextIs(p, pop_count_)'
    BY <1>0, <1>1, <2>1 DEF Follows, NextIs, Ends
  <2>3. c[p] = popped'
    BY <1>0 DEF TakenTo
  <2> QED
    BY <1>0, <1>2, <2>2, <2>3 DEF TakenTo
<1> QED
  BY <1>4, <1>5

\* A field is returned.
LEMMA FieldKeeps ==
  ASSUME CpuInfoTypes, NEW c, NEW g, Counts(c), FieldsAre(g), NEW p \in {0} \cup Ends,
         TakenTo(c, g, p), CpuInfo!Field
  PROVE  TakenTo(c, g, p)' /\ CpuInfoTypes'
<1> DEFINE line == SubSeq(buf_, 1, len)
           k == CpuInfo!Min(CpuInfo!Colons(line))
           v == CpuInfo!ValueAt(line)
           m == Len(CpuInfo!Name(line))
           new == [name |-> CpuInfo!Name(line), value |-> SubSeq(line, v, len)]
<1>0. /\ asked = "running" /\ call = "line" /\ asked' = "field" /\ call' = "none"
      /\ file' = file /\ offset' = offset /\ hit_eof_' = hit_eof_ /\ len' = len
      /\ buf_' = [buf_ EXCEPT ![m + 1] = "NUL"]
      /\ popped' = popped /\ fields' = Append(fields, new) /\ pop_count_' = len
      /\ ~CpuInfo!Nameless(line) /\ value_' = v /\ value_len_' = len + 1 - v
  BY DEF CpuInfo!Field
<1>1. /\ pop_count_ = -1 /\ NextIs(p, len) /\ Follows(FieldChars, FieldLineLen, p, 0)
      /\ line \in Seq(FieldChars) /\ Len(line) = len /\ len \in Nat /\ len < FieldLineLen
      /\ \A i \in 1 .. len : line[i] = buf_[i] /\ line[i] \notin Ending
      /\ g[p + len + 1] = WithField(fields, line)
  BY <1>0, TakenLine
<1>2. /\ file \in Seq(FieldChars) /\ FieldLineLen \in Nat /\ "NUL" \in FieldChars
      /\ buf_ \in Seq(FieldChars) /\ Len(buf_) \in Nat /\ DOMAIN buf_ = 1 .. Len(buf_)
      /\ len < Len(buf_) /\ p + len + 1 \in Ends /\ p \in Nat
  BY <1>1, CpuInfoNumbers, EndsAre DEF Follows, NextIs
<1>3. CpuInfo!Colons(line) # {}
  BY <1>0 DEF CpuInfo!Nameless
<1>4. g[p + len + 1] = Append(fields, new)
  <2>1. CpuInfo!FieldOf(line) = [name |-> CpuInfo!Name(line), value |-> SubSeq(line, v, Len(line))]
    <3> HIDE DEF line
    <3> QED
      BY <1>0, <1>1, FieldIs
  <2>2. CpuInfo!HasField(line)
    <3> HIDE DEF line
    <3> QED
      BY <1>0, <1>1, FieldIs
  <2> QED
    BY <1>1, <2>1, <2>2 DEF WithField
<1>5. /\ k \in 1 .. len /\ m \in 0 .. k - 1 /\ v \in k + 1 .. len + 1
      /\ CpuInfo!Name(line) \in Seq(FieldChars)
      /\ \A i \in 1 .. m : CpuInfo!Name(line)[i] = line[i]
  <2> HIDE DEF line
  <2>1. k \in 1 .. len /\ v \in k + 1 .. len + 1
    BY <1>1, <1>3, ColonIs, ValueIs
  <2>2. /\ m \in 0 .. k - 1
        /\ CpuInfo!Name(line) \in Seq(FieldChars)
        /\ \A i \in 1 .. m : CpuInfo!Name(line)[i] = line[i]
    BY <1>1, <1>3, NameIs
  <2> QED
    BY <2>1, <2>2
<1> DEFINE value == SubSeq(line, v, len)
<1> HIDE DEF line, k, v, m
<1>6. /\ value \in Seq(FieldChars) /\ Len(value) = len + 1 - v
      /\ \A i \in v .. len : value[i - v + 1] = line[i]
  <2>1. line \in Seq(FieldChars) /\ v \in Nat /\ len \in Nat /\ 1 <= v /\ v <= len + 1 /\ len <= Len(line)
    BY <1>1, <1>5
  <2>2. /\ value \in Seq(FieldChars) /\ Len(value) = len - v + 1
        /\ \A i \in 1 .. len - v + 1 : value[i] = line[v + i - 1]
    BY <2>1, PartIs, ZenonT(30)
  <2> HIDE DEF value
  <2>3. len - v + 1 = len + 1 - v
    BY <2>1
  <2>4. \A i \in v .. len : i - v + 1 \in 1 .. len - v + 1 /\ v + (i - v + 1) - 1 = i
    BY <2>1
  <2> QED
    BY <2>2, <2>3, <2>4
<1> HIDE DEF value
<1>7. new = [name |-> CpuInfo!Name(line), value |-> value] /\ new \in FieldSet
  BY <1>5, <1>6 DEF value, FieldSet
<1>8. /\ new.name = CpuInfo!Name(line) /\ Len(new.name) = m /\ new.value = value
      /\ fields' \in Seq(FieldSet) /\ fields' # << >> /\ fields'[Len(fields')] = new
  <2>1. new.name = CpuInfo!Name(line) /\ new.value = value
    BY DEF value
  <2>2. Len(new.name) = m
    BY <2>1 DEF m
  <2>3. fields \in Seq(FieldSet)
    BY DEF CpuInfoTypes
  <2> HIDE DEF new
  <2> QED
    BY <1>0, <1>7, <2>1, <2>2, <2>3
<1> HIDE DEF new
<1>9. /\ buf_' \in Seq(FieldChars) /\ Len(buf_') = Len(buf_) /\ DOMAIN buf_' = DOMAIN buf_
      /\ buf_'[m + 1] = "NUL" /\ m + 1 \in DOMAIN buf_ /\ m + 1 <= len
      /\ \A i \in DOMAIN buf_ : i # m + 1 => buf_'[i] = buf_[i]
  <2>1. m + 1 \in DOMAIN buf_ /\ m + 1 <= len
    BY <1>1, <1>2, <1>5
  <2> QED
    BY <1>0, <1>2, <2>1
<1>10. PICK rec \in FieldSet : rec = new
  BY <1>7
<1>11. Kept(rec)'
  <2>1. /\ m + 1 \in DOMAIN buf_' /\ buf_'[m + 1] = "NUL" /\ len + 1 \in DOMAIN buf_'
        /\ v \in m + 2 .. len + 1 /\ value_len_' = (len + 1) - v /\ Len(value) = (len + 1) - v
    BY <1>0, <1>1, <1>2, <1>5, <1>6, <1>9
  <2>2. buf_'[len + 1] = "NUL"
    <3>1. p + (len + 1) \in Ends /\ len + 1 \in DOMAIN buf_ /\ len + 1 > 0 /\ len + 1 # m + 1
      BY <1>1, <1>2, <1>9
    <3>2. buf_'[len + 1] = buf_[len + 1]
      BY <1>9, <3>1
    <3>3. buf_[len + 1] = "NUL"
      BY <1>1 DEF NextIs
    <3> QED
      BY <3>2, <3>3
  <2>3. ASSUME NEW i \in 1 .. m PROVE buf_'[i] = new.name[i] /\ buf_'[i] # "NUL"
    <3>1. i \in DOMAIN buf_ /\ i # m + 1 /\ i \in 1 .. len
      BY <1>1, <1>2, <1>5, <1>9
    <3>2. buf_'[i] = buf_[i] /\ line[i] = buf_[i] /\ line[i] \notin Ending /\ new.name[i] = line[i]
      BY <1>1, <1>5, <1>8, <1>9, <3>1
    <3> QED
      BY <3>2 DEF Ending
  <2>4. ASSUME NEW i \in v .. len PROVE buf_'[i] = new.value[i - v + 1] /\ buf_'[i] # "NUL"
    <3>1. i \in DOMAIN buf_ /\ i # m + 1 /\ i \in 1 .. len
      BY <1>1, <1>2, <1>5, <1>9
    <3>2. buf_'[i] = buf_[i] /\ line[i] = buf_[i] /\ line[i] \notin Ending /\ new.value[i - v + 1] = line[i]
      BY <1>1, <1>6, <1>8, <1>9, <3>1
    <3> QED
      BY <3>2 DEF Ending
  <2>5. (len + 1) - 1 = len
    BY <1>1
  <2> QED
    BY <1>0, <1>8, <1>10, <2>1, <2>2, <2>3, <2>4, <2>5 DEF Kept
<1>12. CpuInfoTypes'
  <2>1. /\ len \in -1 .. FieldLineLen /\ v \in 0 .. FieldLineLen /\ len + 1 - v \in 0 .. FieldLineLen
        /\ len \in 0 .. FieldLineLen
    BY <1>1, <1>2, <1>5
  <2>2. Kept(fields[Len(fields)])'
    BY <1>8, <1>10, <1>11 DEF Kept
  <2>3. file \in CpuInfo!Files
    BY DEF CpuInfoTypes
  <2> QED
    BY <1>0, <1>8, <2>1, <2>2, <2>3 DEF CpuInfoTypes, CpuInfo!Files
<1>13. TakenTo(c, g, p)'
  <2>1. Follows(FieldChars, FieldLineLen, p, len + 1)'
    <3>1. \A i \in DOMAIN buf_ : i > len + 1 => i > 0 /\ i # m + 1
      BY <1>1, <1>2, <1>9
    <3>2. len' + 1 = len + 1
      BY <1>0
    <3> QED
      BY <1>0, <1>1, <1>9, <3>1, <3>2 DEF Follows, Ends
  <2>2. Follows(FieldChars, FieldLineLen, p, pop_count_ + 1)'
    BY <1>0, <2>1 DEF Follows
  <2>3. NextIs(p, pop_count_)'
    BY <1>0, <1>1, <1>9 DEF NextIs, Ends
  <2>4. c[p] = popped' /\ fields' = g[p + pop_count_' + 1]
    BY <1>0, <1>4 DEF TakenTo
  <2> QED
    BY <1>0, <2>2, <2>3, <2>4 DEF TakenTo
<1> QED
  BY <1>12, <1>13

LEMMA CpuInfoNext == CpuInfoIInv /\ [CpuInfo!FieldsNext]_CpuInfo!cpuinfo => CpuInfoIInv'
<1> SUFFICES ASSUME CpuInfoIInv, [CpuInfo!FieldsNext]_CpuInfo!cpuinfo PROVE CpuInfoIInv'
  OBVIOUS
<1>0. CpuInfoTypes /\ file \in Seq(FieldChars)
  BY CpuInfoNumbers DEF CpuInfoIInv
<1>1. file' = file
  BY DEF CpuInfo!FieldsNext, CpuInfo!GetNextField, CpuInfo!Ask, CpuInfo!NextLine, CpuInfo!PopLine,
         CpuInfo!GetNextLine, CpuInfo!Skip, CpuInfo!Field, CpuInfo!NoField, CpuInfo!cpuinfo, CpuInfo!vars
<1>2. Ends' = Ends /\ \A c, g : Counts(c)' /\ FieldsAre(g)' => Counts(c) /\ FieldsAre(g)
  BY <1>1, CpuInfoSame
<1>3. ASSUME NEW c, NEW g, Counts(c), FieldsAre(g)
      PROVE  (\E q \in {0} \cup Ends : TakenTo(c, g, q)') /\ CpuInfoTypes'
  <2>1. PICK p \in {0} \cup Ends : TakenTo(c, g, p)
    BY <1>3 DEF CpuInfoIInv
  <2>2. CASE CpuInfo!Ask
    BY <1>0, <2>1, <2>2, AskKeeps
  <2>3. CASE CpuInfo!NextLine
    BY <1>0, <1>3, <2>1, <2>3, NextLineKeeps
  <2>4. CASE CpuInfo!GetNextLine /\ UNCHANGED <<CpuInfo!own, asked, fields>>
    BY <1>0, <2>1, <2>4, GetNextLineKeeps
  <2>5. CASE CpuInfo!Skip
    BY <1>0, <1>3, <2>1, <2>5, SkipKeeps
  <2>6. CASE CpuInfo!Field
    BY <1>0, <1>3, <2>1, <2>6, FieldKeeps
  <2>7. CASE CpuInfo!NoField
    BY <1>0, <2>1, <2>7, NoFieldKeeps
  <2>8. CASE UNCHANGED CpuInfo!cpuinfo
    BY <1>0, <2>1, <2>8, StutterKeeps
  <2> QED
    BY <2>2, <2>3, <2>4, <2>5, <2>6, <2>7, <2>8 DEF CpuInfo!FieldsNext, CpuInfo!GetNextField
<1>4. CpuInfoTypes'
  <2>1. Counts(CpuInfo!LinesUpTo) /\ FieldsAre(CpuInfo!FieldsUpTo)
    BY <1>0, LinesAreCounted, FieldsAreGiven
  <2> QED
    BY <1>3, <2>1
<1>5. ASSUME NEW c, NEW g, Counts(c)', FieldsAre(g)' PROVE \E q \in {0} \cup Ends' : TakenTo(c, g, q)'
  BY <1>2, <1>3, <1>5
<1> QED
  BY <1>4, <1>5 DEF CpuInfoIInv

\* A string ends at the first NUL behind its beginning.
LEMMA StringIsKept ==
  ASSUME NEW C, buf_ \in Seq(C), NEW a \in Nat, NEW e \in DOMAIN buf_, 1 <= a, a <= e, buf_[e] = "NUL",
         NEW s \in Seq(C), Len(s) = e - a, \A i \in a .. e - 1 : buf_[i] = s[i - a + 1] /\ buf_[i] # "NUL"
  PROVE  CpuInfo!StringAt(a) = s
<1> DEFINE b == buf_
           T == {i \in DOMAIN b : i >= a /\ b[i] = "NUL"}
<1>0. b \in Seq(C) /\ Len(b) \in Nat /\ DOMAIN b = 1 .. Len(b) /\ e \in Nat /\ e - 1 \in Nat
  OBVIOUS
<1>1. T \subseteq 0 .. Len(b) /\ e \in T
  BY <1>0
<1>2. ASSUME NEW y \in T PROVE e <= y
  <2> SUFFICES ASSUME y < e PROVE FALSE
    BY <1>0
  <2>1. y \in a .. e - 1
    BY <1>0
  <2> QED
    BY <2>1
<1>3. CpuInfo!Min(T) = e
  <2> HIDE DEF T
  <2> QED
    BY <1>0, <1>1, <1>2, MinIs
<1>4. CpuInfo!StringAt(a) = SubSeq(b, a, e - 1)
  BY <1>3 DEF CpuInfo!StringAt
<1>5. /\ SubSeq(b, a, e - 1) \in Seq(C) /\ Len(SubSeq(b, a, e - 1)) = (e - 1) - a + 1
      /\ \A i \in 1 .. (e - 1) - a + 1 : SubSeq(b, a, e - 1)[i] = b[a + i - 1]
  <2>1. b \in Seq(C) /\ a \in Nat /\ e - 1 \in Nat /\ 1 <= a /\ a <= (e - 1) + 1 /\ e - 1 <= Len(b)
    BY <1>0
  <2> HIDE DEF b
  <2> QED
    BY <2>1, PartIs
<1>6. (e - 1) - a + 1 = Len(s) /\ Len(s) \in Nat
  BY <1>0
<1>7. ASSUME NEW i \in 1 .. Len(s) PROVE b[a + i - 1] = s[i]
  <2>1. a + i - 1 \in a .. e - 1 /\ (a + i - 1) - a + 1 = i
    BY <1>0, <1>6
  <2> QED
    BY <2>1
<1> DEFINE t == SubSeq(b, a, e - 1)
<1>8. t \in Seq(C) /\ Len(t) = Len(s) /\ \A i \in 1 .. Len(t) : t[i] = s[i]
  BY <1>5, <1>6, <1>7
<1> HIDE DEF t
<1>9. t = s
  BY <1>8, SeqEqual, Zenon
<1> QED
  BY <1>4, <1>9 DEF t

LEMMA CpuInfoMeans ==
  CpuInfoIInv => CpuInfo!FieldsTypeOK /\ CpuInfo!FieldIsKept /\ CpuInfo!FieldsInOrder
<1> SUFFICES ASSUME CpuInfoIInv
             PROVE  CpuInfo!FieldsTypeOK /\ CpuInfo!FieldIsKept /\ CpuInfo!FieldsInOrder
  OBVIOUS
<1>0. /\ CpuInfoTypes /\ file \in Seq(FieldChars) /\ Len(file) \in 0 .. MaxFile /\ Len(file) \in Nat
      /\ FieldLineLen \in Nat
  BY CpuInfoNumbers, LineNumbers, FilesAre DEF CpuInfoIInv, CpuInfoTypes
<1> DEFINE c == CpuInfo!LinesUpTo
           g == CpuInfo!FieldsUpTo
<1>1. Counts(c) /\ FieldsAre(g)
  BY <1>0, LinesAreCounted, FieldsAreGiven
<1> HIDE DEF c, g
<1>2. PICK p \in {0} \cup Ends : TakenTo(c, g, p)
  BY <1>1 DEF CpuInfoIInv
<1>3. p \in 0 .. Len(file) + 1 /\ c[p] = popped /\ fields = g[p + pop_count_ + 1]
  BY <1>0, <1>2, EndsAre DEF TakenTo
<1>4. /\ buf_ \in Seq(FieldChars) /\ Len(buf_) <= FieldLineLen /\ offset \in 0 .. Len(file)
      /\ hit_eof_ \in BOOLEAN
  BY <1>2 DEF TakenTo, Follows
<1>5. CpuInfo!FieldsTypeOK
  <2>1. popped \in 0 .. MaxFile
    <3>1. popped \in 0 .. Len(file)
      BY <1>0, <1>1, <1>2, <1>3, LinesAreFew
    <3>2. \A x \in 0 .. Len(file) : x \in 0 .. MaxFile
      BY <1>0, LineNumbers
    <3> QED
      BY <3>1, <3>2
  <2> QED
    BY <1>0, <1>4, <2>1 DEF CpuInfo!FieldsTypeOK, CpuInfo!TypeOK, CpuInfoTypes, FieldSet
<1>6. CpuInfo!FieldsInOrder
  <2>1. pop_count_ \in -1 .. FieldLineLen
    BY <1>0 DEF CpuInfoTypes
  <2>2. CASE pop_count_ >= 0
    <3>1. NextIs(p, pop_count_)
      BY <1>2, <2>2 DEF TakenTo
    <3>2. p + pop_count_ + 1 \in Ends /\ c[p + pop_count_ + 1] = popped + 1
      BY <1>0, <1>1, <1>2, <1>3, <3>1, NextCounts
    <3>3. p + pop_count_ + 1 \in 0 .. Len(file) + 1
      BY <1>0, <3>2, EndsAre
    <3> QED
      BY <1>3, <2>2, <3>2, <3>3 DEF CpuInfo!FieldsInOrder, c, g
  <2>3. CASE ~(pop_count_ >= 0)
    <3>1. p + pop_count_ + 1 = p /\ popped + 0 = popped
      <4>1. popped \in Int
        BY <1>1, <1>3 DEF Counts
      <4> QED
        BY <1>3, <2>1, <2>3, <4>1
    <3> QED
      BY <1>3, <2>3, <3>1 DEF CpuInfo!FieldsInOrder, c, g
  <2> QED
    BY <2>2, <2>3
<1>7. ASSUME asked = "field"
      PROVE  /\ CpuInfo!StringAt(1) = CpuInfo!Last(fields).name
             /\ CpuInfo!StringAt(value_) = CpuInfo!Last(fields).value
             /\ value_len_ = Len(CpuInfo!Last(fields).value)
  <2>1. fields # << >> /\ Kept(fields[Len(fields)]) /\ fields \in Seq(FieldSet)
    BY <1>0, <1>7 DEF CpuInfoTypes
  <2>2. PICK rec \in FieldSet : rec = fields[Len(fields)]
    BY <2>1
  <2>3. CpuInfo!Last(fields) = rec
    BY <2>2 DEF CpuInfo!Last
  <2>4. rec.name \in Seq(FieldChars) /\ rec.value \in Seq(FieldChars)
    BY DEF FieldSet
  <2> DEFINE n == Len(rec.name)
             e == pop_count_ + 1
  <2>5. /\ n + 1 \in DOMAIN buf_ /\ buf_[n + 1] = "NUL" /\ e \in DOMAIN buf_ /\ buf_[e] = "NUL"
        /\ value_ \in n + 2 .. e /\ value_len_ = e - value_ /\ Len(rec.value) = e - value_
        /\ \A i \in 1 .. n : buf_[i] = rec.name[i] /\ buf_[i] # "NUL"
        /\ \A i \in value_ .. e - 1 : buf_[i] = rec.value[i - value_ + 1] /\ buf_[i] # "NUL"
    BY <2>1, <2>2 DEF Kept
  <2>6. n \in Nat /\ pop_count_ \in Int /\ DOMAIN buf_ = 1 .. Len(buf_)
    BY <1>0, <1>4, <2>4 DEF CpuInfoTypes
  <2> HIDE DEF n, e
  <2>7. CpuInfo!StringAt(1) = rec.name
    <3>1. /\ 1 \in Nat /\ 1 <= 1 /\ 1 <= n + 1 /\ Len(rec.name) = (n + 1) - 1
          /\ \A i \in 1 .. (n + 1) - 1 : buf_[i] = rec.name[i - 1 + 1] /\ buf_[i] # "NUL"
      <4>1. (n + 1) - 1 = n /\ \A i \in 1 .. n : i - 1 + 1 = i
        BY <2>6
      <4> QED
        BY <2>5, <2>6, <4>1 DEF n
    <3> QED
      BY <1>4, <2>4, <2>5, <3>1, StringIsKept
  <2>8. CpuInfo!StringAt(value_) = rec.value
    <3>1. value_ \in Nat /\ 1 <= value_ /\ value_ <= e /\ Len(rec.value) = e - value_
      BY <2>5, <2>6
    <3>2. \A i \in value_ .. e - 1 : buf_[i] = rec.value[i - value_ + 1] /\ buf_[i] # "NUL"
      BY <2>5
    <3> QED
      BY <1>4, <2>4, <2>5, <3>1, <3>2, StringIsKept
  <2> QED
    BY <2>3, <2>5, <2>7, <2>8
<1> QED
  BY <1>5, <1>6, <1>7 DEF CpuInfo!FieldIsKept

-----------------------------------------------------------------------------
\* All of them.

\* A step is one of every part, or leaves it alone.
LEMMA PartsStep ==
  ASSUME [Next]_vars
  PROVE  /\ [Linked!Next]_mem
         /\ [ScopedPtrs!Next]_ScopedPtrs!vars
         /\ [Dictionary!Next]_Dictionary!vars
         /\ [Allocator!Next]_Allocator!vars
         /\ [MemRange!Next]_MemRange!vars
<1>1. [Linked!Next]_mem
  BY DEF Next, On, vars, linked
<1>2. [ScopedPtrs!Next]_ScopedPtrs!vars
  BY DEF Next, On, vars, scoped, ScopedPtrs!vars
<1>3. [Dictionary!Next]_Dictionary!vars
  BY DEF Next, On, vars, dictionary, Dictionary!vars
<1>4. [Allocator!Next]_Allocator!vars
  BY DEF Next, On, vars, pages, Allocator!vars, Allocator!allocator
<1>5. [MemRange!Next]_MemRange!vars
  BY DEF Next, On, vars, range, MemRange!vars
<1> QED
  BY <1>1, <1>2, <1>3, <1>4, <1>5

LEMMA LinkedAlways == Spec => []LinkedIInv
<1>1. Init => LinkedIInv
  BY LinkedInit DEF Init
<1>2. LinkedIInv /\ [Next]_vars => LinkedIInv'
  BY PartsStep, LinkedNext
<1> QED
  BY <1>1, <1>2, PTL DEF Spec

LEMMA ScopedAlways == Spec => []ScopedIInv
<1>1. Init => ScopedIInv
  BY ScopedInit DEF Init
<1>2. ScopedIInv /\ [Next]_vars => ScopedIInv'
  BY PartsStep, ScopedNext, MemoryObjectsAssumption
<1> QED
  BY <1>1, <1>2, PTL DEF Spec

LEMMA DictionaryAlways == ASSUME MaxKey < key_size PROVE Spec => []DictionaryIInv
<1>1. Init => DictionaryIInv
  BY DictionaryInit DEF Init
<1>2. DictionaryIInv /\ [Next]_vars => DictionaryIInv'
  BY PartsStep, DictionaryNext
<1> QED
  BY <1>1, <1>2, PTL DEF Spec

LEMMA PagesAlways == Spec => []PagesIInv
<1>1. Init => PagesIInv
  BY PagesInit DEF Init
<1>2. PagesIInv /\ [Next]_vars => PagesIInv'
  BY PartsStep, PagesNext
<1> QED
  BY <1>1, <1>2, PTL DEF Spec

LEMMA RangeAlways == Spec => []RangeIInv
<1>1. Init => RangeIInv
  BY RangeInit DEF Init
<1>2. RangeIInv /\ [Next]_vars => RangeIInv'
  BY PartsStep, RangeNext
<1> QED
  BY <1>1, <1>2, PTL DEF Spec

ReadersIInv ==
  /\ DirectoryIInv
  /\ which = "lines" => LinesIInv
  /\ which = "cpuinfo" => CpuInfoIInv

LEMMA ReadersAlways == Spec => []ReadersIInv
<1>1. Init => ReadersIInv
  <2> SUFFICES ASSUME Init PROVE ReadersIInv
    OBVIOUS
  <2>1. DirectoryIInv
    BY DirectoryInit DEF Init
  <2>2. /\ offset = 0 /\ buf_ = << >> /\ hit_eof_ = FALSE /\ len = 0 /\ call = "none" /\ popped = 0
        /\ pop_count_ = -1 /\ value_ = 0 /\ value_len_ = 0 /\ asked = "no" /\ fields = << >>
    BY DEF Init, CpuInfo!FieldsInit, CpuInfo!Init
  <2>3. (which = "lines" => file \in Lines!Files) /\ (which = "cpuinfo" => file \in CpuInfo!Files)
    BY DEF Init
  <2> QED
    BY <2>1, <2>2, <2>3, LinesInit, CpuInfoInit DEF ReadersIInv
<1>2. ReadersIInv /\ [Next]_vars => ReadersIInv'
  <2> SUFFICES ASSUME ReadersIInv, [Next]_vars PROVE ReadersIInv'
    OBVIOUS
  <2>1. [Directory!Next]_Directory!vars
    BY DEF Next, On, vars, entriesOf, Directory!vars
  <2>2. which' = which
    BY DEF Next, vars
  <2>3. which = "lines" => [Lines!Next]_Lines!vars
    BY DEF Next, vars, lines, Lines!vars, Lines!reader
  <2>4. which = "cpuinfo" => [CpuInfo!FieldsNext]_CpuInfo!cpuinfo
    BY DEF Next, vars, lines, own, CpuInfo!cpuinfo, CpuInfo!vars, CpuInfo!reader, CpuInfo!own
  <2> QED
    BY <2>1, <2>2, <2>3, <2>4, DirectoryNext, LinesNext, CpuInfoNext DEF ReadersIInv
<1> QED
  BY <1>1, <1>2, PTL DEF Spec

\* linked_ptr.h:30-32 and the loops of join and depart, scoped_ptr, and the
\* dictionary's asserted uniqueness, its indices and its iterators: for keys
\* that fit into key_size with their NUL (longer ones are stored cut off, and
\* are not found again).
THEOREM UniqueOwnersAndEntries == ASSUME MaxKey < key_size PROVE Spec => []OwnersAndEntriesAreUnique
<1>1. LinkedIInv /\ ScopedIInv /\ DictionaryIInv => OwnersAndEntriesAreUnique
  <2> SUFFICES ASSUME LinkedIInv, ScopedIInv, DictionaryIInv PROVE OwnersAndEntriesAreUnique
    OBVIOUS
  <2>1. Linked!TypeOK /\ Linked!OneCircle /\ Linked!AliveWhileOwned
    BY LinkedMeans
  <2>2. ScopedPtrs!TypeOK /\ ScopedPtrs!OneOwner
    BY ScopedMeans
  <2>3. /\ Dictionary!TypeOK /\ Dictionary!KeyAppearsOnce /\ Dictionary!IndexStaysValid
        /\ Dictionary!IteratorMissesNone
    BY DictionaryMeans DEF DictionaryIInv
  <2> QED
    BY <2>1, <2>2, <2>3 DEF OwnersAndEntriesAreUnique
<1> QED
  BY <1>1, LinkedAlways, ScopedAlways, DictionaryAlways, PTL

\* memory_allocator.h: blocks and headers are apart and on mapped pages,
\* OwnsPointer knows those pages and FreeAll finds all of them;
\* memory_range.h: whatever offsets and lengths a file holds, no subrange and
\* no access leaves the memory that was set.
THEOREM OneOwnerOfEveryByte == Spec => []BytesHaveOneOwner
<1>1. PagesIInv /\ RangeIInv => BytesHaveOneOwner
  BY PagesMean DEF RangeIInv, BytesHaveOneOwner
<1> QED
  BY <1>1, PagesAlways, RangeAlways, PTL

\* scoped_ptr_malloc gives back with free, scoped_array with delete[] and
\* scoped_ptr with delete, and only what was allocated so; vectors move to
\* blocks with room; and NonAllocatingMap implements StringDictionary.
THEOREM PromisesKept == ASSUME MaxKey < key_size PROVE Spec => PromisesAreKept
<1>1. Spec => Dictionary!KeepsPromise
  <2>1. Init => Dictionary!Abstract!Init
    BY DictionaryInitRefines DEF Init
  <2>2. DictionaryIInv /\ DictionaryIInv' /\ [Next]_vars => [Dictionary!Abstract!Next]_<<DictOf, stored>>
    BY PartsStep, DictionaryRefines
  <2> QED
    BY <2>1, <2>2, DictionaryAlways, PTL
       DEF Spec, Dictionary!KeepsPromise, Dictionary!Abstract!Spec, DictOf
<1>2. Spec => ScopedPtrs!GivenBackAsAllocated
  <2>1. ScopedIInv /\ [Next]_vars =>
          [\A b \in DOMAIN origin, c \in ScopedPtrs!Classes :
             <<b, c>> \in given' \ given => c = origin[b]]_ScopedPtrs!vars
    BY PartsStep, ScopedNext, MemoryObjectsAssumption
  <2> QED
    BY <2>1, ScopedAlways, PTL DEF Spec, ScopedPtrs!GivenBackAsAllocated
<1>3. Spec => Allocator!VectorsMoveToRoom
  <2>1. PagesIInv /\ [Next]_vars =>
          [\A v \in Vectors : vectors'[v] # vectors[v] =>
             LET new == vectors'[v] IN
               \/ new.data = Allocator!Stack /\ new.capacity <= OnStack[v] /\ vectors[v].data # Allocator!Stack
               \/ [at |-> new.data, bytes |-> new.capacity] \in granted' \ granted
               \/ new.data = Allocator!NULL /\ refused']_Allocator!vars
    BY PartsStep, PagesNext DEF MovesToRoom
  <2> QED
    BY <2>1, PagesAlways, PTL DEF Spec, Allocator!VectorsMoveToRoom
<1> QED
  BY <1>1, <1>2, <1>3 DEF PromisesAreKept

\* directory_reader.h, line_reader.h and proc_cpuinfo_reader.h: for every file
\* and every way read() and getdents() cut it up, entries, lines and fields come
\* whole, in their order, and none is lost before the end.
THEOREM AllIsRead == Spec => []AllIsReadInOrder
<1>1. ReadersIInv => AllIsReadInOrder
  BY DirectoryMeans, LinesMean, CpuInfoMeans DEF ReadersIInv, AllIsReadInOrder
<1> QED
  BY <1>1, ReadersAlways, PTL
=============================================================================
