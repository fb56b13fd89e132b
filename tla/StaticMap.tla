----------------------------- MODULE StaticMap -----------------------------
(***************************************************************************)
(* std::map as the containers of breakpad use it, and                      *)
(* breakpad/include/processor/static_map.h and its -inl.h, the iterators   *)
(* and StdMapSerializer: a map written into one block of memory and looked *)
(* up there by binary search.                                              *)
(*                                                                         *)
(* A std::map is a function whose domain is a finite set of keys.  An      *)
(* iterator is the set with the key it is at, and the empty set is end().  *)
(*                                                                         *)
(* What is written is a sequence of fields, each with its size in bytes; a *)
(* block of memory has each field at its offset.  Pointers are offsets:    *)
(* reading where no field of the right size begins gives Garbage.          *)
(* Contents are numbers, strings and entries too.                          *)
(***************************************************************************)
EXTENDS Integers, Sequences, SequencesExt

EmptyMap == [k \in {} |-> 0]

\* lower_bound and upper_bound.
LeastNotBelow(m, a) == {k \in DOMAIN m : k >= a /\ \A g \in DOMAIN m : g >= a => k <= g}
LeastAbove(m, a) == {k \in DOMAIN m : k > a /\ \A g \in DOMAIN m : g > a => k <= g}

\* --iterator, and the last key if the iterator is end().
Before(m, it) ==
  LET below == {k \in DOMAIN m : \A i \in it : k < i}
  IN {k \in below : \A g \in below : g <= k}

\* The map without the keys in ks, and what insert makes of it: nothing if
\* the key is there.
Without(m, ks) == [k \in DOMAIN m \ ks |-> m[k]]
WithNew(m, key, value) ==
  IF key \in DOMAIN m THEN m
  ELSE [k \in DOMAIN m \cup {key} |-> IF k = key THEN value ELSE m[k]]
-----------------------------------------------------------------------------
Garbage == -1

\* Fields of the types that are written; a string takes its length and a NUL.
Bool(x) == [size |-> 1, is |-> IF x THEN 255 ELSE 0]
U32(x) == [size |-> 4, is |-> x]
MemAddr(x) == [size |-> 8, is |-> x]
String(s, length) == [size |-> length + 1, is |-> s]

Bytes(fields) == FoldLeft(LAMBDA n, f : n + f.size, 0, fields)

\* The block the fields make when they are written from its beginning on.
Block(fields) ==
  LET write(s, f) == [next |-> s.next + f.size, memory |-> s.memory @@ (s.next :> f)]
  IN FoldLeft(write, [next |-> 0, memory |-> <<>>], fields).memory

\* Mutant: from the highest key down.
KeysDescending(m) == SetToSortSeq(DOMAIN m, LAMBDA j, k : j > k)

Keys(m) == SetToSortSeq(DOMAIN m, LAMBDA j, k : j < k)

\* SizeOf of a map whose key k and value take size[k] bytes together.
SizeOfMap(size) ==
  FoldLeft(LAMBDA n, k : n + size[k], 4 * (1 + Len(Keys(size))), Keys(size))

\* Number of nodes, offsets of the values, keys, values: what is written for
\* the value of key k is value[k].
WriteMap(value) ==
  LET keys == Keys(value)
      values == [i \in DOMAIN keys |-> value[keys[i]]]
      header == 4 + 12 * Len(keys)
      written(i) == header + Bytes(FlattenSeq(SubSeq(values, 1, i - 1)))
  IN <<U32(Len(keys))>> \o [i \in DOMAIN keys |-> U32(written(i))]
     \o [i \in DOMAIN keys |-> MemAddr(keys[i])] \o FlattenSeq(values)

Field(memory, offset) ==
  IF offset \in DOMAIN memory THEN memory[offset] ELSE [size |-> 0, is |-> Garbage]

Read(memory, offset, size) ==
  IF Field(memory, offset).size = size THEN memory[offset].is ELSE Garbage

num_nodes(memory, base) == Read(memory, base, 4)
offset_at(memory, base, index) == Read(memory, base + 4 + 4 * index, 4)

GetKeyAtIndex(memory, base, index) ==
  IF index < 0 \/ index >= num_nodes(memory, base) THEN 0
  ELSE Read(memory, base + 4 * (1 + num_nodes(memory, base)) + 8 * index, 8)

\* Iterators: the index of a node, or one behind the last.
BeginOf(memory, base) == 0
LastOf(memory, base) == num_nodes(memory, base) - 1
EndOf(memory, base) == num_nodes(memory, base)
IsValid(memory, base, index) == index \in 0 .. num_nodes(memory, base)

\* Mutant: an iterator stops at the last node.
IncrementToLast(memory, base, index) ==
  IF index \in 0 .. num_nodes(memory, base) - 2 THEN index + 1 ELSE index

\* ++ and --, which stop at the ends and leave an invalid iterator alone.
Increment(memory, base, index) ==
  IF IsValid(memory, base, index) /\ index < EndOf(memory, base) THEN index + 1 ELSE index
Decrement(memory, base, index) ==
  IF IsValid(memory, base, index) /\ index > 0 THEN index - 1 ELSE index

\* What GetKeyPtr points to; behind the last node that is no key any more.
GetKey(memory, base, index) ==
  IF IsValid(memory, base, index)
  THEN Read(memory, base + 4 * (1 + num_nodes(memory, base)) + 8 * index, 8) ELSE Garbage
GetValuePtr(memory, base, index) == base + offset_at(memory, base, index)

\* The loop of find, lower_bound and upper_bound: the index it ends at, and
\* whether the key there is the one looked for.
Search(memory, base, key) ==
  LET look[begin, end \in Int] ==
        LET middle == begin + (end - begin) \div 2
            at == GetKeyAtIndex(memory, base, middle)
        IN CASE begin >= end -> [index |-> begin, equal |-> FALSE]
             [] begin < end /\ key = at -> [index |-> middle, equal |-> TRUE]
             [] begin < end /\ key < at -> look[begin, middle]
             [] OTHER -> look[middle + 1, end]
  IN look[0, num_nodes(memory, base)]

\* Mutant: whatever key the search ends at.
FindInsertionPoint(memory, base, key) == Search(memory, base, key).index

find(memory, base, key) ==
  LET found == Search(memory, base, key)
  IN IF found.equal THEN found.index ELSE num_nodes(memory, base)

lower_bound(memory, base, key) == Search(memory, base, key).index

\* Mutant: as lower_bound.
UpperBoundAtKey(memory, base, key) == Search(memory, base, key).index

upper_bound(memory, base, key) ==
  LET found == Search(memory, base, key)
  IN IF found.equal THEN found.index + 1 ELSE found.index

ValidateInMemoryStructure(memory, base) ==
  LET n == num_nodes(memory, base)
  IN /\ n >= 0
     /\ n > 0 => offset_at(memory, base, 0) = 4 * (n + 1) + 8 * n
     /\ \A i \in 1 .. n - 1 :
          /\ offset_at(memory, base, i) > offset_at(memory, base, i - 1)
          /\ GetKeyAtIndex(memory, base, i) > GetKeyAtIndex(memory, base, i - 1)
=============================================================================
