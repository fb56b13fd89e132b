---------------------------- MODULE MemoryRange ----------------------------
(***************************************************************************)
(* breakpad/include/common/memory_range.h: checked access to part of a     *)
(* range of memory, and to part of that part.  Offsets and lengths come    *)
(* out of files and are any number a size_t holds.                         *)
(***************************************************************************)
EXTENDS Integers

CONSTANTS
  Word,     \* size_t is modulo Word
  Memory    \* addresses: those of the range Set is called with lie in 1 .. Memory

MemoryRangeAssumption == {Word, Memory} \subseteq Nat \ {0} /\ Memory < Word

NULL == 0
size_t == 0 .. Word - 1

VARIABLES
  data_, length_,
  set,      \* history: what Set was called with last, [data, length]
  got       \* what the last access gave: [offset, size, index, data]

vars == <<data_, length_, set, got>>

NoAccess == [offset |-> 0, size |-> 0, index |-> 0, data |-> NULL]

TypeOK ==
  /\ {data_, length_} \subseteq size_t
  /\ set \in [data : 0 .. Memory, length : 0 .. Memory]
  /\ got \in [offset : size_t, size : size_t, index : size_t, data : size_t]

Init ==
  /\ data_ = NULL /\ length_ = 0
  /\ set = [data |-> NULL, length |-> 0]
  /\ got = NoAccess

\* NULL has no length, whatever the caller says; what else it is called with
\* is memory.
Set(data, length) ==
  /\ data # NULL => data + length <= Memory + 1
  /\ data_' = data
  /\ length_' = IF data = NULL THEN 0 ELSE length
  /\ set' = [data |-> data, length |-> length_']
  /\ got' = NoAccess

Reset ==
  /\ data_' = NULL /\ length_' = 0
  /\ set' = [data |-> NULL, length |-> 0]
  /\ got' = NoAccess

\* Mutant: the sum may wrap.
CoversIfSumFits(sub_offset, sub_length) ==
  /\ sub_offset < length_
  /\ (sub_offset + sub_length) % Word <= length_

\* Mutant: the last byte is not part of the range.
CoversAllButTheLast(sub_offset, sub_length) ==
  /\ sub_offset < length_
  /\ (sub_offset + sub_length) % Word >= sub_offset
  /\ (sub_offset + sub_length) % Word < length_

Covers(sub_offset, sub_length) ==
  /\ sub_offset < length_
  /\ (sub_offset + sub_length) % Word >= sub_offset
  /\ (sub_offset + sub_length) % Word <= length_

\* Mutant: an element that begins in the range is one of it.
DataAnyLength(sub_offset, sub_length) ==
  IF sub_offset < length_ THEN data_ + sub_offset ELSE NULL

Data(sub_offset, sub_length) ==
  IF Covers(sub_offset, sub_length) THEN data_ + sub_offset ELSE NULL

\* GetArrayElement; GetData is that with the index 0.
GetArrayElement(element_offset, element_size, element_index) ==
  /\ got' = [offset |-> element_offset, size |-> element_size, index |-> element_index,
             data |-> Data((element_offset + element_index * element_size) % Word, element_size)]
  /\ UNCHANGED <<data_, length_, set>>

\* The range becomes its own subrange, or empty.
Subrange(sub_offset, sub_length) ==
  /\ data_' = Data(sub_offset, sub_length)
  /\ length_' = IF Covers(sub_offset, sub_length) THEN sub_length ELSE 0
  /\ got' = NoAccess
  /\ UNCHANGED set

Next ==
  \/ \E data, length \in 0 .. Memory : Set(data, length)
  \/ Reset
  \/ \E offset, length \in size_t : Subrange(offset, length)
  \/ \E offset, size, index \in size_t : GetArrayElement(offset, size, index)

Spec == Init /\ [][Next]_vars
-----------------------------------------------------------------------------
\* Subranges of subranges stay in the range that was set: no offset and no
\* length leads out of it, those that wrap included.
NeverLeavesTheRange ==
  length_ > 0 => set.data <= data_ /\ data_ + length_ <= set.data + set.length

\* What an access gives is memory of the range to its last byte.  It is the
\* element asked for unless its offset is beyond size_t: the product of index
\* and size is not checked.
AccessIsInside == got.data # NULL =>
  LET offset == got.offset + got.index * got.size IN
  /\ data_ <= got.data /\ got.data + got.size <= data_ + length_
  /\ offset < Word => got.data = data_ + offset

\* NULL is given only if the element is not in the range.
InsideIsGiven == got # NoAccess /\ got.data = NULL =>
  LET offset == got.offset + got.index * got.size IN
  offset >= length_ \/ offset + got.size > length_
=============================================================================
