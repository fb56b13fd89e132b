----------------------- MODULE SimpleStringDictionary -----------------------
(***************************************************************************)
(* breakpad/include/common/simple_string_dictionary.h: NonAllocatingMap, a *)
(* dictionary in an array of entries, in which a client keeps indices it   *)
(* was given and an Iterator may be under way while entries come and go.   *)
(*                                                                         *)
(* A string is the sequence of its characters before the NUL.              *)
(***************************************************************************)
EXTENDS Integers, Sequences, FiniteSets

CONSTANTS
  Chars,        \* characters of the keys
  MaxKey,       \* bound: length of the keys a client sets
  key_size, value_size, num_entries

DictionaryAssumption ==
  {key_size, value_size, num_entries} \subseteq Nat \ {0} /\ MaxKey \in Nat

Strings(chars, n) == UNION {[1 .. l -> chars] : l \in 0 .. n}
Keys == Strings(Chars, MaxKey) \ {<<>>}
Values == {<<>>, [i \in 1 .. value_size |-> "x"]}    \* to be cut off

VARIABLES
  entries,   \* entries_
  stored,    \* whether the last SetKeyValue has returned an index
  index,     \* client: what SetKeyValue returned for each key it has set
  current,   \* current_ of the Iterator under way
  seen,      \* history: the keys Next() has returned
  stayed     \* history: the keys that were there since the iteration began

vars == <<entries, stored, index, current, seen, stayed>>

Slots == 0 .. num_entries - 1
NoEntry == [key |-> <<>>, value |-> <<>>]
Active(i) == entries[i].key # <<>>

ActiveKeys == {entries[i].key : i \in {j \in Slots : Active(j)}}

Abstract == INSTANCE StringDictionary WITH dict <-
  [k \in ActiveKeys |-> entries[CHOOSE i \in Slots : entries[i].key = k].value]

TypeOK ==
  /\ entries \in [Slots -> [key : Strings(Chars, key_size - 1),
                            value : Strings({"x"}, value_size - 1)]]
  /\ stored \in BOOLEAN
  /\ DOMAIN index \subseteq Keys /\ \A k \in DOMAIN index : index[k] \in Slots
  /\ current \in 0 .. num_entries
  /\ seen \subseteq Strings(Chars, key_size - 1)
  /\ stayed \subseteq Strings(Chars, key_size - 1)

Init ==
  /\ entries = [i \in Slots |-> NoEntry]
  /\ stored = FALSE
  /\ index = [k \in {} |-> 0]
  /\ current = num_entries
  /\ seen = {}
  /\ stayed = {}

\* Mutant: strncpy without the NUL behind it.
CutFull(s, size) == SubSeq(s, 1, IF Len(s) < size THEN Len(s) ELSE size)

\* strncpy(to, s, size) and a NUL in the last place.
Cut(s, size) == SubSeq(s, 1, IF Len(s) < size THEN Len(s) ELSE size - 1)

\* strncmp(s, t, key_size) == 0
Same(s, t) == SubSeq(s, 1, IF Len(s) < key_size THEN Len(s) ELSE key_size)
            = SubSeq(t, 1, IF Len(t) < key_size THEN Len(t) ELSE key_size)

First(S) == IF S = {} THEN num_entries ELSE CHOOSE i \in S : \A j \in S : i <= j

\* Mutant: the search ends at the first entry that is free.
GetEntryIndexUpToFree(key) ==
  LET i == First({j \in Slots : Same(key, entries[j].key) \/ ~Active(j)})
  IN IF i # num_entries /\ ~Active(i) THEN num_entries ELSE i

GetEntryIndexForKey(key) == First({i \in Slots : Same(key, entries[i].key)})

\* Mutant: an entry is looked for behind the last one that is taken.
FreeSlotBehind == First({i \in Slots : \A j \in Slots : j >= i => ~Active(j)})

FreeSlot == First({i \in Slots : ~Active(i)})

Forget(key) == [k \in DOMAIN index \ {key} |-> index[k]]

SetKeyValue(key, value) ==
  LET found == GetEntryIndexForKey(key)
      i == IF found # num_entries THEN found ELSE FreeSlot
  IN IF i = num_entries
     THEN stored' = FALSE /\ UNCHANGED <<entries, index, current, seen, stayed>>
     ELSE /\ stored' = TRUE
          /\ entries' = [entries EXCEPT ![i] =
               [key |-> IF found # num_entries THEN @.key ELSE Cut(key, key_size),
                value |-> Cut(value, value_size)]]
          /\ index' = [k \in DOMAIN index \cup {key} |-> IF k = key THEN i ELSE index[k]]
          /\ UNCHANGED <<current, seen, stayed>>

\* With the index the client has for the key.
SetValueAtIndex(key, value) ==
  /\ key \in DOMAIN index
  /\ entries' = [entries EXCEPT ![index[key]].value = Cut(value, value_size)]
  /\ UNCHANGED <<stored, index, current, seen, stayed>>

\* Mutant: the entries behind the one removed move up.
RemoveAtIndexClosingGap(i) ==
  /\ entries' = [j \in Slots |-> IF j < i THEN entries[j]
                                 ELSE IF j + 1 \in Slots THEN entries[j + 1] ELSE NoEntry]
  /\ stayed' = stayed \ {entries[i].key}

RemoveAtIndex(i) ==
  /\ entries' = [entries EXCEPT ![i] = NoEntry]
  /\ stayed' = stayed \ {entries[i].key}

\* RemoveKey(key), or RemoveAtIndex with the index the client has for it; the
\* index is invalid after that.
RemoveKey(key) ==
  LET i == GetEntryIndexForKey(key)
  IN /\ i \in Slots
     /\ RemoveAtIndex(i)
     /\ index' = Forget(key)
     /\ UNCHANGED <<stored, current, seen>>

\* The map is copied, or serialized and read again by another process.
Copy ==
  /\ current' = num_entries /\ seen' = {} /\ stayed' = {}
  /\ UNCHANGED <<entries, stored, index>>

NewIterator ==
  /\ current' = 0
  /\ seen' = {}
  /\ stayed' = ActiveKeys
  /\ UNCHANGED <<entries, stored, index>>

\* Mutant: ++current_ in place of current_++.
IteratorNextSkipping ==
  LET i == First({j \in Slots : j > current /\ Active(j)})
  IN /\ current < num_entries
     /\ IF i = num_entries
        THEN current' = num_entries /\ UNCHANGED seen
        ELSE current' = i /\ seen' = seen \cup {entries[i].key}
     /\ UNCHANGED <<entries, stored, index, stayed>>

IteratorNext ==
  LET i == First({j \in Slots : j >= current /\ Active(j)})
  IN /\ current < num_entries
     /\ IF i = num_entries
        THEN current' = num_entries /\ UNCHANGED seen
        ELSE current' = i + 1 /\ seen' = seen \cup {entries[i].key}
     /\ UNCHANGED <<entries, stored, index, stayed>>

Next ==
  \/ \E key \in Keys : \/ RemoveKey(key)
                       \/ \E value \in Values : SetKeyValue(key, value) \/ SetValueAtIndex(key, value)
  \/ Copy \/ NewIterator \/ IteratorNext

Spec == Init /\ [][Next]_vars
-----------------------------------------------------------------------------
\* No key is there twice (the assertion of lines 200-206): setting a key that
\* is already present replaces its value (lines 157-158), also when an entry
\* before its own has become free in the meantime.
KeyAppearsOnce ==
  \A i, j \in Slots : Active(i) /\ i # j => ~Same(entries[i].key, entries[j].key)

\* An index a client was given for a key is that key's until the key is
\* removed, whatever was set and removed around it: SetValueAtIndex never
\* writes into another key's entry.
IndexStaysValid == \A k \in DOMAIN index : entries[index[k]].key = k

\* An Iterator that has come to the end has returned every key that was there
\* all the time, although others were set and removed between two Next().
IteratorMissesNone ==
  current = num_entries => stayed \subseteq seen

\* Array, cut off strings and free entries implement a dictionary of at most
\* num_entries keys.
KeepsPromise == Abstract!Spec
=============================================================================
