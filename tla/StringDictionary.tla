-------------------------- MODULE StringDictionary --------------------------
(***************************************************************************)
(* What a NonAllocatingMap promises: a dictionary of at most num_entries   *)
(* keys, whose values are cut off at a length of value_size - 1.           *)
(***************************************************************************)
EXTENDS Integers, Sequences, FiniteSets

CONSTANTS Keys, Values, value_size, num_entries

VARIABLES
  dict,
  stored   \* whether the last Set has found room

Cut(s, n) == SubSeq(s, 1, IF Len(s) < n THEN Len(s) ELSE n)

Init == dict = [k \in {} |-> <<>>] /\ stored = FALSE

Room(key) == key \in DOMAIN dict \/ Cardinality(DOMAIN dict) < num_entries

Set(key, value) ==
  /\ stored' = Room(key)
  /\ dict' = [k \in DOMAIN dict \cup (IF Room(key) THEN {key} ELSE {}) |->
                IF k = key THEN Cut(value, value_size - 1) ELSE dict[k]]

\* With the index Set has given: the key is there.
SetAgain(key, value) ==
  /\ key \in DOMAIN dict
  /\ dict' = [dict EXCEPT ![key] = Cut(value, value_size - 1)]
  /\ UNCHANGED stored

Remove(key) ==
  /\ dict' = [k \in DOMAIN dict \ {key} |-> dict[k]]
  /\ UNCHANGED stored

Next == \E key \in Keys :
  Remove(key) \/ \E value \in Values : Set(key, value) \/ SetAgain(key, value)

Spec == Init /\ [][Next]_<<dict, stored>>
=============================================================================
