---------------------------- MODULE NestedRanges ----------------------------
(***************************************************************************)
(* What a ContainedRangeMap promises to those who store ranges in it: a    *)
(* set of ranges any two of which are disjoint or one within the other.    *)
(* A range that would violate that is refused and changes nothing.         *)
(***************************************************************************)
EXTENDS Integers

CONSTANT Space    \* number of addresses

VARIABLES
  stored,   \* the ranges that are there
  request,  \* the range that is to be stored, or Idle
  result    \* what the last StoreRange has returned; FALSE during a call

Addr == 0 .. Space - 1
Idle == [base |-> 0, size |-> 0 - 1]
HighOf(r) == r.base + r.size - 1

Init == stored = {} /\ request = Idle /\ result = FALSE

Crossing(r, s) ==
  \/ r.base < s.base /\ s.base <= r.high /\ r.high < s.high
  \/ s.base < r.base /\ r.base <= s.high /\ s.high < r.high

Acceptable(r) == /\ r.base <= r.high /\ r.high < Space
                 /\ r \notin stored
                 /\ \A s \in stored : ~Crossing(r, s)

Request == /\ request = Idle
           /\ request' \in [base : Addr, size : Addr]
           /\ result' = FALSE
           /\ UNCHANGED stored

Answer ==
  LET range == [base |-> request.base, high |-> HighOf(request)]
  IN /\ request # Idle
     /\ request' = Idle
     /\ result' = Acceptable(range)
     /\ stored' = IF Acceptable(range) THEN stored \cup {range} ELSE stored

Clear == request = Idle /\ stored' = {} /\ UNCHANGED <<request, result>>

Next == Request \/ Answer \/ Clear

Spec == Init /\ [][Next]_<<stored, request, result>>
             /\ WF_<<stored, request, result>>(Answer)
=============================================================================
