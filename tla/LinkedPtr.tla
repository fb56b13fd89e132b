----------------------------- MODULE LinkedPtr -----------------------------
(***************************************************************************)
(* breakpad/include/processor/linked_ptr.h: smart pointers to one object   *)
(* are in one circle, which each of them can follow and none of them       *)
(* counts; the one that leaves the circle last deletes the object.         *)
(*                                                                         *)
(* Pointers come and go as the elements of a container do.  mem is the     *)
(* memory; an operation is a function of it, so that the assignment, which *)
(* leaves one circle and joins another, is what the code makes it.         *)
(***************************************************************************)
EXTENDS Integers, FiniteSets

CONSTANTS
  Ptrs,      \* linked_ptr<>s
  Objects,   \* objects they may point to
  NULL

LinkedPtrAssumption == IsFiniteSet(Ptrs) /\ NULL \notin Objects

VARIABLE mem   \* exists[p]; value_[p]; next_[p]; object[o]

Lives == {"unborn", "alive", "released", "deleted"}

TypeOK ==
  mem \in [exists : [Ptrs -> BOOLEAN], value : [Ptrs -> Objects \cup {NULL}],
           next : [Ptrs -> Ptrs], object : [Objects -> Lives]]

Init ==
  mem = [exists |-> [p \in Ptrs |-> FALSE], value |-> [p \in Ptrs |-> NULL],
         next |-> [p \in Ptrs |-> p], object |-> [o \in Objects |-> "unborn"]]

\* The pointers a walk along next_ from p comes to.
Walk(m, p) ==
  LET hop[n \in Nat] == IF n = 0 THEN p ELSE m.next[hop[n - 1]]
  IN {hop[n] : n \in 0 .. Cardinality(Ptrs)}

\* Where the loop `while (p->next_ != x) p = p->next_' ends.
Predecessor(m, p, x) == {q \in Walk(m, p) : m.next[q] = x}

join_new(m, p) == [m EXCEPT !.next[p] = p]

join(m, p, ptr) ==
  {[m EXCEPT !.next[last] = p, !.next[p] = ptr] : last \in Predecessor(m, ptr, ptr)}

delete(m, o) ==
  IF o = NULL THEN m ELSE [m EXCEPT !.object[o] = "deleted"]

\* Mutant: a circle of two is taken for the last member.
DepartEarly(m, p) ==
  IF m.next[m.next[p]] = p THEN {delete(m, m.value[p])}
  ELSE {[m EXCEPT !.next[before] = m.next[p]] : before \in Predecessor(m, m.next[p], p)}

\* Leave the circle; the last one deletes the object.
depart(m, p) ==
  IF m.next[p] = p THEN {delete(m, m.value[p])}
  ELSE {[m EXCEPT !.next[before] = m.next[p]] : before \in Predecessor(m, m.next[p], p)}

capture(m, p, ptr) == join_new([m EXCEPT !.value[p] = ptr, !.exists[p] = TRUE], p)

copy(m, p, q) ==
  LET copied == [m EXCEPT !.value[p] = m.value[q]]
  IN {[n EXCEPT !.exists[p] = TRUE] :
        n \in IF m.value[q] # NULL THEN join(copied, p, q) ELSE {join_new(copied, p)}}
-----------------------------------------------------------------------------
\* The raw pointer a client may hand over: null, a new object, or one it got
\* from release().
Raw(m) == {NULL} \cup {o \in Objects : m.object[o] \in {"unborn", "released"}}
Born(m, o) == IF o = NULL THEN m ELSE [m EXCEPT !.object[o] = "alive"]

Construct(p, raw) ==
  /\ ~mem.exists[p]
  /\ mem' = capture(Born(mem, raw), p, raw)

CopyConstruct(p, q) ==
  /\ ~mem.exists[p] /\ mem.exists[q]
  /\ mem' \in copy(mem, p, q)

Destroy(p) ==
  /\ mem.exists[p]
  /\ mem' \in {[n EXCEPT !.exists[p] = FALSE, !.value[p] = NULL, !.next[p] = p] :
                n \in depart(mem, p)}

\* Mutant: an assignment to itself is not left out.
AssignAlways(p, q) ==
  /\ mem.exists[p] /\ mem.exists[q]
  /\ mem' \in UNION {copy(n, p, q) : n \in depart(mem, p)}

Assign(p, q) ==
  /\ mem.exists[p] /\ mem.exists[q] /\ p # q
  /\ mem' \in UNION {copy(n, p, q) : n \in depart(mem, p)}

Reset(p, raw) ==
  /\ mem.exists[p]
  /\ mem' \in {capture(Born(n, raw), p, raw) : n \in depart(mem, p)}

Owners(m, o) == {p \in Ptrs : m.exists[p] /\ m.value[p] = o}

\* Sole ownership by this linked_ptr object is required.
Release(p) ==
  /\ mem.exists[p]
  /\ mem.value[p] # NULL /\ Owners(mem, mem.value[p]) = {p}
  /\ mem' = [mem EXCEPT !.object[mem.value[p]] = "released", !.value[p] = NULL]

Next == \E p \in Ptrs :
  \/ Destroy(p)
  \/ Release(p)
  \/ \E q \in Ptrs : CopyConstruct(p, q) \/ Assign(p, q)
  \/ \E raw \in Raw(mem) : Construct(p, raw) \/ Reset(p, raw)

Spec == Init /\ [][Next]_mem
-----------------------------------------------------------------------------
\* The pointers to one object, and no others, are in one circle: the loops of
\* join and depart come to an end at the right member, whatever was copied,
\* assigned and destroyed before.  A pointer that holds null is alone.
OneCircle ==
  \A p \in Ptrs : mem.exists[p] =>
    Walk(mem, p) = IF mem.value[p] = NULL THEN {p} ELSE Owners(mem, mem.value[p])

\* linked_ptr.h:30-32: an object lives as long as a pointer refers to it and
\* is deleted with the last: no dangling pointer, no second deletion, no leak.
AliveWhileOwned ==
  \A o \in Objects : mem.object[o] = "alive" <=> Owners(mem, o) # {}
=============================================================================
