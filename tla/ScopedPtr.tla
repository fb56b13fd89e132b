----------------------------- MODULE ScopedPtr -----------------------------
(***************************************************************************)
(* breakpad/include/common/scoped_ptr.h: scoped_ptr, scoped_array and      *)
(* scoped_ptr_malloc, which own what they point to and differ in how they  *)
(* give it back.  They cannot be copied; ownership moves by swap, or by    *)
(* release() and a raw pointer that some scoped pointer takes again.       *)
(***************************************************************************)
EXTENDS FiniteSets, Functions

CONSTANTS
  Ptrs,        \* scoped pointers
  Blocks,      \* what they may point to
  NULL,
  ClassOf      \* [Ptrs -> Classes]

scoped_ptr == "delete"
scoped_array == "delete[]"
scoped_ptr_malloc == "free"
Classes == {scoped_ptr, scoped_array, scoped_ptr_malloc}

ScopedPtrAssumption == ClassOf \in [Ptrs -> Classes] /\ NULL \notin Blocks

VARIABLES
  ptr,      \* ptr_ or array_ of the scoped pointers in scope
  origin,   \* how each block that is allocated has to be given back
  raw,      \* blocks a client holds by a raw pointer only
  given     \* history: <<block, how>> for each time one was given back

vars == <<ptr, origin, raw, given>>

TypeOK ==
  /\ DOMAIN ptr \subseteq Ptrs /\ \A p \in DOMAIN ptr : ptr[p] \in DOMAIN origin \cup {NULL}
  /\ DOMAIN origin \subseteq Blocks /\ \A b \in DOMAIN origin : origin[b] \in Classes
  /\ raw \subseteq DOMAIN origin
  /\ given \subseteq Blocks \X Classes

Init == /\ ptr = [p \in {} |-> NULL]
        /\ origin = [b \in {} |-> scoped_ptr]
        /\ raw = {} /\ given = {}

\* Mutant: delete in place of delete[].
DeallocateFirst(p) ==
  IF ptr[p] = NULL THEN UNCHANGED <<origin, given>>
  ELSE /\ given' = given \cup {<<ptr[p], IF ClassOf[p] = scoped_array THEN scoped_ptr
                                        ELSE ClassOf[p]>>}
       /\ origin' = Restrict(origin, DOMAIN origin \ {ptr[p]})

\* The deallocator of p's class on what it points to; none of the three does
\* anything to a null pointer.
Deallocate(p) ==
  IF ptr[p] = NULL THEN UNCHANGED <<origin, given>>
  ELSE /\ given' = given \cup {<<ptr[p], ClassOf[p]>>}
       /\ origin' = Restrict(origin, DOMAIN origin \ {ptr[p]})

Allocate(b, class) ==
  /\ b \notin DOMAIN origin /\ \A c \in Classes : <<b, c>> \notin given
  /\ origin' = [c \in DOMAIN origin \cup {b} |-> IF c = b THEN class ELSE origin[c]]
  /\ raw' = raw \cup {b}
  /\ UNCHANGED <<ptr, given>>

\* What a client may hand over to p: null, or a block only it has a pointer
\* to and that p's class can give back.
Mine(p) == {NULL} \cup {b \in raw : origin[b] = ClassOf[p]}

Construct(p, b) ==
  /\ p \notin DOMAIN ptr
  /\ ptr' = [q \in DOMAIN ptr \cup {p} |-> IF q = p THEN b ELSE ptr[q]]
  /\ raw' = raw \ {b}
  /\ UNCHANGED <<origin, given>>

Destroy(p) ==
  /\ p \in DOMAIN ptr
  /\ ptr' = Restrict(ptr, DOMAIN ptr \ {p})
  /\ Deallocate(p)
  /\ UNCHANGED raw

\* reset(p), or this->reset(this->get()).
Reset(p, b) ==
  /\ p \in DOMAIN ptr
  /\ IF b = ptr[p] THEN UNCHANGED <<ptr, origin, given>>
     ELSE Deallocate(p) /\ ptr' = [ptr EXCEPT ![p] = b]
  /\ raw' = raw \ {b}

Swap(p, q) ==
  /\ {p, q} \subseteq DOMAIN ptr /\ ClassOf[p] = ClassOf[q]
  /\ ptr' = [ptr EXCEPT ![p] = ptr[q], ![q] = ptr[p]]
  /\ UNCHANGED <<origin, raw, given>>

\* Mutant: ptr_ keeps its value.
ReleaseKeeping(p) ==
  /\ p \in DOMAIN ptr
  /\ raw' = raw \cup ({ptr[p]} \ {NULL})
  /\ UNCHANGED <<ptr, origin, given>>

Release(p) ==
  /\ p \in DOMAIN ptr
  /\ raw' = raw \cup ({ptr[p]} \ {NULL})
  /\ ptr' = [ptr EXCEPT ![p] = NULL]
  /\ UNCHANGED <<origin, given>>

Next ==
  \/ \E b \in Blocks, class \in Classes : Allocate(b, class)
  \/ \E p \in Ptrs :
       \/ Destroy(p) \/ Release(p)
       \/ \E b \in Mine(p) : Construct(p, b)
       \/ p \in DOMAIN ptr /\ \E b \in Mine(p) \cup {ptr[p]} : Reset(p, b)
       \/ \E q \in Ptrs : Swap(p, q)

Spec == Init /\ [][Next]_vars
-----------------------------------------------------------------------------
\* scoped_ptr.h:151-153: every block that is allocated has exactly one owner,
\* a scoped pointer or the client that released it; a scoped pointer never
\* holds one that was given back already.
OneOwner ==
  \A b \in DOMAIN origin :
    Cardinality({p \in DOMAIN ptr : ptr[p] = b}) = IF b \in raw THEN 0 ELSE 1

\* No block is given back by the deallocator of another class, however often
\* it was swapped, released and taken again on its way.
GivenBackAsAllocated ==
  [][\A b \in DOMAIN origin, c \in Classes :
       <<b, c>> \in given' \ given => c = origin[b]]_vars
=============================================================================
