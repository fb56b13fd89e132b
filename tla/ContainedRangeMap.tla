------------------------- MODULE ContainedRangeMap -------------------------
(***************************************************************************)
(* breakpad/include/processor/contained_range_map-inl.h: ranges within     *)
(* ranges, a tree of nodes each of which keeps a std::map of pointers to   *)
(* its children by their high addresses.                                   *)
(*                                                                         *)
(* StoreRange calls itself on the child the new range lies in; each level  *)
(* is a step.  A node is named by the range it was made for, so that a     *)
(* node is known again in whatever map its pointer ends up; a node whose   *)
(* map_ is null has no children.                                           *)
(***************************************************************************)
EXTENDS StaticMap, FiniteSets

CONSTANT Space   \* number of addresses: 2^32 or 2^64 in the program

SpaceType == Space \in Nat \ {0}

Addr == 0 .. Space - 1
Root == [base |-> 0, high |-> Space]   \* a node of no geometry: Space is no address
Nodes == [base : Addr, high : Addr]

VARIABLES
  children,  \* map_ of every node that exists: high address -> node
  request,   \* arguments of the StoreRange under way, or Idle
  this,      \* the node whose StoreRange is executing
  result     \* what the last StoreRange has returned; FALSE during a call

vars == <<children, request, this, result>>

Abstract == INSTANCE NestedRanges WITH stored <- DOMAIN children \ {Root}

Idle == Abstract!Idle

TypeOK ==
  /\ Root \in DOMAIN children
  /\ DOMAIN children \subseteq Nodes \cup {Root}
  /\ \A n \in DOMAIN children : \A h \in DOMAIN children[n] :
       h \in Addr /\ children[n][h] \in DOMAIN children
  /\ request \in [base : Addr, size : Addr] \cup {Idle}
  /\ this \in DOMAIN children
  /\ result \in BOOLEAN

OnlyRoot == [n \in {Root} |-> EmptyMap]

Init == children = OnlyRoot /\ request = Idle /\ this = Root /\ result = FALSE
-----------------------------------------------------------------------------
Call(base, size) ==
  /\ request = Idle
  /\ request' = [base |-> base, size |-> size]
  /\ result' = FALSE
  /\ UNCHANGED <<children, this>>

Returns(value) == request' = Idle /\ this' = Root /\ result' = value

map == children[this]
base == request.base
high == (request.base + request.size - 1) % Space

IsRange == request # Idle /\ request.size # 0 /\ high >= base

\* Check for undersize or overflow.
RejectSize ==
  /\ request # Idle /\ ~IsRange
  /\ Returns(FALSE)
  /\ UNCHANGED children

\* The new range is entirely within the child with the high address k.
Within(k) ==
  /\ k \in LeastNotBelow(map, base) /\ k \in LeastNotBelow(map, high)
  /\ base >= map[k].base

\* Mutant: a child with the same base counts as identical.
SameBase(k) == map[k].base = base

Identical(k) == map[k].base = base /\ k = high

RefuseIdentical ==
  /\ IsRange
  /\ \E k \in DOMAIN map : Within(k) /\ Identical(k)
  /\ Returns(FALSE)
  /\ UNCHANGED children

\* Pass the new range on to the child.
Descend ==
  /\ IsRange
  /\ \E k \in DOMAIN map : Within(k) /\ ~Identical(k) /\ this' = map[k]
  /\ UNCHANGED <<children, request, result>>

\* iterator_high is at a child that is at least partially in the new range.
ContainsHigh(k) == k \in LeastNotBelow(map, high) /\ high >= map[k].base

PartlyCovers ==
  \E k \in DOMAIN map : \/ k \in LeastNotBelow(map, base) /\ base > map[k].base
                        \/ ContainsHigh(k) /\ high < k

RefusePartial ==
  /\ IsRange
  /\ ~ \E k \in DOMAIN map : Within(k)
  /\ PartlyCovers
  /\ Returns(FALSE)
  /\ UNCHANGED children

\* The children from iterator_base up to iterator_high, which is one further
\* if contains_high.
Transferred ==
  {k \in DOMAIN map : k >= base /\ \A i \in LeastNotBelow(map, high) :
                                      k < i \/ (k = i /\ ContainsHigh(i))}

\* They become the new node's children, and it becomes a child of this one.
Insert ==
  LET new == [base |-> base, high |-> high]
      remaining == Without(map, Transferred)
  IN /\ IsRange
     /\ ~ \E k \in DOMAIN map : Within(k)
     /\ ~PartlyCovers
     /\ children' = [n \in DOMAIN children \cup {new} |->
                       CASE n = new -> Without(map, DOMAIN remaining)
                         [] n = this -> WithNew(remaining, high, new)
                         [] OTHER -> children[n]]
     /\ Returns(TRUE)

StoreRange == RejectSize \/ RefuseIdentical \/ Descend \/ RefusePartial \/ Insert

Parents(n) == {p \in DOMAIN children : \E h \in DOMAIN children[p] : children[p][h] = n}

\* Mutant: the children are taken out of the map and not deleted.
ClearShallow ==
  /\ request = Idle
  /\ children' = [children EXCEPT ![Root] = EmptyMap]
  /\ UNCHANGED <<request, this, result>>

\* Mutant: map_ still refers to the children that were deleted.
ClearDangling ==
  /\ request = Idle
  /\ children' = [n \in {m \in DOMAIN children : Parents(m) = {}} |-> children[n]]
  /\ UNCHANGED <<request, this, result>>

\* Every child is deleted, and its destructor clears it in turn: what is left
\* are nodes no map refers to.
Clear ==
  /\ request = Idle
  /\ children' = [n \in {m \in DOMAIN children : Parents(m) = {}} |->
                    IF n = Root THEN EmptyMap ELSE children[n]]
  /\ UNCHANGED <<request, this, result>>

Next == (\E b, s \in Addr : Call(b, s)) \/ StoreRange \/ Clear

\* A call that was made is carried out.
Spec == Init /\ [][Next]_vars /\ WF_vars(StoreRange)
-----------------------------------------------------------------------------
\* Mutant: the child's own entry is preferred to those of its descendants.
RetrieveRangeShallow(a) ==
  {children[Root][k] :
     k \in {j \in LeastNotBelow(children[Root], a) : a >= children[Root][j].base}}

\* RetrieveRange(a): the node whose entry it returns, or none.
RetrieveRange(a) ==
  LET Hit(n) == {children[n][k] : k \in {j \in LeastNotBelow(children[n], a) :
                                             a >= children[n][j].base}}
      found[n \in DOMAIN children] ==
        UNION {IF found[c] = {} THEN {c} ELSE found[c] : c \in Hit(n)}
  IN found[Root]

\* contained_range_map.h:39-42, 50-55: a node lies within its parent, under the
\* address it is filed by, is in one map only (Clear would delete it twice)
\* and in one (nobody would delete it), and siblings share no address; after
\* any sequence of stores that have moved subtrees from one map to another.
IsTree ==
  \A n \in DOMAIN children \ {Root} :
    /\ Cardinality(Parents(n)) = 1
    /\ \A p \in Parents(n) :
         /\ children[p][n.high] = n
         /\ p # Root => p.base <= n.base /\ n.high <= p.high /\ p # n
         /\ \A h \in DOMAIN children[p] :
              children[p][h] # n => h < n.base \/ n.high < children[p][h].base

\* contained_range_map.h:43-44: retrieval returns the smallest of all the
\* ranges stored that contain the address, at whatever depth it lies.
MostSpecific ==
  \A a \in Addr :
    LET around == {n \in DOMAIN children \ {Root} : n.base <= a /\ a <= n.high}
    IN RetrieveRange(a) =
         {n \in around : \A o \in around : n.high - n.base <= o.high - o.base}

\* The recursion over the tree does what NestedRanges promises of the set of
\* ranges: a store is accepted exactly if no stored range is identical to or
\* crosses the new one, and is answered in the end.
KeepsPromise == Abstract!Spec
-----------------------------------------------------------------------------
(***************************************************************************)
(* ContainedRangeMapSerializer and static_contained_range_map-inl.h: the   *)
(* tree, written node by node into one block, from which a                 *)
(* StaticContainedRangeMap answers the same lookups.  The entries take     *)
(* bytes of their own, a different number each.                            *)
(***************************************************************************)
Number(n) == n.base * Space + n.high

\* What SimpleSerializer writes for the entry of a node; the root's is a null
\* linked_ptr, for which it writes nothing.
EntrySize(n) == IF n = Root THEN 0 ELSE 1 + (n.high - n.base)
Entry(n) == IF n = Root THEN <<>> ELSE <<[size |-> EntrySize(n), is |-> Number(n)]>>

\* Mutant: the word for the size of the entry is forgotten.
SizeOfShort ==
  LET size[n \in DOMAIN children] ==
        8 + EntrySize(n)
        + SizeOfMap([k \in DOMAIN children[n] |-> 8 + size[children[n][k]]])
  IN size[Root]

\* SizeOf: what is allocated for the tree below each node.
SizeOf ==
  LET size[n \in DOMAIN children] ==
        8 + EntrySize(n) + 4
        + SizeOfMap([k \in DOMAIN children[n] |-> 8 + size[children[n][k]]])
  IN size[Root]

\* Write, called for the root.
Image ==
  LET write[n \in DOMAIN children] ==
        <<MemAddr(n.base), U32(EntrySize(n))>> \o Entry(n)
        \o WriteMap([k \in DOMAIN children[n] |-> write[children[n][k]]])
  IN write[Root]

\* Mutant: the map is taken to begin behind a fixed header.
MapIgnoringEntry(memory, node) == node + 12

\* StaticContainedRangeMap(base): where its entry and its map begin.
EntryPtr(memory, node) == node + 12
MapOf(memory, node) == node + 12 + Read(memory, node + 8, 4)

\* The entries a search for the address finds, outermost first, until it
\* leaves the block.
Path(memory, address) ==
  LET down[node \in Int] ==
        LET here == MapOf(memory, node)
            i == lower_bound(memory, here, address)
            child == GetValuePtr(memory, here, i)
        IN CASE i = num_nodes(memory, here) -> <<>>
             [] i # num_nodes(memory, here) /\ child \notin DOMAIN memory -> <<Garbage>>
             [] child \in DOMAIN memory /\ address < Read(memory, child, 8) -> <<>>
             [] OTHER -> <<Read(memory, EntryPtr(memory, child), Read(memory, child + 8, 4))>>
                         \o down[child]
  IN down[0]

\* RetrieveRange returns the innermost.
StaticRetrieveRange(memory, address) ==
  LET path == Path(memory, address)
  IN IF path = <<>> THEN {} ELSE {path[Len(path)]}

\* Every lookup in the block gives the entry the tree gives: every offset,
\* entry size and nested map was written where the reader looks for it.
StaticAnswersAlike == request = Idle =>
  LET memory == Block(Image)
  IN \A a \in Addr :
       StaticRetrieveRange(memory, a) = {Number(n) : n \in RetrieveRange(a)}

\* Serialize allocates SizeOf bytes before it knows what Write will write:
\* not one less, or Write would run past the block, and none to spare.
AllocatesWhatItWrites == request = Idle => SizeOf = Bytes(Image)
=============================================================================
