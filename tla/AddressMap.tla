----------------------------- MODULE AddressMap -----------------------------
(***************************************************************************)
(* breakpad/include/processor/address_map-inl.h: the PUBLIC symbols of a   *)
(* module by their addresses; and the block AddressMapSerializer writes    *)
(* them into for a StaticAddressMap.                                       *)
(***************************************************************************)
EXTENDS StaticMap

CONSTANTS
  Space,      \* number of addresses
  MaxStores   \* bound: calls of Store between two Clears

SizesAreNat == Space \in Nat \ {0} /\ MaxStores \in Nat

Addr == 0 .. Space - 1

\* A PublicSymbol; its name is a number, and the length of that name too.
Symbols == [name : 0 .. 1, address : Addr, parameter_size : 0 .. 1]

VARIABLES
  map,      \* map_
  result,   \* what the last Store returned
  asked     \* history: the symbols Store was called with since the last Clear

vars == <<map, result, asked>>

TypeOK ==
  /\ DOMAIN map \subseteq Addr
  /\ \A a \in DOMAIN map : map[a] \in Symbols /\ map[a].address = a
  /\ result \in BOOLEAN
  /\ asked \in Seq(Symbols)

Init == map = EmptyMap /\ result = FALSE /\ asked = <<>>

\* Mutant: the symbol that comes later stays.
StoreReplacing(symbol) ==
  /\ Len(asked) < MaxStores
  /\ result' = (symbol.address \notin DOMAIN map)
  /\ map' = WithNew(Without(map, {symbol.address}), symbol.address, symbol)
  /\ asked' = Append(asked, symbol)

Store(symbol) ==
  /\ Len(asked) < MaxStores
  /\ result' = (symbol.address \notin DOMAIN map)
  /\ map' = WithNew(map, symbol.address, symbol)
  /\ asked' = Append(asked, symbol)

Clear == map' = EmptyMap /\ asked' = <<>> /\ UNCHANGED result

Next == (\E symbol \in Symbols : Store(symbol)) \/ Clear

Spec == Init /\ [][Next]_vars

\* Retrieve(address): the symbol it finds, or none.
Retrieve(address) == {map[k] : k \in Before(map, LeastAbove(map, address))}
-----------------------------------------------------------------------------
NameLength(name) == 1 + name

\* SizeOf and Write of SimpleSerializer<PublicSymbol>.
SizeOfPublicSymbol(s) == NameLength(s.name) + 1 + 8 + 4
WritePublicSymbol(s) ==
  <<String(s.name, NameLength(s.name)), MemAddr(s.address), U32(s.parameter_size)>>

\* PublicSymbol::CopyFrom.
CopyPublicSymbol(memory, raw) ==
  LET name_size == Field(memory, raw).size
  IN [name |-> Field(memory, raw).is,
      address |-> Read(memory, raw + name_size, 8),
      parameter_size |-> Read(memory, raw + name_size + 8, 4)]

SizeOf == SizeOfMap([k \in DOMAIN map |-> 8 + SizeOfPublicSymbol(map[k])])
Image == WriteMap([k \in DOMAIN map |-> WritePublicSymbol(map[k])])

\* Retrieve of a StaticAddressMap.
StaticRetrieve(memory, address) ==
  LET index == upper_bound(memory, 0, address)
  IN IF index = 0 THEN {}
     ELSE {CopyPublicSymbol(memory, GetValuePtr(memory, 0, index - 1))}
-----------------------------------------------------------------------------
\* address_map.h:53-62: what Retrieve finds is, of all the symbols Store was
\* asked to store at the highest address not above, the one that came first.
FindsFirstOfNearest ==
  \A a \in Addr :
    LET below == {i \in DOMAIN asked : asked[i].address <= a}
        nearest == {i \in below : \A j \in below : asked[j].address <= asked[i].address}
    IN Retrieve(a) = {asked[i] : i \in {j \in nearest : \A k \in nearest : j <= k}}

\* static_address_map.h:32-36: the block gives the same symbol for every
\* address.
StaticRetrievesAlike ==
  LET memory == Block(Image) IN \A a \in Addr : StaticRetrieve(memory, a) = Retrieve(a)

\* The iterators of the block go through all keys upwards and arrive at end,
\* and back through all keys to begin; neither goes on from there.
IteratesOverAll ==
  LET memory == Block(Image)
      n == EndOf(memory, 0)
      up[i \in 0 .. n + 1] ==
        IF i = 0 THEN BeginOf(memory, 0) ELSE Increment(memory, 0, up[i - 1])
      down[i \in 0 .. n + 1] == IF i = 0 THEN n ELSE Decrement(memory, 0, down[i - 1])
  IN /\ [i \in 1 .. n |-> GetKey(memory, 0, up[i - 1])] = Keys(map)
     /\ \A i \in 0 .. n : down[i] = up[n - i]
     /\ n > 0 => up[n - 1] = LastOf(memory, 0)
     /\ up[n + 1] = n /\ down[n + 1] = BeginOf(memory, 0)

\* Serialize allocates as many bytes as Write writes.
AllocatesWhatItWrites == SizeOf = Bytes(Image)
=============================================================================
