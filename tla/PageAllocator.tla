---------------------------- MODULE PageAllocator ----------------------------
(***************************************************************************)
(* breakpad/include/common/memory_allocator.h: the allocator of a process  *)
(* that has crashed, which takes pages from the kernel and gives them back *)
(* all at once, and the vectors that live in it, of which an               *)
(* auto_wasteful_vector begins on the stack.                               *)
(*                                                                         *)
(* An address is page * page_size + offset; the kernel chooses which of    *)
(* the pages that are not mapped it maps.                                  *)
(***************************************************************************)
EXTENDS Integers, FiniteSets

CONSTANTS
  page_size, HeaderSize,
  Pages,      \* bound: the pages there are are 1 .. Pages
  MaxBytes,   \* bound: what is asked for at once
  Vectors,
  OnStack     \* N of an auto_wasteful_vector, 0 for a wasteful_vector

PageAllocatorAssumption ==
  /\ {HeaderSize, MaxBytes, Pages} \subseteq Nat \ {0}
  /\ page_size \in Nat /\ HeaderSize < page_size
  /\ OnStack \in [Vectors -> Nat]

NULL == 0
Stack == -1      \* the address of a vector's stackdata_
Addresses == 0 .. (Pages + 1) * page_size - 1
Bytes(at, n) == at .. at + n - 1

VARIABLES
  headers,   \* the PageHeaders in mapped memory: address -> [next, num_pages]
  last_, current_page_, page_offset_,
  granted,   \* history: what Alloc has returned, [at, bytes]
  refused,   \* history: mmap has failed
  vectors,   \* [data, capacity], capacity 0 before the first allocation
  freeing    \* cur in FreeAll, or Live

allocator == <<headers, last_, current_page_, page_offset_>>
vars == <<allocator, granted, refused, vectors, freeing>>

Live == -1

\* The pages from a header on.
PagesOf(a) == (a \div page_size) .. (a \div page_size) + headers[a].num_pages - 1
Mapped == UNION {PagesOf(a) : a \in DOMAIN headers}

TypeOK ==
  /\ DOMAIN headers \subseteq Addresses
  /\ \A a \in DOMAIN headers :
       /\ headers[a].next \in Addresses
       /\ PagesOf(a) # {} /\ PagesOf(a) \subseteq 1 .. Pages
  /\ {last_, current_page_} \subseteq Addresses
  /\ page_offset_ \in 0 .. page_size - 1
  /\ granted \subseteq [at : Addresses, bytes : 1 .. MaxBytes]
  /\ refused \in BOOLEAN
  /\ vectors \in [Vectors -> [data : Addresses \cup {Stack}, capacity : 0 .. MaxBytes]]
  /\ freeing \in Addresses \cup {Live}

Init ==
  /\ headers = [a \in {} |-> NULL]
  /\ last_ = NULL /\ current_page_ = NULL /\ page_offset_ = 0
  /\ granted = {} /\ refused = FALSE
  /\ vectors = [v \in Vectors |-> [data |-> NULL, capacity |-> 0]]
  /\ freeing = Live
-----------------------------------------------------------------------------
\* The rest of the current page; it is given up when nothing is left of it.
FromCurrentPage(bytes, ret) ==
  /\ ret = current_page_ + page_offset_
  /\ LET offset == page_offset_ + bytes
     IN /\ page_offset_' = offset % page_size
        /\ current_page_' = IF offset = page_size THEN NULL ELSE current_page_
  /\ granted' = granted \cup {[at |-> ret, bytes |-> bytes]}
  /\ UNCHANGED <<headers, last_, refused>>

PagesFor(bytes) == (bytes + HeaderSize + page_size - 1) \div page_size

\* Mutant: the page before is the next one of the new pages.
LinkToCurrent == current_page_
Link == last_

\* GetNPages, and what is left of the last of the new pages becomes current.
FromNewPages(bytes, ret) ==
  LET pages == PagesFor(bytes)
      left == page_size * pages - (bytes + HeaderSize)
      offset == (page_size - left) % page_size
  IN \/ \E first \in 1 .. Pages - pages + 1 :
          LET at == first * page_size
          IN /\ \A p \in first .. first + pages - 1 : p \notin Mapped
             /\ headers' = [a \in DOMAIN headers \cup {at} |->
                  IF a = at THEN [next |-> Link, num_pages |-> pages] ELSE headers[a]]
             /\ last_' = at
             /\ page_offset_' = offset
             /\ current_page_' = IF offset # 0 THEN at + page_size * (pages - 1) ELSE NULL
             /\ ret = at + HeaderSize
             /\ granted' = granted \cup {[at |-> ret, bytes |-> bytes]}
             /\ UNCHANGED refused
     \/ /\ ret = NULL /\ refused' = TRUE
        /\ UNCHANGED <<allocator, granted>>

\* Mutant: the current page is taken if it has any byte left.
FitsAnyhow(bytes) == current_page_ # NULL

Fits(bytes) == current_page_ # NULL /\ page_size - page_offset_ >= bytes

Alloc(bytes, ret) ==
  IF bytes = 0 THEN ret = NULL /\ UNCHANGED <<allocator, granted, refused>>
  ELSE IF Fits(bytes) THEN FromCurrentPage(bytes, ret) ELSE FromNewPages(bytes, ret)

\* A caller of the allocator itself.
CallAlloc(bytes) ==
  /\ freeing = Live
  /\ \E ret \in Addresses : Alloc(bytes, ret)
  /\ UNCHANGED <<vectors, freeing>>

\* Mutant: one element too many is let onto the stack.
allocateOneMore(v, n, ret) ==
  IF n <= OnStack[v] + 1 THEN ret = Stack /\ UNCHANGED <<allocator, granted, refused>>
  ELSE Alloc(n, ret)

\* PageStdAllocator::allocate, for elements of one byte.
allocate(v, n, ret) ==
  IF n <= OnStack[v] THEN ret = Stack /\ UNCHANGED <<allocator, granted, refused>>
  ELSE Alloc(n, ret)

\* The constructors, which reserve N elements or size_hint.
Construct(v, size_hint) ==
  /\ freeing = Live /\ vectors[v].capacity = 0
  /\ LET n == IF OnStack[v] > 0 THEN OnStack[v] ELSE size_hint
     IN /\ n > 0
        /\ \E ret \in Addresses \cup {Stack} :
             /\ allocate(v, n, ret)
             /\ vectors' = [vectors EXCEPT ![v] = [data |-> ret, capacity |-> n]]
  /\ UNCHANGED freeing

\* std::vector: a full vector moves to a larger block; deallocate does nothing.
Grow(v, n) ==
  /\ freeing = Live
  /\ 0 < vectors[v].capacity /\ vectors[v].capacity < n
  /\ \E ret \in Addresses \cup {Stack} :
       /\ allocate(v, n, ret)
       /\ vectors' = [vectors EXCEPT ![v] = [data |-> ret, capacity |-> n]]
  /\ UNCHANGED freeing

\* FreeAll, from the destructor.
Destroy ==
  /\ freeing = Live
  /\ freeing' = last_
  /\ UNCHANGED <<allocator, granted, refused, vectors>>

\* Mutant: next is read when the pages are gone, and is what comes to lie there.
UnmapFirst ==
  /\ freeing \in DOMAIN headers
  /\ headers' = [a \in DOMAIN headers \ {freeing} |-> headers[a]]
  /\ freeing' \in {NULL, headers[freeing].next}
  /\ UNCHANGED <<last_, current_page_, page_offset_, granted, refused, vectors>>

\* munmap of a set of pages, whose next has been read before.
Unmap ==
  /\ freeing \in DOMAIN headers
  /\ freeing' = headers[freeing].next
  /\ headers' = [a \in DOMAIN headers \ {freeing} |-> headers[a]]
  /\ UNCHANGED <<last_, current_page_, page_offset_, granted, refused, vectors>>

Next ==
  \/ \E n \in 0 .. MaxBytes : CallAlloc(n)
  \/ \E v \in Vectors, n \in 1 .. MaxBytes : Construct(v, n) \/ Grow(v, n)
  \/ Destroy \/ Unmap

Spec == Init /\ [][Next]_vars
-----------------------------------------------------------------------------
\* OwnsPointer(p): p lies in the pages of a header that is found from last_.
OwnsPointer(p) ==
  LET found[n \in Nat] == IF n = 0 THEN {last_} \cap DOMAIN headers
                          ELSE found[n - 1] \cup ({headers[a].next : a \in found[n - 1]} \cap DOMAIN headers)
  IN \E a \in found[Pages] : p \div page_size \in PagesOf(a)

\* No byte is given to two callers, or is part of a header, or is on a page
\* that is not mapped: however requests that fit into the current page and
\* requests that do not follow each other.
BlocksAreApart == freeing = Live =>
  \A b \in granted :
    /\ \A c \in granted : b # c => Bytes(b.at, b.bytes) \cap Bytes(c.at, c.bytes) = {}
    /\ \A a \in DOMAIN headers : Bytes(b.at, b.bytes) \cap Bytes(a, HeaderSize) = {}
    /\ \A p \in Bytes(b.at, b.bytes) : p \div page_size \in Mapped

\* The allocator owns what is on its pages, a block once granted included,
\* and nothing else.
OwnsWhatItMaps == freeing = Live =>
  \A p \in Addresses : OwnsPointer(p) <=> p \div page_size \in Mapped

\* A vector that is constructed or grows gets a block nobody has had before,
\* or its own stackdata_ if that has room and it is not there already, so that
\* its elements never move onto themselves; only where mmap has failed it
\* gets none, and is not told.
VectorsMoveToRoom ==
  [][\A v \in Vectors : vectors'[v] # vectors[v] =>
       LET new == vectors'[v] IN
         \/ new.data = Stack /\ new.capacity <= OnStack[v] /\ vectors[v].data # Stack
         \/ [at |-> new.data, bytes |-> new.capacity] \in granted' \ granted
         \/ new.data = NULL /\ refused']_vars

\* The destructor gives back every page: the chain of headers leads from
\* last_ to all of them, and to none that is unmapped already.
GivesAllBack ==
  /\ freeing = NULL => Mapped = {}
  /\ freeing \notin {NULL, Live} => freeing \in DOMAIN headers
=============================================================================
