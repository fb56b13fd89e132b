---------------------------- MODULE MemoryObjects ----------------------------
(***************************************************************************)
(* What breakpad keeps in memory and reads through: linked and scoped      *)
(* pointers, the string dictionary, the page allocator and its vectors,    *)
(* the memory range, the reader of directories, the line reader and the    *)
(* fields of /proc/cpuinfo read through it.  They do not share state: a    *)
(* behaviour is one of a single part, which, and the other ones stay as    *)
(* they begin.                                                             *)
(***************************************************************************)
EXTENDS Integers, Sequences, TLC

CONSTANTS
  NoBlock,                                          \* a pointer to nothing
  Links, Objects,                                   \* LinkedPtr
  Scoped, Arrays, Malloced, Blocks,                 \* ScopedPtr
  KeyChars, MaxKey, key_size, value_size, num_entries,
  page_size, HeaderSize, Pages, MaxBytes, Wasteful, AutoWasteful,
  Word, Memory,                                     \* MemoryRange
  LineChars, FieldChars, LineLen, FieldLineLen, MaxFile,
  BufferBytes, MaxEntries                           \* DirectoryReader

VARIABLES
  which,
  mem,
  ptr, origin, raw, given,
  entries, stored, index, current, seen, stayed,
  headers, last_, current_page_, page_offset_, granted, refused, vectors, freeing,
  data_, length_, set, got,
  directory, read, held, eof, answer, name, failed, taken,
  file, offset, buf_, hit_eof_, call, len, popped,
  pop_count_, value_, value_len_, asked, fields

linked == <<mem>>
scoped == <<ptr, origin, raw, given>>
dictionary == <<entries, stored, index, current, seen, stayed>>
pages == <<headers, last_, current_page_, page_offset_, granted, refused, vectors, freeing>>
range == <<data_, length_, set, got>>
entriesOf == <<directory, read, held, eof, answer, name, failed, taken>>
lines == <<file, offset, buf_, hit_eof_, call, len, popped>>
own == <<pop_count_, value_, value_len_, asked, fields>>
vars == <<which, linked, scoped, dictionary, pages, range, entriesOf, lines, own>>

ScopedPointers == Scoped \cup Arrays \cup Malloced
ClassOf == [p \in Scoped |-> "delete"] @@ [p \in Arrays |-> "delete[]"]
             @@ [p \in Malloced |-> "free"]
Vectors == Wasteful \cup AutoWasteful
OnStack == [v \in Vectors |-> IF v \in AutoWasteful THEN 1 ELSE 0]

Linked == INSTANCE LinkedPtr WITH Ptrs <- Links, NULL <- NoBlock
ScopedPtrs == INSTANCE ScopedPtr WITH
  Ptrs <- ScopedPointers, NULL <- NoBlock
Dictionary == INSTANCE SimpleStringDictionary WITH Chars <- KeyChars
Allocator == INSTANCE PageAllocator
MemRange == INSTANCE MemoryRange
Directory == INSTANCE DirectoryReader
Lines == INSTANCE LineReader WITH Chars <- LineChars, kMaxLineLen <- LineLen
CpuInfo == INSTANCE ProcCpuInfoReader WITH Chars <- FieldChars, kMaxLineLen <- FieldLineLen

ASSUME MemoryObjectsAssumption ==
  /\ Linked!LinkedPtrAssumption /\ ScopedPtrs!ScopedPtrAssumption
  /\ Dictionary!DictionaryAssumption
  /\ Allocator!PageAllocatorAssumption /\ MemRange!MemoryRangeAssumption
  /\ Directory!DirectoryAssumption
  /\ Lines!LineReaderAssumption /\ CpuInfo!LineReaderAssumption

Init ==
  /\ which \in {"linked", "scoped", "dictionary", "pages", "range", "directory", "lines",
              "cpuinfo"}
  /\ Linked!Init /\ ScopedPtrs!Init /\ Dictionary!Init /\ Allocator!Init /\ MemRange!Init
  /\ which = "directory" \/ (directory = << >> /\ eof = FALSE)
  /\ Directory!Init
  /\ file \in CASE which = "lines" -> Lines!Files
                [] which = "cpuinfo" -> CpuInfo!Files
                [] OTHER -> {<< >>}
  /\ CpuInfo!FieldsInit

On(part, step, unchanged) == IF which = part THEN step ELSE unchanged

Next ==
  /\ On("linked", Linked!Next, UNCHANGED linked)
  /\ On("scoped", ScopedPtrs!Next, UNCHANGED scoped)
  /\ On("dictionary", Dictionary!Next, UNCHANGED dictionary)
  /\ On("pages", Allocator!Next, UNCHANGED pages)
  /\ On("range", MemRange!Next, UNCHANGED range)
  /\ On("directory", Directory!Next, UNCHANGED entriesOf)
  /\ CASE which = "lines" -> Lines!Next /\ UNCHANGED own
       [] which = "cpuinfo" -> CpuInfo!FieldsNext
       [] OTHER -> UNCHANGED <<lines, own>>
  /\ UNCHANGED which

\* A call of a reader goes on until it returns.
Fairness ==
  /\ WF_lines(which = "lines" /\ Lines!GetNextLine)
  /\ WF_<<lines, own>>(which = "cpuinfo" /\ CpuInfo!GetNextField)
Spec == Init /\ [][Next]_vars /\ Fairness
-----------------------------------------------------------------------------
\* linked_ptr: the pointers to one object are in one circle, and the object is
\* deleted with the last of them, once.  scoped_ptr: every block has one owner.
\* SimpleStringDictionary: no key is there twice, the index a client keeps
\* stays its key's, and an iteration misses no key that stays.
OwnersAndEntriesAreUnique ==
  /\ Linked!TypeOK /\ ScopedPtrs!TypeOK /\ Dictionary!TypeOK
  /\ which = "linked" => Linked!OneCircle /\ Linked!AliveWhileOwned
  /\ which = "scoped" => ScopedPtrs!OneOwner
  /\ which = "dictionary" =>
       Dictionary!KeyAppearsOnce /\ Dictionary!IndexStaysValid /\ Dictionary!IteratorMissesNone

\* PageAllocator: no byte has two owners, OwnsPointer knows the pages that are
\* mapped and no other, and the destructor gives all of them back.  MemoryRange:
\* no subrange leaves the range that was set, what an access gives is inside to
\* its last byte, and what is inside is given.
BytesHaveOneOwner ==
  /\ Allocator!TypeOK /\ MemRange!TypeOK
  /\ which = "pages" =>
       Allocator!BlocksAreApart /\ Allocator!OwnsWhatItMaps /\ Allocator!GivesAllBack
  /\ which = "range" =>
       MemRange!NeverLeavesTheRange /\ MemRange!AccessIsInside /\ MemRange!InsideIsGiven

\* DirectoryReader, LineReader and ProcCpuInfoReader, however read() cuts the
\* file up: entries, lines and fields come whole, in their order and none
\* twice; the end comes after all of them; a field stays as it was returned
\* until the next one is asked for.
AllIsReadInOrder ==
  /\ which = "directory" =>
       Directory!TypeOK /\ Directory!EntriesInOrder /\ Directory!EndMeansAll
  /\ which = "lines" => Lines!TypeOK /\ Lines!LinesInOrder /\ Lines!NoLineLost
  /\ which = "cpuinfo" => CpuInfo!FieldsTypeOK /\ CpuInfo!FieldIsKept /\ CpuInfo!FieldsInOrder

\* SimpleStringDictionary implements StringDictionary; no block of a scoped
\* pointer is given back by the wrong deallocator; and the elements of a
\* wasteful_vector move to a block that has room for them.
PromisesAreKept ==
  Dictionary!KeepsPromise /\ ScopedPtrs!GivenBackAsAllocated /\ Allocator!VectorsMoveToRoom

\* LineReader and ProcCpuInfoReader: every call returns, also at a line that
\* does not fit into the buffer.
CallsReturn ==
  /\ which = "lines" => Lines!CallReturns
  /\ which = "cpuinfo" => CpuInfo!FieldReturns
=============================================================================
