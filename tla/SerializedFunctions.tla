------------------------ MODULE SerializedFunctions ------------------------
(***************************************************************************)
(* simple_serializer-inl.h, RangeMapSerializer, static_range_map-inl.h and *)
(* fast_source_line_resolver_types.h: the functions of a module with their *)
(* lines and the source files, written into blocks of memory, and what a   *)
(* FastSourceLineResolver reads there.                                     *)
(*                                                                         *)
(* functions_ is the map of RangeMap; each entry stands for a Function,    *)
(* whose first address is one line of source and whose others are another. *)
(* Names are numbers.                                                      *)
(***************************************************************************)
EXTENDS RangeMap, StaticMap

\* What the symbol file says of the function it has named by entry.
NameLength(name) == 1 + name
Name(entry) == entry.high - entry.base
ParameterSize(entry) == entry.base

Line(base, size, id) == [address |-> base, size |-> size, source_file_id |-> id, line |-> base]

\* Function::lines of that function, and the files_ of the module.
lines(entry) ==
  LET first == Line(entry.base, 1, 0)
      rest == Line(entry.base + 1, entry.high - entry.base, 1)
  IN [h \in {entry.base, entry.high} |->
        IF h = entry.base THEN [base |-> h, entry |-> first]
        ELSE [base |-> entry.base + 1, entry |-> rest]]

files == [id \in {e.base % 2 : e \in {map[h].entry : h \in DOMAIN map}} |-> id]

\* SimpleSerializer<Line>, and the map of lines with it.
WriteLine(l) == <<MemAddr(l.address), MemAddr(l.size), U32(l.source_file_id), U32(l.line)>>
SizeOfLine(l) == 8 + 8 + 4 + 4

\* RangeMapSerializer: a range is its base and its entry; the delta is lost.
SizeOfRanges(size) == SizeOfMap([h \in DOMAIN size |-> 8 + 8 + size[h]])
WriteRanges(m, entry) == WriteMap([h \in DOMAIN m |-> <<MemAddr(m[h].base)>> \o entry[h]])

\* SimpleSerializer<Function>.
SizeOfFunction(entry) ==
  NameLength(Name(entry)) + 1 + 8 + 8 + 4
  + SizeOfRanges([h \in DOMAIN lines(entry) |-> SizeOfLine(lines(entry)[h].entry)])
WriteFunction(entry) ==
  <<String(Name(entry), NameLength(Name(entry))), MemAddr(entry.base),
    MemAddr(entry.high - entry.base + 1), U32(ParameterSize(entry))>>
  \o LET m == lines(entry) IN WriteRanges(m, [h \in DOMAIN m |-> WriteLine(m[h].entry)])

SizeOf == SizeOfRanges([h \in DOMAIN map |-> SizeOfFunction(map[h].entry)])
Image == WriteRanges(map, [h \in DOMAIN map |-> WriteFunction(map[h].entry)])
ImageOfFiles == WriteMap([id \in DOMAIN files |-> <<String(id, NameLength(id))>>])
-----------------------------------------------------------------------------
\* The range a StaticRangeMap has at an index: its entry is behind its base.
RangeAt(memory, ranges, index) ==
  LET range == GetValuePtr(memory, ranges, index)
  IN [base |-> Read(memory, range, 8), high |-> GetKeyAtIndex(memory, ranges, index),
      entryptr |-> range + 8]

\* StaticRangeMap::RetrieveRange, RetrieveNearestRange, RetrieveRangeAtIndex.
StaticRetrieveRange(memory, ranges, a) ==
  LET index == lower_bound(memory, ranges, a)
      range == RangeAt(memory, ranges, index)
  IN IF index = num_nodes(memory, ranges) \/ a < range.base THEN {} ELSE {range}

StaticRetrieveNearest(memory, ranges, a) ==
  LET index == upper_bound(memory, ranges, a)
  IN IF StaticRetrieveRange(memory, ranges, a) # {} THEN StaticRetrieveRange(memory, ranges, a)
     ELSE IF index = 0 THEN {} ELSE {RangeAt(memory, ranges, index - 1)}

StaticRetrieveAtIndex(memory, ranges, index) ==
  IF index >= num_nodes(memory, ranges) THEN {} ELSE {RangeAt(memory, ranges, index)}

\* RangeMap::RetrieveRangeAtIndex: the index-th key, or none.
RetrieveRangeAtIndex(index) ==
  IF index >= Len(Keys(map)) THEN {} ELSE {Keys(map)[index + 1]}

\* Line::CopyFrom and Function::CopyFrom.
CopyLine(memory, raw) ==
  [address |-> Read(memory, raw, 8), size |-> Read(memory, raw + 8, 8),
   source_file_id |-> Read(memory, raw + 16, 4), line |-> Read(memory, raw + 20, 4)]

\* Mutant: parameter_size is read one word too early.
CopyFunctionMisplaced(memory, raw) ==
  LET name_size == Field(memory, raw).size
  IN [name |-> Field(memory, raw).is,
      address |-> Read(memory, raw + name_size, 8),
      size |-> Read(memory, raw + name_size + 8, 8),
      parameter_size |-> Read(memory, raw + name_size + 12, 4),
      lines |-> raw + name_size + 20]

CopyFunction(memory, raw) ==
  LET name_size == Field(memory, raw).size
  IN [name |-> Field(memory, raw).is,
      address |-> Read(memory, raw + name_size, 8),
      size |-> Read(memory, raw + name_size + 8, 8),
      parameter_size |-> Read(memory, raw + name_size + 16, 4),
      lines |-> raw + name_size + 20]
-----------------------------------------------------------------------------
\* What a lookup answers: the function with the range it is found in, and the
\* line in which it has the address.
BasicAnswer(h, a) ==
  LET e == map[h].entry
  IN [base |-> map[h].base, high |-> h, name |-> Name(e), address |-> e.base,
      size |-> e.high - e.base + 1, parameter_size |-> ParameterSize(e),
      line |-> {lines(e)[g].entry : g \in {k \in DOMAIN lines(e) : Covers(lines(e), k, a)}}]

FastAnswer(memory, range, a) ==
  LET f == CopyFunction(memory, range.entryptr)
  IN [base |-> range.base, high |-> range.high, name |-> f.name, address |-> f.address,
      size |-> f.size, parameter_size |-> f.parameter_size,
      line |-> {CopyLine(memory, r.entryptr) : r \in StaticRetrieveRange(memory, f.lines, a)}]

\* static_range_map.h:34-35: the three lookups of a StaticRangeMap give what
\* those of the RangeMap give, for functions and for the lines in them.
FastAnswersAlike == ~calling =>
  LET memory == Block(Image)
      fast(ranges, a) == {FastAnswer(memory, r, a) : r \in ranges}
      basic(keys, a) == {BasicAnswer(h, a) : h \in keys}
  IN \A a \in Addr :
       /\ fast(StaticRetrieveRange(memory, 0, a), a) = basic(RetrieveRange(a), a)
       /\ fast(StaticRetrieveNearest(memory, 0, a), a) = basic(RetrieveNearestRange(a), a)
       /\ fast(StaticRetrieveAtIndex(memory, 0, a), a) = basic(RetrieveRangeAtIndex(a), a)

\* A file id is found in the block if and only if the module has the file.
FilesFound == ~calling =>
  LET memory == Block(ImageOfFiles)
  IN \A id \in Addr :
       IF id \in DOMAIN files
       THEN Field(memory, GetValuePtr(memory, 0, find(memory, 0, id))).is = files[id]
       ELSE find(memory, 0, id) = num_nodes(memory, 0)

\* The blocks written pass the check of static_map.h:117-120.
BlocksAreValid == ~calling =>
  /\ ValidateInMemoryStructure(Block(ImageOfFiles), 0)
  /\ LET memory == Block(Image)
     IN /\ ValidateInMemoryStructure(memory, 0)
        /\ \A i \in 0 .. num_nodes(memory, 0) - 1 :
             ValidateInMemoryStructure(memory,
               CopyFunction(memory, RangeAt(memory, 0, i).entryptr).lines)

\* Serialize allocates as many bytes as Write writes.
AllocatesWhatItWrites == ~calling => SizeOf = Bytes(Image)
=============================================================================
