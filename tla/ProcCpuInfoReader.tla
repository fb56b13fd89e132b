------------------------- MODULE ProcCpuInfoReader -------------------------
(***************************************************************************)
(* breakpad/include/client/linux/minidump_writer/proc_cpuinfo_reader.h:    *)
(* the fields of /proc/cpuinfo, one for each line that has a colon with a  *)
(* name before it.  Name and value stay in the buffer of the LineReader,   *)
(* which loses the line only when the next field is asked for.             *)
(***************************************************************************)
EXTENDS LineReader

VARIABLES
  pop_count_,   \* -1 or the length of the line still to pop
  value_,       \* where the value is in the buffer
  value_len_,
  asked,        \* GetNextField: "no", "running", "field" or "false"
  fields        \* history: the fields that were returned

own == <<pop_count_, value_, value_len_>>
cpuinfo == <<vars, own, asked, fields>>

FieldsTypeOK ==
  /\ TypeOK
  /\ pop_count_ \in -1 .. kMaxLineLen
  /\ value_ \in 0 .. kMaxLineLen /\ value_len_ \in 0 .. kMaxLineLen
  /\ asked \in {"no", "running", "field", "false"}
  /\ fields \in Seq([name : Seq(Chars), value : Seq(Chars)])

FieldsInit ==
  /\ Init
  /\ pop_count_ = -1 /\ value_ = 0 /\ value_len_ = 0
  /\ asked = "no" /\ fields = << >>

\* Of a string without a NUL: the place of its first colon, its beginning
\* without the spaces at the end, its end without the spaces in front.
Colons(line) == {i \in DOMAIN line : line[i] = ":"}
NonSpaces(line) == {i \in DOMAIN line : line[i] # "space"}
Name(line) ==
  LET before == SubSeq(line, 1, Min(Colons(line)) - 1)
  IN SubSeq(before, 1, Max(NonSpaces(before) \cup {0}))

\* Mutant: the value begins right behind the colon, spaces and all.
ValueBehindColon(line) == Min(Colons(line)) + 1

ValueAt(line) == Min({i \in NonSpaces(line) : i > Min(Colons(line))} \cup {Len(line) + 1})

Nameless(line) == Colons(line) # {} => Name(line) = << >>

Ask ==
  /\ asked # "running"
  /\ asked' = "running"
  /\ UNCHANGED <<vars, own, fields>>

\* The head of the loop: the line before is popped, and the next one asked for.
NextLine ==
  /\ asked = "running" /\ call = "none" /\ call' = "running"
  /\ IF pop_count_ >= 0
     THEN PopLine(pop_count_)
     ELSE UNCHANGED <<file, reader, popped>>
  /\ pop_count_' = -1
  /\ UNCHANGED <<value_, value_len_, asked, fields>>

\* Mutant: a line that is passed over is not popped.
SkipUnpopped ==
  /\ asked = "running" /\ call = "line"
  /\ Nameless(SubSeq(buf_, 1, len))
  /\ call' = "none"
  /\ UNCHANGED <<file, reader, popped, own, asked, fields>>

\* No colon, or no name before it.
Skip ==
  /\ asked = "running" /\ call = "line"
  /\ LET line == SubSeq(buf_, 1, len) IN
       /\ Nameless(line)
       /\ IF Colons(line) = {} THEN UNCHANGED <<value_, value_len_>>
          ELSE value_' = ValueAt(line) /\ value_len_' = len + 1 - ValueAt(line)
  /\ call' = "none"
  /\ pop_count_' = len
  /\ UNCHANGED <<file, reader, popped, asked, fields>>

\* Mutant: the name is ended at the colon, spaces and all.
FieldUntrimmed ==
  /\ asked = "running" /\ call = "line"
  /\ LET line == SubSeq(buf_, 1, len) IN
       /\ ~Nameless(line)
       /\ value_' = ValueAt(line)
       /\ value_len_' = len + 1 - ValueAt(line)
       /\ buf_' = [buf_ EXCEPT ![Min(Colons(line))] = "NUL"]
       /\ fields' = Append(fields, [name |-> Name(line),
                                    value |-> SubSeq(line, ValueAt(line), len)])
  /\ call' = "none"
  /\ pop_count_' = len
  /\ asked' = "field"
  /\ UNCHANGED <<file, offset, hit_eof_, len, popped>>

\* The name is ended where the spaces before the colon begin.
Field ==
  /\ asked = "running" /\ call = "line"
  /\ LET line == SubSeq(buf_, 1, len) IN
       /\ ~Nameless(line)
       /\ value_' = ValueAt(line)
       /\ value_len_' = len + 1 - ValueAt(line)
       /\ buf_' = [buf_ EXCEPT ![Len(Name(line)) + 1] = "NUL"]
       /\ fields' = Append(fields, [name |-> Name(line),
                                    value |-> SubSeq(line, ValueAt(line), len)])
  /\ call' = "none"
  /\ pop_count_' = len
  /\ asked' = "field"
  /\ UNCHANGED <<file, offset, hit_eof_, len, popped>>

NoField ==
  /\ asked = "running" /\ call = "false"
  /\ call' = "none"
  /\ asked' = "false"
  /\ UNCHANGED <<file, reader, popped, own, fields>>

GetNextField ==
  \/ NextLine
  \/ GetNextLine /\ UNCHANGED <<own, asked, fields>>
  \/ Skip \/ Field \/ NoField

FieldsNext == Ask \/ GetNextField
FieldsSpec == FieldsInit /\ [][FieldsNext]_cpuinfo /\ WF_cpuinfo(GetNextField)
-----------------------------------------------------------------------------
\* Up to the next NUL, as a C string.
StringAt(at) == SubSeq(buf_, at, Min({i \in DOMAIN buf_ : i >= at /\ buf_[i] = "NUL"}) - 1)

\* What was returned last is in the buffer until the next field is asked for:
\* name and value are strings of their own, and neither runs into the other.
FieldIsKept == asked = "field" =>
  /\ StringAt(1) = Last(fields).name
  /\ StringAt(value_) = Last(fields).value
  /\ value_len_ = Len(Last(fields).value)

\* The fields are those of the lines, in their order, as far as lines have
\* been taken: the first colon of a line separates, the spaces around it
\* belong to nobody, and a line without a name is no field.
HasField(line) == \E i \in Colons(line) : \E j \in NonSpaces(line) : j < Min(Colons(line))
FieldOf(line) ==
  LET colon == Min(Colons(line))
      name(n) == n < colon /\ \A i \in n + 1 .. colon - 1 : line[i] = "space"
      value(v) == v > colon /\ \A i \in colon + 1 .. v - 1 : line[i] = "space"
  IN [name |-> SubSeq(line, 1, Min({n \in DOMAIN line : name(n)})),
      value |-> SubSeq(line, Max({v \in 1 .. Len(line) + 1 : value(v)}), Len(line))]
FieldsUpTo[p \in 0 .. Len(file) + 1] ==
  IF p = 0 THEN << >>
  ELSE IF p \in LineEnds /\ HasField(LineAt(p)) THEN Append(FieldsUpTo[p - 1], FieldOf(LineAt(p)))
  ELSE FieldsUpTo[p - 1]

FieldsInOrder ==
  LET taken == popped + (IF pop_count_ >= 0 THEN 1 ELSE 0)
  IN \E p \in 0 .. Len(file) + 1 : LinesUpTo[p] = taken /\ fields = FieldsUpTo[p]

\* GetNextField returns, however many lines it passes over.
FieldReturns == asked = "running" ~> asked # "running"
=============================================================================
