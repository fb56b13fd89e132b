------------------------------- MODULE CpuSet -------------------------------
(***************************************************************************)
(* breakpad/include/client/linux/minidump_writer/cpu_set.h: the processors *)
(* the kernel lists in two files, as "0-3,5", and how many are in both.    *)
(*                                                                         *)
(* A file is a sequence of numbers, commas, dashes and spaces, the newline *)
(* at its end among these.  Numbers are far below UINTPTR_MAX, at which    *)
(* the loop over an item would not end.                                    *)
(***************************************************************************)
EXTENDS Integers, Sequences, SequencesExt, FiniteSetsExt

CONSTANTS
  kMaxCpus, kMaskWordBits,
  BufferSize,   \* characters ParseSysFile reads, 511 in the program
  Numbers,      \* below 100
  MaxFile       \* bound: tokens of a file

CpuSetAssumption ==
  /\ {kMaxCpus, kMaskWordBits} \subseteq Nat \ {0}
  /\ Numbers \subseteq 0 .. 99 /\ {BufferSize, MaxFile} \subseteq Nat

VARIABLES
  mask_,     \* of the CPUs that are present and of those that are possible
  meant,     \* history: the CPUs each file lists, as far as it was read and if
             \* that is well formed
  count      \* what GetCount has returned, and for which set; -1 when a set
             \* has changed since

vars == <<mask_, meant, count>>

Sets == {"present", "possible"}
kMaskWordCount == (kMaxCpus + kMaskWordBits - 1) \div kMaskWordBits
Words == 0 .. kMaskWordCount - 1
NoCount == [of |-> "present", cpus |-> -1]
Unparsed == [parsed |-> FALSE, known |-> FALSE, cpus |-> {}]

TypeOK ==
  /\ mask_ \in [Sets -> [Words -> SUBSET (0 .. kMaskWordBits - 1)]]
  /\ meant \in [Sets -> [parsed : BOOLEAN, known : BOOLEAN, cpus : SUBSET (0 .. 99)]]
  /\ count \in [of : Sets, cpus : -1 .. kMaxCpus]

Init ==
  /\ mask_ = [s \in Sets |-> [nn \in Words |-> {}]]
  /\ meant = [s \in Sets |-> Unparsed]
  /\ count = NoCount

Number(n) == [is |-> "number", n |-> n]
Comma == [is |-> "comma", n |-> 0]
Dash == [is |-> "dash", n |-> 0]
Space == [is |-> "space", n |-> 0]

\* Two numbers side by side would be one.
Files == {f \in UNION {[1 .. k -> {Number(n) : n \in Numbers} \cup {Comma, Dash, Space}] : k \in 0 .. MaxFile} :
            \A i \in 2 .. Len(f) : f[i].is # "number" \/ f[i - 1].is # "number"}

\* What read() puts into the buffer: the tokens it has room for, and the first
\* digit of a number that is cut.
Width(token) == IF token.is = "number" /\ token.n > 9 THEN 2 ELSE 1
Length(f) == FoldLeft(LAMBDA sum, token : sum + Width(token), 0, f)
Buffer(f) ==
  LET whole == Max({0} \cup {n \in 1 .. Len(f) : Length(SubSeq(f, 1, n)) <= BufferSize})
      cut == whole < Len(f) /\ Length(SubSeq(f, 1, whole)) < BufferSize
  IN SubSeq(f, 1, whole) \o (IF cut THEN <<Number(f[whole + 1].n \div 10)>> ELSE << >>)

\* The items between the commas, without the spaces around them.
Trimmed(s) ==
  LET inside == {j \in DOMAIN s : s[j] # Space}
  IN IF inside = {} THEN << >> ELSE SubSeq(s, Min(inside), Max(inside))

\* Mutant: an item with nothing in it is a number, 0.
ItemsEmptyToo(f) ==
  LET commas == {0, Len(f) + 1} \cup {i \in DOMAIN f : f[i] = Comma}
      next(i) == Min({j \in commas : j > i})
  IN {Trimmed(SubSeq(f, i + 1, next(i) - 1)) : i \in commas \ {Len(f) + 1}}

Items(f) ==
  LET commas == {0, Len(f) + 1} \cup {i \in DOMAIN f : f[i] = Comma}
      next(i) == Min({j \in commas : j > i})
  IN {Trimmed(SubSeq(f, i + 1, next(i) - 1)) : i \in commas \ {Len(f) + 1}} \ {<< >>}

\* my_read_decimal_ptr: 0 where there is no digit.
Decimal(s) == IF s # << >> /\ s[1].is = "number" THEN s[1].n ELSE 0
AfterDecimal(s) == IF s # << >> /\ s[1].is = "number" THEN Tail(s) ELSE s

\* Mutant: a range ends before its last number.
ItemRangeHalfOpen(item) ==
  LET next == AfterDecimal(item)
  IN Decimal(item) .. IF next # << >> /\ next[1] = Dash THEN Decimal(Tail(next)) - 1 ELSE Decimal(item)

\* From start to end; a single number is both.
ItemRange(item) ==
  LET next == AfterDecimal(item)
  IN Decimal(item) .. IF next # << >> /\ next[1] = Dash THEN Decimal(Tail(next)) ELSE Decimal(item)

\* SetBit of each index.
WithBits(mask, indices) ==
  [nn \in Words |-> mask[nn] \cup {i % kMaskWordBits :
                      i \in {j \in indices : j < kMaxCpus /\ j \div kMaskWordBits = nn}}]

\* The text cpu_set.h:62-69 expects, with spaces and empty items besides: a
\* dash is between two numbers, in their order, and two numbers that have no
\* comma between them have such a dash.
WellFormed(text) ==
  /\ \A i \in DOMAIN text : text[i] = Dash =>
       /\ 1 < i /\ i < Len(text)
       /\ text[i - 1].is = "number" /\ text[i + 1].is = "number"
       /\ text[i - 1].n <= text[i + 1].n
  /\ \A i, j \in DOMAIN text :
       /\ i < j /\ text[i].is = "number" /\ text[j].is = "number"
       /\ \A k \in DOMAIN text : i < k /\ k < j => text[k] # Comma
       => j = i + 2 /\ text[i + 1] = Dash

\* The processors it lists.
Listed(text) ==
  {c \in 0 .. 99 : \E i \in DOMAIN text :
     \/ text[i] = Number(c)
     \/ text[i] = Dash /\ text[i - 1].n <= c /\ c <= text[i + 1].n}

ParseSysFile(s, f) ==
  /\ ~meant[s].parsed
  /\ mask_' = [mask_ EXCEPT ![s] =
                 WithBits(@, UNION {ItemRange(item) : item \in Items(Buffer(f))})]
  /\ meant' = [meant EXCEPT ![s] =
                 IF WellFormed(Buffer(f))
                 THEN [parsed |-> TRUE, known |-> TRUE, cpus |-> Listed(Buffer(f))]
                 ELSE [parsed |-> TRUE, known |-> FALSE, cpus |-> {}]]
  /\ count' = NoCount

\* sys_read has failed: the set stays empty.
ParseFails(s) ==
  /\ ~meant[s].parsed
  /\ meant' = [meant EXCEPT ![s] = [parsed |-> TRUE, known |-> TRUE, cpus |-> {}]]
  /\ count' = NoCount
  /\ UNCHANGED mask_

\* The history takes the intersection of what the files list.
IntersectWith(s, other) ==
  /\ \A t \in Sets : meant[t].parsed
  /\ mask_' = [mask_ EXCEPT ![s] = [nn \in Words |-> @[nn] \cap mask_[other][nn]]]
  /\ meant' = [meant EXCEPT ![s] = [parsed |-> TRUE,
                                      known |-> meant[s].known /\ meant[other].known,
                                      cpus |-> meant[s].cpus \cap meant[other].cpus]]
  /\ count' = NoCount

\* __builtin_popcount of every word.
GetCount(s) ==
  LET result[nn \in 0 .. kMaskWordCount] ==
        IF nn = 0 THEN 0 ELSE result[nn - 1] + Cardinality(mask_[s][nn - 1])
  IN /\ count' = [of |-> s, cpus |-> result[kMaskWordCount]]
     /\ UNCHANGED <<mask_, meant>>

Next == \E s \in Sets :
  \/ \E f \in Files : ParseSysFile(s, f)
  \/ ParseFails(s) \/ GetCount(s)
  \/ \E other \in Sets : IntersectWith(s, other)

Spec == Init /\ [][Next]_vars
-----------------------------------------------------------------------------
\* The count is that of the processors both files list, or the one file where
\* there was no intersection, up to kMaxCpus: each counted once, whatever the
\* order, the spaces and the empty items.  Of a file that does not fit into the
\* buffer it is what the text up to there lists: a number cut in two is the one
\* its first digits are.  A text whose last range has no end, or one cut to less
\* than its begin, lists nothing that could be compared.
CountsWhatTheFilesList ==
  count.cpus # -1 /\ meant[count.of].known =>
    count.cpus = Cardinality({c \in meant[count.of].cpus : c < kMaxCpus})
=============================================================================
